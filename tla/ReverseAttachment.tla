-------------------------- MODULE ReverseAttachment --------------------------
(***************************************************************************)
(* How a Worker that dials in becomes the link of its Instance.  Every     *)
(* dial is a connection with a generation and a credential.  Four parts of *)
(* the code keep a view of it, and the model is their composition:         *)
(*   the credentials (control/.../reverse/credential/Store.ts), which run  *)
(*   one activation at a time and commit a replaced token afterwards;      *)
(*   Connections (core/.../transport/reverse/Connections.ts): candidate    *)
(*   and active connection, and what Ingress tells the Worker;             *)
(*   Endpoint (shared/src/transport/endpoint/Endpoint.ts): the gateway,    *)
(*   and the cutover from a predecessor to a verified candidate;           *)
(*   supervision (core/.../runtime/supervision/Connection.ts): who owns    *)
(*   the state of the Instance across the awaits, the update of an old     *)
(*   Worker and its timer, refreshes, and the loss of the link.            *)
(* A step is what runs between two awaits.  Events are not modelled, only  *)
(* the awaits their appending costs.                                       *)
(***************************************************************************)
EXTENDS Integers, Sequences

CONSTANTS
    MaxConn,        (* bound: connections; a connection is its generation   *)
    MaxToken,       (* bound: credentials issued                            *)
    MaxWaiting      (* bound: connections that wait for their activation    *)

ASSUME ReverseAssumption ==
    MaxConn \in Nat /\ MaxToken \in Nat \ {0} /\ MaxWaiting \in Nat

Conn == 1..MaxConn
None == 0
Token == 1..MaxToken

(* Who last took the operation owner: a connection, or one of these. *)
Loss == -1
Expiry == -2
Refresh == -3

VARIABLES
    cred,       (* the stored credential and the one it replaces            *)
    withdrawn,  (* a credential is withdrawn, its connections still open    *)
    token,      (* the credential of each connection                        *)
    queue,      (* connections that wait for their activation               *)
    act,        (* the activation under way                                 *)
    net,        (* channels, routes and owners                              *)
    gen,        (* the generation the Instance has admitted                 *)
    update,     (* the staged update: on which connection, timed out?       *)
    expiring,   (* the owner an expiry is still working for                 *)
    state,      (* the connection state of the Instance                     *)
    told        (* history: connections that were sent Ready                *)

vars == <<cred, withdrawn, token, queue, act, net, gen, update,
          expiring, state, told>>
credentials == <<cred, withdrawn>>
dial == <<token, queue>>

Stage ==
    {"idle", "linking", "verifying", "promoting", "connecting", "announcing",
     "updating", "staged", "catalog", "connected", "failing", "commit"}

(* prev is the gateway the candidate would replace; adm the credential     *)
(* record at admission; old: what its handshake said of the Worker;        *)
(* completing: an update was staged when it was negotiated.                *)
Idle ==
    [conn |-> None, stage |-> "idle", prev |-> None, adm |-> <<None, None>>,
     old |-> FALSE, completing |-> FALSE, ready |-> FALSE]
NoUpdate == [conn |-> None, expired |-> FALSE]

TypeOK ==
    /\ cred \in (Token \cup {None}) \X (Token \cup {None})
    /\ cred[2] # None => cred[1] \notin {None, cred[2]}
    /\ withdrawn \in BOOLEAN
    /\ token \in [Conn -> Token \cup {None}]
    /\ queue \in Seq(Conn)
    /\ act \in [conn : Conn \cup {None}, stage : Stage,
                prev : Conn \cup {None},
                adm : (Token \cup {None}) \X (Token \cup {None}),
                old : BOOLEAN, completing : BOOLEAN, ready : BOOLEAN]
    /\ net \in [open : SUBSET Conn, gateway : Conn \cup {None},
                active : Conn \cup {None}, ready : Conn \cup {None},
                owner : Conn \cup {None, Loss, Expiry, Refresh},
                refresh : Conn \cup {None}, losing : BOOLEAN]
    /\ {net.gateway, net.active} \ {None} \subseteq net.open
    /\ net.ready \in {None, net.gateway, act.prev}
    /\ gen \in Conn \cup {None}
    /\ update \in [conn : Conn \cup {None}, expired : BOOLEAN]
    /\ expiring \in Conn \cup {None, Loss, Expiry, Refresh}
    /\ state \in {"disconnected", "connecting", "reconnecting", "connected",
                  "failed"}
    /\ told \subseteq Conn

Init ==
    /\ cred = <<1, None>> /\ withdrawn = FALSE
    /\ token = [c \in Conn |-> None]
    /\ queue = <<>> /\ act = Idle
    /\ net = [open |-> {}, gateway |-> None, active |-> None, ready |-> None,
              owner |-> None, refresh |-> None, losing |-> FALSE]
    /\ gen = None /\ update = NoUpdate /\ expiring = None
    /\ state = "disconnected" /\ told = {}

-----------------------------------------------------------------------------
(* Channels.  A standby is the predecessor of a candidate that is being    *)
(* verified: meanwhile nobody is told that the gateway is gone.            *)

Standby ==
    act.prev # None /\ act.stage \in {"linking", "verifying", "promoting"}

(* Mutation: the owner keeps the readiness of the link it took over. *)
OwnedStillReady(n, who) == [n EXCEPT !.owner = who, !.refresh = None]

Owned(n, who) ==
    [n EXCEPT !.owner = who, !.refresh = None, !.ready = None]

(* Mutation: the route of a closed channel stays. *)
GoneStillRouted(n, c) ==
    [n EXCEPT !.open = @ \ {c}, !.gateway = IF @ = c THEN None ELSE @]

Gone(n, c) ==
    [n EXCEPT !.open = @ \ {c}, !.gateway = IF @ = c THEN None ELSE @,
              !.active = IF @ = c THEN None ELSE @]

Lost(n) == [Owned(n, Loss) EXCEPT !.losing = TRUE]

(* The channel of c closes, not by the hand of Endpoint. *)
Dropped(n, c) ==
    IF c # None /\ n.gateway = c /\ ~Standby THEN Lost(Gone(n, c))
    ELSE Gone(n, c)

Matches(record, t) == t # None /\ t \in {record[1], record[2]}

(* The token that is to replace the one in use. *)
Replaces(record, t) == record[2] # None /\ t = record[1]

IsCurrent(c) == net.owner = c /\ net.gateway = c

-----------------------------------------------------------------------------
(* The Worker dials in and hangs up; credentials are issued and withdrawn. *)

Dial(c) ==
    /\ token[c] = None /\ Len(queue) < MaxWaiting
    /\ \E t \in Token : Matches(cred, t) /\ token' = [token EXCEPT ![c] = t]
    /\ queue' = Append(queue, c)
    /\ net' = [net EXCEPT !.open = @ \cup {c}]
    /\ UNCHANGED <<credentials, act, gen, update, expiring, state, told>>

HangUp(c) ==
    /\ c \in net.open
    /\ net' = Dropped(net, c)
    /\ UNCHANGED <<credentials, dial, act, gen, update, expiring, state, told>>

Issuable ==
    Token \ {t \in Token : Matches(cred, t) \/ Matches(act.adm, t)
                             \/ \E c \in Conn : token[c] = t}
NewToken == CHOOSE t \in Issuable : TRUE

(* The token in use stays valid until its replacement was activated. *)
Enroll ==
    /\ Issuable # {}
    /\ cred' = <<NewToken, IF cred[2] # None THEN cred[2] ELSE cred[1]>>
    /\ UNCHANGED <<withdrawn, dial, act, net, gen, update, expiring, state,
                   told>>

(* Rotate, or revoke; then the connections are cut. *)
Withdraw ==
    /\ cred[1] # None /\ ~withdrawn
    /\ \/ Issuable # {} /\ cred' = <<NewToken, None>>
       \/ cred' = <<None, None>>
    /\ withdrawn' = TRUE
    /\ UNCHANGED <<dial, act, net, gen, update, expiring, state, told>>

Candidate == IF act.stage \in {"idle", "commit"} THEN None ELSE act.conn

Disconnect ==
    /\ withdrawn /\ withdrawn' = FALSE
    /\ net' = Dropped(Dropped(net, Candidate), net.active)
    /\ UNCHANGED <<cred, dial, act, gen, update, expiring, state, told>>

-----------------------------------------------------------------------------
(* An activation, up to the cutover. *)

Refuse(c) ==
    /\ net' = Dropped(net, c)
    /\ act' = Idle

(* Mutation: a link that has gone leaves no generation behind. *)
NewerThanActive(c) == c > net.active

(* Connections compares with its active connection, supervision with the   *)
(* last it has admitted.                                                   *)
Newer(c) == c > net.active /\ c > gen

(* Admission, then both generation checks and the start of the handshake. *)
Admit ==
    LET c == Head(queue)
    IN  /\ queue # <<>> /\ act = Idle
        /\ queue' = Tail(queue)
        /\ IF /\ Matches(cred, token[c]) /\ c \in net.open
              /\ Replaces(cred, token[c]) \/ Newer(c)
           THEN /\ act' = [Idle EXCEPT !.conn = c, !.stage = "linking",
                                       !.prev = net.gateway, !.adm = cred]
                /\ UNCHANGED net
           ELSE Refuse(c)
        /\ UNCHANGED <<credentials, token, gen, update, expiring,
                       state, told>>

(* Mutation: the candidate takes the gateway as soon as it is open. *)
OpenedAtOnce(c) == [net EXCEPT !.gateway = c]

Opened(c) == IF act.prev = None THEN [net EXCEPT !.gateway = c] ELSE net

LinkOpened(c) ==
    /\ act.conn = c /\ act.stage = "linking" /\ c \in net.open
    /\ net' = Opened(c)
    /\ act' = [act EXCEPT !.stage = "verifying"]
    /\ UNCHANGED <<credentials, dial, gen, update, expiring, state, told>>

(* What a Worker must be while an update is staged. *)
Acceptable(c, old) ==
    update = NoUpdate \/ (c > update.conn /\ (~old \/ update.expired))

(* The candidate is the link: it takes the state over.  The generation of  *)
(* its predecessor is closed first.                                        *)
TakeOver(n, c, old) ==
    /\ net' = Owned(IF act.prev = None THEN n ELSE Gone(n, act.prev), c)
    /\ act' = [act EXCEPT !.stage = "connecting", !.prev = None, !.old = old]
    /\ state' = "connecting"

Verified(c) ==
    /\ act.conn = c /\ act.stage = "verifying"
    /\ c \in net.open
    /\ \E old \in BOOLEAN :
        /\ Acceptable(c, old)
        /\ IF act.prev = None THEN TakeOver(net, c, old)
           ELSE /\ net' = [net EXCEPT !.gateway = c]
                /\ act' = [act EXCEPT !.stage = "promoting", !.old = old]
                /\ UNCHANGED state
    /\ UNCHANGED <<credentials, dial, gen, update, expiring, told>>

Promoted(c) ==
    /\ act.conn = c /\ act.stage = "promoting" /\ c \in net.open
    /\ TakeOver(net, c, act.old)
    /\ UNCHANGED <<credentials, dial, gen, update, expiring, told>>

(* Mutation: a candidate that fails leaves the gateway to the next one. *)
RestoredNot(n, p) == n

(* Mutation: the loss of the gateway is announced although it is back. *)
RestoredAndLost(n, p) ==
    IF p \in n.open THEN [Lost(n) EXCEPT !.gateway = p] ELSE Lost(n)

Restored(n, p) ==
    IF p \in n.open THEN [n EXCEPT !.gateway = p] ELSE Lost(n)

(* The handshake fails, is aborted after 20 seconds or by a close.  The    *)
(* predecessor gets its route back.  Without one, Endpoint closes the link *)
(* and nobody is told.                                                     *)
HandshakeFails(c) ==
    /\ act.conn = c /\ act.stage \in {"linking", "verifying", "promoting"}
    /\ net' = IF act.prev = None THEN Gone(net, c)
              ELSE Restored(Gone(net, c), act.prev)
    /\ act' = Idle
    /\ UNCHANGED <<credentials, dial, gen, update, expiring, state, told>>

-----------------------------------------------------------------------------
(* After the cutover.  Every step first asks whether c still owns the      *)
(* Instance; if not, the activation returns "not ready".                   *)

(* Back in Connections: the candidate becomes the active connection. *)
Return(n, c, ready) ==
    IF c \in n.open
    THEN /\ net' = [Gone(n, n.active) EXCEPT !.active = c]
         /\ act' = [act EXCEPT !.stage = "commit", !.ready = ready]
    ELSE /\ net' = n
         /\ act' = Idle

Proceed(stage) ==
    /\ act' = [act EXCEPT !.stage = stage]
    /\ UNCHANGED net

Announce(c) ==
    /\ act.conn = c /\ act.stage = "connecting"
    /\ IF IsCurrent(c) THEN Proceed("announcing") /\ gen' = c
       ELSE Return(net, c, FALSE) /\ UNCHANGED gen
    /\ UNCHANGED <<credentials, dial, update, expiring, state, told>>

Negotiate(c) ==
    /\ act.conn = c /\ act.stage = "announcing"
    /\ IF ~IsCurrent(c) THEN Return(net, c, FALSE)
       ELSE /\ act' = [act EXCEPT
                        !.completing = update # NoUpdate,
                        !.stage = IF update = NoUpdate /\ act.old
                                  THEN "updating" ELSE "catalog"]
            /\ UNCHANGED net
    /\ UNCHANGED <<credentials, dial, gen, update, expiring, state, told>>

(* An error the activation ends with. *)
Fails(c) ==
    IF IsCurrent(c) THEN Proceed("failing") /\ state' = "failed"
    ELSE Return(net, c, FALSE) /\ UNCHANGED state

(* The new binary is sent, and staged before the Worker may act on it.  An *)
(* update that is not possible or fails is no error if the Worker can work *)
(* as it is.                                                               *)
Updating(c) ==
    /\ act.conn = c /\ act.stage = "updating"
    /\ \/ /\ IsCurrent(c) /\ Proceed("staged")
          /\ update' = [conn |-> c, expired |-> FALSE]
          /\ UNCHANGED state
       \/ IsCurrent(c) /\ Proceed("catalog") /\ UNCHANGED <<update, state>>
       \/ Fails(c) /\ UNCHANGED update
    /\ UNCHANGED <<credentials, dial, gen, expiring, told>>

StagedReply(c) ==
    /\ act.conn = c /\ act.stage = "staged"
    /\ \/ Return(net, c, FALSE) /\ UNCHANGED state
       \/ Fails(c)
    /\ UNCHANGED <<credentials, dial, gen, update, expiring, told>>

Failing(c) ==
    /\ act.conn = c /\ act.stage = "failing"
    /\ Refuse(c)
    /\ UNCHANGED <<credentials, dial, gen, update, expiring, state, told>>

(* The tools of the Worker are read before the Instance is ready. *)
CatalogRead(c) ==
    /\ act.conn = c /\ act.stage = "catalog"
    /\ \/ Fails(c)
       \/ /\ IsCurrent(c)
          /\ Proceed("connected") /\ state' = "connected"
    /\ UNCHANGED <<credentials, dial, gen, update, expiring, told>>

(* Mutation: an update is completed without an end to it. *)
CompletedStaged(c) == update

Completed(c) == IF act.completing THEN NoUpdate ELSE update

Connected(c) ==
    /\ act.conn = c /\ act.stage = "connected"
    /\ IF IsCurrent(c) /\ state = "connected"
       THEN /\ Return([net EXCEPT !.ready = c], c, TRUE)
            /\ update' = Completed(c)
       ELSE Return(net, c, FALSE) /\ UNCHANGED update
    /\ UNCHANGED <<credentials, dial, gen, expiring, state, told>>

(* Mutation: the credential is not looked at again. *)
StillValidAlways(c) == TRUE

StillValid(c) == Matches(cred, token[c])

(* The credential is read again, the one it replaces is dropped, and the   *)
(* Worker is told.  The store may fail.                                    *)
Commit(c) ==
    /\ act.conn = c /\ act.stage = "commit"
    /\ \/ /\ StillValid(c)
          /\ cred' = IF act.adm = cred /\ Replaces(cred, token[c])
                     THEN <<cred[1], None>> ELSE cred
          /\ told' = IF act.ready /\ net.active = c THEN told \cup {c}
                     ELSE told
          /\ act' = Idle /\ UNCHANGED net
       \/ Refuse(c) /\ UNCHANGED <<cred, told>>
    /\ UNCHANGED <<withdrawn, dial, gen, update, expiring, state>>

-----------------------------------------------------------------------------
(* What else moves the state of the Instance. *)

(* The second half of the loss of the link: its events are appended. *)
LossNoticed ==
    /\ net.losing
    /\ net' = [net EXCEPT !.losing = FALSE]
    /\ state' = IF net.owner = Loss /\ net.gateway = None
                THEN "disconnected" ELSE state
    /\ UNCHANGED <<credentials, dial, act, gen, update, expiring, told>>

Expire ==
    LET owner == IF net.gateway = update.conn THEN Expiry ELSE net.owner
    IN  /\ update # NoUpdate /\ ~update.expired
        /\ update' = [update EXCEPT !.expired = TRUE]
        /\ net' = Owned(net, owner)
        /\ expiring' = owner
        /\ state' = "failed"
        /\ UNCHANGED <<credentials, dial, act, gen, told>>

ExpiryEnds ==
    /\ update # NoUpdate /\ update.expired /\ expiring # None
    /\ expiring' = None
    /\ net' = IF net.owner = expiring /\ net.gateway = update.conn
              THEN Gone(net, update.conn) ELSE net
    /\ UNCHANGED <<credentials, dial, act, gen, update, state, told>>

(* A refresh asks the link that was admitted, and no other. *)
RefreshStatus ==
    /\ \/ /\ net.gateway = None
          /\ state' = "disconnected" /\ UNCHANGED net
       \/ /\ net.gateway # None /\ net.ready = net.gateway
          /\ net' = [net EXCEPT !.refresh = net.gateway]
          /\ state' \in {state, "reconnecting"}
    /\ UNCHANGED <<credentials, dial, act, gen, update, expiring, told>>

(* Mutation: an answer is taken for one of whichever link there is now. *)
AnyLinkAsked == TRUE

LinkAsked == net.gateway = net.refresh

RefreshAnswered ==
    /\ net.refresh # None
    /\ IF ~LinkAsked
       THEN net' = [net EXCEPT !.refresh = None] /\ UNCHANGED state
       ELSE \/ /\ net' = [net EXCEPT !.refresh = None]
               /\ state' = "connected"
            \/ /\ net' = Gone(Owned(net, Refresh), net.gateway)
               /\ state' = "failed"
    /\ UNCHANGED <<credentials, dial, act, gen, update, expiring, told>>

-----------------------------------------------------------------------------
Handshake(c) ==
    LinkOpened(c) \/ Verified(c) \/ Promoted(c) \/ HandshakeFails(c)
Negotiation(c) ==
    \/ Announce(c) \/ Negotiate(c) \/ Updating(c) \/ StagedReply(c)
    \/ Failing(c) \/ CatalogRead(c) \/ Connected(c) \/ Commit(c)

Next ==
    \/ \E c \in Conn : Dial(c) \/ HangUp(c) \/ Handshake(c) \/ Negotiation(c)
    \/ Admit \/ Enroll \/ Withdraw \/ Disconnect
    \/ LossNoticed \/ Expire \/ ExpiryEnds \/ RefreshStatus \/ RefreshAnswered

Spec == Init /\ [][Next]_vars

-----------------------------------------------------------------------------
(* Connections and Endpoint agree.  Each keeps a route of its own to the   *)
(* Worker, Connections for the upstream batches and Endpoint for the       *)
(* calls.  Whatever candidates fail, links break and timers fire, they     *)
(* name the same connection when nothing is negotiated, and while a        *)
(* candidate is only being verified both keep its predecessor.             *)
RoutesAgree ==
    \/ act.stage \in {"idle", "commit"}
    \/ act.stage \in {"linking", "verifying"} /\ act.prev # None
    => net.active = net.gateway

(* A Worker that was told it is Ready is Ready.  As long as its connection *)
(* is the gateway, refreshes of the status are admitted on it: no failed   *)
(* candidate and no timer of an update takes that from it.                 *)
ServingIsReady == \A c \in told : net.gateway = c => net.ready = c

(* While an update is staged nothing serves: neither the old Worker, which *)
(* is about to be replaced, nor a refresh, may bring the Instance up.      *)
NothingServesDuringUpdate ==
    update # NoUpdate => net.ready = None /\ net.refresh = None

(* Ready is only ever said to the connection the Instance then uses: it is *)
(* the route of both tables, its generation is the one that was admitted,  *)
(* its credential is the stored one and no update is staged.               *)
ToldServing ==
    \A c \in told' \ told :
        /\ {net.gateway, net.active, net.ready, gen} = {c}
        /\ Matches(cred', token[c])
        /\ update = NoUpdate

(* And the admitted generation only goes forward, unless a connection      *)
(* brings the credential that is to replace the one in use: several awaits *)
(* after it was compared, a generation is still newer than the last.       *)
GenerationAdvances ==
    gen' # gen => gen' > gen \/ Replaces(act.adm, token[gen'])

ReadyToldToServing == [][ToldServing /\ GenerationAdvances]_vars

(* "Expiry must cancel only the source negotiation, not strand that        *)
(* candidate" (Connection.ts:413): a replacement that was verified and has *)
(* negotiated is not left on the gateway with the update still staged.     *)
ReplacementNotStranded ==
    ~(/\ act = Idle /\ queue = <<>>
      /\ update # NoUpdate /\ net.gateway \notin {None, update.conn})
=============================================================================
