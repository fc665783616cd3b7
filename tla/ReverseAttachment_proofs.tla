----------------------- MODULE ReverseAttachment_proofs -----------------------
(***************************************************************************)
(* The views of a reverse connection agree, for any number of connections  *)
(* and credentials.  The invariant says, for every stage of the activation *)
(* under way, where the two routes lead (RoutesFit), who is ready and what *)
(* a staged update forbids (ReadyFits), that whoever was told to be ready  *)
(* still is as long as it has, or will get back, the gateway (ToldFits),   *)
(* and that a connection which waits for its activation is new to all of   *)
(* them (QueueFits); how the generations grow along the way is GenFits.    *)
(* The parts are predicates on records, so that what a channel that closes *)
(* does to each is shown once (CutsKeep).                                  *)
(***************************************************************************)
EXTENDS ReverseAttachment, TLAPS

(* The candidate before it has taken over, and after. *)
Probing == {"linking", "verifying", "promoting"}
Negotiating ==
    {"connecting", "announcing", "updating", "staged", "catalog", "connected",
     "failing"}
Resting == {"idle", "commit"}

Record == (Token \cup {None}) \X (Token \cup {None})
Activation ==
    [conn : Conn \cup {None}, stage : Stage, prev : Conn \cup {None},
     adm : Record, old : BOOLEAN, completing : BOOLEAN, ready : BOOLEAN]
Owner == Conn \cup {None, Loss, Expiry, Refresh}
Net ==
    [open : SUBSET Conn, gateway : Conn \cup {None}, active : Conn \cup {None},
     ready : Conn \cup {None}, owner : Owner,
     refresh : Conn \cup {None}, losing : BOOLEAN]

Typed ==
    /\ cred \in Record /\ (cred[2] # None => cred[1] \notin {None, cred[2]})
    /\ withdrawn \in BOOLEAN
    /\ token \in [Conn -> Token \cup {None}]
    /\ queue \in Seq(Conn)
    /\ act \in Activation /\ net \in Net
    /\ gen \in Conn \cup {None}
    /\ update \in [conn : Conn \cup {None}, expired : BOOLEAN]
    /\ expiring \in Owner
    /\ state \in {"disconnected", "connecting", "reconnecting", "connected",
                  "failed"}
    /\ told \subseteq Conn

(* Where the two routes lead at each stage of the activation a. *)
RoutesFit(a, n) ==
    /\ {n.gateway, n.active} \subseteq n.open \cup {None}
    /\ a.stage = "idle" \/ (a.conn # None /\ a.conn # a.prev)
    /\ a.prev # None => a.stage \in Probing
    /\ a.stage \in Resting \/ (a.stage \in {"linking", "verifying"} /\ a.prev # None)
         => n.active = n.gateway
    /\ a.stage = "commit" => n.gateway \in {a.conn, None}
    /\ a.stage \in {"linking", "verifying"} /\ a.prev # None =>
         /\ n.gateway \in {a.prev, None}
         /\ a.prev \in n.open => n.gateway = a.prev
    /\ a.stage = "linking" /\ a.prev = None => n.active = None /\ n.gateway = None
    /\ a.stage = "promoting" =>
         /\ a.prev # None /\ n.active \in {a.prev, None}
         /\ a.prev \in n.open => n.active = a.prev
    /\ a.stage \in Negotiating \/ (a.stage = "verifying" /\ a.prev = None)
         => n.active = None
    /\ a.stage \in Negotiating \cup {"promoting"}
            \/ (a.stage = "verifying" /\ a.prev = None) =>
         /\ n.gateway \in {a.conn, None}
         /\ a.conn \in n.open => n.gateway = a.conn

(* Who is ready, and what may be asked of it. *)
ReadyFits(a, n, u) ==
    /\ n.ready \in {None, n.gateway, a.prev}
    /\ a.stage \in Probing => n.ready \in {None, a.prev} /\ n.refresh # a.conn
    /\ a.stage \in Negotiating => n.ready = None /\ n.refresh = None
    /\ u # NoUpdate => n.ready = None /\ n.refresh = None
    /\ a.stage \in {"updating", "catalog", "connected"} /\ ~a.completing
         => u = NoUpdate
    /\ a.stage = "updating" => ~a.completing
    /\ a.ready =>
         /\ a.stage = "commit"
         /\ n.active = a.conn => n.ready = a.conn /\ u = NoUpdate

(* Who was told so. *)
ToldFits(a, n, t) ==
    /\ \A c \in t : n.gateway = c \/ (a.prev = c /\ c \in n.open) => n.ready = c
    /\ a.stage \notin Resting => a.conn \notin t

Used(a, n, t) ==
    (t \cup {a.conn, a.prev, n.refresh, n.gateway, n.active}) \ {None}

(* A connection that waits for its activation is new to all the others. *)
QueueFits(a, n, t, q, d) ==
    /\ \A c \in Used(a, n, t) \cup n.open : d[c] # None
    /\ \A i \in 1..Len(q) : d[q[i]] # None /\ q[i] \notin Used(a, n, t)
    /\ \A i, j \in 1..Len(q) : i # j => q[i] # q[j]

Fits(a, n, u, t) == RoutesFit(a, n) /\ ReadyFits(a, n, u) /\ ToldFits(a, n, t)

IInv ==
    /\ Typed
    /\ Fits(act, net, update, told)
    /\ QueueFits(act, net, told, queue, token)
-----------------------------------------------------------------------------
(* The table of channels and routes. *)

LEMMA NoneIsNoConn == None \notin Conn /\ None \notin Token
BY DEF None, Conn, Token

LEMMA GoneNet ==
    ASSUME NEW n \in Net, NEW x
    PROVE  /\ Gone(n, x) \in Net /\ Gone(n, x).open = n.open \ {x}
           /\ Gone(n, x).gateway = IF n.gateway = x THEN None ELSE n.gateway
           /\ Gone(n, x).active = IF n.active = x THEN None ELSE n.active
           /\ Gone(n, x).ready = n.ready /\ Gone(n, x).refresh = n.refresh
           /\ Gone(n, x).owner = n.owner /\ Gone(n, x).losing = n.losing
<1> DEFINE gw == IF n.gateway = x THEN None ELSE n.gateway
           ac == IF n.active = x THEN None ELSE n.active
           m == [n EXCEPT !.open = n.open \ {x}, !.gateway = gw, !.active = ac]
<1>1. n.open \ {x} \in SUBSET Conn /\ gw \in Conn \cup {None} /\ ac \in Conn \cup {None}
  BY DEF Net
<1>2. Gone(n, x) = m
  BY DEF Gone, Net
<1> HIDE DEF gw, ac
<1>3. /\ m \in Net /\ m.open = n.open \ {x} /\ m.gateway = gw /\ m.active = ac
      /\ m.ready = n.ready /\ m.refresh = n.refresh /\ m.owner = n.owner
      /\ m.losing = n.losing
  BY <1>1 DEF Net
<1> HIDE DEF m
<1> QED
  BY <1>2, <1>3 DEF gw, ac

LEMMA OwnedNet ==
    ASSUME NEW n \in Net, NEW who \in Owner
    PROVE  /\ Owned(n, who) \in Net
           /\ Owned(n, who).open = n.open /\ Owned(n, who).gateway = n.gateway
           /\ Owned(n, who).active = n.active /\ Owned(n, who).owner = who
           /\ Owned(n, who).ready = None /\ Owned(n, who).refresh = None
           /\ Owned(n, who).losing = n.losing
<1> DEFINE m == [n EXCEPT !.owner = who, !.refresh = None, !.ready = None]
<1>1. /\ m \in Net /\ m.open = n.open /\ m.gateway = n.gateway
      /\ m.active = n.active /\ m.owner = who /\ m.ready = None
      /\ m.refresh = None /\ m.losing = n.losing
  BY DEF Net
<1>2. Owned(n, who) = m
  BY DEF Owned
<1> HIDE DEF m
<1> QED
  BY <1>1, <1>2

LEMMA LostNet ==
    ASSUME NEW n \in Net
    PROVE  /\ Lost(n) \in Net
           /\ Lost(n).open = n.open /\ Lost(n).gateway = n.gateway
           /\ Lost(n).active = n.active
           /\ Lost(n).ready = None /\ Lost(n).refresh = None
<1> DEFINE m == Owned(n, Loss)
<1>1. Loss \in Owner
  BY DEF Owner
<1>2. /\ m \in Net /\ m.open = n.open /\ m.gateway = n.gateway
      /\ m.active = n.active /\ m.ready = None /\ m.refresh = None
  BY <1>1, OwnedNet
<1>3. Lost(n) = [m EXCEPT !.losing = TRUE]
  BY DEF Lost
<1> HIDE DEF m
<1> QED
  BY <1>2, <1>3 DEF Net

(* The channel x closes, and its loss is announced or not. *)
Cuts(n, m, x, lost) ==
    /\ m \in Net /\ m.open = n.open \ {x}
    /\ m.gateway = IF n.gateway = x THEN None ELSE n.gateway
    /\ m.active = IF n.active = x THEN None ELSE n.active
    /\ IF lost THEN m.ready = None /\ m.refresh = None
               ELSE m.ready = n.ready /\ m.refresh = n.refresh

MayCut(a, n, x, lost) ==
    /\ n.gateway = x /\ ~lost => n.ready \in {None, a.prev}
    /\ lost => n.gateway = x /\ a.prev \in {None, x}

LEMMA CutsKeep ==
    ASSUME NEW a \in Activation, NEW n \in Net, NEW m, NEW x, NEW lost \in BOOLEAN,
           NEW u, NEW t \in SUBSET Conn,
           Cuts(n, m, x, lost), MayCut(a, n, x, lost),
           RoutesFit(a, n), ReadyFits(a, n, u), ToldFits(a, n, t)
    PROVE  /\ RoutesFit(a, m) /\ ReadyFits(a, m, u) /\ ToldFits(a, m, t)
           /\ Used(a, m, t) \subseteq Used(a, n, t) /\ m.open \subseteq n.open
<1>1. m.open = n.open \ {x} /\ m.open \subseteq n.open
  BY DEF Cuts
<1>2. /\ m.gateway = (IF n.gateway = x THEN None ELSE n.gateway)
      /\ m.active = (IF n.active = x THEN None ELSE n.active)
  BY DEF Cuts
<1>3. (m.ready = n.ready \/ m.ready = None) /\ (m.refresh = n.refresh \/ m.refresh = None)
  BY DEF Cuts
<1>4. n.ready \in Conn \cup {None} /\ a.conn \in Conn \cup {None} /\ None \notin Conn
  BY NoneIsNoConn DEF Net, Activation
<1>5. RoutesFit(a, m)
  BY <1>1, <1>2 DEF RoutesFit
<1>6. ReadyFits(a, m, u)
  <2>1. m.ready \in {None, m.gateway, a.prev}
    BY <1>2 DEF ReadyFits, Cuts, MayCut
  <2>2. a.stage \in Probing => m.ready \in {None, a.prev} /\ m.refresh # a.conn
    BY <1>3 DEF ReadyFits, RoutesFit, Probing
  <2>3. a.stage \in Negotiating => m.ready = None /\ m.refresh = None
    BY <1>3 DEF ReadyFits
  <2>4. u # NoUpdate => m.ready = None /\ m.refresh = None
    BY <1>3 DEF ReadyFits
  <2>5. ASSUME a.ready, m.active = a.conn PROVE m.ready = a.conn /\ u = NoUpdate
    <3>1. a.stage = "commit" /\ a.conn # None /\ n.active = n.gateway
      BY <2>5 DEF ReadyFits, RoutesFit, Resting
    <3>2. n.active = a.conn /\ n.active # x
      BY <1>2, <2>5, <3>1
    <3>3. ~lost
      BY <3>1, <3>2 DEF MayCut
    <3> QED
      BY <2>5, <3>2, <3>3 DEF ReadyFits, Cuts
  <2> QED
    BY <2>1, <2>2, <2>3, <2>4, <2>5 DEF ReadyFits
<1>7. ToldFits(a, m, t)
  <2>1. ASSUME NEW c \in t, m.gateway = c \/ (a.prev = c /\ c \in m.open)
        PROVE  m.ready = c
    <3>1. c \in Conn /\ c # None
      BY NoneIsNoConn
    <3>2. n.gateway = c \/ (a.prev = c /\ c \in n.open)
      BY <1>1, <1>2, <2>1, <3>1
    <3>3. c # x
      BY <1>1, <1>2, <2>1, <3>1
    <3>4. ~lost
      BY <2>1, <3>1, <3>2, <3>3 DEF MayCut
    <3> QED
      BY <3>2, <3>4 DEF ToldFits, Cuts
  <2> QED
    BY <2>1 DEF ToldFits
<1>8. Used(a, m, t) \subseteq Used(a, n, t)
  BY <1>2, <1>3 DEF Used
<1> QED
  BY <1>1, <1>5, <1>6, <1>7, <1>8

(* What Connections closes: a loss is announced unless a candidate stands  *)
(* by (Endpoint, the close handler of a generation).                       *)
LEMMA DroppedNet ==
    ASSUME NEW n \in Net, NEW x
    PROVE  Cuts(n, Dropped(n, x), x, x # None /\ n.gateway = x /\ ~Standby)
<1>1. /\ Gone(n, x) \in Net /\ Gone(n, x).open = n.open \ {x}
      /\ Gone(n, x).gateway = IF n.gateway = x THEN None ELSE n.gateway
      /\ Gone(n, x).active = IF n.active = x THEN None ELSE n.active
      /\ Gone(n, x).ready = n.ready /\ Gone(n, x).refresh = n.refresh
  BY GoneNet
<1>2. PICK g \in Net : g = Gone(n, x)
  BY <1>1
<1>3. CASE x # None /\ n.gateway = x /\ ~Standby
  <2>1. Dropped(n, x) = Lost(g)
    BY <1>2, <1>3 DEF Dropped
  <2>2. /\ Lost(g) \in Net /\ Lost(g).open = g.open /\ Lost(g).gateway = g.gateway
        /\ Lost(g).active = g.active /\ Lost(g).ready = None /\ Lost(g).refresh = None
    BY LostNet
  <2> QED
    BY <1>1, <1>2, <1>3, <2>1, <2>2 DEF Cuts
<1>4. CASE ~(x # None /\ n.gateway = x /\ ~Standby)
  <2>1. Dropped(n, x) = g
    BY <1>2, <1>4 DEF Dropped
  <2> QED
    BY <1>1, <1>2, <1>4, <2>1 DEF Cuts
<1> QED
  BY <1>3, <1>4

LEMMA DroppedFits ==
    ASSUME act \in Activation, NEW n \in Net, NEW x, NEW u, NEW t \in SUBSET Conn,
           Fits(act, n, u, t)
    PROVE  /\ Dropped(n, x) \in Net /\ Fits(act, Dropped(n, x), u, t)
           /\ Used(act, Dropped(n, x), t) \subseteq Used(act, n, t)
           /\ Dropped(n, x).open \subseteq n.open
<1>1. PICK lost \in BOOLEAN : lost <=> (x # None /\ n.gateway = x /\ ~Standby)
  OBVIOUS
<1>2. PICK m \in Net : m = Dropped(n, x) /\ Cuts(n, m, x, lost)
  BY <1>1, DroppedNet DEF Cuts
<1>3. PICK a \in Activation : a = act
  OBVIOUS
<1>4. MayCut(a, n, x, lost)
  <2>1. RoutesFit(a, n) /\ ReadyFits(a, n, u)
    BY <1>3 DEF Fits
  <2> QED
    BY <1>1, <1>3, <2>1 DEF MayCut, Standby, RoutesFit, ReadyFits, Probing
<1>5. /\ RoutesFit(a, m) /\ ReadyFits(a, m, u) /\ ToldFits(a, m, t)
      /\ Used(a, m, t) \subseteq Used(a, n, t) /\ m.open \subseteq n.open
  BY <1>2, <1>3, <1>4, CutsKeep DEF Fits
<1> QED
  BY <1>2, <1>3, <1>5 DEF Fits

LEMMA QueueStays ==
    ASSUME NEW a, NEW n, NEW t, NEW b, NEW m, NEW s, NEW q, NEW d,
           QueueFits(a, n, t, q, d),
           Used(b, m, s) \subseteq Used(a, n, t), m.open \subseteq n.open
    PROVE  QueueFits(b, m, s, q, d)
BY DEF QueueFits

-----------------------------------------------------------------------------
(* The Worker and the credentials. *)

LEMMA Initially == Init => IInv
<1> SUFFICES ASSUME Init PROVE IInv
  OBVIOUS
<1>1. 1 \in Token /\ None \notin Token
  BY NoneIsNoConn, ReverseAssumption DEF Token
<1>2. Typed
  <2>1. cred \in Record /\ (cred[2] # None => cred[1] \notin {None, cred[2]})
    BY <1>1 DEF Init, Record
  <2>2. act \in Activation
    BY DEF Init, Idle, Activation, Stage, Record
  <2>3. net \in Net
    BY DEF Init, Net, Owner
  <2>4. update \in [conn : Conn \cup {None}, expired : BOOLEAN]
    BY DEF Init, NoUpdate
  <2>5. queue \in Seq(Conn) /\ told \subseteq Conn /\ token \in [Conn -> Token \cup {None}]
    BY DEF Init
  <2> QED
    BY <2>1, <2>2, <2>3, <2>4, <2>5 DEF Typed, Init, Owner
<1>3. Fits(act, net, update, told)
  BY DEF Init, Idle, Fits, RoutesFit, ReadyFits, ToldFits, Probing, Negotiating, Resting
<1>4. QueueFits(act, net, told, queue, token)
  <2>1. Used(act, net, told) = {} /\ net.open = {} /\ Len(queue) = 0
    BY DEF Init, Idle, Used
  <2> QED
    BY <2>1 DEF QueueFits
<1> QED
  BY <1>2, <1>3, <1>4 DEF IInv

LEMMA DialStep ==
    ASSUME IInv, NEW c \in Conn, Dial(c)
    PROVE  IInv'
<1>1. /\ token[c] = None /\ queue' = Append(queue, c)
      /\ net' = [net EXCEPT !.open = @ \cup {c}]
      /\ UNCHANGED <<cred, withdrawn, act, gen, update, expiring, state, told>>
  BY DEF Dial, credentials
<1>2. PICK k \in Token : token' = [token EXCEPT ![c] = k]
  BY DEF Dial
<1>3. /\ token \in [Conn -> Token \cup {None}] /\ queue \in Seq(Conn) /\ net \in Net
      /\ act \in Activation /\ told \subseteq Conn
  BY DEF IInv, Typed
<1>4. /\ net' \in Net /\ net'.open = net.open \cup {c} /\ net'.gateway = net.gateway
      /\ net'.active = net.active /\ net'.ready = net.ready /\ net'.refresh = net.refresh
  BY <1>1, <1>3 DEF Net
<1>5. /\ token' \in [Conn -> Token \cup {None}] /\ token'[c] # None
      /\ \A b \in Conn \ {c} : token'[b] = token[b]
  BY <1>2, <1>3, NoneIsNoConn
<1>6. c \notin Used(act, net, told) /\ c # None
  BY <1>1, NoneIsNoConn DEF IInv, QueueFits
<1>7. queue' \in Seq(Conn) /\ Len(queue') = Len(queue) + 1 /\ Len(queue) \in Nat
  BY <1>1, <1>3
<1>8. \A i \in 1..Len(queue') : (i \in 1..Len(queue) /\ queue'[i] = queue[i])
                                \/ (i = Len(queue) + 1 /\ queue'[i] = c)
  BY <1>1, <1>3, <1>7
<1>9. Typed'
  BY <1>1, <1>4, <1>5, <1>7 DEF IInv, Typed
<1>10. Fits(act, net', update, told)
  <2>1. c # act.prev /\ c # act.conn
    BY <1>6 DEF Used
  <2>2. RoutesFit(act, net')
    BY <1>4, <2>1 DEF IInv, Fits, RoutesFit
  <2>3. ReadyFits(act, net', update)
    BY <1>4 DEF IInv, Fits, ReadyFits
  <2>4. ToldFits(act, net', told)
    BY <1>4, <2>1 DEF IInv, Fits, ToldFits
  <2> QED
    BY <2>2, <2>3, <2>4 DEF Fits
<1>11. QueueFits(act, net', told, queue', token')
  <2>1. Used(act, net', told) = Used(act, net, told)
    BY <1>4 DEF Used
  <2>2. \A i \in 1..Len(queue) : queue[i] \in Conn /\ token[queue[i]] # None /\ queue[i] # c
    BY <1>1, <1>3 DEF IInv, QueueFits
  <2>3. ASSUME NEW b \in Used(act, net, told) \cup net'.open PROVE token'[b] # None
    <3>1. b = c \/ token[b] # None
      BY <1>4 DEF IInv, QueueFits
    <3>2. b \in Conn
      BY <1>3, <1>4 DEF Used, Net, Activation
    <3> QED
      BY <1>5, <3>1, <3>2
  <2>4. ASSUME NEW i \in 1..Len(queue')
        PROVE  token'[queue'[i]] # None /\ queue'[i] \notin Used(act, net, told)
    BY <1>5, <1>6, <1>8, <2>2 DEF IInv, QueueFits
  <2>5. ASSUME NEW i \in 1..Len(queue'), NEW j \in 1..Len(queue'), i # j
        PROVE  queue'[i] # queue'[j]
    BY <1>8, <2>2, <2>5 DEF IInv, QueueFits
  <2> QED
    BY <2>1, <2>3, <2>4, <2>5 DEF QueueFits
<1> QED
  BY <1>1, <1>9, <1>10, <1>11 DEF IInv

(* A channel closes: nothing but the table changes. *)
LEMMA ClosingStep ==
    ASSUME IInv, NEW m \in Net, Fits(act, m, update, told),
           Used(act, m, told) \subseteq Used(act, net, told), m.open \subseteq net.open,
           net' = m, withdrawn' \in BOOLEAN, state' = state, expiring' \in Owner,
           UNCHANGED <<cred, dial, act, gen, update, told>>
    PROVE  IInv'
<1>1. Typed'
  BY DEF IInv, Typed, dial
<1>2. QueueFits(act, m, told, queue, token)
  BY QueueStays DEF IInv
<1> QED
  BY <1>1, <1>2 DEF IInv, dial

LEMMA HangUpStep ==
    ASSUME IInv, NEW c \in Conn, HangUp(c)
    PROVE  IInv'
<1>1. /\ act \in Activation /\ net \in Net /\ told \in SUBSET Conn
      /\ withdrawn \in BOOLEAN /\ expiring \in Owner
  BY DEF IInv, Typed
<1>2. PICK n \in Net : n = net
  BY <1>1
<1>3. PICK t \in SUBSET Conn : t = told
  BY <1>1
<1>4. Fits(act, n, update, t)
  BY <1>2, <1>3 DEF IInv
<1>5. /\ Dropped(n, c) \in Net /\ Fits(act, Dropped(n, c), update, t)
      /\ Used(act, Dropped(n, c), t) \subseteq Used(act, n, t)
      /\ Dropped(n, c).open \subseteq n.open
  BY <1>1, <1>4, DroppedFits
<1>6. PICK m \in Net : m = Dropped(n, c)
  BY <1>5
<1>7. net' = m /\ UNCHANGED <<cred, withdrawn, dial, act, gen, update, expiring, state, told>>
  BY <1>2, <1>6 DEF HangUp, credentials
<1> QED
  BY <1>1, <1>2, <1>3, <1>5, <1>6, <1>7, ClosingStep

LEMMA DisconnectStep ==
    ASSUME IInv, Disconnect
    PROVE  IInv'
<1>1. /\ act \in Activation /\ net \in Net /\ told \in SUBSET Conn
      /\ withdrawn \in BOOLEAN /\ expiring \in Owner
  BY DEF IInv, Typed
<1>2. PICK n \in Net : n = net
  BY <1>1
<1>3. PICK t \in SUBSET Conn : t = told
  BY <1>1
<1>4. PICK x, y : x = Candidate /\ y = net.active
  OBVIOUS
<1>5. Fits(act, n, update, t)
  BY <1>2, <1>3 DEF IInv
<1>6. /\ Dropped(n, x) \in Net /\ Fits(act, Dropped(n, x), update, t)
      /\ Used(act, Dropped(n, x), t) \subseteq Used(act, n, t)
      /\ Dropped(n, x).open \subseteq n.open
  BY <1>1, <1>5, DroppedFits
<1>7. PICK h \in Net : h = Dropped(n, x)
  BY <1>6
<1>8. /\ Dropped(h, y) \in Net /\ Fits(act, Dropped(h, y), update, t)
      /\ Used(act, Dropped(h, y), t) \subseteq Used(act, h, t)
      /\ Dropped(h, y).open \subseteq h.open
  BY <1>1, <1>6, <1>7, DroppedFits
<1>9. PICK m \in Net : m = Dropped(h, y)
  BY <1>8
<1>10. net' = m /\ withdrawn' = FALSE
       /\ UNCHANGED <<cred, dial, act, gen, update, expiring, state, told>>
  BY <1>2, <1>4, <1>7, <1>9 DEF Disconnect
<1>11. Used(act, m, told) \subseteq Used(act, net, told) /\ m.open \subseteq net.open
  BY <1>2, <1>3, <1>6, <1>7, <1>8, <1>9
<1> QED
  BY <1>1, <1>2, <1>3, <1>8, <1>9, <1>10, <1>11, ClosingStep

LEMMA CredentialStep ==
    ASSUME IInv, Enroll \/ Withdraw
    PROVE  IInv'
<1>1. UNCHANGED <<dial, act, net, gen, update, expiring, state, told>>
  BY DEF Enroll, Withdraw
<1>2. cred \in Record /\ (cred[2] # None => cred[1] \notin {None, cred[2]})
  BY DEF IInv, Typed
<1>3. cred[1] \in Token \cup {None} /\ cred[2] \in Token \cup {None}
  BY <1>2 DEF Record
<1>4. Issuable # {} => NewToken \in Token /\ ~Matches(cred, NewToken)
  <2>1. Issuable # {} => NewToken \in Issuable
    BY DEF NewToken
  <2> QED
    BY <2>1 DEF Issuable
<1>5. Issuable # {} => NewToken \in Token /\ NewToken \notin {None, cred[1], cred[2]}
  BY <1>4, NoneIsNoConn DEF Matches
<1>6. cred' \in Record /\ (cred'[2] # None => cred'[1] \notin {None, cred'[2]})
  <2>1. CASE Enroll
    <3> DEFINE new == NewToken
               old == IF cred[2] # None THEN cred[2] ELSE cred[1]
    <3>1. cred' = <<new, old>> /\ new \in Token
          /\ new \notin {None, cred[1], cred[2]}
      BY <1>5, <2>1 DEF Enroll
    <3>2. old \in Token \cup {None} /\ old \in {cred[1], cred[2]}
      BY <1>3
    <3> HIDE DEF new, old
    <3> QED
      BY <3>1, <3>2 DEF Record
  <2>2. CASE Withdraw
    <3>1. CASE Issuable # {} /\ cred' = <<NewToken, None>>
      BY <1>5, <3>1 DEF Record
    <3>2. CASE cred' = <<None, None>>
      BY <3>2 DEF Record
    <3> QED
      BY <2>2, <3>1, <3>2 DEF Withdraw
  <2> QED
    BY <2>1, <2>2
<1>7. withdrawn' \in BOOLEAN
  BY DEF IInv, Typed, Enroll, Withdraw
<1> QED
  BY <1>1, <1>6, <1>7 DEF IInv, Typed, dial

-----------------------------------------------------------------------------
(* An activation, up to the cutover. *)

States == {"disconnected", "connecting", "reconnecting", "connected", "failed"}
Updates == [conn : Conn \cup {None}, expired : BOOLEAN]

(* A step on records, put back into the state. *)
LEMMA StepKeeps ==
    ASSUME IInv, NEW b \in Activation, NEW m \in Net, NEW u \in Updates,
           Fits(b, m, u, told), Used(b, m, told) \subseteq Used(act, net, told),
           m.open \subseteq net.open, act' = b, net' = m, update' = u,
           gen' \in Conn \cup {None}, state' \in States, expiring' \in Owner,
           UNCHANGED <<credentials, dial, told>>
    PROVE  IInv'
<1>1. /\ UNCHANGED <<cred, withdrawn, token, queue, told>>
      /\ act' = b /\ net' = m /\ update' = u
  BY DEF credentials, dial
<1>2. Typed'
  BY <1>1 DEF IInv, Typed, States, Updates
<1>3. QueueFits(b, m, told, queue, token)
  BY QueueStays DEF IInv
<1> QED
  BY <1>1, <1>2, <1>3 DEF IInv

LEMMA IdleFits == Idle \in Activation /\ Idle.conn = None /\ Idle.stage = "idle"
                  /\ Idle.prev = None /\ Idle.ready = FALSE
                  /\ Idle.completing = FALSE
BY DEF Idle, Activation, Stage, Record

LEMMA Conns ==
    ASSUME IInv
    PROVE  /\ act \in Activation /\ net \in Net /\ told \in SUBSET Conn
           /\ update \in Updates /\ gen \in Conn \cup {None} /\ state \in States
           /\ expiring \in Owner /\ None \notin told
           /\ act.stage \in Stage
           /\ RoutesFit(act, net) /\ ReadyFits(act, net, update)
           /\ ToldFits(act, net, told)
BY NoneIsNoConn DEF IInv, Typed, Fits, Updates, States, Activation

LEMMA LinkOpenedStep ==
    ASSUME IInv, NEW c \in Conn, LinkOpened(c)
    PROVE  IInv'
<1>1. PICK a \in Activation : a = act
  BY Conns
<1>2. PICK n \in Net : n = net
  BY Conns
<1>3. /\ RoutesFit(a, n) /\ ReadyFits(a, n, update) /\ ToldFits(a, n, told)
      /\ None \notin told /\ update \in Updates /\ told \in SUBSET Conn
      /\ a.conn = c /\ a.stage = "linking" /\ c \in n.open /\ c # None
  BY <1>1, <1>2, Conns, NoneIsNoConn DEF LinkOpened
<1>4. PICK b \in Activation :
          /\ b = act' /\ b.stage = "verifying" /\ b.conn = a.conn /\ b.prev = a.prev
          /\ b.ready = a.ready /\ b.completing = a.completing
  <2> DEFINE b == [a EXCEPT !.stage = "verifying"]
  <2>1. /\ b \in Activation /\ b.stage = "verifying" /\ b.conn = a.conn
        /\ b.prev = a.prev /\ b.ready = a.ready /\ b.completing = a.completing
    BY DEF Activation, Stage
  <2>2. act' = b
    BY <1>1 DEF LinkOpened
  <2> HIDE DEF b
  <2> QED
    BY <2>1, <2>2
<1>5. PICK m \in Net :
          /\ m = net' /\ m.open = n.open /\ m.active = n.active
          /\ m.ready = n.ready /\ m.refresh = n.refresh
          /\ m.gateway = IF a.prev = None THEN c ELSE n.gateway
  <2>1. CASE a.prev = None
    BY <1>1, <1>2, <2>1 DEF LinkOpened, Opened, Net
  <2>2. CASE a.prev # None
    BY <1>1, <1>2, <2>2 DEF LinkOpened, Opened, Net
  <2> QED
    BY <2>1, <2>2
<1>6. RoutesFit(b, m)
  BY <1>3, <1>4, <1>5 DEF RoutesFit, Probing, Negotiating, Resting
<1>7. ReadyFits(b, m, update)
  BY <1>3, <1>4, <1>5 DEF ReadyFits, Probing, Negotiating, Resting
<1>8. ToldFits(b, m, told)
  BY <1>3, <1>4, <1>5 DEF ToldFits, Resting
<1>9. Used(b, m, told) \subseteq Used(act, net, told) /\ m.open \subseteq net.open
  BY <1>1, <1>2, <1>3, <1>4, <1>5 DEF Used
<1>10. /\ UNCHANGED <<credentials, dial, told>> /\ update' = update
       /\ gen' \in Conn \cup {None} /\ state' \in States /\ expiring' \in Owner
  BY Conns DEF LinkOpened
<1>11. PICK u \in Updates : u = update
  BY <1>3
<1> QED
  BY <1>4, <1>5, <1>6, <1>7, <1>8, <1>9, <1>10, <1>11, StepKeeps DEF Fits

(* The cutover: whatever the tables held, the candidate is the gateway and *)
(* nothing is ready any more.                                              *)
LEMMA TakeOverStep ==
    ASSUME IInv, NEW c \in Conn, NEW old \in BOOLEAN, act.conn = c, c \in net.open,
           act.stage = "promoting" \/ (act.stage = "verifying" /\ act.prev = None),
           TakeOver(net, c, old),
           UNCHANGED <<credentials, dial, gen, update, expiring, told>>
    PROVE  IInv'
<1>1. PICK a \in Activation : a = act
  BY Conns
<1>2. PICK n \in Net : n = net
  BY Conns
<1>3. /\ RoutesFit(a, n) /\ ReadyFits(a, n, update) /\ ToldFits(a, n, told)
      /\ None \notin told /\ update \in Updates /\ told \in SUBSET Conn
      /\ a.conn = c /\ c \in n.open /\ c # None
      /\ a.stage = "promoting" \/ (a.stage = "verifying" /\ a.prev = None)
  BY <1>1, <1>2, Conns, NoneIsNoConn
<1>4. PICK b \in Activation :
          /\ b = act' /\ b.stage = "connecting" /\ b.conn = a.conn /\ b.prev = None
          /\ b.ready = a.ready /\ b.completing = a.completing
  <2> DEFINE b == [a EXCEPT !.stage = "connecting", !.prev = None, !.old = old]
  <2>1. /\ b \in Activation /\ b.stage = "connecting" /\ b.conn = a.conn
        /\ b.prev = None /\ b.ready = a.ready /\ b.completing = a.completing
    BY DEF Activation, Stage
  <2>2. act' = b
    BY <1>1 DEF TakeOver
  <2> HIDE DEF b
  <2> QED
    BY <2>1, <2>2
<1>5. n.gateway = c /\ n.active \in {a.prev, None} /\ a.prev # c
  BY <1>3 DEF RoutesFit, Negotiating
<1>6. PICK g \in Net :
          /\ g = (IF a.prev = None THEN n ELSE Gone(n, a.prev))
          /\ g.open \subseteq n.open /\ c \in g.open
          /\ g.gateway = c /\ g.active = None
  <2>1. CASE a.prev = None
    BY <1>3, <1>5, <2>1
  <2>2. CASE a.prev # None
    <3>1. PICK x \in Conn : x = a.prev
      BY <2>2 DEF Activation
    <3>2. /\ Gone(n, x) \in Net /\ Gone(n, x).open = n.open \ {x}
          /\ Gone(n, x).gateway = (IF n.gateway = x THEN None ELSE n.gateway)
          /\ Gone(n, x).active = (IF n.active = x THEN None ELSE n.active)
      BY GoneNet
    <3> QED
      BY <1>3, <1>5, <2>2, <3>1, <3>2
  <2> QED
    BY <2>1, <2>2
<1>7. c \in Owner
  BY DEF Owner
<1>8. PICK m \in Net :
          /\ m = net' /\ m.open = g.open /\ m.gateway = c /\ m.active = None
          /\ m.ready = None /\ m.refresh = None
  <2>1. net' = Owned(g, c)
    BY <1>1, <1>2, <1>6 DEF TakeOver
  <2> QED
    BY <1>6, <1>7, <2>1, OwnedNet
<1>9. RoutesFit(b, m)
  BY <1>3, <1>4, <1>6, <1>8 DEF RoutesFit, Probing, Negotiating, Resting
<1>10. ReadyFits(b, m, update)
  BY <1>3, <1>4, <1>8 DEF ReadyFits, Probing, Negotiating, Resting
<1>11. ToldFits(b, m, told)
  BY <1>3, <1>4, <1>8 DEF ToldFits, Resting
<1>12. Used(b, m, told) \subseteq Used(act, net, told) /\ m.open \subseteq net.open
  BY <1>1, <1>2, <1>3, <1>4, <1>6, <1>8 DEF Used
<1>13. gen' \in Conn \cup {None} /\ state' \in States /\ expiring' \in Owner
       /\ UNCHANGED <<credentials, dial, told>> /\ update' = update
  BY Conns DEF TakeOver, States
<1>14. PICK u \in Updates : u = update
  BY <1>3
<1> QED
  BY <1>4, <1>8, <1>9, <1>10, <1>11, <1>12, <1>13, <1>14, StepKeeps DEF Fits

LEMMA PromotedStep ==
    ASSUME IInv, NEW c \in Conn, Promoted(c)
    PROVE  IInv'
<1>1. PICK old \in BOOLEAN : old = act.old
  BY Conns DEF Activation
<1>2. /\ act.conn = c /\ c \in net.open /\ act.stage = "promoting"
      /\ UNCHANGED <<credentials, dial, gen, update, expiring, told>>
      /\ TakeOver(net, c, old)
  BY <1>1 DEF Promoted
<1> QED
  BY <1>2, TakeOverStep

LEMMA VerifiedStep ==
    ASSUME IInv, NEW c \in Conn, Verified(c)
    PROVE  IInv'
<1>1. PICK old \in BOOLEAN :
          IF act.prev = None THEN TakeOver(net, c, old)
          ELSE /\ net' = [net EXCEPT !.gateway = c]
               /\ act' = [act EXCEPT !.stage = "promoting", !.old = old]
               /\ UNCHANGED state
  BY DEF Verified
<1>2. /\ act.conn = c /\ c \in net.open /\ act.stage = "verifying"
      /\ UNCHANGED <<credentials, dial, gen, update, expiring, told>>
  BY DEF Verified
<1>3. CASE act.prev = None
  BY <1>1, <1>2, <1>3, TakeOverStep
<1>4. CASE act.prev # None
  <2>1. PICK a \in Activation : a = act
    BY Conns
  <2>2. PICK n \in Net : n = net
    BY Conns
  <2>3. /\ RoutesFit(a, n) /\ ReadyFits(a, n, update) /\ ToldFits(a, n, told)
        /\ None \notin told /\ update \in Updates /\ told \in SUBSET Conn
        /\ a.conn = c /\ a.stage = "verifying" /\ a.prev # None
        /\ c \in n.open /\ c # None
    BY <1>2, <1>4, <2>1, <2>2, Conns, NoneIsNoConn
  <2>4. PICK b \in Activation :
            /\ b = act' /\ b.stage = "promoting" /\ b.conn = a.conn /\ b.prev = a.prev
            /\ b.ready = a.ready /\ b.completing = a.completing
    <3> DEFINE b == [a EXCEPT !.stage = "promoting", !.old = old]
    <3>1. /\ b \in Activation /\ b.stage = "promoting" /\ b.conn = a.conn
          /\ b.prev = a.prev /\ b.ready = a.ready /\ b.completing = a.completing
      BY DEF Activation, Stage
    <3>2. act' = b
      BY <1>1, <1>4, <2>1
    <3> HIDE DEF b
    <3> QED
      BY <3>1, <3>2
  <2>5. PICK m \in Net :
            /\ m = net' /\ m.open = n.open /\ m.active = n.active
            /\ m.ready = n.ready /\ m.refresh = n.refresh /\ m.gateway = c
    BY <1>1, <1>4, <2>2 DEF Net
  <2>6. RoutesFit(b, m)
    BY <2>3, <2>4, <2>5 DEF RoutesFit, Probing, Negotiating, Resting
  <2>7. ReadyFits(b, m, update)
    BY <2>3, <2>4, <2>5 DEF ReadyFits, Probing, Negotiating, Resting
  <2>8. ToldFits(b, m, told)
    BY <2>3, <2>4, <2>5 DEF ToldFits, Resting
  <2>9. Used(b, m, told) \subseteq Used(act, net, told) /\ m.open \subseteq net.open
    BY <2>1, <2>2, <2>3, <2>4, <2>5 DEF Used
  <2>10. /\ UNCHANGED <<credentials, dial, told>> /\ update' = update
         /\ gen' \in Conn \cup {None} /\ state' \in States /\ expiring' \in Owner
    BY <1>1, <1>2, <1>4, Conns
  <2>11. PICK u \in Updates : u = update
    BY <2>3
  <2> QED
    BY <2>4, <2>5, <2>6, <2>7, <2>8, <2>9, <2>10, <2>11, StepKeeps DEF Fits
<1> QED
  BY <1>3, <1>4

(* A predecessor that is still open gets its route back; if it is not, the *)
(* loss that was kept from the Instance is announced.                      *)
LEMMA RestoredNet ==
    ASSUME NEW g \in Net, NEW p \in Conn
    PROVE  /\ Restored(g, p) \in Net /\ Restored(g, p).open = g.open
           /\ Restored(g, p).active = g.active
           /\ p \in g.open => /\ Restored(g, p).gateway = p
                              /\ Restored(g, p).ready = g.ready
                              /\ Restored(g, p).refresh = g.refresh
           /\ p \notin g.open => /\ Restored(g, p).gateway = g.gateway
                                 /\ Restored(g, p).ready = None
                                 /\ Restored(g, p).refresh = None
<1>1. CASE p \in g.open
  <2> DEFINE m == [g EXCEPT !.gateway = p]
  <2>1. /\ m \in Net /\ m.open = g.open /\ m.active = g.active /\ m.gateway = p
        /\ m.ready = g.ready /\ m.refresh = g.refresh
    BY DEF Net
  <2>2. Restored(g, p) = m
    BY <1>1 DEF Restored
  <2> HIDE DEF m
  <2> QED
    BY <1>1, <2>1, <2>2
<1>2. CASE p \notin g.open
  <2>1. Restored(g, p) = Lost(g)
    BY <1>2 DEF Restored
  <2> QED
    BY <1>2, <2>1, LostNet
<1> QED
  BY <1>1, <1>2

LEMMA HandshakeFailsStep ==
    ASSUME IInv, NEW c \in Conn, HandshakeFails(c)
    PROVE  IInv'
<1>1. PICK a \in Activation : a = act
  BY Conns
<1>2. PICK n \in Net : n = net
  BY Conns
<1>3. /\ RoutesFit(a, n) /\ ReadyFits(a, n, update) /\ ToldFits(a, n, told)
      /\ None \notin told /\ update \in Updates /\ told \in SUBSET Conn
      /\ a.conn = c /\ a.stage \in Probing /\ c # None
  BY <1>1, <1>2, Conns, NoneIsNoConn DEF HandshakeFails, Probing
<1>4. PICK b \in Activation :
          /\ b = act' /\ b.stage = "idle" /\ b.conn = None /\ b.prev = None
          /\ b.ready = FALSE /\ b.completing = FALSE
  BY IdleFits DEF HandshakeFails
<1>5. PICK g \in Net :
          /\ g = Gone(n, c) /\ g.open = n.open \ {c}
          /\ g.gateway = IF n.gateway = c THEN None ELSE n.gateway
          /\ g.active = IF n.active = c THEN None ELSE n.active
          /\ g.ready = n.ready /\ g.refresh = n.refresh
  BY GoneNet
<1>6. PICK m \in Net :
          /\ m = net' /\ m.open = g.open /\ m.gateway = m.active
          /\ m.gateway \in {None, n.gateway, a.prev}
          /\ m.active \in {None, n.active}
          /\ m.gateway \in g.open \cup {None}
          /\ m.ready \in {None, n.ready} /\ m.refresh \in {None, n.refresh}
          /\ m.ready \in {None, m.gateway}
          /\ \A d \in told : m.gateway = d => m.ready = d
  <2>1. CASE a.prev = None
    <3>1. net' = g
      BY <1>1, <1>2, <1>5, <2>1 DEF HandshakeFails
    <3>2. g.gateway = None /\ g.active = None
      BY <1>3, <1>5, <2>1 DEF RoutesFit, Probing
    <3>3. g.ready = None
      BY <1>3, <1>5, <2>1 DEF ReadyFits
    <3> QED
      BY <1>3, <1>5, <3>1, <3>2, <3>3
  <2>2. CASE a.prev # None
    <3>1. PICK p \in Conn : p = a.prev
      BY <2>2 DEF Activation
    <3>2. PICK m \in Net : m = Restored(g, p)
      BY RestoredNet
    <3>3. m = net'
      BY <1>1, <1>2, <1>5, <2>2, <3>1, <3>2 DEF HandshakeFails
    <3>4. /\ m.open = g.open /\ m.active = g.active
          /\ p \in g.open => /\ m.gateway = p /\ m.ready = g.ready
                             /\ m.refresh = g.refresh
          /\ p \notin g.open => /\ m.gateway = g.gateway /\ m.ready = None
                                /\ m.refresh = None
      BY <3>2, RestoredNet
    <3>5. p # c /\ (p \in g.open <=> p \in n.open)
      BY <1>3, <1>5, <3>1 DEF RoutesFit, Probing
    <3>6. /\ n.active \in {p, None} /\ (p \in n.open => n.active = p)
          /\ n.gateway \in {p, c, None} /\ {n.gateway, n.active} \subseteq n.open \cup {None}
      BY <1>3, <3>1, <2>2 DEF RoutesFit, Probing, Resting
    <3>7. n.ready \in {None, p} /\ \A d \in told : d = p /\ p \in n.open => n.ready = p
      BY <1>3, <3>1, <2>2 DEF ReadyFits, ToldFits
    <3>8. CASE p \in g.open
      BY <1>3, <1>5, <3>1, <3>3, <3>4, <3>5, <3>6, <3>7, <3>8
    <3>9. CASE p \notin g.open
      <4>1. g.gateway = None /\ g.active = None
        BY <1>5, <3>5, <3>6, <3>9
      <4> QED
        BY <1>3, <1>5, <3>3, <3>4, <3>9, <4>1
    <3> QED
      BY <3>8, <3>9
  <2> QED
    BY <2>1, <2>2
<1>7. RoutesFit(b, m)
  BY <1>4, <1>6 DEF RoutesFit, Probing, Negotiating, Resting
<1>8. ReadyFits(b, m, update)
  BY <1>3, <1>4, <1>6 DEF ReadyFits, Probing, Negotiating, Resting
<1>9. ToldFits(b, m, told)
  BY <1>3, <1>4, <1>6 DEF ToldFits, Resting
<1>10. Used(b, m, told) \subseteq Used(act, net, told) /\ m.open \subseteq net.open
  BY <1>1, <1>2, <1>4, <1>5, <1>6 DEF Used
<1>11. /\ UNCHANGED <<credentials, dial, told>> /\ update' = update
       /\ gen' \in Conn \cup {None} /\ state' \in States /\ expiring' \in Owner
  BY Conns DEF HandshakeFails
<1>12. PICK u \in Updates : u = update
  BY <1>3
<1> QED
  BY <1>4, <1>6, <1>7, <1>8, <1>9, <1>10, <1>11, <1>12, StepKeeps DEF Fits

-----------------------------------------------------------------------------
(* After the cutover. *)

(* The activation goes on to another stage, or stages an update. *)
LEMMA ProceedStep ==
    ASSUME IInv, act.stage \in Negotiating, NEW b \in Activation, NEW u \in Updates,
           act' = b, net' = net, update' = u, b.conn = act.conn, b.prev = act.prev,
           b.ready = act.ready, b.stage \in Negotiating,
           b.stage \in {"updating", "catalog", "connected"} /\ ~b.completing
             => u = NoUpdate,
           b.stage = "updating" => ~b.completing,
           gen' \in Conn \cup {None}, state' \in States, expiring' \in Owner,
           UNCHANGED <<credentials, dial, told>>
    PROVE  IInv'
<1>1. PICK a \in Activation : a = act
  BY Conns
<1>2. PICK n \in Net : n = net
  BY Conns
<1>3. RoutesFit(a, n) /\ ReadyFits(a, n, update) /\ ToldFits(a, n, told)
  BY <1>1, <1>2, Conns
<1>4. RoutesFit(b, n)
  BY <1>1, <1>3 DEF RoutesFit, Probing, Negotiating, Resting
<1>5. ReadyFits(b, n, u)
  BY <1>1, <1>3 DEF ReadyFits, Probing, Negotiating, Resting
<1>6. ToldFits(b, n, told)
  BY <1>1, <1>3 DEF ToldFits, Resting, Negotiating
<1>7. Used(b, n, told) \subseteq Used(act, net, told) /\ n.open \subseteq net.open
  BY <1>2 DEF Used
<1> QED
  BY <1>2, <1>4, <1>5, <1>6, <1>7, StepKeeps DEF Fits

(* Back in Connections, ready or not: if the candidate is still open both  *)
(* routes lead to it.                                                      *)
LEMMA ReturnStep ==
    ASSUME IInv, NEW c \in Conn, act.conn = c, act.stage \in Negotiating,
           NEW n \in Net, NEW ready \in BOOLEAN, NEW u \in Updates,
           n.open = net.open, n.gateway = net.gateway, n.active = net.active,
           n.refresh = net.refresh, n.ready = IF ready THEN c ELSE None,
           ready => c \in n.open /\ u = NoUpdate, u # NoUpdate => u = update,
           Return(n, c, ready), update' = u,
           gen' \in Conn \cup {None}, state' \in States, expiring' \in Owner,
           UNCHANGED <<credentials, dial, told>>
    PROVE  IInv'
<1>1. PICK a \in Activation : a = act
  BY Conns
<1>2. PICK h \in Net : h = net
  BY Conns
<1>3. /\ RoutesFit(a, h) /\ ReadyFits(a, h, update) /\ ToldFits(a, h, told)
      /\ None \notin told /\ update \in Updates /\ told \in SUBSET Conn
      /\ a.conn = c /\ a.stage \in Negotiating /\ c # None
  BY <1>1, <1>2, Conns, NoneIsNoConn
<1>4. /\ n.active = None /\ n.gateway \in {c, None} /\ n.refresh = None
      /\ c \in n.open => n.gateway = c
      /\ n.gateway \in n.open \cup {None} /\ a.prev = None
  BY <1>2, <1>3 DEF RoutesFit, ReadyFits, Negotiating, Probing
<1>5. c \notin told
  BY <1>3 DEF ToldFits, Resting, Negotiating
<1>6. CASE c \in n.open
  <2>1. PICK g \in Net :
            /\ g = Gone(n, n.active) /\ g.open = n.open \ {None}
            /\ g.gateway = IF n.gateway = None THEN None ELSE n.gateway
            /\ g.ready = n.ready /\ g.refresh = n.refresh
    BY <1>4, GoneNet
  <2>2. PICK m \in Net :
            /\ m = net' /\ m.open = g.open /\ m.gateway = g.gateway /\ m.active = c
            /\ m.ready = g.ready /\ m.refresh = g.refresh
    <3>1. net' = [g EXCEPT !.active = c]
      BY <1>6, <2>1 DEF Return
    <3> QED
      BY <3>1 DEF Net
  <2>3. PICK b \in Activation :
            /\ b = act' /\ b.stage = "commit" /\ b.conn = a.conn /\ b.prev = a.prev
            /\ b.completing = a.completing /\ b.ready = ready
    <3> DEFINE b == [a EXCEPT !.stage = "commit", !.ready = ready]
    <3>1. /\ b \in Activation /\ b.stage = "commit" /\ b.conn = a.conn
          /\ b.prev = a.prev /\ b.ready = ready /\ b.completing = a.completing
      BY DEF Activation, Stage
    <3>2. act' = b
      BY <1>1, <1>6 DEF Return
    <3> HIDE DEF b
    <3> QED
      BY <3>1, <3>2
  <2>4. m.gateway = c /\ m.active = c /\ c \in m.open /\ m.refresh = None
        /\ m.ready = IF ready THEN c ELSE None
    BY <1>3, <1>4, <1>6, <2>1, <2>2
  <2>5. RoutesFit(b, m)
    BY <1>3, <1>4, <2>3, <2>4 DEF RoutesFit, Probing, Negotiating, Resting
  <2>6. ReadyFits(b, m, u)
    BY <1>3, <1>4, <2>3, <2>4 DEF ReadyFits, Probing, Negotiating, Resting
  <2>7. ToldFits(b, m, told)
    BY <1>3, <1>4, <1>5, <2>3, <2>4 DEF ToldFits, Resting
  <2>8. Used(b, m, told) \subseteq Used(act, net, told)
    BY <1>1, <1>3, <1>4, <2>3, <2>4 DEF Used
  <2>9. m.open \subseteq net.open
    BY <2>1, <2>2
  <2> QED
    BY <2>2, <2>3, <2>5, <2>6, <2>7, <2>8, <2>9, StepKeeps DEF Fits
<1>7. CASE c \notin n.open
  <2>1. PICK b \in Activation :
            /\ b = act' /\ b.stage = "idle" /\ b.conn = None /\ b.prev = None
            /\ b.ready = FALSE /\ b.completing = FALSE
    BY <1>7, IdleFits DEF Return
  <2>2. net' = n /\ n.gateway = None /\ n.ready = None
    BY <1>4, <1>7 DEF Return
  <2>3. RoutesFit(b, n)
    BY <1>4, <2>1, <2>2 DEF RoutesFit, Probing, Negotiating, Resting
  <2>4. ReadyFits(b, n, u)
    BY <1>4, <2>1, <2>2 DEF ReadyFits, Probing, Negotiating, Resting
  <2>5. ToldFits(b, n, told)
    BY <1>3, <2>1, <2>2 DEF ToldFits, Resting
  <2>6. Used(b, n, told) \subseteq Used(act, net, told) /\ n.open \subseteq net.open
    BY <1>4, <2>1, <2>2 DEF Used
  <2> QED
    BY <2>1, <2>2, <2>3, <2>4, <2>5, <2>6, StepKeeps DEF Fits
<1> QED
  BY <1>6, <1>7

(* Whoever finds that it no longer owns the Instance returns "not ready". *)
LEMMA NotReadyStep ==
    ASSUME IInv, NEW c \in Conn, act.conn = c, act.stage \in Negotiating,
           Return(net, c, FALSE), update' = update,
           gen' \in Conn \cup {None}, state' \in States, expiring' \in Owner,
           UNCHANGED <<credentials, dial, told>>
    PROVE  IInv'
<1>1. PICK n \in Net : n = net
  BY Conns
<1>2. PICK u \in Updates : u = update
  BY Conns
<1>3. n.ready = None
  BY <1>1, Conns DEF ReadyFits
<1>4. PICK ready \in BOOLEAN : ~ready /\ ready = FALSE
  OBVIOUS
<1>5. Return(n, c, ready)
  BY <1>1, <1>4
<1> QED
  BY <1>1, <1>2, <1>3, <1>4, <1>5, ReturnStep

(* A new record of the activation under way: its stage and, at most, what  *)
(* was found out about a staged update.                                    *)
LEMMA Staged ==
    ASSUME NEW a \in Activation, NEW s \in Stage
    PROVE  /\ [a EXCEPT !.stage = s] \in Activation
           /\ [a EXCEPT !.stage = s].stage = s
           /\ [a EXCEPT !.stage = s].conn = a.conn
           /\ [a EXCEPT !.stage = s].prev = a.prev
           /\ [a EXCEPT !.stage = s].ready = a.ready
           /\ [a EXCEPT !.stage = s].completing = a.completing
<1> DEFINE b == [a EXCEPT !.stage = s]
<1>1. /\ b \in Activation /\ b.stage = s /\ b.conn = a.conn /\ b.prev = a.prev
      /\ b.ready = a.ready /\ b.completing = a.completing
  BY DEF Activation
<1> QED
  BY <1>1

LEMMA GoesOnStep ==
    ASSUME IInv, act.stage \in Negotiating, NEW s \in Negotiating, Proceed(s),
           NEW u \in Updates, update' = u,
           s \in {"catalog", "connected"} =>
             /\ act.stage \in {"updating", "catalog"} /\ u = update,
           s # "updating",
           gen' \in Conn \cup {None}, state' \in States, expiring' \in Owner,
           UNCHANGED <<credentials, dial, told>>
    PROVE  IInv'
<1>1. PICK a \in Activation : a = act
  BY Conns
<1>2. s \in Stage
  BY DEF Negotiating, Stage
<1>3. PICK b \in Activation :
          /\ b = [a EXCEPT !.stage = s] /\ b.stage = s /\ b.conn = a.conn
          /\ b.prev = a.prev /\ b.ready = a.ready /\ b.completing = a.completing
  BY <1>2, Staged
<1>4. act' = b /\ net' = net
  BY <1>1, <1>3 DEF Proceed
<1>5. b.stage \in {"updating", "catalog", "connected"} /\ ~b.completing => u = NoUpdate
  <2>1. ReadyFits(act, net, update)
    BY Conns
  <2> QED
    BY <1>1, <1>3, <2>1 DEF ReadyFits
<1> QED
  BY <1>1, <1>3, <1>4, <1>5, ProceedStep

LEMMA AnnounceStep ==
    ASSUME IInv, NEW c \in Conn, Announce(c)
    PROVE  IInv'
<1>1. /\ act.conn = c /\ act.stage \in Negotiating /\ act.stage = "connecting"
      /\ UNCHANGED <<credentials, dial, update, expiring, state, told>>
  BY DEF Announce, Negotiating
<1>2. PICK u \in Updates : u = update
  BY Conns
<1>3. state' \in States /\ expiring' \in Owner
  BY <1>1, Conns
<1>4. CASE IsCurrent(c)
  <2>1. Proceed("announcing") /\ gen' \in Conn \cup {None}
    BY <1>4 DEF Announce
  <2>2. "announcing" \in Negotiating
    BY DEF Negotiating
  <2> QED
    BY <1>1, <1>2, <1>3, <2>1, <2>2, GoesOnStep
<1>5. CASE ~IsCurrent(c)
  <2>1. Return(net, c, FALSE) /\ gen' \in Conn \cup {None}
    BY <1>5, Conns DEF Announce
  <2> QED
    BY <1>1, <1>3, <2>1, NotReadyStep
<1> QED
  BY <1>4, <1>5

LEMMA NegotiateStep ==
    ASSUME IInv, NEW c \in Conn, Negotiate(c)
    PROVE  IInv'
<1>1. /\ act.conn = c /\ act.stage \in Negotiating
      /\ UNCHANGED <<credentials, dial, gen, update, expiring, state, told>>
  BY DEF Negotiate, Negotiating
<1>2. PICK u \in Updates : u = update
  BY Conns
<1>3. state' \in States /\ expiring' \in Owner /\ gen' \in Conn \cup {None}
  BY <1>1, Conns
<1>4. CASE IsCurrent(c)
  <2>1. PICK a \in Activation : a = act
    BY Conns
  <2>2. PICK k \in BOOLEAN : k = (update # NoUpdate)
    OBVIOUS
  <2>3. PICK s \in {"updating", "catalog"} :
            s = IF update = NoUpdate /\ act.old THEN "updating" ELSE "catalog"
    OBVIOUS
  <2>4. s \in Negotiating /\ s \in Stage
    BY DEF Negotiating, Stage
  <2>5. PICK b \in Activation :
            /\ b = act' /\ b.conn = a.conn /\ b.prev = a.prev /\ b.ready = a.ready
            /\ b.stage = s /\ b.completing = k
    <3> DEFINE b == [a EXCEPT !.completing = k, !.stage = s]
    <3>1. /\ b \in Activation /\ b.conn = a.conn /\ b.prev = a.prev
          /\ b.ready = a.ready /\ b.stage = s /\ b.completing = k
      BY <2>4 DEF Activation
    <3>2. act' = b
      BY <1>4, <2>1, <2>2, <2>3 DEF Negotiate
    <3> HIDE DEF b
    <3> QED
      BY <3>1, <3>2
  <2>6. net' = net
    BY <1>4 DEF Negotiate
  <2> QED
    BY <1>1, <1>2, <1>3, <2>1, <2>2, <2>3, <2>4, <2>5, <2>6, ProceedStep
<1>5. CASE ~IsCurrent(c)
  <2>1. Return(net, c, FALSE)
    BY <1>5 DEF Negotiate
  <2> QED
    BY <1>1, <1>3, <2>1, NotReadyStep
<1> QED
  BY <1>4, <1>5

(* A negotiation that ends in an error: the Instance shows it if the       *)
(* candidate still owns it.                                                *)
LEMMA FailsStep ==
    ASSUME IInv, NEW c \in Conn, act.conn = c, act.stage \in Negotiating, Fails(c),
           UNCHANGED <<credentials, dial, gen, update, expiring, told>>
    PROVE  IInv'
<1>1. PICK u \in Updates : u = update
  BY Conns
<1>2. gen' \in Conn \cup {None} /\ state' \in States /\ expiring' \in Owner
  BY Conns DEF Fails, States
<1>3. CASE IsCurrent(c)
  <2>1. Proceed("failing") /\ "failing" \in Negotiating
    BY <1>3 DEF Fails, Negotiating
  <2> QED
    BY <1>1, <1>2, <2>1, GoesOnStep
<1>4. CASE ~IsCurrent(c)
  <2>1. Return(net, c, FALSE)
    BY <1>4 DEF Fails
  <2> QED
    BY <1>2, <2>1, NotReadyStep
<1> QED
  BY <1>3, <1>4

LEMMA UpdatingStep ==
    ASSUME IInv, NEW c \in Conn, Updating(c)
    PROVE  IInv'
<1>1. /\ act.conn = c /\ act.stage \in Negotiating /\ act.stage = "updating"
      /\ UNCHANGED <<credentials, dial, gen, expiring, told>>
  BY DEF Updating, Negotiating
<1>2. gen' \in Conn \cup {None} /\ expiring' \in Owner /\ state \in States
  BY <1>1, Conns
<1>3. CASE /\ Proceed("staged") /\ update' = [conn |-> c, expired |-> FALSE]
           /\ UNCHANGED state
  <2>1. PICK u \in Updates : u = update'
    BY <1>3 DEF Updates
  <2>2. "staged" \in Negotiating
    BY DEF Negotiating
  <2> QED
    BY <1>1, <1>2, <1>3, <2>1, <2>2, GoesOnStep
<1>4. CASE Proceed("catalog") /\ UNCHANGED <<update, state>>
  <2>1. PICK u \in Updates : u = update
    BY Conns
  <2>2. "catalog" \in Negotiating
    BY DEF Negotiating
  <2> QED
    BY <1>1, <1>2, <1>4, <2>1, <2>2, GoesOnStep
<1>5. CASE Fails(c) /\ UNCHANGED update
  BY <1>1, <1>5, FailsStep
<1> QED
  BY <1>3, <1>4, <1>5 DEF Updating

LEMMA StagedReplyStep ==
    ASSUME IInv, NEW c \in Conn, StagedReply(c)
    PROVE  IInv'
<1>1. /\ act.conn = c /\ act.stage \in Negotiating
      /\ UNCHANGED <<credentials, dial, gen, update, expiring, told>>
  BY DEF StagedReply, Negotiating
<1>2. CASE Return(net, c, FALSE) /\ UNCHANGED state
  <2>1. gen' \in Conn \cup {None} /\ state' \in States /\ expiring' \in Owner
    BY <1>1, <1>2, Conns
  <2> QED
    BY <1>1, <1>2, <2>1, NotReadyStep
<1>3. CASE Fails(c)
  BY <1>1, <1>3, FailsStep
<1> QED
  BY <1>2, <1>3 DEF StagedReply

LEMMA CatalogReadStep ==
    ASSUME IInv, NEW c \in Conn, CatalogRead(c)
    PROVE  IInv'
<1>1. /\ act.conn = c /\ act.stage \in Negotiating /\ act.stage = "catalog"
      /\ UNCHANGED <<credentials, dial, gen, update, expiring, told>>
  BY DEF CatalogRead, Negotiating
<1>2. CASE Fails(c)
  BY <1>1, <1>2, FailsStep
<1>3. CASE Proceed("connected") /\ state' = "connected"
  <2>1. PICK u \in Updates : u = update
    BY Conns
  <2>2. "connected" \in Negotiating /\ state' \in States
    BY <1>3 DEF Negotiating, States
  <2>3. gen' \in Conn \cup {None} /\ expiring' \in Owner
    BY <1>1, Conns
  <2> QED
    BY <1>1, <1>3, <2>1, <2>2, <2>3, GoesOnStep
<1> QED
  BY <1>2, <1>3 DEF CatalogRead

LEMMA ConnectedStep ==
    ASSUME IInv, NEW c \in Conn, Connected(c)
    PROVE  IInv'
<1>1. /\ act.conn = c /\ act.stage \in Negotiating /\ act.stage = "connected"
      /\ UNCHANGED <<credentials, dial, gen, expiring, state, told>>
  BY DEF Connected, Negotiating
<1>2. gen' \in Conn \cup {None} /\ state' \in States /\ expiring' \in Owner
  BY <1>1, Conns
<1>3. CASE IsCurrent(c) /\ state = "connected"
  <2>1. PICK h \in Net : h = net
    BY Conns
  <2>2. PICK n \in Net :
            /\ n = [h EXCEPT !.ready = c] /\ n.open = h.open /\ n.gateway = h.gateway
            /\ n.active = h.active /\ n.refresh = h.refresh /\ n.ready = c
    <3> DEFINE n == [h EXCEPT !.ready = c]
    <3>1. /\ n \in Net /\ n.open = h.open /\ n.gateway = h.gateway
          /\ n.active = h.active /\ n.refresh = h.refresh /\ n.ready = c
      BY DEF Net
    <3>2. n = [h EXCEPT !.ready = c]
      OBVIOUS
    <3> HIDE DEF n
    <3> QED
      BY <3>1, <3>2
  <2>3. PICK ready \in BOOLEAN : ready /\ ready = TRUE
    OBVIOUS
  <2>4. Return(n, c, ready) /\ update' = Completed(c)
    BY <1>3, <2>1, <2>2, <2>3 DEF Connected
  <2>5. c \in n.open
    <3>1. RoutesFit(act, h) /\ h.gateway = c /\ c # None
      BY <1>3, <2>1, Conns, NoneIsNoConn DEF IsCurrent
    <3> QED
      BY <2>2, <3>1 DEF RoutesFit
  <2>6. PICK u \in Updates : u = NoUpdate
    BY DEF NoUpdate, Updates
  <2>7. update' = NoUpdate
    <3>1. ReadyFits(act, h, update)
      BY <2>1, Conns
    <3> QED
      BY <1>1, <2>4, <3>1 DEF Completed, ReadyFits
  <2> QED
    BY <1>1, <1>2, <2>1, <2>2, <2>3, <2>4, <2>5, <2>6, <2>7, ReturnStep
<1>4. CASE ~(IsCurrent(c) /\ state = "connected")
  <2>1. Return(net, c, FALSE) /\ update' = update
    BY <1>4 DEF Connected
  <2> QED
    BY <1>1, <1>2, <2>1, NotReadyStep
<1> QED
  BY <1>3, <1>4

-----------------------------------------------------------------------------
(* The end of an activation, and admission of the next. *)

(* A refused candidate leaves both routes empty, or to their owner. *)
LEMMA RefusedFits ==
    ASSUME NEW a \in Activation, NEW m \in Net, NEW u, NEW t \in SUBSET Conn,
           Fits(a, m, u, t), a.stage \notin Probing, a.conn \notin m.open
    PROVE  Fits(Idle, m, u, t)
<1>1. RoutesFit(a, m) /\ ReadyFits(a, m, u) /\ ToldFits(a, m, t) /\ None \notin t
  BY NoneIsNoConn DEF Fits
<1>2. a.stage \in Resting \cup Negotiating
  BY DEF Activation, Stage, Probing, Resting, Negotiating
<1>3. m.active = m.gateway /\ a.prev = None
  BY <1>1, <1>2 DEF RoutesFit, Resting, Negotiating
<1>4. m.ready \in {None, m.gateway}
  BY <1>1, <1>3 DEF ReadyFits
<1>5. RoutesFit(Idle, m)
  BY <1>1, <1>3, IdleFits DEF RoutesFit, Probing, Negotiating, Resting
<1>6. ReadyFits(Idle, m, u)
  BY <1>1, <1>4, IdleFits DEF ReadyFits, Probing, Negotiating, Resting
<1>7. ToldFits(Idle, m, t)
  BY <1>1, IdleFits DEF ToldFits, Resting
<1> QED
  BY <1>5, <1>6, <1>7 DEF Fits

LEMMA RefuseStep ==
    ASSUME IInv, NEW c \in Conn, act.conn = c, act.stage \notin Probing, Refuse(c),
           UNCHANGED <<credentials, dial, gen, update, expiring, state, told>>
    PROVE  IInv'
<1>1. PICK a \in Activation : a = act
  BY Conns
<1>2. PICK n \in Net : n = net
  BY Conns
<1>3. PICK u \in Updates : u = update
  BY Conns
<1>4. PICK t \in SUBSET Conn : t = told
  BY Conns
<1>5. act \in Activation /\ Fits(act, n, u, t)
  BY <1>1, <1>2, <1>3, <1>4, Conns DEF Fits
<1>6. /\ Dropped(n, c) \in Net /\ Fits(act, Dropped(n, c), u, t)
      /\ Used(act, Dropped(n, c), t) \subseteq Used(act, n, t)
      /\ Dropped(n, c).open \subseteq n.open
  BY <1>5, DroppedFits
<1>7. PICK m \in Net : m = Dropped(n, c) /\ m.open = n.open \ {c}
  BY DroppedNet DEF Cuts
<1>8. Fits(Idle, m, u, t)
  BY <1>1, <1>6, <1>7, RefusedFits
<1>9. Used(Idle, m, told) \subseteq Used(act, net, told) /\ m.open \subseteq net.open
  BY <1>2, <1>4, <1>6, <1>7, IdleFits DEF Used
<1>10. act' = Idle /\ net' = m /\ update' = u /\ Idle \in Activation
  BY <1>2, <1>3, <1>7, IdleFits DEF Refuse
<1>11. gen' \in Conn \cup {None} /\ state' \in States /\ expiring' \in Owner
       /\ UNCHANGED <<credentials, dial, told>>
  BY Conns
<1> QED
  BY <1>4, <1>8, <1>9, <1>10, <1>11, StepKeeps

LEMMA FailingStep ==
    ASSUME IInv, NEW c \in Conn, Failing(c)
    PROVE  IInv'
<1>1. /\ act.conn = c /\ act.stage \notin Probing /\ Refuse(c)
      /\ UNCHANGED <<credentials, dial, gen, update, expiring, state, told>>
  BY DEF Failing, Probing
<1> QED
  BY <1>1, RefuseStep

LEMMA CommitStep ==
    ASSUME IInv, NEW c \in Conn, Commit(c)
    PROVE  IInv'
<1>1. /\ act.conn = c /\ act.stage = "commit" /\ act.stage \notin Probing
      /\ UNCHANGED <<withdrawn, dial, gen, update, expiring, state>>
  BY DEF Commit, Probing
<1>2. CASE Refuse(c) /\ UNCHANGED <<cred, told>>
  <2>1. UNCHANGED <<credentials, dial, gen, update, expiring, state, told>>
    BY <1>1, <1>2 DEF credentials
  <2> QED
    BY <1>1, <1>2, <2>1, RefuseStep
<1>3. CASE /\ cred' = IF act.adm = cred /\ cred[2] # None /\ token[c] = cred[1]
                      THEN <<cred[1], None>> ELSE cred
           /\ told' = IF act.ready /\ net.active = c THEN told \cup {c} ELSE told
           /\ act' = Idle /\ UNCHANGED net
  <2>1. PICK a \in Activation : a = act
    BY Conns
  <2>2. PICK n \in Net : n = net
    BY Conns
  <2>3. PICK t \in SUBSET Conn : t = told
    BY Conns
  <2>4. /\ RoutesFit(a, n) /\ ReadyFits(a, n, update) /\ ToldFits(a, n, t)
        /\ None \notin t /\ a.conn = c /\ a.stage = "commit" /\ c # None
    BY <1>1, <2>1, <2>2, <2>3, Conns, NoneIsNoConn
  <2>5. /\ n.active = n.gateway /\ n.gateway \in {c, None} /\ a.prev = None
        /\ n.ready \in {None, n.gateway}
    BY <2>4 DEF RoutesFit, ReadyFits, Resting, Probing
  <2>6. PICK s \in SUBSET Conn : s = told' /\ s \subseteq t \cup {c}
                                 /\ (c \in s => c \in t \/ n.ready = c)
    <3>1. a.ready /\ n.active = a.conn => n.ready = a.conn
      BY <2>4 DEF ReadyFits
    <3>2. CASE a.ready /\ n.active = c
      BY <1>3, <2>1, <2>2, <2>3, <2>4, <3>1, <3>2
    <3>3. CASE ~(a.ready /\ n.active = c)
      BY <1>3, <2>1, <2>2, <2>3, <3>3
    <3> QED
      BY <3>2, <3>3
  <2>7. RoutesFit(Idle, n)
    BY <2>4, <2>5, IdleFits DEF RoutesFit, Probing, Negotiating, Resting
  <2>8. ReadyFits(Idle, n, update)
    BY <2>4, <2>5, IdleFits DEF ReadyFits, Probing, Negotiating, Resting
  <2>9. ToldFits(Idle, n, s)
    <3>1. None \notin s
      BY <2>4, <2>6
    <3>2. \A d \in s : n.gateway = d => n.ready = d
      BY <2>4, <2>6 DEF ToldFits
    <3> QED
      BY <3>1, <3>2, IdleFits DEF ToldFits, Resting
  <2>10. Used(Idle, n, s) \subseteq Used(a, n, t)
    BY <2>4, <2>6, IdleFits DEF Used
  <2>11. QueueFits(Idle, n, s, queue, token)
    <3>1. QueueFits(a, n, t, queue, token)
      BY <2>1, <2>2, <2>3 DEF IInv
    <3> QED
      BY <2>10, <3>1, QueueStays
  <2>12. cred' \in Record /\ (cred'[2] # None => cred'[1] \notin {None, cred'[2]})
    <3>1. cred \in Record /\ (cred[2] # None => cred[1] \notin {None, cred[2]})
      BY DEF IInv, Typed
    <3>2. cred' = cred \/ cred' = <<cred[1], None>>
      BY <1>3
    <3>3. CASE cred' = <<cred[1], None>>
      BY <3>1, <3>3 DEF Record
    <3> QED
      BY <3>1, <3>2, <3>3
  <2>13. Typed'
    BY <1>1, <1>3, <2>6, <2>12, IdleFits DEF IInv, Typed, dial
  <2> QED
    BY <1>1, <1>3, <2>2, <2>6, <2>7, <2>8, <2>9, <2>11, <2>13
    DEF IInv, Fits, dial
<1> QED
  BY <1>2, <1>3 DEF Commit, Replaces

LEMMA TailFits ==
    ASSUME NEW a, NEW n, NEW t, NEW q \in Seq(Conn), NEW d, q # <<>>,
           QueueFits(a, n, t, q, d)
    PROVE  /\ Tail(q) \in Seq(Conn) /\ Head(q) \in Conn
           /\ Head(q) \notin Used(a, n, t) /\ d[Head(q)] # None
           /\ QueueFits(a, n, t, Tail(q), d)
           /\ \A i \in 1..Len(Tail(q)) : Tail(q)[i] # Head(q)
<1>1. /\ Len(q) \in Nat /\ Len(q) >= 1 /\ Head(q) = q[1] /\ Head(q) \in Conn
      /\ Tail(q) \in Seq(Conn) /\ Len(Tail(q)) = Len(q) - 1
  OBVIOUS
<1>2. \A i \in 1..Len(Tail(q)) : i + 1 \in 1..Len(q) /\ Tail(q)[i] = q[i + 1]
  BY <1>1
<1>3. Head(q) \notin Used(a, n, t) /\ d[Head(q)] # None
  BY <1>1 DEF QueueFits
<1>4. \A i \in 1..Len(Tail(q)) : Tail(q)[i] # Head(q)
  <2> SUFFICES ASSUME NEW i \in 1..Len(Tail(q)) PROVE Tail(q)[i] # Head(q)
    OBVIOUS
  <2>1. i + 1 \in 1..Len(q) /\ 1 \in 1..Len(q) /\ i + 1 # 1
    BY <1>1
  <2> QED
    BY <1>1, <1>2, <2>1 DEF QueueFits
<1>5. QueueFits(a, n, t, Tail(q), d)
  <2>1. ASSUME NEW i \in 1..Len(Tail(q)), NEW j \in 1..Len(Tail(q)), i # j
        PROVE  Tail(q)[i] # Tail(q)[j]
    <3>1. i + 1 \in 1..Len(q) /\ j + 1 \in 1..Len(q) /\ i + 1 # j + 1
      BY <1>1, <2>1
    <3> QED
      BY <1>2, <3>1 DEF QueueFits
  <2>2. \A i \in 1..Len(Tail(q)) : d[Tail(q)[i]] # None
                                   /\ Tail(q)[i] \notin Used(a, n, t)
    BY <1>2 DEF QueueFits
  <2> QED
    BY <2>1, <2>2 DEF QueueFits
<1> QED
  BY <1>1, <1>3, <1>4, <1>5

LEMMA AdmitStep ==
    ASSUME IInv, Admit
    PROVE  IInv'
<1>1. PICK n \in Net : n = net
  BY Conns
<1>2. PICK t \in SUBSET Conn : t = told
  BY Conns
<1>3. PICK q \in Seq(Conn) : q = queue
  BY DEF IInv, Typed
<1>4. PICK c : c = Head(queue)
  OBVIOUS
<1>5. /\ q # <<>> /\ act = Idle /\ queue' = Tail(q)
      /\ UNCHANGED <<credentials, token, gen, update, expiring, state, told>>
  BY <1>3 DEF Admit
<1>6. QueueFits(Idle, n, t, q, token)
  BY <1>1, <1>2, <1>3, <1>5 DEF IInv
<1>7. /\ Tail(q) \in Seq(Conn) /\ Head(q) \in Conn
      /\ Head(q) \notin Used(Idle, n, t) /\ token[Head(q)] # None
      /\ QueueFits(Idle, n, t, Tail(q), token)
      /\ \A i \in 1..Len(Tail(q)) : Tail(q)[i] # Head(q)
  BY <1>5, <1>6, TailFits
<1>8. c \in Conn /\ c # None /\ c \notin Used(Idle, n, t) /\ token[c] # None
  BY <1>3, <1>4, <1>7, NoneIsNoConn
<1>9. /\ RoutesFit(Idle, n) /\ ReadyFits(Idle, n, update) /\ ToldFits(Idle, n, t)
      /\ None \notin t
  BY <1>1, <1>2, <1>5, Conns
<1>10. CASE Refuse(c)
  <2>1. act \in Activation /\ Fits(act, n, update, t)
    BY <1>1, <1>2, Conns DEF Fits
  <2>2. /\ Dropped(n, c) \in Net /\ Fits(act, Dropped(n, c), update, t)
        /\ Used(act, Dropped(n, c), t) \subseteq Used(act, n, t)
        /\ Dropped(n, c).open \subseteq n.open
    BY <2>1, DroppedFits
  <2>3. PICK m \in Net : m = Dropped(n, c)
    BY <2>2
  <2>4. QueueFits(Idle, m, t, Tail(q), token)
    BY <1>5, <1>7, <2>2, <2>3, QueueStays
  <2>5. net' = m /\ act' = Idle
    BY <1>1, <1>10, <2>3 DEF Refuse
  <2>6. Typed'
    BY <1>5, <1>7, <2>5, IdleFits DEF IInv, Typed, credentials
  <2> QED
    BY <1>2, <1>5, <2>2, <2>3, <2>4, <2>5, <2>6 DEF IInv
<1>11. CASE /\ act' = [Idle EXCEPT !.conn = c, !.stage = "linking",
                                   !.prev = net.gateway, !.adm = cred]
            /\ UNCHANGED net
  <2>1. PICK b \in Activation :
            /\ b = act' /\ b.conn = c /\ b.stage = "linking" /\ b.prev = n.gateway
            /\ b.ready = FALSE /\ b.completing = FALSE
    <3> DEFINE b == [Idle EXCEPT !.conn = c, !.stage = "linking",
                                 !.prev = n.gateway, !.adm = cred]
    <3>1. cred \in Record /\ n.gateway \in Conn \cup {None}
      BY DEF IInv, Typed, Net
    <3>2. /\ b \in Activation /\ b.conn = c /\ b.stage = "linking"
          /\ b.prev = n.gateway /\ b.ready = FALSE /\ b.completing = FALSE
      BY <1>8, <3>1 DEF Activation, Stage, Idle
    <3>3. act' = b
      BY <1>1, <1>11
    <3> HIDE DEF b
    <3> QED
      BY <3>2, <3>3
  <2>2. c # n.gateway /\ c # n.refresh /\ c \notin t
    BY <1>8 DEF Used
  <2>3. n.active = n.gateway /\ n.ready \in {None, n.gateway}
        /\ {n.gateway, n.active} \subseteq n.open \cup {None}
    BY <1>9, IdleFits DEF RoutesFit, ReadyFits, Resting
  <2>4. RoutesFit(b, n)
    BY <1>8, <2>1, <2>2, <2>3 DEF RoutesFit, Probing, Negotiating, Resting
  <2>5. ReadyFits(b, n, update)
    BY <1>9, <2>1, <2>2, <2>3 DEF ReadyFits, Probing, Negotiating, Resting
  <2>6. ToldFits(b, n, t)
    BY <1>9, <2>1, <2>2 DEF ToldFits
  <2>7. Used(b, n, t) = Used(Idle, n, t) \cup {c}
    BY <1>8, <2>1, IdleFits DEF Used
  <2>8. QueueFits(b, n, t, Tail(q), token)
    <3>1. Head(q) = c
      BY <1>3, <1>4
    <3>2. \A d \in Used(b, n, t) \cup n.open : token[d] # None
      BY <1>6, <1>8, <2>7 DEF QueueFits
    <3>3. \A i \in 1..Len(Tail(q)) : token[Tail(q)[i]] # None
                                     /\ Tail(q)[i] \notin Used(b, n, t)
      BY <1>7, <2>7, <3>1 DEF QueueFits
    <3> QED
      BY <1>7, <3>2, <3>3 DEF QueueFits
  <2>9. Typed'
    BY <1>5, <1>7, <1>11, <2>1 DEF IInv, Typed, credentials
  <2> QED
    BY <1>1, <1>2, <1>5, <1>11, <2>1, <2>4, <2>5, <2>6, <2>8, <2>9 DEF IInv, Fits
<1> QED
  BY <1>4, <1>10, <1>11 DEF Admit

-----------------------------------------------------------------------------
(* What else moves the state of the Instance. *)

(* Nothing but the owner, the refresh and what is due changes. *)
LEMMA TableStep ==
    ASSUME IInv, NEW m \in Net, net' = m, Fits(act, m, update, told),
           Used(act, m, told) \subseteq Used(act, net, told), m.open \subseteq net.open,
           state' \in States,
           UNCHANGED <<credentials, dial, act, gen, update, expiring, told>>
    PROVE  IInv'
<1>1. PICK a \in Activation : a = act
  BY Conns
<1>2. PICK u \in Updates : u = update
  BY Conns
<1>3. gen' \in Conn \cup {None} /\ expiring' \in Owner
  BY Conns
<1> QED
  BY <1>1, <1>2, <1>3, StepKeeps

LEMMA LossNoticedStep ==
    ASSUME IInv, LossNoticed
    PROVE  IInv'
<1>1. PICK n \in Net : n = net
  BY Conns
<1>2. PICK m \in Net :
          /\ m = net' /\ m.open = n.open /\ m.gateway = n.gateway
          /\ m.active = n.active /\ m.ready = n.ready /\ m.refresh = n.refresh
  <2> DEFINE m == [n EXCEPT !.losing = FALSE]
  <2>1. /\ m \in Net /\ m.open = n.open /\ m.gateway = n.gateway
        /\ m.active = n.active /\ m.ready = n.ready /\ m.refresh = n.refresh
    BY DEF Net
  <2>2. net' = m
    BY <1>1 DEF LossNoticed
  <2> HIDE DEF m
  <2> QED
    BY <2>1, <2>2
<1>3. RoutesFit(act, n) /\ ReadyFits(act, n, update) /\ ToldFits(act, n, told)
  BY <1>1, Conns
<1>4. RoutesFit(act, m)
  BY <1>2, <1>3 DEF RoutesFit
<1>5. ReadyFits(act, m, update)
  BY <1>2, <1>3 DEF ReadyFits
<1>6. ToldFits(act, m, told)
  BY <1>2, <1>3 DEF ToldFits
<1>7. Used(act, m, told) \subseteq Used(act, net, told) /\ m.open \subseteq net.open
  BY <1>1, <1>2 DEF Used
<1>8. UNCHANGED <<credentials, dial, act, gen, update, expiring, told>>
      /\ state' \in States
  BY Conns DEF LossNoticed, States
<1> QED
  BY <1>2, <1>4, <1>5, <1>6, <1>7, <1>8, TableStep DEF Fits

(* The update times out: nobody was ready, so nobody loses anything.       *)
LEMMA ExpireStep ==
    ASSUME IInv, Expire
    PROVE  IInv'
<1>1. PICK n \in Net : n = net
  BY Conns
<1>2. PICK owner \in Owner :
          owner = IF net.gateway = update.conn THEN Expiry ELSE net.owner
  BY <1>1 DEF Owner, Net
<1>3. PICK m \in Net :
          /\ m = net' /\ m.open = n.open /\ m.gateway = n.gateway
          /\ m.active = n.active /\ m.ready = None /\ m.refresh = None
  <2>1. net' = Owned(n, owner)
    BY <1>1, <1>2 DEF Expire
  <2> QED
    BY <2>1, OwnedNet
<1>4. /\ RoutesFit(act, n) /\ ReadyFits(act, n, update) /\ ToldFits(act, n, told)
      /\ update # NoUpdate /\ act.conn \in Conn \cup {None} /\ act \in Activation
  BY <1>1, Conns DEF Expire, Activation
<1>5. PICK u \in Updates : u = update'
  BY Conns DEF Expire, Updates
<1>6. n.ready = None /\ n.refresh = None
  BY <1>4 DEF ReadyFits
<1>7. RoutesFit(act, m)
  BY <1>3, <1>4 DEF RoutesFit
<1>8. ReadyFits(act, m, u)
  <2>1. act.ready => act.stage = "commit" /\ act.conn # None /\ n.active # act.conn
    BY <1>4, <1>6 DEF ReadyFits, RoutesFit
  <2> QED
    BY <1>3, <1>4, <1>6, <2>1 DEF ReadyFits
<1>9. ToldFits(act, m, told)
  BY <1>3, <1>4, <1>6 DEF ToldFits
<1>10. Used(act, m, told) \subseteq Used(act, net, told) /\ m.open \subseteq net.open
  BY <1>1, <1>3 DEF Used
<1>11. /\ gen' \in Conn \cup {None} /\ state' \in States /\ expiring' \in Owner
       /\ UNCHANGED <<credentials, dial, told>> /\ act' = act
  BY <1>2, Conns DEF Expire, States
<1>12. PICK a \in Activation : a = act
  BY <1>4
<1> QED
  BY <1>3, <1>5, <1>7, <1>8, <1>9, <1>10, <1>11, <1>12, StepKeeps DEF Fits

LEMMA ExpiryEndsStep ==
    ASSUME IInv, ExpiryEnds
    PROVE  IInv'
<1>1. PICK a \in Activation : a = act
  BY Conns
<1>2. PICK n \in Net : n = net
  BY Conns
<1>3. PICK t \in SUBSET Conn : t = told
  BY Conns
<1>4. PICK x : x = update.conn
  OBVIOUS
<1>5. PICK lost \in BOOLEAN : ~lost
  OBVIOUS
<1>6. RoutesFit(a, n) /\ ReadyFits(a, n, update) /\ ToldFits(a, n, t)
  BY <1>1, <1>2, <1>3, Conns
<1>7. n.ready = None
  BY <1>6 DEF ExpiryEnds, ReadyFits
<1>8. PICK m \in Net :
          /\ m = net' /\ Fits(a, m, update, t)
          /\ Used(a, m, t) \subseteq Used(a, n, t) /\ m.open \subseteq n.open
  <2>1. CASE net' = Gone(n, x)
    <3>1. PICK m \in Net : m = net' /\ Cuts(n, m, x, lost)
      BY <1>5, <2>1, GoneNet DEF Cuts
    <3>2. MayCut(a, n, x, lost)
      BY <1>5, <1>7 DEF MayCut
    <3> QED
      BY <1>6, <3>1, <3>2, CutsKeep DEF Fits
  <2>2. CASE net' = n
    BY <1>6, <2>2 DEF Fits
  <2> QED
    BY <1>2, <1>4, <2>1, <2>2 DEF ExpiryEnds
<1>9. /\ UNCHANGED <<cred, dial, act, gen, update, told>> /\ state' = state
      /\ withdrawn' \in BOOLEAN /\ expiring' \in Owner
  BY DEF ExpiryEnds, credentials, IInv, Typed, Owner
<1> QED
  BY <1>1, <1>2, <1>3, <1>8, <1>9, ClosingStep

LEMMA RefreshStatusStep ==
    ASSUME IInv, RefreshStatus
    PROVE  IInv'
<1>1. PICK n \in Net : n = net
  BY Conns
<1>2. /\ UNCHANGED <<credentials, dial, act, gen, update, expiring, told>>
      /\ state' \in States
  BY Conns DEF RefreshStatus, States
<1>3. RoutesFit(act, n) /\ ReadyFits(act, n, update) /\ ToldFits(act, n, told)
  BY <1>1, Conns
<1>4. CASE UNCHANGED net
  <2>1. Used(act, n, told) \subseteq Used(act, net, told) /\ n.open \subseteq net.open
    BY <1>1
  <2> QED
    BY <1>1, <1>2, <1>3, <1>4, <2>1, TableStep DEF Fits
<1>5. CASE /\ net.gateway # None /\ net.ready = net.gateway
           /\ net' = [net EXCEPT !.refresh = net.gateway]
  <2>1. PICK m \in Net :
            /\ m = net' /\ m.open = n.open /\ m.gateway = n.gateway
            /\ m.active = n.active /\ m.ready = n.ready /\ m.refresh = n.gateway
    BY <1>1, <1>5 DEF Net
  <2>2. n.gateway # None /\ n.ready = n.gateway
    BY <1>1, <1>5
  <2>3. RoutesFit(act, m)
    BY <1>3, <2>1 DEF RoutesFit
  <2>4. ReadyFits(act, m, update)
    <3>1. act.stage \in Probing => n.gateway # act.conn
      BY <1>3, <2>2 DEF ReadyFits, RoutesFit, Probing
    <3>2. act.stage \notin Negotiating /\ update = NoUpdate
      BY <1>3, <2>2 DEF ReadyFits
    <3> QED
      BY <1>3, <2>1, <3>1, <3>2 DEF ReadyFits
  <2>5. ToldFits(act, m, told)
    BY <1>3, <2>1 DEF ToldFits
  <2>6. Used(act, m, told) \subseteq Used(act, net, told) /\ m.open \subseteq net.open
    BY <1>1, <2>1 DEF Used
  <2> QED
    BY <1>2, <2>1, <2>3, <2>4, <2>5, <2>6, TableStep DEF Fits
<1> QED
  BY <1>4, <1>5 DEF RefreshStatus

LEMMA RefreshAnsweredStep ==
    ASSUME IInv, RefreshAnswered
    PROVE  IInv'
<1>1. PICK n \in Net : n = net
  BY Conns
<1>2. /\ UNCHANGED <<credentials, dial, act, gen, update, expiring, told>>
      /\ state' \in States
  BY Conns DEF RefreshAnswered, States
<1>3. RoutesFit(act, n) /\ ReadyFits(act, n, update) /\ ToldFits(act, n, told)
  BY <1>1, Conns
<1>4. CASE net' = [net EXCEPT !.refresh = None]
  <2>1. PICK m \in Net :
            /\ m = net' /\ m.open = n.open /\ m.gateway = n.gateway
            /\ m.active = n.active /\ m.ready = n.ready /\ m.refresh = None
    BY <1>1, <1>4 DEF Net
  <2>2. RoutesFit(act, m)
    BY <1>3, <2>1 DEF RoutesFit
  <2>3. ReadyFits(act, m, update)
    <3>1. act.stage \in Probing => act.conn # None
      BY <1>3 DEF RoutesFit, Probing
    <3> QED
      BY <1>3, <2>1, <3>1 DEF ReadyFits
  <2>4. ToldFits(act, m, told)
    BY <1>3, <2>1 DEF ToldFits
  <2>5. Used(act, m, told) \subseteq Used(act, net, told) /\ m.open \subseteq net.open
    BY <1>1, <2>1 DEF Used
  <2> QED
    BY <1>2, <2>1, <2>2, <2>3, <2>4, <2>5, TableStep DEF Fits
<1>5. CASE /\ net.gateway = net.refresh
           /\ net' = Gone(Owned(net, Refresh), net.gateway)
  <2>1. PICK a \in Activation : a = act
    BY Conns
  <2>2. PICK t \in SUBSET Conn : t = told
    BY Conns
  <2>3. n.refresh # None /\ n.gateway = n.refresh
    BY <1>1, <1>5 DEF RefreshAnswered
  <2>4. PICK x : x = n.gateway
    OBVIOUS
  <2>5. PICK lost \in BOOLEAN : lost
    OBVIOUS
  <2>6. PICK g \in Net :
            /\ g = Owned(n, Refresh) /\ g.open = n.open /\ g.gateway = n.gateway
            /\ g.active = n.active /\ g.ready = None /\ g.refresh = None
    BY OwnedNet DEF Owner
  <2>7. PICK m \in Net : m = net' /\ Cuts(n, m, x, lost)
    <3>1. net' = Gone(g, x)
      BY <1>1, <1>5, <2>4, <2>6
    <3> QED
      BY <2>5, <2>6, <3>1, GoneNet DEF Cuts
  <2>8. MayCut(a, n, x, lost)
    <3>1. a.stage \in Probing => n.gateway # a.conn
      BY <1>3, <2>1, <2>3 DEF ReadyFits
    <3>2. a.stage \in Probing /\ a.prev # None => n.gateway = a.prev
      BY <1>3, <2>1, <2>3, <3>1 DEF RoutesFit, Probing
    <3>3. a.prev \in {None, x}
      BY <1>3, <2>1, <2>4, <3>2 DEF RoutesFit
    <3> QED
      BY <2>4, <2>5, <3>3 DEF MayCut
  <2>9. /\ RoutesFit(a, m) /\ ReadyFits(a, m, update) /\ ToldFits(a, m, t)
        /\ Used(a, m, t) \subseteq Used(a, n, t) /\ m.open \subseteq n.open
    BY <1>3, <2>1, <2>2, <2>7, <2>8, CutsKeep
  <2> QED
    BY <1>1, <1>2, <2>1, <2>2, <2>7, <2>9, TableStep DEF Fits
<1> QED
  BY <1>4, <1>5 DEF RefreshAnswered, LinkAsked

-----------------------------------------------------------------------------
LEMMA Steps == IInv /\ [Next]_vars => IInv'
<1> SUFFICES ASSUME IInv, [Next]_vars PROVE IInv'
  OBVIOUS
<1>1. CASE UNCHANGED vars
  BY <1>1 DEF vars, IInv, Typed
<1>2. ASSUME NEW c \in Conn, Dial(c) \/ HangUp(c) \/ Handshake(c) \/ Negotiation(c)
      PROVE  IInv'
  <2>1. CASE Dial(c)
    BY <2>1, DialStep
  <2>2. CASE HangUp(c)
    BY <2>2, HangUpStep
  <2>3. CASE Handshake(c)
    BY <2>3, LinkOpenedStep, VerifiedStep, PromotedStep, HandshakeFailsStep
    DEF Handshake
  <2>4. CASE Negotiation(c)
    BY <2>4, AnnounceStep, NegotiateStep, UpdatingStep, StagedReplyStep, FailingStep,
       CatalogReadStep, ConnectedStep, CommitStep DEF Negotiation
  <2> QED
    BY <1>2, <2>1, <2>2, <2>3, <2>4
<1>3. CASE Admit \/ Enroll \/ Withdraw \/ Disconnect
  BY <1>3, AdmitStep, CredentialStep, DisconnectStep
<1>4. CASE LossNoticed \/ Expire \/ ExpiryEnds \/ RefreshStatus \/ RefreshAnswered
  BY <1>4, LossNoticedStep, ExpireStep, ExpiryEndsStep, RefreshStatusStep,
     RefreshAnsweredStep
<1> QED
  BY <1>1, <1>2, <1>3, <1>4 DEF Next

(* In every behaviour the four views of the connections fit together: the  *)
(* stage of the activation says where both routes lead, who is ready, what *)
(* a staged update forbids, and which connections are still unused.        *)
THEOREM Inductive == Spec => []IInv
<1> QED
  BY Initially, Steps, PTL DEF Spec

(* Every variable keeps its type, whatever the number of connections,      *)
(* credentials and waiting activations.                                    *)
THEOREM TypeCorrect == Spec => []TypeOK
<1>1. IInv => TypeOK
  <2> SUFFICES ASSUME IInv PROVE TypeOK
    OBVIOUS
  <2>1. {net.gateway, net.active} \ {None} \subseteq net.open
        /\ net.ready \in {None, net.gateway, act.prev}
    BY Conns DEF RoutesFit, ReadyFits
  <2> QED
    BY <2>1 DEF IInv, Typed, TypeOK, Record, Activation, Net, Owner
<1> QED
  BY <1>1, Inductive, PTL

(* Connections and Endpoint send to the same Worker: whatever candidates   *)
(* fail and whatever links break, the upstream route and the gateway are   *)
(* the same when nothing is negotiated and while a candidate is probed.    *)
THEOREM RoutesAlwaysAgree == Spec => []RoutesAgree
<1>1. IInv => RoutesAgree
  BY Conns DEF RoutesFit, RoutesAgree, Resting
<1> QED
  BY <1>1, Inductive, PTL

(* A Worker that was told Ready can be refreshed as long as it is the      *)
(* gateway: no candidate that fails and no timer takes that from it.       *)
THEOREM ToldIsReady == Spec => []ServingIsReady
<1>1. IInv => ServingIsReady
  BY Conns DEF ToldFits, ServingIsReady
<1> QED
  BY <1>1, Inductive, PTL

(* While an update is staged the Instance is not brought up, neither by    *)
(* the Worker that is to be replaced nor by a refresh.                     *)
THEOREM NothingServes == Spec => []NothingServesDuringUpdate
<1>1. IInv => NothingServesDuringUpdate
  BY Conns DEF ReadyFits, NothingServesDuringUpdate
<1> QED
  BY <1>1, Inductive, PTL

-----------------------------------------------------------------------------
(* Generations.  Between its admission and its announcement a connection   *)
(* stays newer than what the Instance has admitted, or replaces the        *)
(* credential in use; from then on the Instance has its generation.        *)
Announced == {"announcing", "updating", "staged", "catalog", "connected"}

GenFits(a, g, d) ==
    /\ a.stage \in Probing \cup {"connecting"} =>
         a.conn > g \/ Replaces(a.adm, d[a.conn])
    /\ a.stage \in Announced \/ a.ready => g = a.conn

(* What the negotiation does to the activation. *)
LEMMA GenNegotiation ==
    ASSUME IInv, GenFits(act, gen, token), NEW c \in Conn,
           Negotiation(c)
    PROVE  GenFits(act', gen', token')
<1>1. /\ act \in Activation /\ net \in Net /\ act.conn = c
      /\ act.ready => act.stage = "commit"
      /\ token' = token
    <2>1. act \in Activation /\ net \in Net /\ (act.ready => act.stage = "commit")
        BY DEF IInv, Typed, Fits, ReadyFits
    <2> QED
        BY <2>1 DEF Negotiation, Announce, Negotiate, Updating, StagedReply, Failing,
            CatalogRead, Connected, Commit, dial
<1>0. ASSUME NEW m, NEW r \in BOOLEAN, Return(m, c, r)
      PROVE  act'.stage \in Resting /\ (act'.ready => r /\ act'.conn = c)
    <2>1. CASE c \in m.open
        <3>1. act' = [act EXCEPT !.stage = "commit", !.ready = r]
            BY <1>0, <2>1 DEF Return
        <3>2. act'.stage = "commit" /\ act'.ready = r /\ act'.conn = c
            BY <1>1, <3>1 DEF Activation
        <3> QED
            BY <3>2 DEF Resting
    <2>2. CASE c \notin m.open
        <3>1. act' = Idle
            BY <1>0, <2>2 DEF Return
        <3> QED
            BY <3>1, IdleFits DEF Resting, Idle
    <2> QED
        BY <2>1, <2>2
<1>2. ASSUME NEW m, Return(m, c, FALSE)
      PROVE  act'.stage \in Resting /\ ~act'.ready
    BY <1>0, <1>2
<1>3. ASSUME act'.stage \in Resting, ~act'.ready
      PROVE  GenFits(act', gen', token')
    BY <1>3 DEF GenFits, Resting, Probing, Announced
<1>4. ASSUME act.stage \in Announced, gen' = gen,
             act'.stage \in Announced \cup {"failing"}, act'.conn = c,
             ~act'.ready
      PROVE  GenFits(act', gen', token')
    BY <1>1, <1>4 DEF GenFits, Probing, Announced
<1>5. ASSUME NEW s \in Stage, Proceed(s)
      PROVE  act'.stage = s /\ act'.conn = c /\ act'.ready = act.ready
    BY <1>1, <1>5 DEF Proceed, Activation
<1>6. ASSUME Fails(c), act.stage \in Announced, gen' = gen
      PROVE  GenFits(act', gen', token')
    <2>1. CASE Proceed("failing")
        <3>1. act.stage # "commit" /\ "failing" \in Stage
            BY <1>6 DEF Announced, Stage
        <3> QED
            BY <1>1, <1>4, <1>5, <1>6, <2>1, <3>1
    <2>2. CASE Return(net, c, FALSE)
        BY <1>2, <1>3, <2>2
    <2> QED
        BY <1>6, <2>1, <2>2 DEF Fails
<1>7. CASE Announce(c)
    <2>1. CASE Proceed("announcing") /\ gen' = c
        <3>1. act'.stage = "announcing" /\ act'.conn = c /\ ~act'.ready
            BY <1>1, <1>5, <1>7, <2>1 DEF Announce, Stage
        <3> QED
            BY <2>1, <3>1 DEF GenFits, Probing, Announced
    <2>2. CASE Return(net, c, FALSE)
        BY <1>2, <1>3, <2>2
    <2> QED
        BY <1>7, <2>1, <2>2 DEF Announce
<1>8. CASE Negotiate(c)
    <2>1. CASE Return(net, c, FALSE)
        BY <1>2, <1>3, <2>1
    <2>2. CASE IsCurrent(c)
        <3>1. /\ act.stage \in Announced /\ act.stage # "commit" /\ gen' = gen
              /\ act'.stage \in {"updating", "catalog"}
              /\ act'.conn = act.conn /\ act'.ready = act.ready
            BY <1>1, <1>8, <2>2 DEF Negotiate, Announced, Activation
        <3> QED
            BY <1>1, <1>4, <3>1 DEF Announced
    <2> QED
        BY <1>8, <2>1, <2>2 DEF Negotiate
<1>9. CASE Updating(c)
    <2>1. act.stage = "updating" /\ gen' = gen
        BY <1>9 DEF Updating
    <2>2. ASSUME NEW s \in {"staged", "catalog"}, Proceed(s)
          PROVE  GenFits(act', gen', token')
        BY <1>1, <1>4, <1>5, <2>1, <2>2 DEF Announced, Stage
    <2> QED
        BY <1>6, <1>9, <2>1, <2>2 DEF Updating, Announced
<1>10. CASE StagedReply(c)
    BY <1>2, <1>3, <1>6, <1>10 DEF StagedReply, Announced
<1>11. CASE Failing(c)
    BY <1>3, <1>11 DEF Failing, Refuse, Idle, Resting
<1>12. CASE CatalogRead(c)
    <2>1. act.stage = "catalog" /\ gen' = gen
        BY <1>12 DEF CatalogRead
    <2>2. CASE Proceed("connected")
        BY <1>1, <1>4, <1>5, <2>1, <2>2 DEF Announced, Stage
    <2> QED
        BY <1>6, <1>12, <2>1, <2>2 DEF CatalogRead, Announced
<1>13. CASE Connected(c)
    <2>1. act.stage = "connected" /\ gen' = gen /\ gen = c
        BY <1>1, <1>13 DEF Connected, GenFits, Announced
    <2>2. ASSUME NEW m, Return(m, c, TRUE)
          PROVE  GenFits(act', gen', token')
        <3>1. act'.stage \in Resting /\ (act'.ready => act'.conn = c)
            BY <1>0, <2>2
        <3> QED
            BY <2>1, <3>1 DEF GenFits, Resting, Probing, Announced
    <2>3. CASE Return(net, c, FALSE)
        BY <1>2, <1>3, <2>3
    <2> QED
        BY <1>13, <2>2, <2>3 DEF Connected
<1>14. CASE Commit(c)
    BY <1>3, <1>14 DEF Commit, Refuse, Idle, Resting
<1> QED
    BY <1>7, <1>8, <1>9, <1>10, <1>11, <1>12, <1>13, <1>14 DEF Negotiation

(* The other steps leave the admitted generation alone. *)
LEMMA GenStep ==
    IInv /\ GenFits(act, gen, token) /\ [Next]_vars
        => GenFits(act', gen', token')
<1> SUFFICES ASSUME IInv, GenFits(act, gen, token), [Next]_vars
             PROVE  GenFits(act', gen', token')
    OBVIOUS
<1>1. act \in Activation /\ net \in Net /\ (act.ready => act.stage = "commit")
    BY DEF IInv, Typed, Fits, ReadyFits
<1>2. ASSUME act' = Idle
      PROVE  GenFits(act', gen', token')
    BY <1>2 DEF GenFits, Idle, Probing, Announced
<1>3. ASSUME UNCHANGED <<gen, token>>, act.stage \in Probing,
             act'.stage \in Probing \cup {"connecting"},
             act'.conn = act.conn, act'.adm = act.adm, act'.ready = act.ready
      PROVE  GenFits(act', gen', token')
    BY <1>1, <1>3 DEF GenFits, Probing, Announced
<1>4. ASSUME NEW c \in Conn, Handshake(c)
      PROVE  GenFits(act', gen', token')
    <2>1. UNCHANGED <<gen, token>> /\ act.stage \in Probing
        BY <1>4 DEF Handshake, LinkOpened, Verified, Promoted, HandshakeFails,
                    Probing, dial
    <2>2. CASE HandshakeFails(c)
        BY <1>2, <2>2 DEF HandshakeFails
    <2>3. CASE ~HandshakeFails(c)
        <3>1. /\ act'.stage \in Probing \cup {"connecting"}
              /\ act'.conn = act.conn /\ act'.adm = act.adm
              /\ act'.ready = act.ready
            BY <1>1, <1>4, <2>3 DEF Handshake, LinkOpened, Verified, Promoted,
                                    TakeOver, Probing, Activation
        <3> QED
            BY <1>3, <2>1, <3>1
    <2> QED
        BY <2>2, <2>3
<1>5. ASSUME NEW c \in Conn, Dial(c)
      PROVE  GenFits(act', gen', token')
    <2>1. /\ token[c] = None /\ act' = act /\ gen' = gen
          /\ \A d \in Conn : d # c => token'[d] = token[d]
        BY <1>5 DEF Dial, IInv, Typed
    <2>2. act.conn # None => token[act.conn] # None
        BY DEF IInv, QueueFits, Used
    <2>3. act.stage \in Probing \cup {"connecting"} => act.conn # None
        BY DEF IInv, Fits, RoutesFit, Probing
    <2>4. act.conn \in Conn \cup {None}
        BY <1>1 DEF Activation
    <2> QED
        BY <2>1, <2>2, <2>3, <2>4 DEF GenFits
<1>6. CASE Admit
    <2>1. CASE act' = Idle
        BY <1>2, <2>1
    <2>2. CASE act' # Idle
        <3> DEFINE c == Head(queue)
        <3>1. /\ Replaces(cred, token[c]) \/ Newer(c)
              /\ act' = [Idle EXCEPT !.conn = c, !.stage = "linking",
                                     !.prev = net.gateway, !.adm = cred]
              /\ token' = token /\ gen' = gen
            BY <1>6, <2>2 DEF Admit, Refuse
        <3>2. /\ act'.conn = c /\ act'.stage = "linking" /\ act'.adm = cred
              /\ act'.ready = FALSE
            BY <3>1 DEF Idle
        <3> QED
            BY <3>1, <3>2 DEF GenFits, Newer, Announced
    <2> QED
        BY <2>1, <2>2
<1>7. CASE UNCHANGED <<act, gen, token>>
    BY <1>7
<1>8. ASSUME NEW c \in Conn, HangUp(c)
      PROVE  UNCHANGED <<act, gen, token>>
    BY <1>8 DEF HangUp, dial
<1>9. ASSUME Enroll \/ Withdraw \/ Disconnect \/ LossNoticed \/ Expire
             \/ ExpiryEnds \/ RefreshStatus \/ RefreshAnswered
      PROVE  UNCHANGED <<act, gen, token>>
    BY <1>9 DEF Enroll, Withdraw, Disconnect, LossNoticed, Expire, ExpiryEnds,
                RefreshStatus, RefreshAnswered, dial
<1>10. CASE UNCHANGED vars
    BY <1>7, <1>10 DEF vars
<1> QED
    BY <1>4, <1>5, <1>6, <1>7, <1>8, <1>9, <1>10, GenNegotiation DEF Next

(* An activation announces the generation it was admitted with. *)
LEMMA GenAnnounced ==
    IInv /\ GenFits(act, gen, token) /\ [Next]_vars => GenerationAdvances
<1> SUFFICES ASSUME IInv, GenFits(act, gen, token), Next, gen' # gen
             PROVE  gen' > gen \/ Replaces(act.adm, token[gen'])
    BY DEF GenerationAdvances, vars
<1>1. PICK c \in Conn : Announce(c)
    BY DEF Next, Dial, HangUp, Handshake, LinkOpened, Verified, Promoted,
           HandshakeFails, Negotiation, Negotiate, Updating, StagedReply,
           Failing, CatalogRead, Connected, Commit, Admit, Enroll, Withdraw,
           Disconnect, LossNoticed, Expire, ExpiryEnds, RefreshStatus,
           RefreshAnswered
<1> QED
    BY <1>1 DEF Announce, GenFits
-----------------------------------------------------------------------------
(* What is said to the Worker.                                             *)

(* Ingress says Ready only to the connection both tables route to, whose   *)
(* generation supervision has admitted, whose credential is the stored     *)
(* one, with no update staged; and the admitted generation goes forward    *)
(* unless a credential is replaced.                                        *)
THEOREM ReadyToServing == Spec => ReadyToldToServing
<1>1. IInv /\ GenFits(act, gen, token) /\ [Next]_vars => [ToldServing]_vars
  <2> SUFFICES ASSUME IInv, GenFits(act, gen, token), Next,
                      NEW c \in told' \ told
               PROVE  /\ {net.gateway, net.active, net.ready, gen} = {c}
                      /\ Matches(cred', token[c]) /\ update = NoUpdate
    BY DEF ToldServing
  <2>1. PICK d \in Conn : Commit(d)
    BY DEF Next, Dial, HangUp, Handshake, LinkOpened, Verified, Promoted,
           HandshakeFails, Negotiation, Announce, Negotiate, Updating, StagedReply,
           Failing, CatalogRead, Connected, Admit, Enroll, Withdraw, Disconnect,
           LossNoticed, Expire, ExpiryEnds, RefreshStatus, RefreshAnswered
  <2>2. /\ act.conn = d /\ act.stage = "commit" /\ StillValid(d) /\ d = c
        /\ cred' = (IF act.adm = cred /\ Replaces(cred, token[d])
                    THEN <<cred[1], None>> ELSE cred)
        /\ act.ready /\ net.active = c
    BY <2>1 DEF Commit
  <2>3. net.ready = c /\ update = NoUpdate /\ gen = c
    BY <2>2, Conns DEF ReadyFits, GenFits
  <2>4. net.gateway = c
    BY <2>2, Conns DEF RoutesFit, Resting
  <2>5. Matches(cred', token[c])
    BY <2>2 DEF StillValid, Matches, Replaces
  <2> QED
    BY <2>2, <2>3, <2>4, <2>5
<1>2. IInv /\ GenFits(act, gen, token) /\ [Next]_vars => [GenerationAdvances]_vars
  BY GenAnnounced
<1>3. Init => GenFits(act, gen, token)
  BY IdleFits DEF Init, GenFits, Idle, Probing, Announced
<1>4. IInv /\ GenFits(act, gen, token) /\ [Next]_vars => GenFits(act, gen, token)'
  BY GenStep
<1>5. Spec => [](IInv /\ GenFits(act, gen, token))
  BY <1>3, <1>4, Inductive, PTL DEF Spec
<1> QED
  BY <1>1, <1>2, <1>5, PTL DEF Spec, ReadyToldToServing
=============================================================================
