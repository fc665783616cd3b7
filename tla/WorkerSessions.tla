---------------------------- MODULE WorkerSessions ----------------------------
(***************************************************************************)
(* The tool sessions of one Instance, and its retirement.  An extension    *)
(* opens a session on a workspace, activates it, makes calls under it and  *)
(* closes it, or its stream breaks at any point.  The model composes       *)
(*   InstanceToolSessions (core/src/instance/model/ToolSessions.ts), which *)
(*   owns each session until its release has succeeded;                    *)
(*   the workspaces (core/src/toolcall/index.ts): a chain of serialized    *)
(*   operations, where the last owner of a workspace releases it at the    *)
(*   Worker, and the tool catalog that is read for each of them;           *)
(*   InstanceLifecycle and Instance.retire() (core/src/instance/model):    *)
(*   leases, the drain, and the release of what is left.                   *)
(* A step is what runs between two awaits.  Of an operation of the chain   *)
(* the request to the Worker and its answer are one step: nothing else     *)
(* touches the workspaces meanwhile.                                       *)
(***************************************************************************)
EXTENDS Integers, Sequences

CONSTANTS
    Session,        (* ids of sessions; an id is used once                  *)
    Workspace,
    NoWorkspace,
    MaxCalls,       (* bound: calls of one session at a time                *)
    MaxFail,        (* bound: answers of the Worker that fail               *)
    MaxLink         (* bound: links to the Worker, numbered as they come    *)

ASSUME SessionsAssumption ==
    /\ NoWorkspace \notin Workspace
    /\ MaxCalls \in Nat /\ MaxFail \in Nat /\ MaxLink \in Nat

VARIABLES
    ses,        (* #sessions, with what became of each                      *)
    owner,      (* sessions of toolcall/index.ts: the workspace of each     *)
    prepared,   (* workspaces the Worker has confirmed and not released     *)
    ops,        (* sessionTail: the operations of the chain                 *)
    tools,      (* the link, the catalog, and who is reading it             *)
    life,       (* phase of the Instance and its retire() under way         *)
    fails       (* failures so far                                          *)

vars == <<ses, owner, prepared, ops, tools, life, fails>>

NotReading == -1
Link == 0..MaxLink

Fresh ==
    [stage |-> "none", active |-> FALSE, aborted |-> FALSE, gone |-> FALSE,
     calls |-> 0, closing |-> "no", released |-> FALSE, lease |-> FALSE]

TypeOK ==
    /\ ses \in [Session ->
                 [stage : {"none", "opening", "open", "failed", "over"},
                  active : BOOLEAN, aborted : BOOLEAN, gone : BOOLEAN,
                  calls : 0..MaxCalls, closing : {"no", "waiting", "queued"},
                  released : BOOLEAN, lease : BOOLEAN]]
    /\ owner \in [Session -> Workspace \cup {NoWorkspace}]
    /\ prepared \subseteq Workspace
    /\ ops \in Seq([op : {"open", "undo", "release"}, session : Session,
                    workspace : Workspace \cup {NoWorkspace}])
    /\ \A i, j \in DOMAIN ops : ops[i].session = ops[j].session => i = j
    /\ tools \in [link : Link, last : Link, catalog : Link,
                  session : Link \cup {NotReading}, refresh : SUBSET Link]
    /\ life \in [phase : {"active", "retiring", "retired"},
                 retire : {"no", "draining", "releasing", "failed"},
                 waits : SUBSET Session, failed : BOOLEAN]
    /\ fails \in 0..MaxFail

Init ==
    /\ ses = [s \in Session |-> Fresh]
    /\ owner = [s \in Session |-> NoWorkspace]
    /\ prepared = {} /\ ops = <<>>
    /\ tools = [link |-> 0, last |-> 0, catalog |-> 0,
                session |-> NotReading, refresh |-> {}]
    /\ life = [phase |-> "active", retire |-> "no", waits |-> {},
               failed |-> FALSE]
    /\ fails = 0

-----------------------------------------------------------------------------
Held == {s \in Session : ses[s].stage \in {"opening", "open", "failed"}}

Leased(s) == ses[s].lease \/ ses[s].calls > 0

(* Without a link nothing that needs the Worker succeeds. *)
MayFail ==
    \/ tools.link = 0 /\ UNCHANGED fails
    \/ fails < MaxFail /\ fails' = fails + 1

Operation(op, s, w) == [op |-> op, session |-> s, workspace |-> w]

(* Mutation: a release that is under way is started again. *)
ReleasingAgain(r) ==
    [r EXCEPT !.active = FALSE, !.aborted = TRUE, !.closing = "waiting"]

(* #release: at most one at a time, and nothing new from here on. *)
Releasing(r) ==
    IF r.closing # "no" THEN r
    ELSE [r EXCEPT !.active = FALSE, !.aborted = TRUE, !.closing = "waiting"]

-----------------------------------------------------------------------------
(* The stream of a session. *)

Open(s) ==
    /\ life.phase = "active" /\ ses[s].stage = "none"
    /\ ses' = [ses EXCEPT ![s].stage = "opening", ![s].lease = TRUE]
    /\ \E w \in Workspace : ops' = Append(ops, Operation("open", s, w))
    /\ UNCHANGED <<owner, prepared, tools, life, fails>>

Activate(s) ==
    /\ life.phase = "active" /\ ses[s].stage = "open"
    /\ ses[s].closing = "no" /\ ~ses[s].aborted /\ ~ses[s].gone
    /\ ses' = [ses EXCEPT ![s].active = TRUE]
    /\ UNCHANGED <<owner, prepared, ops, tools, life, fails>>

Close(s) ==
    /\ ses[s].stage = "open" /\ ~ses[s].gone
    /\ ses' = [ses EXCEPT ![s] = Releasing(@)]
    /\ UNCHANGED <<owner, prepared, ops, tools, life, fails>>

Disconnect(s) ==
    /\ s \in Held /\ ~ses[s].gone
    /\ ses' = [ses EXCEPT ![s] =
                Releasing([@ EXCEPT !.gone = TRUE, !.aborted = TRUE])]
    /\ UNCHANGED <<owner, prepared, ops, tools, life, fails>>

(* validate(): a call is admitted under the session. *)
Call(s) ==
    /\ life.phase = "active" /\ ses[s].active
    /\ ses[s].closing = "no" /\ ~ses[s].aborted /\ ~ses[s].released
    /\ ses[s].calls < MaxCalls
    /\ ses' = [ses EXCEPT ![s].calls = @ + 1]
    /\ UNCHANGED <<owner, prepared, ops, tools, life, fails>>

CallEnds(s) ==
    /\ ses[s].calls > 0
    /\ ses' = [ses EXCEPT ![s].calls = @ - 1]
    /\ UNCHANGED <<owner, prepared, ops, tools, life, fails>>

-----------------------------------------------------------------------------
(* A release, once its opening has settled and its calls have drained. *)

(* It has settled: retire() and the opener that wait for it go on. *)
Settled(s, r, ok) ==
    /\ ses' = [ses EXCEPT ![s] =
                [r EXCEPT !.closing = "no", !.lease = FALSE,
                          !.stage = IF ok THEN "over" ELSE @]]
    /\ life' = [life EXCEPT !.waits = @ \ {s},
                            !.failed = @ \/ (~ok /\ s \in life.waits)]

(* The workspace is released; the stream is closed, which may fail too. *)
Notified(s) ==
    LET r == [ses[s] EXCEPT !.released = TRUE]
    IN  \/ Settled(s, r, TRUE) /\ UNCHANGED fails
        \/ Settled(s, r, FALSE) /\ MayFail

(* Mutation: a release does not wait for the calls of the session. *)
DrainedAtOnce(s) == TRUE

Drained(s) == ses[s].calls = 0

Proceed(s) ==
    /\ ses[s].closing = "waiting" /\ Drained(s)
    /\ ses[s].stage \in {"open", "failed"}
    /\ IF ses[s].released
       THEN Notified(s) /\ UNCHANGED ops
       ELSE /\ ops' = Append(ops, Operation("release", s, NoWorkspace))
            /\ ses' = [ses EXCEPT ![s].closing = "queued"]
            /\ UNCHANGED <<life, fails>>
    /\ UNCHANGED <<owner, prepared, tools>>

-----------------------------------------------------------------------------
(* The chain of operations on the workspaces. *)

HeadIs(op, s) ==
    ops # <<>> /\ Head(ops).op = op /\ Head(ops).session = s

(* The opening failed or was undone: the workspace it may hold goes first. *)
Undo(s) ==
    ops' = Append(Tail(ops), Operation("undo", s, NoWorkspace))

PrepareAnswered(s) ==
    /\ HeadIs("open", s) /\ tools.session = NotReading
    /\ \/ /\ tools.link # 0
          /\ owner' = [owner EXCEPT ![s] = Head(ops).workspace]
          /\ prepared' = prepared \cup {Head(ops).workspace}
          /\ tools' = [tools EXCEPT !.session = tools.link]
          /\ UNCHANGED <<ops, fails>>
       \/ Undo(s) /\ MayFail /\ UNCHANGED <<owner, prepared, tools>>
    /\ UNCHANGED <<ses, life>>

(* Mutation: whatever answers last is the catalog. *)
RefreshedAnyhow(link) == link

(* A catalog that was read from another link is dropped. *)
Refreshed(link) == IF tools.link = link THEN link ELSE tools.catalog

(* Mutation: the lease is held as long as the stream lives. *)
OpenedWithLease(r) ==
    LET q == [r EXCEPT !.stage = "open"]
    IN  IF r.gone THEN Releasing(q) ELSE q

(* The opener goes on: a stream that is gone is released at once, and the  *)
(* lease of the opener is kept meanwhile.                                  *)
Opened(r) ==
    LET q == [r EXCEPT !.stage = "open"]
    IN  IF r.gone THEN Releasing(q) ELSE [q EXCEPT !.lease = FALSE]

ToolsAnswered(s) ==
    /\ HeadIs("open", s) /\ tools.session # NotReading
    /\ \/ /\ ops' = Tail(ops)
          /\ ses' = [ses EXCEPT ![s] = Opened(@)]
          /\ tools' = [tools EXCEPT !.session = NotReading,
                                    !.catalog = Refreshed(tools.session)]
          /\ UNCHANGED fails
       \/ /\ Undo(s) /\ MayFail
          /\ tools' = [tools EXCEPT !.session = NotReading]
          /\ UNCHANGED ses
    /\ UNCHANGED <<owner, prepared, life>>

(* Mutation: every session that is released takes its workspace along. *)
SharedNever(s) == FALSE

Shared(s) == \E t \in Session \ {s} : owner[t] = owner[s]

(* Mutation: a failed release forgets who owned the workspace. *)
ReleaseFailedForgets(s) ==
    owner' = [owner EXCEPT ![s] = NoWorkspace] /\ UNCHANGED prepared

(* The answer was lost: the Worker may have released it or not. *)
ReleaseFailed(s) ==
    UNCHANGED owner /\ prepared' \in {prepared, prepared \ {owner[s]}}

Released(s) ==
    /\ owner[s] = NoWorkspace \/ Shared(s) \/ tools.link # 0
    /\ owner' = [owner EXCEPT ![s] = NoWorkspace]
    /\ prepared' = IF owner[s] = NoWorkspace \/ Shared(s) THEN prepared
                   ELSE prepared \ {owner[s]}

NotReleased(s) ==
    /\ owner[s] # NoWorkspace /\ ~Shared(s)
    /\ MayFail /\ ReleaseFailed(s)

(* Either way the opening has failed, and the session owes its release. *)
UndoAnswered(s) ==
    /\ HeadIs("undo", s)
    /\ ops' = Tail(ops)
    /\ (Released(s) /\ UNCHANGED fails) \/ NotReleased(s)
    /\ ses' = [ses EXCEPT ![s] = Releasing([@ EXCEPT !.stage = "failed"])]
    /\ UNCHANGED <<tools, life>>

ReleaseAnswered(s) ==
    /\ HeadIs("release", s)
    /\ ops' = Tail(ops)
    /\ \/ Released(s) /\ Notified(s)
       \/ NotReleased(s) /\ Settled(s, ses[s], FALSE)
    /\ UNCHANGED tools

-----------------------------------------------------------------------------
(* The link to the Worker, and the refresh when the Instance gets ready. *)

LinkBreaks ==
    /\ tools.link # 0 /\ tools' = [tools EXCEPT !.link = 0]
    /\ UNCHANGED <<ses, owner, prepared, ops, life, fails>>

LinkOpens ==
    /\ tools.last < MaxLink
    /\ tools' = [tools EXCEPT !.link = tools.last + 1, !.last = tools.last + 1]
    /\ UNCHANGED <<ses, owner, prepared, ops, life, fails>>

RefreshTools ==
    /\ life.phase = "active" /\ tools.link # 0
    /\ tools' = [tools EXCEPT !.refresh = @ \cup {tools.link}]
    /\ UNCHANGED <<ses, owner, prepared, ops, life, fails>>

RefreshAnswered(l) ==
    /\ l \in tools.refresh
    /\ tools' = [tools EXCEPT !.refresh = @ \ {l}, !.catalog = Refreshed(l)]
    /\ UNCHANGED <<ses, owner, prepared, ops, life, fails>>

-----------------------------------------------------------------------------
(* retire(): no more leases, the drain, and the sessions that are left. *)

Retire ==
    /\ life.phase # "retired" /\ life.retire \in {"no", "failed"}
    /\ life' = [life EXCEPT !.phase = "retiring", !.retire = "draining",
                            !.failed = FALSE]
    /\ ses' = [s \in Session |-> IF s \in Held
                                 THEN [ses[s] EXCEPT !.aborted = TRUE]
                                 ELSE ses[s]]
    /\ UNCHANGED <<owner, prepared, ops, tools, fails>>

LeasesOver == \A s \in Session : ~Leased(s)

ReleaseAll ==
    /\ life.retire = "draining" /\ LeasesOver
    /\ life' = [life EXCEPT !.retire = "releasing", !.waits = Held]
    /\ ses' = [s \in Session |-> IF s \in Held THEN Releasing(ses[s])
                                 ELSE ses[s]]
    /\ UNCHANGED <<owner, prepared, ops, tools, fails>>

(* Mutation: a release that failed does not keep the Instance. *)
RetireSucceedsAnyhow == TRUE

RetireSucceeds == ~life.failed

(* The rest of the state is closed, which may fail as well. *)
RetireEnds ==
    /\ life.retire = "releasing" /\ life.waits = {}
    /\ \/ /\ RetireSucceeds
          /\ life' = [life EXCEPT !.phase = "retired", !.retire = "no"]
          /\ UNCHANGED fails
       \/ /\ RetireSucceeds /\ MayFail
          /\ life' = [life EXCEPT !.retire = "failed"]
       \/ /\ ~RetireSucceeds
          /\ life' = [life EXCEPT !.retire = "failed"]
          /\ UNCHANGED fails
    /\ UNCHANGED <<ses, owner, prepared, ops, tools>>

-----------------------------------------------------------------------------
Stream(s) == Open(s) \/ Activate(s) \/ Close(s) \/ Disconnect(s) \/ Call(s)
Progress(s) ==
    \/ CallEnds(s) \/ Proceed(s) \/ PrepareAnswered(s) \/ ToolsAnswered(s)
    \/ UndoAnswered(s) \/ ReleaseAnswered(s)

Next ==
    \/ \E s \in Session : Stream(s) \/ Progress(s)
    \/ LinkBreaks \/ LinkOpens \/ RefreshTools \/ \E l \in Link : RefreshAnswered(l)
    \/ Retire \/ ReleaseAll \/ RetireEnds

(* Calls end when their signal is aborted, and the Worker answers or its   *)
(* link breaks; nobody has to open, close or call anything.                *)
Fairness ==
    /\ \A s \in Session : WF_vars(Progress(s))
    /\ WF_vars(ReleaseAll) /\ WF_vars(RetireEnds)

Spec == Init /\ [][Next]_vars /\ Fairness

-----------------------------------------------------------------------------
(* A session that is active or has calls has its workspace: it is the      *)
(* owner, and whatever other sessions on the same workspace were opened,   *)
(* closed or undone, the Worker still holds it.                            *)
CallsHaveWorkspace ==
    \A s \in Session :
        ses[s].active \/ ses[s].calls > 0 => owner[s] \in prepared

(* No release is forgotten.  Every workspace the Worker has confirmed and  *)
(* still holds is owned by a session that is kept for its release, through *)
(* failed openings, failed releases and lost streams; so nothing is left   *)
(* of an Instance that has retired.                                        *)
NoReleaseForgotten ==
    /\ \A w \in prepared : \E s \in Held : owner[s] = w
    /\ life.phase = "retired" => Held = {} /\ prepared = {}

(* The catalog is never replaced by that of an older link. *)
CatalogNeverOlder == [][tools'.catalog >= tools.catalog]_vars

(* retire() returns, or it fails and can be repeated. *)
RetireSettles ==
    life.retire \in {"draining", "releasing"} ~>
        life.retire \in {"no", "failed"}
=============================================================================
