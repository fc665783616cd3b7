------------------------- MODULE WorkerSessions_proofs -------------------------
(***************************************************************************)
(* The safety of WorkerSessions for any sets of sessions and workspaces    *)
(* and any bounds: typing and CallsHaveWorkspace first, then the releases  *)
(* that are owed (Owed) and the catalog (LinksAreNumbered).                *)
(*                                                                         *)
(* CallsHaveWorkspace is not inductive: Activate makes a session active    *)
(* that was not, and the chain takes workspaces away.  IInv adds what the  *)
(* operations of the chain say about their sessions: a queued release has  *)
(* a session without calls that admits none, an opening has one that was   *)
(* never open, and while an opening reads the catalog it has its workspace.*)
(***************************************************************************)
EXTENDS WorkerSessions, TLAPS

(* What waits in the chain is what its session waits for. *)
Matches(o) ==
    IF o.op = "release"
    THEN /\ ses[o.session].closing = "queued"
         /\ ses[o.session].stage \in {"open", "failed"}
         /\ ses[o.session].calls = 0
    ELSE /\ ses[o.session].stage = "opening"
         /\ o.op = "open" => o.workspace \in Workspace

OpsMatch == \A i \in DOMAIN ops : Matches(ops[i])

ClosingIsQuiet ==
    \A s \in Session :
        ses[s].closing # "no" => ~ses[s].active /\ ses[s].aborted

UsedIsOpen ==
    \A s \in Session :
        ses[s].active \/ ses[s].calls > 0 => ses[s].stage = "open"

ReaderHasWorkspace ==
    tools.session # NotReading =>
        /\ ops # <<>> /\ Head(ops).op = "open"
        /\ owner[Head(ops).session] \in prepared

OpenHasWorkspace ==
    \A s \in Session :
        ses[s].stage = "open" /\ ~ses[s].aborted => owner[s] \in prepared

IInv ==
    /\ TypeOK
    /\ OpsMatch
    /\ ClosingIsQuiet
    /\ UsedIsOpen
    /\ ReaderHasWorkspace
    /\ OpenHasWorkspace
    /\ CallsHaveWorkspace
-----------------------------------------------------------------------------
(* The chain as a sequence: what Append and Tail do to its indices.        *)

LEMMA AppendIndices ==
    ASSUME NEW S, NEW q \in Seq(S), NEW e \in S
    PROVE  /\ Append(q, e) \in Seq(S) /\ Append(q, e) # <<>>
           /\ DOMAIN Append(q, e) = DOMAIN q \cup {Len(q) + 1}
           /\ Len(q) + 1 \notin DOMAIN q
           /\ \A i \in DOMAIN q : Append(q, e)[i] = q[i]
           /\ Append(q, e)[Len(q) + 1] = e
           /\ q # <<>> => Head(Append(q, e)) = Head(q)
<1>1. DOMAIN q = 1..Len(q) /\ Len(q) \in Nat
  OBVIOUS
<1>2. /\ Append(q, e) \in Seq(S)
      /\ Len(Append(q, e)) = Len(q) + 1
      /\ \A i \in 1..Len(q) : Append(q, e)[i] = q[i]
      /\ Append(q, e)[Len(q) + 1] = e
  OBVIOUS
<1>3. DOMAIN Append(q, e) = 1..(Len(q) + 1)
  BY <1>2
<1>4. Append(q, e) # <<>>
  BY <1>1, <1>2
<1>5. ASSUME q # <<>> PROVE Head(Append(q, e)) = Head(q)
  <2>1. 1 \in 1..Len(q)
    BY <1>5, <1>1
  <2>2. Head(q) = q[1] /\ Head(Append(q, e)) = Append(q, e)[1]
    BY <1>5, <1>2, <1>4
  <2> QED
    BY <2>1, <2>2, <1>2
<1> QED
  BY <1>1, <1>2, <1>3, <1>4, <1>5

LEMMA TailIndices ==
    ASSUME NEW S, NEW q \in Seq(S), q # <<>>
    PROVE  /\ Tail(q) \in Seq(S)
           /\ 1 \in DOMAIN q /\ Head(q) = q[1] /\ Head(q) \in S
           /\ \A i \in DOMAIN Tail(q) :
                /\ i + 1 \in DOMAIN q /\ i + 1 # 1 /\ i \in Int
                /\ Tail(q)[i] = q[i + 1]
OBVIOUS

THEOREM Initially == Init => IInv
BY SessionsAssumption
DEF Init, IInv, TypeOK, OpsMatch, Matches, ClosingIsQuiet, UsedIsOpen,
    ReaderHasWorkspace, OpenHasWorkspace, CallsHaveWorkspace, Fresh, Link, NotReading
-----------------------------------------------------------------------------
(* Steps that leave the chain and the workspaces alone.                    *)

SesRec ==
    [stage : {"none", "opening", "open", "failed", "over"},
     active : BOOLEAN, aborted : BOOLEAN, gone : BOOLEAN,
     calls : 0..MaxCalls, closing : {"no", "waiting", "queued"},
     released : BOOLEAN, lease : BOOLEAN]

LifeRec ==
    [phase : {"active", "retiring", "retired"},
     retire : {"no", "draining", "releasing", "failed"},
     waits : SUBSET Session, failed : BOOLEAN]

OpRec ==
    [op : {"open", "undo", "release"}, session : Session,
     workspace : Workspace \cup {NoWorkspace}]

ToolsRec ==
    [link : Link, last : Link, catalog : Link,
     session : Link \cup {NotReading}, refresh : SUBSET Link]

(* What a session may become so that nothing of IInv is disturbed. *)
Harmless(s, r) ==
    /\ r.closing # "no" => ~r.active /\ r.aborted
    /\ r.active \/ r.calls > 0 => r.stage = "open" /\ owner[s] \in prepared
    /\ r.stage = "open" /\ ~r.aborted => owner[s] \in prepared
    /\ ses[s].closing = "queued" /\ ses[s].calls = 0 =>
          r.closing = "queued" /\ r.calls = 0 /\ r.stage = ses[s].stage
    /\ ses[s].stage = "opening" => r.stage = "opening"

LEMMA Typed ==
    ASSUME IInv, NEW s \in Session
    PROVE  ses \in [Session -> SesRec] /\ ses[s] \in SesRec
<1>1. ses \in [Session -> SesRec]
  BY DEF IInv, TypeOK, SesRec
<1> QED
  BY <1>1

LEMMA TypedRest ==
    ASSUME IInv
    PROVE  /\ owner \in [Session -> Workspace \cup {NoWorkspace}]
           /\ prepared \subseteq Workspace
           /\ ops \in Seq(OpRec)
           /\ \A i, j \in DOMAIN ops : ops[i].session = ops[j].session => i = j
           /\ tools \in ToolsRec
           /\ life \in LifeRec /\ fails \in 0..MaxFail
BY DEF IInv, TypeOK, OpRec, ToolsRec, LifeRec

LEMMA OpTyped ==
    ASSUME IInv, NEW i \in DOMAIN ops
    PROVE  ops[i] \in OpRec /\ ops[i].session \in Session
<1>1. ops \in Seq(OpRec)
  BY TypedRest
<1>2. ops[i] \in OpRec
  BY <1>1
<1> QED
  BY <1>2 DEF OpRec

(* A step after which every session is what it may become. *)
LEMMA AllSessions ==
    ASSUME IInv, ses' \in [Session -> SesRec],
           \A s \in Session : Harmless(s, ses'[s]),
           UNCHANGED <<owner, prepared, ops, tools>>,
           life' \in LifeRec, fails' \in 0..MaxFail
    PROVE  IInv'
<1>1. TypeOK'
  BY DEF IInv, TypeOK, SesRec, LifeRec
<1>2. OpsMatch'
  <2> SUFFICES ASSUME NEW i \in DOMAIN ops
               PROVE  Matches(ops[i])'
    BY DEF OpsMatch
  <2>1. ops[i].session \in Session
    BY OpTyped
  <2> QED
    BY <2>1 DEF IInv, OpsMatch, Matches, Harmless
<1>3. ClosingIsQuiet' /\ UsedIsOpen'
  BY DEF ClosingIsQuiet, UsedIsOpen, Harmless
<1>4. ReaderHasWorkspace'
  BY DEF IInv, ReaderHasWorkspace
<1>5. OpenHasWorkspace' /\ CallsHaveWorkspace'
  BY DEF OpenHasWorkspace, CallsHaveWorkspace, Harmless
<1> QED
  BY <1>1, <1>2, <1>3, <1>4, <1>5 DEF IInv

LEMMA OneSession ==
    ASSUME IInv, NEW s \in Session, NEW r \in SesRec, Harmless(s, r),
           ses' = [ses EXCEPT ![s] = r],
           UNCHANGED <<owner, prepared, ops, tools>>,
           life' \in LifeRec, fails' \in 0..MaxFail
    PROVE  IInv'
<1>1. ses' \in [Session -> SesRec] /\ ses'[s] = r
  BY Typed
<1>2. ASSUME NEW t \in Session, t # s
      PROVE  Harmless(t, ses'[t])
  <2>1. ses'[t] = ses[t]
    BY <1>2, Typed
  <2> QED
    BY <1>2, <2>1 DEF IInv, Harmless, ClosingIsQuiet, UsedIsOpen,
       OpenHasWorkspace, CallsHaveWorkspace
<1> QED
  BY <1>1, <1>2, AllSessions

LEMMA StreamSteps ==
    ASSUME IInv, NEW s \in Session,
           Activate(s) \/ Close(s) \/ Disconnect(s) \/ Call(s) \/ CallEnds(s)
    PROVE  IInv'
<1>1. CASE Activate(s)
  <2> DEFINE r == [ses[s] EXCEPT !.active = TRUE]
  <2>1. r \in SesRec
    BY Typed DEF SesRec
  <2>2. Harmless(s, r)
    BY <1>1, Typed DEF Activate, IInv, SesRec, Harmless, OpenHasWorkspace,
       ClosingIsQuiet, CallsHaveWorkspace
  <2> QED
    BY <1>1, <2>1, <2>2, OneSession, TypedRest DEF Activate
<1>2. CASE Close(s)
  <2>1. Releasing(ses[s]) \in SesRec
    BY Typed DEF Releasing, SesRec
  <2>2. Harmless(s, Releasing(ses[s]))
    BY <1>2, Typed DEF Close, Releasing, IInv, SesRec, Harmless, UsedIsOpen,
       OpenHasWorkspace, ClosingIsQuiet, CallsHaveWorkspace
  <2> QED
    BY <1>2, <2>1, <2>2, OneSession, TypedRest DEF Close
<1>3. CASE Disconnect(s)
  <2> DEFINE r == Releasing([ses[s] EXCEPT !.gone = TRUE, !.aborted = TRUE])
  <2>1. r \in SesRec
    BY <1>3, Typed DEF Disconnect, Releasing, SesRec
  <2>2. Harmless(s, r)
    BY <1>3, Typed DEF Disconnect, Releasing, IInv, SesRec, Harmless,
       UsedIsOpen, OpenHasWorkspace, ClosingIsQuiet, CallsHaveWorkspace
  <2> QED
    BY <1>3, <2>1, <2>2, OneSession, TypedRest DEF Disconnect
<1>4. CASE Call(s)
  <2> DEFINE r == [ses[s] EXCEPT !.calls = @ + 1]
  <2>1. r \in SesRec
    BY <1>4, Typed, SessionsAssumption DEF Call, SesRec
  <2>2. Harmless(s, r)
    BY <1>4, Typed, SessionsAssumption DEF Call, IInv, SesRec, Harmless,
       UsedIsOpen, OpenHasWorkspace, ClosingIsQuiet, CallsHaveWorkspace
  <2> QED
    BY <1>4, <2>1, <2>2, OneSession, TypedRest DEF Call
<1>5. CASE CallEnds(s)
  <2> DEFINE r == [ses[s] EXCEPT !.calls = @ - 1]
  <2>1. r \in SesRec
    BY <1>5, Typed, SessionsAssumption DEF CallEnds, SesRec
  <2>2. Harmless(s, r)
    BY <1>5, Typed, SessionsAssumption DEF CallEnds, IInv, SesRec, Harmless,
       UsedIsOpen, OpenHasWorkspace, ClosingIsQuiet, CallsHaveWorkspace
  <2> QED
    BY <1>5, <2>1, <2>2, OneSession, TypedRest DEF CallEnds
<1> QED
  BY <1>1, <1>2, <1>3, <1>4, <1>5

LEMMA MayFailTyped ==
    ASSUME IInv, MayFail
    PROVE  fails' \in 0..MaxFail
BY TypedRest, SessionsAssumption DEF MayFail

LEMMA RetireSteps ==
    ASSUME IInv, Retire \/ ReleaseAll \/ RetireEnds
    PROVE  IInv'
<1>1. CASE Retire
  <2>1. ASSUME NEW s \in Session
        PROVE  [ses[s] EXCEPT !.aborted = TRUE] \in SesRec /\ ses[s] \in SesRec
    BY Typed DEF SesRec
  <2>3. ses' \in [Session -> SesRec]
    BY <1>1, <2>1 DEF Retire
  <2>4. life' \in LifeRec
    BY <1>1, TypedRest DEF Retire, LifeRec
  <2>2. ASSUME NEW s \in Session PROVE Harmless(s, ses'[s])
    BY <1>1, <2>2, Typed DEF Retire, IInv, SesRec, Harmless, ClosingIsQuiet,
       UsedIsOpen, OpenHasWorkspace, CallsHaveWorkspace
  <2> QED
    BY <1>1, <2>2, <2>3, <2>4, AllSessions, TypedRest DEF Retire
<1>2. CASE ReleaseAll
  <2>4. ASSUME NEW s \in Session
        PROVE  Releasing(ses[s]) \in SesRec /\ ses[s] \in SesRec
    BY Typed DEF Releasing, SesRec
  <2>1. ses' \in [Session -> SesRec]
    BY <1>2, <2>4 DEF ReleaseAll
  <2>2. life' \in LifeRec
    BY <1>2, TypedRest DEF ReleaseAll, LifeRec, Held
  <2>3. ASSUME NEW s \in Session PROVE Harmless(s, ses'[s])
    BY <1>2, <2>3, Typed DEF ReleaseAll, Releasing, IInv, SesRec, Harmless,
       ClosingIsQuiet, UsedIsOpen, OpenHasWorkspace, CallsHaveWorkspace
  <2> QED
    BY <1>2, <2>1, <2>2, <2>3, AllSessions, TypedRest DEF ReleaseAll
<1>3. CASE RetireEnds
  <2>1. life' \in LifeRec
    BY <1>3, TypedRest DEF RetireEnds, LifeRec
  <2>4. fails' \in 0..MaxFail
    BY <1>3, TypedRest, MayFailTyped DEF RetireEnds
  <2>2. ses' \in [Session -> SesRec]
    BY <1>3 DEF RetireEnds, IInv, TypeOK, SesRec
  <2>3. ASSUME NEW s \in Session PROVE Harmless(s, ses'[s])
    BY <1>3, <2>3 DEF RetireEnds, IInv, Harmless, ClosingIsQuiet, UsedIsOpen,
       OpenHasWorkspace, CallsHaveWorkspace
  <2> QED
    BY <1>3, <2>1, <2>2, <2>3, <2>4, AllSessions DEF RetireEnds
<1> QED
  BY <1>1, <1>2, <1>3

LEMMA LinkSteps ==
    ASSUME IInv,
           LinkBreaks \/ LinkOpens \/ RefreshTools
             \/ \E l \in Link : RefreshAnswered(l)
    PROVE  IInv'
<1>1. /\ tools'.session = tools.session
      /\ UNCHANGED <<ses, owner, prepared, ops, life, fails>>
  BY DEF IInv, TypeOK, LinkBreaks, LinkOpens, RefreshTools, RefreshAnswered
<1>2. tools' \in ToolsRec
  <2>1. 0 \in Link /\ tools \in ToolsRec
    BY TypedRest, SessionsAssumption DEF Link
  <2>2. CASE LinkBreaks
    BY <2>1, <2>2 DEF LinkBreaks, ToolsRec
  <2>3. CASE LinkOpens
    <3>1. tools.last + 1 \in Link
      BY <2>1, <2>3, SessionsAssumption DEF LinkOpens, ToolsRec, Link
    <3> QED
      BY <2>1, <2>3, <3>1 DEF LinkOpens, ToolsRec
  <2>4. CASE RefreshTools
    BY <2>1, <2>4 DEF RefreshTools, ToolsRec
  <2>5. CASE \E l \in Link : RefreshAnswered(l)
    BY <2>1, <2>5 DEF RefreshAnswered, Refreshed, ToolsRec
  <2> QED
    BY <2>2, <2>3, <2>4, <2>5
<1>3. TypeOK'
  BY <1>1, <1>2 DEF IInv, TypeOK, ToolsRec
<1> QED
  BY <1>1, <1>3 DEF IInv, OpsMatch, Matches, ClosingIsQuiet, UsedIsOpen,
     ReaderHasWorkspace, OpenHasWorkspace, CallsHaveWorkspace

-----------------------------------------------------------------------------
(* Steps of the chain.                                                     *)

(* What Matches says of an operation after the step. *)
WillMatch(o) ==
    IF o.op = "release"
    THEN /\ ses'[o.session].closing = "queued"
         /\ ses'[o.session].stage \in {"open", "failed"}
         /\ ses'[o.session].calls = 0
    ELSE /\ ses'[o.session].stage = "opening"
         /\ o.op = "open" => o.workspace \in Workspace

(* A chain in which no operation is that of s. *)
Chain(q, s) ==
    /\ q \in Seq(OpRec)
    /\ \A i, j \in DOMAIN q : q[i].session = q[j].session => i = j
    /\ \A i \in DOMAIN q : q[i].session # s
    /\ \A i \in DOMAIN q : WillMatch(q[i])

LEMMA Popped ==
    ASSUME IInv, ops # <<>>,
           \A t \in Session \ {Head(ops).session} : ses'[t] = ses[t]
    PROVE  Chain(Tail(ops), Head(ops).session)
<1> DEFINE q == Tail(ops)
<1>1. ops \in Seq(OpRec)
  BY TypedRest
<1>2. /\ q \in Seq(OpRec)
      /\ 1 \in DOMAIN ops /\ Head(ops) = ops[1]
      /\ \A i \in DOMAIN q :
           i + 1 \in DOMAIN ops /\ i + 1 # 1 /\ i \in Int /\ q[i] = ops[i + 1]
  BY <1>1, TailIndices
<1>3. \A i, j \in DOMAIN q : q[i].session = q[j].session => i = j
  <2> SUFFICES ASSUME NEW i \in DOMAIN q, NEW j \in DOMAIN q,
                      q[i].session = q[j].session
               PROVE  i = j
    OBVIOUS
  <2>1. i + 1 = j + 1
    BY <1>2, TypedRest
  <2> QED
    BY <2>1, <1>2
<1>4. ASSUME NEW i \in DOMAIN q
      PROVE  q[i].session # Head(ops).session /\ WillMatch(q[i])
  <2>1. q[i].session # Head(ops).session
    BY <1>2, TypedRest
  <2>2. q[i].session \in Session /\ Matches(q[i])
    BY <1>2, OpTyped DEF IInv, OpsMatch
  <2> QED
    BY <2>1, <2>2 DEF Matches, WillMatch
<1> QED
  BY <1>2, <1>3, <1>4 DEF Chain

LEMMA NoneOf ==
    ASSUME IInv, NEW s \in Session, ses[s].stage # "opening",
           ses[s].closing # "queued" \/ ses[s].stage \notin {"open", "failed"},
           \A t \in Session \ {s} : ses'[t] = ses[t]
    PROVE  Chain(ops, s)
<1>1. ASSUME NEW i \in DOMAIN ops
      PROVE  ops[i].session # s /\ WillMatch(ops[i])
  <2>1. ops[i].session \in Session /\ Matches(ops[i])
    BY OpTyped DEF IInv, OpsMatch
  <2> QED
    BY <2>1 DEF Matches, WillMatch
<1> QED
  BY <1>1, TypedRest DEF Chain

LEMMA Pushed ==
    ASSUME NEW s, NEW q, Chain(q, s), NEW e \in OpRec, e.session = s, WillMatch(e),
           ops' = Append(q, e)
    PROVE  /\ ops' \in Seq(OpRec) /\ OpsMatch'
           /\ \A i, j \in DOMAIN ops' : ops'[i].session = ops'[j].session => i = j
<1>1. /\ ops' \in Seq(OpRec)
      /\ DOMAIN ops' = DOMAIN q \cup {Len(q) + 1}
      /\ \A i \in DOMAIN q : ops'[i] = q[i]
      /\ ops'[Len(q) + 1] = e
  BY AppendIndices DEF Chain
<1>2. OpsMatch'
  BY <1>1 DEF Chain, OpsMatch, Matches, WillMatch
<1>3. ASSUME NEW i \in DOMAIN ops', NEW j \in DOMAIN ops',
             ops'[i].session = ops'[j].session
      PROVE  i = j
  BY <1>1, <1>3 DEF Chain
<1> QED
  BY <1>1, <1>2, <1>3

(* What a session may become in a step that changes the workspaces. *)
Sound(s, r) ==
    /\ r.closing # "no" => ~r.active /\ r.aborted
    /\ r.active \/ r.calls > 0 => r.stage = "open" /\ owner'[s] \in prepared'
    /\ r.stage = "open" /\ ~r.aborted => owner'[s] \in prepared'

LEMMA OthersKeep ==
    ASSUME IInv, NEW s \in Session, NEW r \in SesRec, Sound(s, r),
           ses' = [ses EXCEPT ![s] = r],
           \A t \in Session \ {s} : owner[t] \in prepared => owner'[t] \in prepared'
    PROVE  /\ ses' \in [Session -> SesRec]
           /\ \A t \in Session \ {s} : ses'[t] = ses[t]
           /\ ClosingIsQuiet' /\ UsedIsOpen'
           /\ OpenHasWorkspace' /\ CallsHaveWorkspace'
<1>1. /\ ses' \in [Session -> SesRec] /\ ses'[s] = r
      /\ \A t \in Session \ {s} : ses'[t] = ses[t]
  BY Typed
<1>2. ClosingIsQuiet' /\ UsedIsOpen'
  BY <1>1 DEF IInv, ClosingIsQuiet, UsedIsOpen, Sound
<1>3. OpenHasWorkspace' /\ CallsHaveWorkspace'
  BY <1>1 DEF IInv, OpenHasWorkspace, CallsHaveWorkspace, Sound
<1> QED
  BY <1>1, <1>2, <1>3

(* The typing of the parts is that of the whole. *)
LEMMA Whole ==
    ASSUME ses' \in [Session -> SesRec],
           owner' \in [Session -> Workspace \cup {NoWorkspace}],
           prepared' \subseteq Workspace,
           ops' \in Seq(OpRec),
           \A i, j \in DOMAIN ops' : ops'[i].session = ops'[j].session => i = j,
           tools' \in ToolsRec, life' \in LifeRec, fails' \in 0..MaxFail
    PROVE  TypeOK'
BY DEF TypeOK, SesRec, OpRec, ToolsRec, LifeRec

LEMMA OpenStep ==
    ASSUME IInv, NEW s \in Session, Open(s)
    PROVE  IInv'
<1> DEFINE r == [ses[s] EXCEPT !.stage = "opening", !.lease = TRUE]
<1>1. r \in SesRec /\ ses' = [ses EXCEPT ![s] = r]
  BY Typed DEF Open, SesRec
<1>2. Sound(s, r)
  BY Typed DEF Open, Sound, SesRec, IInv, ClosingIsQuiet, UsedIsOpen
<1>3. /\ ses' \in [Session -> SesRec]
      /\ \A t \in Session \ {s} : ses'[t] = ses[t]
      /\ ClosingIsQuiet' /\ UsedIsOpen' /\ OpenHasWorkspace' /\ CallsHaveWorkspace'
  <2>1. UNCHANGED <<owner, prepared>>
    BY DEF Open
  <2> QED
    BY <1>1, <1>2, <2>1, OthersKeep
<1>4. PICK e \in OpRec : /\ e.op = "open" /\ e.session = s
                        /\ e.workspace \in Workspace /\ ops' = Append(ops, e)
  BY DEF Open, Operation, OpRec
<1>5. Chain(ops, s)
  BY <1>3, NoneOf DEF Open
<1>6. WillMatch(e)
  BY <1>1, <1>4, Typed DEF WillMatch
<1>7. /\ ops' \in Seq(OpRec) /\ OpsMatch'
      /\ \A i, j \in DOMAIN ops' : ops'[i].session = ops'[j].session => i = j
  BY <1>4, <1>5, <1>6, Pushed
<1>8. TypeOK'
  BY <1>3, <1>7, TypedRest, Whole DEF Open
<1>9. ReaderHasWorkspace'
  BY <1>4, TypedRest, AppendIndices DEF Open, IInv, ReaderHasWorkspace
<1> QED
  BY <1>3, <1>7, <1>8, <1>9 DEF IInv

(* The record of a session whose release has settled. *)
LEMMA SettledRecord ==
    ASSUME IInv, NEW s \in Session, NEW q \in SesRec, NEW ok \in BOOLEAN,
           Settled(s, q, ok)
    PROVE  /\ \E r \in SesRec :
                /\ ses' = [ses EXCEPT ![s] = r]
                /\ r.closing = "no" /\ r.stage \in {q.stage, "over"}
                /\ r.active = q.active /\ r.aborted = q.aborted
                /\ r.calls = q.calls
           /\ life' \in LifeRec
<1> DEFINE r == [q EXCEPT !.closing = "no", !.lease = FALSE,
                          !.stage = IF ok THEN "over" ELSE @]
<1>1. r \in SesRec /\ ses' = [ses EXCEPT ![s] = r]
  BY DEF Settled, SesRec
<1>2. /\ r.closing = "no" /\ r.stage \in {q.stage, "over"}
      /\ r.active = q.active /\ r.aborted = q.aborted /\ r.calls = q.calls
  BY DEF SesRec
<1>3. life' \in LifeRec
  BY TypedRest DEF Settled, LifeRec
<1> QED
  BY <1>1, <1>2, <1>3

LEMMA NotifiedRecord ==
    ASSUME IInv, NEW s \in Session, Notified(s)
    PROVE  /\ \E r \in SesRec :
                /\ ses' = [ses EXCEPT ![s] = r]
                /\ r.closing = "no" /\ r.stage \in {ses[s].stage, "over"}
                /\ r.active = ses[s].active /\ r.aborted = ses[s].aborted
                /\ r.calls = ses[s].calls
           /\ life' \in LifeRec /\ fails' \in 0..MaxFail
<1> DEFINE q == [ses[s] EXCEPT !.released = TRUE]
<1>1. /\ q \in SesRec /\ q.stage = ses[s].stage /\ q.active = ses[s].active
      /\ q.aborted = ses[s].aborted /\ q.calls = ses[s].calls
  BY Typed DEF SesRec
<1>2. /\ Settled(s, q, TRUE) \/ Settled(s, q, FALSE)
      /\ UNCHANGED fails \/ MayFail
  BY DEF Notified
<1>3. fails' \in 0..MaxFail
  BY <1>2, TypedRest, MayFailTyped
<1>4. /\ \E r \in SesRec :
           /\ ses' = [ses EXCEPT ![s] = r]
           /\ r.closing = "no" /\ r.stage \in {q.stage, "over"}
           /\ r.active = q.active /\ r.aborted = q.aborted
           /\ r.calls = q.calls
      /\ life' \in LifeRec
  <2>1. CASE Settled(s, q, TRUE)
    BY <1>1, <2>1, SettledRecord
  <2>2. CASE Settled(s, q, FALSE)
    BY <1>1, <2>2, SettledRecord
  <2> QED
    BY <1>2, <2>1, <2>2
<1> QED
  BY <1>1, <1>3, <1>4

LEMMA ProceedStep ==
    ASSUME IInv, NEW s \in Session, Proceed(s)
    PROVE  IInv'
<1>1. UNCHANGED <<owner, prepared, tools>> /\ ses[s].calls = 0
  BY DEF Proceed, Drained
<1>2. ~ses[s].active /\ ses[s].aborted
  BY DEF Proceed, IInv, ClosingIsQuiet
<1>3. CASE ses[s].released
  <2>1. Notified(s) /\ UNCHANGED ops
    BY <1>3 DEF Proceed
  <2>2. PICK r \in SesRec :
          /\ ses' = [ses EXCEPT ![s] = r] /\ r.closing = "no"
          /\ r.active = ses[s].active /\ r.aborted = ses[s].aborted
          /\ r.calls = ses[s].calls
    BY <2>1, NotifiedRecord
  <2>3. life' \in LifeRec /\ fails' \in 0..MaxFail
    BY <2>1, NotifiedRecord
  <2>4. Sound(s, r)
    BY <2>2, <1>1, <1>2 DEF Sound
  <2>5. /\ ses' \in [Session -> SesRec]
        /\ \A t \in Session \ {s} : ses'[t] = ses[t]
        /\ ClosingIsQuiet' /\ UsedIsOpen' /\ OpenHasWorkspace' /\ CallsHaveWorkspace'
    BY <2>2, <2>4, <1>1, OthersKeep
  <2>6. Chain(ops, s)
    BY <2>5, NoneOf DEF Proceed
  <2>7. OpsMatch'
    BY <2>1, <2>6 DEF Chain, OpsMatch, Matches, WillMatch
  <2>8. TypeOK'
    BY <2>1, <2>3, <2>5, <1>1, TypedRest, Whole
  <2>9. ReaderHasWorkspace'
    BY <2>1, <1>1 DEF IInv, ReaderHasWorkspace
  <2> QED
    BY <2>5, <2>7, <2>8, <2>9 DEF IInv
<1>4. CASE ~ses[s].released
  <2> DEFINE r == [ses[s] EXCEPT !.closing = "queued"]
             e == Operation("release", s, NoWorkspace)
  <2>1. /\ r \in SesRec /\ ses' = [ses EXCEPT ![s] = r]
        /\ ops' = Append(ops, e) /\ UNCHANGED <<life, fails>>
    BY <1>4, Typed DEF Proceed, SesRec
  <2>2. Sound(s, r)
    BY <1>1, <1>2, Typed DEF Sound, SesRec
  <2>3. /\ ses' \in [Session -> SesRec]
        /\ \A t \in Session \ {s} : ses'[t] = ses[t]
        /\ ClosingIsQuiet' /\ UsedIsOpen' /\ OpenHasWorkspace' /\ CallsHaveWorkspace'
    BY <2>1, <2>2, <1>1, OthersKeep
  <2>4. Chain(ops, s)
    BY <2>3, NoneOf DEF Proceed
  <2>5. e \in OpRec /\ e.session = s /\ e.op = "release"
    BY DEF Operation, OpRec
  <2>6. WillMatch(e)
    BY <2>1, <2>5, <1>1, Typed DEF WillMatch, SesRec, Proceed
  <2>7. /\ ops' \in Seq(OpRec) /\ OpsMatch'
        /\ \A i, j \in DOMAIN ops' : ops'[i].session = ops'[j].session => i = j
    BY <2>1, <2>4, <2>5, <2>6, Pushed
  <2>8. TypeOK'
    BY <2>1, <2>3, <2>7, <1>1, TypedRest, Whole
  <2>9. ReaderHasWorkspace'
    BY <2>1, <2>5, <1>1, TypedRest, AppendIndices DEF IInv, ReaderHasWorkspace
  <2> QED
    BY <2>3, <2>7, <2>8, <2>9 DEF IInv
<1> QED
  BY <1>3, <1>4

(* The session of the operation at the head of the chain. *)
LEMMA AtHead ==
    ASSUME IInv, NEW s \in Session, NEW op, HeadIs(op, s)
    PROVE  /\ ops # <<>> /\ Head(ops).session = s /\ Head(ops).op = op
           /\ Head(ops) \in OpRec /\ 1 \in DOMAIN ops /\ Head(ops) = ops[1]
           /\ Matches(Head(ops))
<1>1. ops # <<>> /\ Head(ops).session = s /\ Head(ops).op = op
  BY DEF HeadIs
<1>2. 1 \in DOMAIN ops /\ Head(ops) = ops[1] /\ Head(ops) \in OpRec
  BY <1>1, TypedRest, TailIndices
<1> QED
  BY <1>1, <1>2 DEF IInv, OpsMatch

LEMMA UndoTyped ==
    ASSUME IInv, NEW s \in Session, HeadIs("open", s), Undo(s),
           \A t \in Session : ses'[t] = ses[t]
    PROVE  /\ ops' \in Seq(OpRec) /\ OpsMatch'
           /\ \A i, j \in DOMAIN ops' : ops'[i].session = ops'[j].session => i = j
<1> DEFINE e == Operation("undo", s, NoWorkspace)
<1>1. Chain(Tail(ops), s)
  BY AtHead, Popped
<1>2. e \in OpRec /\ e.session = s /\ e.op = "undo"
  BY DEF Operation, OpRec
<1>3. WillMatch(e)
  BY <1>2, AtHead DEF WillMatch, Matches
<1>4. ops' = Append(Tail(ops), e)
  BY DEF Undo
<1> QED
  BY <1>1, <1>2, <1>3, <1>4, Pushed

LEMMA PrepareStep ==
    ASSUME IInv, NEW s \in Session, PrepareAnswered(s)
    PROVE  IInv'
<1>1. HeadIs("open", s) /\ UNCHANGED <<ses, life>> /\ tools.session = NotReading
  BY DEF PrepareAnswered
<1>2. CASE /\ tools.link # 0
           /\ owner' = [owner EXCEPT ![s] = Head(ops).workspace]
           /\ prepared' = prepared \cup {Head(ops).workspace}
           /\ tools' = [tools EXCEPT !.session = tools.link]
           /\ UNCHANGED <<ops, fails>>
  <2>1. ses[s].stage = "opening"
    BY <1>1, AtHead DEF Matches
  <2>2. Head(ops).workspace \in Workspace
    BY <1>1, AtHead DEF Matches
  <2>3. /\ owner' \in [Session -> Workspace \cup {NoWorkspace}]
        /\ prepared' \subseteq Workspace
        /\ owner'[s] \in prepared'
        /\ \A t \in Session : owner[t] \in prepared => owner'[t] \in prepared'
    BY <1>2, <2>2, TypedRest
  <2>4. tools' \in ToolsRec
    BY <1>2, TypedRest DEF ToolsRec
  <2>5. TypeOK'
    BY <1>1, <1>2, <2>3, <2>4, Typed, TypedRest, Whole
  <2>6. ReaderHasWorkspace'
    BY <1>1, <1>2, <2>3, AtHead DEF ReaderHasWorkspace
  <2> QED
    BY <1>1, <1>2, <2>3, <2>5, <2>6 DEF IInv, OpsMatch, Matches, ClosingIsQuiet,
       UsedIsOpen, OpenHasWorkspace, CallsHaveWorkspace
<1>3. CASE Undo(s) /\ MayFail /\ UNCHANGED <<owner, prepared, tools>>
  <2>1. /\ ops' \in Seq(OpRec) /\ OpsMatch'
        /\ \A i, j \in DOMAIN ops' : ops'[i].session = ops'[j].session => i = j
    BY <1>1, <1>3, UndoTyped
  <2>2. TypeOK'
    BY <1>1, <1>3, <2>1, Typed, TypedRest, MayFailTyped, Whole
  <2>3. ReaderHasWorkspace'
    BY <1>1, <1>3 DEF ReaderHasWorkspace
  <2> QED
    BY <1>1, <1>3, <2>1, <2>2, <2>3 DEF IInv, ClosingIsQuiet,
       UsedIsOpen, OpenHasWorkspace, CallsHaveWorkspace
<1> QED
  BY <1>2, <1>3 DEF PrepareAnswered

LEMMA ToolsStep ==
    ASSUME IInv, NEW s \in Session, ToolsAnswered(s)
    PROVE  IInv'
<1>1. /\ HeadIs("open", s) /\ UNCHANGED <<owner, prepared, life>>
      /\ ses[s].stage = "opening" /\ owner[s] \in prepared
  BY AtHead DEF ToolsAnswered, Matches, IInv, ReaderHasWorkspace
<1>2. /\ tools' \in ToolsRec /\ tools'.session = NotReading
  <2>1. Refreshed(tools.session) \in Link
    BY TypedRest DEF ToolsAnswered, Refreshed, ToolsRec
  <2> QED
    BY <2>1, TypedRest DEF ToolsAnswered, ToolsRec
<1>3. ReaderHasWorkspace'
  BY <1>2 DEF ReaderHasWorkspace
<1>4. CASE ops' = Tail(ops) /\ ses' = [ses EXCEPT ![s] = Opened(@)] /\ UNCHANGED fails
  <2> DEFINE r == Opened(ses[s])
  <2>1. r \in SesRec /\ ses' = [ses EXCEPT ![s] = r]
    BY <1>4, Typed DEF Opened, Releasing, SesRec
  <2>2. Sound(s, r)
    BY <1>1, Typed DEF Opened, Releasing, SesRec, Sound, IInv, ClosingIsQuiet,
       UsedIsOpen
  <2>3. /\ ses' \in [Session -> SesRec]
        /\ \A t \in Session \ {s} : ses'[t] = ses[t]
        /\ ClosingIsQuiet' /\ UsedIsOpen' /\ OpenHasWorkspace' /\ CallsHaveWorkspace'
    BY <1>1, <2>1, <2>2, OthersKeep
  <2>4. Chain(Tail(ops), s)
    BY <1>1, <2>3, AtHead, Popped
  <2>5. OpsMatch' /\ ops' \in Seq(OpRec)
    BY <1>4, <2>4 DEF Chain, OpsMatch, Matches, WillMatch
  <2>6. \A i, j \in DOMAIN ops' : ops'[i].session = ops'[j].session => i = j
    BY <1>4, <2>4 DEF Chain
  <2>7. TypeOK'
    BY <1>1, <1>2, <1>4, <2>3, <2>5, <2>6, TypedRest, Whole
  <2> QED
    BY <1>3, <2>3, <2>5, <2>7 DEF IInv
<1>5. CASE Undo(s) /\ MayFail /\ UNCHANGED ses
  <2>1. /\ ops' \in Seq(OpRec) /\ OpsMatch'
        /\ \A i, j \in DOMAIN ops' : ops'[i].session = ops'[j].session => i = j
    BY <1>1, <1>5, UndoTyped
  <2>2. TypeOK'
    BY <1>1, <1>2, <1>5, <2>1, Typed, TypedRest, MayFailTyped, Whole
  <2> QED
    BY <1>1, <1>3, <1>5, <2>1, <2>2 DEF IInv, ClosingIsQuiet,
       UsedIsOpen, OpenHasWorkspace, CallsHaveWorkspace
<1> QED
  BY <1>4, <1>5 DEF ToolsAnswered

(* The release of one session leaves the others what they have: what is    *)
(* taken from the Worker has no other owner.                               *)
LEMMA ReleaseKeeps ==
    ASSUME IInv, NEW s \in Session, Released(s) \/ NotReleased(s)
    PROVE  /\ owner' \in [Session -> Workspace \cup {NoWorkspace}]
           /\ prepared' \subseteq Workspace
           /\ \A t \in Session \ {s} :
                owner[t] \in prepared => owner'[t] \in prepared'
<1>1. CASE Released(s)
  <2>1. /\ owner' \in [Session -> Workspace \cup {NoWorkspace}]
        /\ \A t \in Session \ {s} : owner'[t] = owner[t]
    BY <1>1, TypedRest DEF Released
  <2>2. /\ prepared' \subseteq Workspace
        /\ \A t \in Session \ {s} : owner[t] \in prepared => owner[t] \in prepared'
    BY <1>1, TypedRest, SessionsAssumption DEF Released, Shared
  <2> QED
    BY <2>1, <2>2
<1>2. CASE NotReleased(s)
  BY <1>2, TypedRest DEF NotReleased, ReleaseFailed, Shared
<1> QED
  BY <1>1, <1>2

LEMMA UndoStep ==
    ASSUME IInv, NEW s \in Session, UndoAnswered(s)
    PROVE  IInv'
<1> DEFINE r == Releasing([ses[s] EXCEPT !.stage = "failed"])
<1>1. /\ HeadIs("undo", s) /\ ops' = Tail(ops) /\ UNCHANGED <<tools, life>>
      /\ ses[s].stage = "opening" /\ tools.session = NotReading
  BY AtHead DEF UndoAnswered, Matches, IInv, ReaderHasWorkspace
<1>2. /\ owner' \in [Session -> Workspace \cup {NoWorkspace}]
      /\ prepared' \subseteq Workspace
      /\ \A t \in Session \ {s} : owner[t] \in prepared => owner'[t] \in prepared'
  BY ReleaseKeeps DEF UndoAnswered
<1>3. fails' \in 0..MaxFail
  BY TypedRest, MayFailTyped DEF UndoAnswered, NotReleased
<1>4. r \in SesRec /\ ses' = [ses EXCEPT ![s] = r]
  BY Typed DEF UndoAnswered, Releasing, SesRec
<1>5. Sound(s, r)
  BY <1>1, Typed DEF Releasing, SesRec, Sound, IInv, ClosingIsQuiet, UsedIsOpen
<1>6. /\ ses' \in [Session -> SesRec]
      /\ \A t \in Session \ {s} : ses'[t] = ses[t]
      /\ ClosingIsQuiet' /\ UsedIsOpen' /\ OpenHasWorkspace' /\ CallsHaveWorkspace'
  BY <1>2, <1>4, <1>5, OthersKeep
<1>7. Chain(Tail(ops), s)
  BY <1>1, <1>6, AtHead, Popped
<1>8. OpsMatch' /\ ops' \in Seq(OpRec)
  BY <1>1, <1>7 DEF Chain, OpsMatch, Matches, WillMatch
<1>9. \A i, j \in DOMAIN ops' : ops'[i].session = ops'[j].session => i = j
  BY <1>1, <1>7 DEF Chain
<1>10. TypeOK'
  BY <1>1, <1>2, <1>3, <1>6, <1>8, <1>9, TypedRest, Whole
<1>11. ReaderHasWorkspace'
  BY <1>1 DEF ReaderHasWorkspace
<1> QED
  BY <1>6, <1>8, <1>10, <1>11 DEF IInv

LEMMA ReleaseStep ==
    ASSUME IInv, NEW s \in Session, ReleaseAnswered(s)
    PROVE  IInv'
<1>1. /\ HeadIs("release", s) /\ ops' = Tail(ops) /\ UNCHANGED tools
      /\ ses[s].closing = "queued" /\ ses[s].calls = 0
      /\ tools.session = NotReading
  BY AtHead DEF ReleaseAnswered, Matches, IInv, ReaderHasWorkspace
<1>2. ~ses[s].active /\ ses[s].aborted
  BY <1>1 DEF IInv, ClosingIsQuiet
<1>3. /\ owner' \in [Session -> Workspace \cup {NoWorkspace}]
      /\ prepared' \subseteq Workspace
      /\ \A t \in Session \ {s} : owner[t] \in prepared => owner'[t] \in prepared'
  BY ReleaseKeeps DEF ReleaseAnswered
<1>4. /\ \E r \in SesRec :
           /\ ses' = [ses EXCEPT ![s] = r] /\ r.closing = "no"
           /\ r.active = ses[s].active /\ r.aborted = ses[s].aborted
           /\ r.calls = ses[s].calls
      /\ life' \in LifeRec /\ fails' \in 0..MaxFail
  <2>1. CASE Released(s) /\ Notified(s)
    BY <2>1, NotifiedRecord
  <2>2. CASE NotReleased(s) /\ Settled(s, ses[s], FALSE)
    <3>1. ses[s] \in SesRec /\ FALSE \in BOOLEAN
      BY Typed
    <3>2. /\ \E r \in SesRec :
               /\ ses' = [ses EXCEPT ![s] = r]
               /\ r.closing = "no" /\ r.stage \in {ses[s].stage, "over"}
               /\ r.active = ses[s].active /\ r.aborted = ses[s].aborted
               /\ r.calls = ses[s].calls
          /\ life' \in LifeRec
      BY <2>2, <3>1, SettledRecord
    <3>3. fails' \in 0..MaxFail
      BY <2>2, MayFailTyped DEF NotReleased
    <3> QED
      BY <3>2, <3>3
  <2> QED
    BY <2>1, <2>2 DEF ReleaseAnswered
<1>5. PICK r \in SesRec :
        /\ ses' = [ses EXCEPT ![s] = r] /\ r.closing = "no"
        /\ r.active = ses[s].active /\ r.aborted = ses[s].aborted
        /\ r.calls = ses[s].calls
  BY <1>4
<1>6. Sound(s, r)
  BY <1>1, <1>2, <1>5 DEF Sound
<1>7. /\ ses' \in [Session -> SesRec]
      /\ \A t \in Session \ {s} : ses'[t] = ses[t]
      /\ ClosingIsQuiet' /\ UsedIsOpen' /\ OpenHasWorkspace' /\ CallsHaveWorkspace'
  BY <1>3, <1>5, <1>6, OthersKeep
<1>8. Chain(Tail(ops), s)
  BY <1>1, <1>7, AtHead, Popped
<1>9. OpsMatch' /\ ops' \in Seq(OpRec)
  BY <1>1, <1>8 DEF Chain, OpsMatch, Matches, WillMatch
<1>10. \A i, j \in DOMAIN ops' : ops'[i].session = ops'[j].session => i = j
  BY <1>1, <1>8 DEF Chain
<1>11. TypeOK'
  BY <1>1, <1>3, <1>4, <1>7, <1>9, <1>10, TypedRest, Whole
<1>12. ReaderHasWorkspace'
  BY <1>1 DEF ReaderHasWorkspace
<1> QED
  BY <1>7, <1>9, <1>11, <1>12 DEF IInv
-----------------------------------------------------------------------------
(* What the sessions keep through every run of Open, Proceed and the chain *)
(* of core/src/toolcall/index.ts: the inductive invariant.                 *)
THEOREM Inductive == Spec => []IInv
<1>1. IInv /\ [Next]_vars => IInv'
  <2> SUFFICES ASSUME IInv, [Next]_vars
               PROVE  IInv'
    OBVIOUS
  <2>1. CASE \E s \in Session : Stream(s) \/ Progress(s)
    <3>1. PICK s \in Session : Stream(s) \/ Progress(s)
      BY <2>1
    <3>2. CASE Stream(s)
      BY <3>2, OpenStep, StreamSteps DEF Stream
    <3>3. CASE Progress(s)
      BY <3>3, StreamSteps, ProceedStep, PrepareStep, ToolsStep, UndoStep,
         ReleaseStep DEF Progress
    <3> QED
      BY <3>1, <3>2, <3>3
  <2>2. CASE \/ LinkBreaks \/ LinkOpens \/ RefreshTools
             \/ \E l \in Link : RefreshAnswered(l)
    BY <2>2, LinkSteps
  <2>3. CASE Retire \/ ReleaseAll \/ RetireEnds
    BY <2>3, RetireSteps
  <2>4. CASE UNCHANGED vars
    BY <2>4 DEF vars, IInv, TypeOK, OpsMatch, Matches, ClosingIsQuiet, UsedIsOpen,
       ReaderHasWorkspace, OpenHasWorkspace, CallsHaveWorkspace
  <2> QED
    BY <2>1, <2>2, <2>3, <2>4 DEF Next
<1> QED
  BY <1>1, Initially, PTL DEF Spec

(* Every state of the sessions, of the chain and of retire() is one the    *)
(* code can be in, and no session has two operations in the chain.         *)
THEOREM TypeCorrect == Spec => []TypeOK
<1>1. IInv => TypeOK
  BY DEF IInv
<1> QED
  BY <1>1, Inductive, PTL

(* A session that is active or has calls under way (validate()) owns a     *)
(* workspace that the Worker holds, whatever the other owners of it do.    *)
THEOREM UsedWorkspaceIsHeld == Spec => []CallsHaveWorkspace
<1>1. IInv => CallsHaveWorkspace
  BY DEF IInv
<1> QED
  BY <1>1, Inductive, PTL
-----------------------------------------------------------------------------
(* No release is forgotten.  The workspace a session owns is owed until a  *)
(* release has succeeded, an opening that has not asked the Worker yet     *)
(* owns none that its answer could overwrite, and retire() waits for every *)
(* session that is left, or has seen one of their releases fail.           *)

KeptRecord(r, w) ==
    /\ w # NoWorkspace => r.stage \in {"opening", "open", "failed"}
    /\ r.released => w = NoWorkspace /\ r.stage \in {"open", "failed", "over"}
    /\ r.stage = "over" => r.released

OwnersAreKept == \A s \in Session : KeptRecord(ses[s], owner[s])

OpeningOwnsNothing ==
    \A i \in DOMAIN ops :
        ops[i].op = "open" /\ (tools.session # NotReading => i # 1)
            => owner[ops[i].session] = NoWorkspace

ConfirmedIsOwned == \A w \in prepared : \E s \in Session : owner[s] = w

RetireWaits ==
    /\ life.phase \in {"active", "retired"} => life.retire = "no"
    /\ life.retire = "releasing" /\ ~life.failed => Held \subseteq life.waits
    /\ life.phase = "retired" => Held = {}

Owed ==
    /\ OwnersAreKept
    /\ OpeningOwnsNothing
    /\ ConfirmedIsOwned
    /\ RetireWaits

LEMMA OwedImplies ==
    ASSUME IInv, Owed
    PROVE  NoReleaseForgotten
<1>1. ASSUME NEW w \in prepared PROVE \E s \in Held : owner[s] = w
  <2>1. w # NoWorkspace
    BY TypedRest, SessionsAssumption
  <2>2. PICK s \in Session : owner[s] = w
    BY DEF Owed, ConfirmedIsOwned
  <2>3. s \in Held
    BY <2>1, <2>2 DEF Owed, OwnersAreKept, KeptRecord, Held
  <2> QED
    BY <2>2, <2>3
<1>2. life.phase = "retired" => Held = {} /\ prepared = {}
  BY <1>1 DEF Owed, RetireWaits
<1> QED
  BY <1>1, <1>2 DEF NoReleaseForgotten

LEMMA OwedInitially == Init => Owed
BY DEF Init, Owed, OwnersAreKept, KeptRecord, OpeningOwnsNothing, ConfirmedIsOwned,
   RetireWaits, Held, Fresh

(* Sessions that neither come nor go leave retire() what it waits for. *)
LEMMA RetireKeeps ==
    ASSUME IInv, RetireWaits, life' = life,
           \A t \in Session : ses'[t].stage \in {"opening", "open", "failed"}
               => life.phase = "active"
                  \/ ses[t].stage \in {"opening", "open", "failed"}
    PROVE  RetireWaits'
BY TypedRest DEF RetireWaits, Held, LifeRec

(* Sessions keep their stage, and nothing happens to the workspaces. *)
LEMMA StageKeeps ==
    ASSUME IInv, Owed, UNCHANGED <<owner, prepared, ops>>,
           tools'.session = tools.session,
           \A t \in Session : /\ ses'[t].stage = ses[t].stage
                              /\ ses'[t].released = ses[t].released
    PROVE  OwnersAreKept' /\ OpeningOwnsNothing' /\ ConfirmedIsOwned'
<1>1. OwnersAreKept'
  BY DEF Owed, OwnersAreKept, KeptRecord
<1>2. OpeningOwnsNothing'
  BY DEF Owed, OpeningOwnsNothing
<1>3. ConfirmedIsOwned'
  BY DEF Owed, ConfirmedIsOwned
<1> QED
  BY <1>1, <1>2, <1>3

LEMMA QuietSteps ==
    ASSUME IInv, Owed,
           \/ \E s \in Session : Activate(s) \/ Close(s) \/ Disconnect(s)
                                   \/ Call(s) \/ CallEnds(s)
           \/ LinkBreaks \/ LinkOpens \/ RefreshTools
           \/ \E l \in Link : RefreshAnswered(l)
    PROVE  Owed'
<1>1. /\ UNCHANGED <<owner, prepared, ops, life>>
      /\ tools'.session = tools.session
  BY TypedRest DEF Activate, Close, Disconnect, Call, CallEnds, LinkBreaks,
     LinkOpens, RefreshTools, RefreshAnswered, ToolsRec
<1>2. ASSUME NEW t \in Session
      PROVE  ses'[t].stage = ses[t].stage /\ ses'[t].released = ses[t].released
  <2>1. CASE ses' = ses
    BY <2>1
  <2>2. CASE \E s \in Session : Activate(s) \/ Close(s) \/ Disconnect(s)
                                  \/ Call(s) \/ CallEnds(s)
    <3>1. PICK s \in Session : Activate(s) \/ Close(s) \/ Disconnect(s)
                                 \/ Call(s) \/ CallEnds(s)
      BY <2>2
    <3>2. CASE Close(s)
      BY <3>2, Typed DEF Close, Releasing, SesRec
    <3>3. CASE Disconnect(s)
      BY <3>3, Typed DEF Disconnect, Releasing, SesRec
    <3>4. CASE Activate(s) \/ Call(s) \/ CallEnds(s)
      BY <3>4, Typed DEF Activate, Call, CallEnds, SesRec
    <3> QED
      BY <3>1, <3>2, <3>3, <3>4
  <2> QED
    BY <2>1, <2>2 DEF LinkBreaks, LinkOpens, RefreshTools, RefreshAnswered
<1>3. RetireWaits'
  BY <1>1, <1>2, RetireKeeps DEF Owed
<1> QED
  BY <1>1, <1>2, <1>3, StageKeeps DEF Owed

LEMMA RetireOwed ==
    ASSUME IInv, Owed, Retire \/ ReleaseAll \/ RetireEnds
    PROVE  Owed'
<1>1. UNCHANGED <<owner, prepared, ops, tools>>
  BY DEF Retire, ReleaseAll, RetireEnds
<1>2. ASSUME NEW t \in Session
      PROVE  ses'[t].stage = ses[t].stage /\ ses'[t].released = ses[t].released
  <2>1. CASE Retire
    BY <2>1, Typed DEF Retire, SesRec
  <2>2. CASE ReleaseAll
    BY <2>2, Typed DEF ReleaseAll, Releasing, SesRec
  <2>3. CASE RetireEnds
    BY <2>3 DEF RetireEnds
  <2> QED
    BY <2>1, <2>2, <2>3
<1>3. RetireWaits'
  <2>1. Held' = Held
    BY <1>2 DEF Held
  <2>2. CASE Retire
    BY <2>1, <2>2, TypedRest DEF Retire, RetireWaits, LifeRec
  <2>3. CASE ReleaseAll
    BY <2>1, <2>3, TypedRest DEF ReleaseAll, Owed, RetireWaits, LifeRec
  <2>4. CASE RetireEnds
    BY <2>1, <2>4, TypedRest DEF RetireEnds, RetireSucceeds, Owed, RetireWaits,
       LifeRec
  <2> QED
    BY <2>2, <2>3, <2>4
<1> QED
  BY <1>1, <1>2, <1>3, StageKeeps DEF Owed

(* Openings are only taken from the chain, or stay where they are, and an  *)
(* owner only loses what it has.                                           *)
LEMMA OpeningsKeep ==
    ASSUME IInv, OpeningOwnsNothing,
           \A t \in Session : owner'[t] \in {owner[t], NoWorkspace},
           \A i \in DOMAIN ops' :
               \/ ops'[i].op # "open"
               \/ \E j \in DOMAIN ops :
                    /\ ops'[i] = ops[j]
                    /\ tools.session # NotReading /\ j = 1
                         => tools'.session # NotReading /\ i = 1
    PROVE  OpeningOwnsNothing'
<1> SUFFICES ASSUME NEW i \in DOMAIN ops', ops'[i].op = "open",
                    tools'.session # NotReading => i # 1
             PROVE  owner'[ops'[i].session] = NoWorkspace
  BY DEF OpeningOwnsNothing
<1>1. PICK j \in DOMAIN ops :
        /\ ops'[i] = ops[j] /\ (tools.session # NotReading => j # 1)
  OBVIOUS
<1>2. owner[ops[j].session] = NoWorkspace
  BY <1>1 DEF OpeningOwnsNothing
<1>3. ops[j].session \in Session
  BY <1>1, OpTyped
<1> QED
  BY <1>1, <1>2, <1>3

LEMMA OpenOwed ==
    ASSUME IInv, Owed, NEW s \in Session, Open(s)
    PROVE  Owed'
<1> DEFINE r == [ses[s] EXCEPT !.stage = "opening", !.lease = TRUE]
<1>1. /\ ses' = [ses EXCEPT ![s] = r] /\ ses[s].stage = "none"
      /\ life.phase = "active" /\ UNCHANGED <<owner, prepared, tools, life>>
  BY DEF Open
<1>2. /\ ses'[s] = r /\ \A t \in Session \ {s} : ses'[t] = ses[t]
      /\ r.stage = "opening" /\ r.released = ses[s].released
  BY <1>1, Typed DEF SesRec
<1>3. OwnersAreKept'
  BY <1>1, <1>2 DEF Owed, OwnersAreKept, KeptRecord
<1>4. PICK e \in OpRec : e.session = s /\ ops' = Append(ops, e)
  BY DEF Open, Operation, OpRec
<1>5. owner[s] = NoWorkspace
  BY <1>1 DEF Owed, OwnersAreKept, KeptRecord
<1>6. OpeningOwnsNothing'
  BY <1>1, <1>4, <1>5, TypedRest, AppendIndices DEF Owed, OpeningOwnsNothing
<1>7. ConfirmedIsOwned' /\ RetireWaits'
  BY <1>1, RetireKeeps DEF Owed, ConfirmedIsOwned
<1> QED
  BY <1>3, <1>6, <1>7 DEF Owed

(* A session that settles owns nothing if it succeeds, and fails the       *)
(* retire() that waits for it if it does not.                              *)
LEMMA SettledOwed ==
    ASSUME IInv, RetireWaits, NEW s \in Session, NEW q \in SesRec,
           NEW ok \in BOOLEAN, Settled(s, q, ok), q.stage = ses[s].stage,
           ses[s].stage \in {"open", "failed"}
    PROVE  /\ RetireWaits'
           /\ \A t \in Session \ {s} : ses'[t] = ses[t]
           /\ ses'[s].released = q.released
           /\ ses'[s].stage = IF ok THEN "over" ELSE q.stage
<1>1. /\ \A t \in Session \ {s} : ses'[t] = ses[t]
      /\ ses'[s].released = q.released
      /\ ses'[s].stage = IF ok THEN "over" ELSE q.stage
  BY Typed DEF Settled, SesRec
<1>2. Held' = IF ok THEN Held \ {s} ELSE Held
  BY <1>1 DEF Held
<1>3. s \in Held
  BY DEF Held
<1>4. RetireWaits'
  BY <1>2, <1>3, TypedRest DEF RetireWaits, Settled, LifeRec
<1> QED
  BY <1>1, <1>4

LEMMA NotifiedOwed ==
    ASSUME IInv, RetireWaits, NEW s \in Session, Notified(s),
           ses[s].stage \in {"open", "failed"}
    PROVE  /\ RetireWaits'
           /\ \A t \in Session \ {s} : ses'[t] = ses[t]
           /\ ses'[s].released
           /\ ses'[s].stage \in {"open", "failed", "over"}
<1> DEFINE q == [ses[s] EXCEPT !.released = TRUE]
<1>1. q \in SesRec /\ q.stage = ses[s].stage /\ q.released
  BY Typed DEF SesRec
<1>2. CASE Settled(s, q, TRUE)
  BY <1>1, <1>2, SettledOwed
<1>3. CASE Settled(s, q, FALSE)
  BY <1>1, <1>3, SettledOwed
<1> QED
  BY <1>2, <1>3 DEF Notified

LEMMA ProceedOwed ==
    ASSUME IInv, Owed, NEW s \in Session, Proceed(s)
    PROVE  Owed'
<1>1. /\ UNCHANGED <<owner, prepared, tools>>
      /\ ses[s].stage \in {"open", "failed"}
  BY DEF Proceed
<1>2. ConfirmedIsOwned'
  BY <1>1 DEF Owed, ConfirmedIsOwned
<1>3. CASE ses[s].released
  <2>1. Notified(s) /\ ops' = ops
    BY <1>3 DEF Proceed
  <2>2. /\ RetireWaits'
        /\ \A t \in Session \ {s} : ses'[t] = ses[t]
        /\ ses'[s].released /\ ses'[s].stage \in {"open", "failed", "over"}
    BY <1>1, <2>1, NotifiedOwed DEF Owed
  <2>3. OwnersAreKept'
    BY <1>1, <1>3, <2>2 DEF Owed, OwnersAreKept, KeptRecord
  <2>4. OpeningOwnsNothing'
    BY <1>1, <2>1 DEF Owed, OpeningOwnsNothing
  <2> QED
    BY <1>2, <2>2, <2>3, <2>4 DEF Owed
<1>4. CASE ~ses[s].released
  <2>1. PICK e \in OpRec : e.op = "release" /\ ops' = Append(ops, e)
    BY <1>4 DEF Proceed, Operation, OpRec
  <2>2. ses' = [ses EXCEPT ![s].closing = "queued"] /\ life' = life
    BY <1>4 DEF Proceed
  <2>3. \A t \in Session : /\ ses'[t].stage = ses[t].stage
                           /\ ses'[t].released = ses[t].released
    BY <2>2, Typed DEF SesRec
  <2>4. OwnersAreKept'
    BY <1>1, <2>3 DEF Owed, OwnersAreKept, KeptRecord
  <2>5. RetireWaits'
    BY <2>2, <2>3, RetireKeeps DEF Owed
  <2>6. ops \in Seq(OpRec)
    BY TypedRest
  <2>7. \A i \in DOMAIN ops' :
          ops'[i].op # "open" \/ (i \in DOMAIN ops /\ ops'[i] = ops[i])
    BY <2>1, <2>6, AppendIndices
  <2>8. OpeningOwnsNothing'
    BY <1>1, <2>7 DEF Owed, OpeningOwnsNothing
  <2> QED
    BY <1>2, <2>4, <2>5, <2>8 DEF Owed
<1> QED
  BY <1>3, <1>4

(* What is left of the chain when its head is answered, with or without    *)
(* an undo at its end, has the openings it had.                            *)
LEMMA AnsweredOpenings ==
    ASSUME IInv, OpeningOwnsNothing, ops # <<>>,
           \A t \in Session : owner'[t] \in {owner[t], NoWorkspace},
           \/ ops' = Tail(ops)
           \/ \E e \in OpRec : e.op = "undo" /\ ops' = Append(Tail(ops), e)
    PROVE  OpeningOwnsNothing'
<1>1. /\ Tail(ops) \in Seq(OpRec)
      /\ \A i \in DOMAIN Tail(ops) :
            i + 1 \in DOMAIN ops /\ i + 1 # 1 /\ Tail(ops)[i] = ops[i + 1]
  BY TypedRest, TailIndices
<1>2. ASSUME NEW i \in DOMAIN ops'
      PROVE  ops'[i].op # "open"
             \/ \E j \in DOMAIN ops : ops'[i] = ops[j] /\ j # 1
  <2>1. CASE ops' = Tail(ops)
    BY <1>1, <2>1
  <2>2. CASE \E e \in OpRec : e.op = "undo" /\ ops' = Append(Tail(ops), e)
    <3>1. PICK e \in OpRec : e.op = "undo" /\ ops' = Append(Tail(ops), e)
      BY <2>2
    <3>2. \/ ops'[i] = e
          \/ i \in DOMAIN Tail(ops) /\ ops'[i] = Tail(ops)[i]
      BY <1>1, <3>1, AppendIndices
    <3> QED
      BY <1>1, <3>1, <3>2
  <2> QED
    BY <2>1, <2>2
<1> QED
  BY <1>2, OpeningsKeep

LEMMA UndoAppended ==
    ASSUME NEW s \in Session, Undo(s)
    PROVE  \E e \in OpRec : e.op = "undo" /\ ops' = Append(Tail(ops), e)
BY DEF Undo, Operation, OpRec

LEMMA PrepareOwed ==
    ASSUME IInv, Owed, NEW s \in Session, PrepareAnswered(s)
    PROVE  Owed'
<1>1. /\ HeadIs("open", s) /\ UNCHANGED <<ses, life>>
      /\ tools.session = NotReading
  BY DEF PrepareAnswered
<1>2. RetireWaits'
  BY <1>1, RetireKeeps DEF Owed
<1>3. CASE /\ tools.link # 0
           /\ owner' = [owner EXCEPT ![s] = Head(ops).workspace]
           /\ prepared' = prepared \cup {Head(ops).workspace}
           /\ tools' = [tools EXCEPT !.session = tools.link]
           /\ UNCHANGED <<ops, fails>>
  <2>1. /\ ses[s].stage = "opening" /\ Head(ops).session = s
        /\ 1 \in DOMAIN ops /\ Head(ops) = ops[1] /\ ops[1].op = "open"
    BY <1>1, AtHead DEF Matches
  <2>2. owner[s] = NoWorkspace
    BY <1>1, <2>1 DEF Owed, OpeningOwnsNothing
  <2>3. /\ owner'[s] = Head(ops).workspace
        /\ \A t \in Session \ {s} : owner'[t] = owner[t]
    BY <1>3, TypedRest
  <2>4. ~ses[s].released
    BY <2>1 DEF Owed, OwnersAreKept, KeptRecord
  <2>5. OwnersAreKept'
    BY <1>1, <2>1, <2>3, <2>4 DEF Owed, OwnersAreKept, KeptRecord
  <2>6. ConfirmedIsOwned'
    <3> SUFFICES ASSUME NEW w \in prepared'
                 PROVE  \E t \in Session : owner'[t] = w
      BY DEF ConfirmedIsOwned
    <3>1. CASE w = Head(ops).workspace
      BY <2>3, <3>1
    <3>2. CASE w \in prepared
      <4>1. PICK t \in Session : owner[t] = w
        BY <3>2 DEF Owed, ConfirmedIsOwned
      <4>2. t # s
        BY <2>2, <3>2, <4>1, TypedRest, SessionsAssumption
      <4> QED
        BY <2>3, <4>1, <4>2
    <3> QED
      BY <1>3, <3>1, <3>2
  <2>7. OpeningOwnsNothing'
    <3> SUFFICES ASSUME NEW i \in DOMAIN ops, ops[i].op = "open",
                        tools'.session # NotReading => i # 1
                 PROVE  owner'[ops[i].session] = NoWorkspace
      BY <1>3 DEF OpeningOwnsNothing
    <3>1. tools'.session = tools.link /\ tools.link \in Link
      BY <1>3, TypedRest DEF ToolsRec
    <3>2. i # 1
      BY <3>1, SessionsAssumption DEF Link, NotReading
    <3>3. ops[i].session # s /\ ops[i].session \in Session
      BY <2>1, <3>2, TypedRest, OpTyped
    <3>4. owner[ops[i].session] = NoWorkspace
      BY <1>1 DEF Owed, OpeningOwnsNothing
    <3> QED
      BY <2>3, <3>3, <3>4
  <2> QED
    BY <1>2, <2>5, <2>6, <2>7 DEF Owed
<1>4. CASE Undo(s) /\ MayFail /\ UNCHANGED <<owner, prepared, tools>>
  <2>1. OpeningOwnsNothing'
    BY <1>1, <1>4, UndoAppended, AnsweredOpenings, AtHead DEF Owed
  <2> QED
    BY <1>1, <1>2, <1>4, <2>1 DEF Owed, OwnersAreKept, KeptRecord, ConfirmedIsOwned
<1> QED
  BY <1>3, <1>4 DEF PrepareAnswered

LEMMA ToolsOwed ==
    ASSUME IInv, Owed, NEW s \in Session, ToolsAnswered(s)
    PROVE  Owed'
<1>1. /\ HeadIs("open", s) /\ UNCHANGED <<owner, prepared, life>>
      /\ ses[s].stage = "opening" /\ ops # <<>>
  BY AtHead DEF ToolsAnswered, Matches
<1>2. OpeningOwnsNothing'
  BY <1>1, UndoAppended, AnsweredOpenings DEF Owed, ToolsAnswered
<1>3. /\ \A t \in Session \ {s} : ses'[t] = ses[t]
      /\ ses'[s].released = ses[s].released
      /\ ses'[s].stage \in {"opening", "open"}
  <2>1. CASE ses' = [ses EXCEPT ![s] = Opened(@)]
    BY <2>1, Typed DEF Opened, Releasing, SesRec
  <2>2. CASE UNCHANGED ses
    BY <1>1, <2>2
  <2> QED
    BY <2>1, <2>2 DEF ToolsAnswered
<1>4. OwnersAreKept'
  BY <1>1, <1>3 DEF Owed, OwnersAreKept, KeptRecord
<1>5. RetireWaits'
  BY <1>1, <1>3, RetireKeeps DEF Owed
<1> QED
  BY <1>1, <1>2, <1>4, <1>5 DEF Owed, ConfirmedIsOwned

(* A release that succeeds takes from the Worker what nobody else owns; one *)
(* that fails keeps the owner.                                             *)
LEMMA ReleaseOwed ==
    ASSUME IInv, ConfirmedIsOwned, NEW s \in Session,
           Released(s) \/ NotReleased(s)
    PROVE  /\ ConfirmedIsOwned'
           /\ \A t \in Session \ {s} : owner'[t] = owner[t]
           /\ owner'[s] \in {owner[s], NoWorkspace}
           /\ Released(s) => owner'[s] = NoWorkspace
<1>1. CASE Released(s)
  <2>1. /\ owner'[s] = NoWorkspace
        /\ \A t \in Session \ {s} : owner'[t] = owner[t]
    BY <1>1, TypedRest DEF Released
  <2>2. ASSUME NEW w \in prepared' PROVE \E t \in Session : owner'[t] = w
    <3>1. w \in prepared
      BY <1>1 DEF Released
    <3>2. PICK t \in Session : owner[t] = w
      BY <3>1 DEF ConfirmedIsOwned
    <3>3. CASE t # s
      BY <2>1, <3>2, <3>3
    <3>4. CASE t = s
      <4>1. owner[s] # NoWorkspace
        BY <3>1, <3>2, <3>4, TypedRest, SessionsAssumption
      <4>2. Shared(s)
        BY <1>1, <3>2, <3>4, <4>1 DEF Released
      <4> QED
        BY <2>1, <3>2, <3>4, <4>2 DEF Shared
    <3> QED
      BY <3>3, <3>4
  <2> QED
    BY <2>1, <2>2 DEF ConfirmedIsOwned
<1>2. CASE NotReleased(s) /\ ~Released(s)
  BY <1>2 DEF NotReleased, ReleaseFailed, ConfirmedIsOwned
<1> QED
  BY <1>1, <1>2

LEMMA UndoOwed ==
    ASSUME IInv, Owed, NEW s \in Session, UndoAnswered(s)
    PROVE  Owed'
<1>1. /\ ops' = Tail(ops) /\ UNCHANGED <<tools, life>>
      /\ ses[s].stage = "opening" /\ ops # <<>>
  BY AtHead DEF UndoAnswered, Matches
<1>2. /\ ConfirmedIsOwned'
      /\ \A t \in Session \ {s} : owner'[t] = owner[t]
      /\ owner'[s] \in {owner[s], NoWorkspace}
  BY ReleaseOwed DEF UndoAnswered, Owed
<1>3. OpeningOwnsNothing'
  BY <1>1, <1>2, AnsweredOpenings DEF Owed
<1>4. /\ \A t \in Session \ {s} : ses'[t] = ses[t]
      /\ ses'[s].stage = "failed" /\ ses'[s].released = ses[s].released
  BY Typed DEF UndoAnswered, Releasing, SesRec
<1>5. OwnersAreKept'
  BY <1>1, <1>2, <1>4 DEF Owed, OwnersAreKept, KeptRecord
<1>6. RetireWaits'
  BY <1>1, <1>4, RetireKeeps DEF Owed
<1> QED
  BY <1>2, <1>3, <1>5, <1>6 DEF Owed

LEMMA ReleaseAnsweredOwed ==
    ASSUME IInv, Owed, NEW s \in Session, ReleaseAnswered(s)
    PROVE  Owed'
<1>1. /\ ops' = Tail(ops) /\ ops # <<>>
      /\ ses[s].stage \in {"open", "failed"}
  BY AtHead DEF ReleaseAnswered, Matches
<1>2. /\ ConfirmedIsOwned'
      /\ \A t \in Session \ {s} : owner'[t] = owner[t]
      /\ owner'[s] \in {owner[s], NoWorkspace}
      /\ Released(s) => owner'[s] = NoWorkspace
  BY ReleaseOwed DEF ReleaseAnswered, Owed
<1>3. OpeningOwnsNothing'
  BY <1>1, <1>2, AnsweredOpenings DEF Owed
<1>4. CASE Released(s) /\ Notified(s)
  <2>1. /\ RetireWaits'
        /\ \A t \in Session \ {s} : ses'[t] = ses[t]
        /\ ses'[s].released /\ ses'[s].stage \in {"open", "failed", "over"}
    BY <1>1, <1>4, NotifiedOwed DEF Owed
  <2>2. OwnersAreKept'
    BY <1>2, <1>4, <2>1 DEF Owed, OwnersAreKept, KeptRecord
  <2> QED
    BY <1>2, <1>3, <2>1, <2>2 DEF Owed
<1>5. CASE NotReleased(s) /\ Settled(s, ses[s], FALSE)
  <2>1. ses[s] \in SesRec /\ FALSE \in BOOLEAN
    BY Typed
  <2>2. /\ RetireWaits'
        /\ \A t \in Session \ {s} : ses'[t] = ses[t]
        /\ ses'[s].released = ses[s].released /\ ses'[s].stage = ses[s].stage
    BY <1>1, <1>5, <2>1, SettledOwed DEF Owed
  <2>3. OwnersAreKept'
    BY <1>1, <1>2, <2>2 DEF Owed, OwnersAreKept, KeptRecord
  <2> QED
    BY <1>2, <1>3, <2>2, <2>3 DEF Owed
<1> QED
  BY <1>4, <1>5 DEF ReleaseAnswered

(* Every workspace the Worker has confirmed and still holds (prepared) is  *)
(* owned by a session that is kept for its release, through failed         *)
(* openings, failed releases and lost streams, and retire() succeeds only  *)
(* when none is left.                                                      *)
THEOREM ReleasesAreOwed == Spec => []NoReleaseForgotten
<1>1. IInv /\ Owed /\ [Next]_vars => Owed'
  <2> SUFFICES ASSUME IInv, Owed, [Next]_vars
               PROVE  Owed'
    OBVIOUS
  <2>1. CASE \E s \in Session : Stream(s) \/ Progress(s)
    <3>1. PICK s \in Session : Stream(s) \/ Progress(s)
      BY <2>1
    <3>2. CASE Stream(s)
      BY <3>2, OpenOwed, QuietSteps DEF Stream
    <3>3. CASE Progress(s)
      BY <3>3, QuietSteps, ProceedOwed, PrepareOwed, ToolsOwed, UndoOwed,
         ReleaseAnsweredOwed DEF Progress
    <3> QED
      BY <3>1, <3>2, <3>3
  <2>2. CASE \/ LinkBreaks \/ LinkOpens \/ RefreshTools
             \/ \E l \in Link : RefreshAnswered(l)
    BY <2>2, QuietSteps
  <2>3. CASE Retire \/ ReleaseAll \/ RetireEnds
    BY <2>3, RetireOwed
  <2>4. CASE UNCHANGED vars
    BY <2>4 DEF vars, Owed, OwnersAreKept, OpeningOwnsNothing, ConfirmedIsOwned,
       RetireWaits, Held
  <2> QED
    BY <2>1, <2>2, <2>3, <2>4 DEF Next
<1> QED
  BY <1>1, Inductive, OwedInitially, OwedImplies, PTL DEF Spec
-----------------------------------------------------------------------------
(* Links are numbered as they come, and whoever reads a catalog reads it   *)
(* from a link that has been there.                                        *)
LinksAreNumbered ==
    /\ tools \in ToolsRec
    /\ tools.catalog <= tools.last
    /\ tools.link \in {0, tools.last}
    /\ tools.session # 0 /\ 0 \notin tools.refresh

LEMMA LinksInitially == Init => LinksAreNumbered
BY SessionsAssumption DEF Init, LinksAreNumbered, ToolsRec, Link, NotReading

(* What is refreshed is read from the link that is there, which no catalog *)
(* is ahead of.                                                            *)
LEMMA NeverOlder ==
    ASSUME LinksAreNumbered, NEW l \in Link, l # 0
    PROVE  Refreshed(l) >= tools.catalog /\ Refreshed(l) \in Link
           /\ Refreshed(l) <= tools.last
<1>1. /\ tools.link \in Nat /\ tools.last \in Nat /\ tools.catalog \in Nat
      /\ tools.catalog \in Link /\ l \in Nat
  BY SessionsAssumption DEF LinksAreNumbered, ToolsRec, Link
<1> QED
  BY <1>1 DEF LinksAreNumbered, Refreshed

LEMMA LinksStep ==
    ASSUME LinksAreNumbered, [Next]_vars
    PROVE  LinksAreNumbered' /\ tools'.catalog >= tools.catalog
<1>1. /\ tools \in ToolsRec /\ 0 \in Link
      /\ tools.link \in Nat /\ tools.last \in Nat /\ tools.catalog \in Nat
  BY SessionsAssumption DEF LinksAreNumbered, ToolsRec, Link
<1>2. CASE UNCHANGED tools
  BY <1>1, <1>2 DEF LinksAreNumbered
<1>3. CASE \E s \in Session : PrepareAnswered(s) /\ ~UNCHANGED tools
  <2>1. tools.link # 0 /\ tools' = [tools EXCEPT !.session = tools.link]
    BY <1>3 DEF PrepareAnswered
  <2> QED
    BY <1>1, <2>1 DEF LinksAreNumbered, ToolsRec
<1>4. CASE \E s \in Session : ToolsAnswered(s)
  <2>1. tools.session # NotReading
    BY <1>4 DEF ToolsAnswered
  <2>2. tools.session \in Link /\ tools.session # 0
    BY <1>1, <2>1 DEF LinksAreNumbered, ToolsRec
  <2>3. \/ tools' = [tools EXCEPT !.session = NotReading,
                                  !.catalog = Refreshed(tools.session)]
        \/ tools' = [tools EXCEPT !.session = NotReading]
    BY <1>4 DEF ToolsAnswered
  <2>4. /\ Refreshed(tools.session) >= tools.catalog
        /\ Refreshed(tools.session) \in Link
        /\ Refreshed(tools.session) <= tools.last
    BY <2>2, NeverOlder
  <2>5. CASE tools' = [tools EXCEPT !.session = NotReading,
                                    !.catalog = Refreshed(tools.session)]
    <3> DEFINE n == Refreshed(tools.session)
    <3>1. /\ tools' \in ToolsRec
          /\ tools'.link = tools.link /\ tools'.last = tools.last
          /\ tools'.catalog = n /\ tools'.session = NotReading
          /\ tools'.refresh = tools.refresh
      BY <2>4, <2>5 DEF LinksAreNumbered, ToolsRec
    <3> QED
      BY <1>1, <2>4, <3>1 DEF LinksAreNumbered, NotReading
  <2>6. CASE tools' = [tools EXCEPT !.session = NotReading]
    BY <1>1, <2>6 DEF LinksAreNumbered, ToolsRec, NotReading
  <2> QED
    BY <2>3, <2>5, <2>6
<1>5. CASE \E l \in Link : RefreshAnswered(l)
  <2>1. PICK l \in Link : RefreshAnswered(l)
    BY <1>5
  <2>2. l # 0 /\ tools' = [tools EXCEPT !.refresh = @ \ {l},
                                        !.catalog = Refreshed(l)]
    BY <2>1 DEF RefreshAnswered, LinksAreNumbered
  <2> QED
    BY <1>1, <2>2, NeverOlder DEF LinksAreNumbered, ToolsRec
<1>6. CASE LinkBreaks
  BY <1>1, <1>6 DEF LinkBreaks, LinksAreNumbered, ToolsRec
<1>7. CASE LinkOpens
  <2>1. tools.last + 1 \in Link
    BY <1>1, <1>7, SessionsAssumption DEF LinkOpens, Link
  <2>2. /\ tools' \in ToolsRec
        /\ tools'.link = tools.last + 1 /\ tools'.last = tools.last + 1
        /\ tools'.catalog = tools.catalog /\ tools'.session = tools.session
        /\ tools'.refresh = tools.refresh
    BY <1>7, <2>1 DEF LinkOpens, LinksAreNumbered, ToolsRec
  <2> QED
    BY <1>1, <2>2 DEF LinksAreNumbered
<1>8. CASE RefreshTools
  BY <1>1, <1>8 DEF RefreshTools, LinksAreNumbered, ToolsRec
<1>9. ASSUME NEW s \in Session, Stream(s) \/ Progress(s), ~UNCHANGED tools
      PROVE  PrepareAnswered(s) \/ ToolsAnswered(s)
  BY <1>9 DEF Stream, Progress, Open, Activate, Close, Disconnect, Call, CallEnds,
     Proceed, UndoAnswered, ReleaseAnswered
<1>10. Retire \/ ReleaseAll \/ RetireEnds => UNCHANGED tools
  BY DEF Retire, ReleaseAll, RetireEnds
<1> QED
  BY <1>2, <1>3, <1>4, <1>5, <1>6, <1>7, <1>8, <1>9, <1>10 DEF Next, vars

(* The catalog (#refreshTools, InstanceToolCatalog) is never replaced by   *)
(* that of an older link, whichever of the reads under way answers last.   *)
THEOREM CatalogAdvances == Spec => CatalogNeverOlder
<1>1. LinksAreNumbered /\ [Next]_vars => [tools'.catalog >= tools.catalog]_vars
  BY LinksStep
<1>2. LinksAreNumbered /\ [Next]_vars => LinksAreNumbered'
  BY LinksStep
<1> QED
  BY <1>1, <1>2, LinksInitially, PTL DEF Spec, CatalogNeverOlder
=============================================================================
