-------------------------- MODULE WaitService_proofs --------------------------
(***************************************************************************)
(* The safety of the task waits, for any waits and tasks and any number of *)
(* failures and power failures.                                            *)
(*                                                                         *)
(* IInv says four things.  Every document that may come to be read is      *)
(* sound by itself.  Memory and file agree on the waits whenever an        *)
(* operation runs.  The documents of this process do not go behind what    *)
(* its monitors have seen.  And an operation has done with its wait what   *)
(* the step it has reached says.                                           *)
(***************************************************************************)
EXTENDS WaitService, SequenceTheorems, FiniteSetTheorems, TLAPS

(* The documents this process works with, and those a power failure may    *)
(* leave besides.                                                          *)
Held == {file, mem} \cup (IF op.step = "rename" THEN {op.doc} ELSE {})
Live == images \cup Held

Single(doc) == \A d, e \in Detached(doc) : TaskOf[d] = TaskOf[e] => d = e

(* Announced, for the log pub. *)
Heard(pub, doc, w) ==
    Range(pub[w])
        \cup {event.type : event \in
                {n \in Range(doc.notifications) : n.wait = w}}

Told(pub, doc, w) ==
    /\ doc.waits[w] \in {"detached"} \cup Outcome =>
            doc.waits[w] \in Heard(pub, doc, w)
    /\ doc.waits[w] = "pruned" => Heard(pub, doc, w) \cap Outcome # {}

Said == {"detached"} \cup Outcome

DocsSound ==
    \A doc \in Live :
        /\ Single(doc)
        /\ \A w \in Wait : Told(published, doc, w)
        /\ \A w \in confirmed : doc.waits[w] # "none"

Trying == {"queued", "delay"}

Watched(doc, w) ==
    /\ monitor[w] # "off" => doc.waits[w] # "none"
    /\ monitor[w] = "reading" => doc.waits[w] = "detached"
    /\ w \in seen =>
         /\ doc.waits[w] \notin {"none", "failed"}
         /\ doc.waits[w] = "detached" => closed \/ monitor[w] \in Trying

MonitorFits(w) ==
    /\ \A doc \in Held : Watched(doc, w)
    /\ w \in seen => saw[w] = "resolved" /\ monitor[w] # "reading"
    /\ monitor[w] \in Trying => saw[w] \in Outcome

(* After a commit whose outcome is unknown memory is behind, but then no   *)
(* operation runs, and the next one starts by reading the file.            *)
OpFits ==
    /\ op.kind \in {"detach", "settle"} => op.wait \in Wait
    /\ op # Idle \/ pending = NoDoc => mem.waits = file.waits
    /\ op.step \in {"rename", "sync"} /\ op.phase = "commit"
         => op.kind \in {"detach", "settle"}
    /\ op.step = "rename" =>
         op.doc \in Doc /\ (op.phase # "commit" => op.doc.waits = mem.waits)
    /\ starts # NoWait =>
         op = Idle /\ pending # NoDoc /\ pending.waits[starts] = "detached"

AtCommit(step) == op.phase = "commit" /\ op.step = step

DetachFits ==
    op.kind = "detach" =>
        /\ op.phase # "notify" => monitor[op.wait] = "off" /\ op.wait \notin seen
        /\ op.phase # "notify" /\ ~AtCommit("sync") => mem.waits[op.wait] = "none"
        /\ AtCommit("rename") => op.doc.waits[op.wait] = "detached"
        /\ AtCommit("sync") => mem.waits[op.wait] = "detached"
        /\ op.phase = "notify" /\ ~op.warned =>
             \A doc \in Live : doc.waits[op.wait] # "none"

SettleFits ==
    op.kind = "settle" =>
        /\ monitor[op.wait] = "queued"
        /\ AtCommit("rename") => op.doc.waits[op.wait] = saw[op.wait]
        /\ op.phase = "notify" \/ AtCommit("sync")
             => mem.waits[op.wait] # "detached"

CloseFits ==
    closeResolved =>
        /\ closed /\ \A w \in Wait : monitor[w] = "off"
        /\ op.kind # "settle" /\ op.step \notin {"rename", "sync"}

IInv ==
    /\ TypeOK /\ DocsSound /\ OpFits /\ DetachFits /\ SettleFits /\ CloseFits
    /\ \A w \in Wait : MonitorFits(w)
-----------------------------------------------------------------------------
(* Documents.                                                              *)

LEMMA RangeAppend ==
    ASSUME NEW S, NEW q \in Seq(S), NEW e \in S
    PROVE  Range(Append(q, e)) = Range(q) \cup {e}
<1>1. /\ DOMAIN Append(q, e) = DOMAIN q \cup {Len(q) + 1}
      /\ \A i \in DOMAIN q : Append(q, e)[i] = q[i]
      /\ Append(q, e)[Len(q) + 1] = e
  OBVIOUS
<1> QED
  BY <1>1 DEF Range

LEMMA RangeTail ==
    ASSUME NEW S, NEW q \in Seq(S), q # <<>>
    PROVE  /\ Head(q) \in S /\ Tail(q) \in Seq(S)
           /\ Range(q) = {Head(q)} \cup Range(Tail(q))
<1>1. /\ Head(q) \in S /\ Tail(q) \in Seq(S)
      /\ Len(q) \in Nat /\ Len(q) >= 1 /\ DOMAIN q = 1..Len(q)
      /\ Head(q) = q[1] /\ DOMAIN Tail(q) = 1..(Len(q) - 1)
      /\ \A i \in 1..(Len(q) - 1) : Tail(q)[i] = q[i + 1]
  OBVIOUS
<1>2. ASSUME NEW x \in Range(q) PROVE x \in {Head(q)} \cup Range(Tail(q))
  <2>1. PICK i \in 1..Len(q) : x = q[i]
    BY <1>1 DEF Range
  <2>2. CASE i = 1
    BY <1>1, <2>1, <2>2
  <2>3. CASE i # 1
    <3>1. i - 1 \in 1..(Len(q) - 1) /\ Tail(q)[i - 1] = q[i]
      BY <1>1, <2>3
    <3> QED
      BY <1>1, <2>1, <3>1 DEF Range
  <2> QED
    BY <2>2, <2>3
<1>3. ASSUME NEW x \in Range(Tail(q)) PROVE x \in Range(q)
  <2>1. PICK i \in 1..(Len(q) - 1) : x = Tail(q)[i]
    BY <1>1 DEF Range
  <2>2. i + 1 \in 1..Len(q) /\ x = q[i + 1]
    BY <1>1, <2>1
  <2> QED
    BY <1>1, <2>2 DEF Range
<1>4. Head(q) \in Range(q)
  BY <1>1 DEF Range
<1> QED
  BY <1>1, <1>2, <1>3, <1>4

(* A wait that moves takes its event along; the others keep what they have.*)
LEMMA MovedDoc ==
    ASSUME NEW doc \in Doc, NEW w \in Wait, NEW s \in Said,
           \A v \in Wait : Told(published, doc, v)
    PROVE  /\ Moved(doc, w, s) \in Doc
           /\ Moved(doc, w, s).waits = [doc.waits EXCEPT ![w] = s]
           /\ \A v \in Wait : Told(published, Moved(doc, w, s), v)
<1> DEFINE new == [wait |-> w, type |-> s]
           next == Moved(doc, w, s)
<1>1. new \in Notification /\ new.wait = w /\ new.type = s
  BY DEF Notification, Said
<1>2. doc.waits \in [Wait -> Status] /\ doc.notifications \in Seq(Notification)
  BY DEF Doc
<1>3. /\ next.waits = [doc.waits EXCEPT ![w] = s]
      /\ next.notifications = Append(doc.notifications, new)
  BY DEF Moved
<1>4. next \in Doc
  BY <1>1, <1>2 DEF Moved, Doc, Status, Said
<1>5. Range(next.notifications) = Range(doc.notifications) \cup {new}
  BY <1>1, <1>2, <1>3, RangeAppend
<1>6. ASSUME NEW v \in Wait PROVE Told(published, next, v)
  <2>1. Heard(published, doc, v) \subseteq Heard(published, next, v)
    BY <1>5 DEF Heard
  <2>2. CASE v = w
    <3>1. s \in Heard(published, next, w)
      BY <1>1, <1>5 DEF Heard
    <3>2. next.waits[w] = s /\ s # "pruned"
      BY <1>2, <1>3 DEF Outcome, Said
    <3> QED
      BY <2>2, <3>1, <3>2 DEF Told
  <2>3. CASE v # w
    <3>1. next.waits[v] = doc.waits[v] /\ Told(published, doc, v)
      BY <1>2, <1>3, <2>3
    <3> HIDE DEF next
    <3> QED
      BY <2>1, <3>1 DEF Told
  <2> QED
    BY <2>2, <2>3
<1> QED
  BY <1>3, <1>4, <1>6

Prunable(doc, W) == W \subseteq Settled(doc)

LEMMA PrunedDoc ==
    ASSUME NEW doc \in Doc, NEW W, Prunable(doc, W),
           \A v \in Wait : Told(published, doc, v)
    PROVE  /\ Pruned(doc, W) \in Doc
           /\ \A v \in Wait :
                /\ Pruned(doc, W).waits[v] \in {doc.waits[v], "pruned"}
                /\ Told(published, Pruned(doc, W), v)
           /\ Detached(Pruned(doc, W)) \subseteq Detached(doc)
<1> DEFINE next == Pruned(doc, W)
<1>1. doc.waits \in [Wait -> Status] /\ doc.notifications \in Seq(Notification)
  BY DEF Doc
<1>2. /\ next.waits = [w \in Wait |-> IF w \in W THEN "pruned" ELSE doc.waits[w]]
      /\ next.notifications = doc.notifications
      /\ next \in Doc
  BY <1>1 DEF Pruned, Doc, Status
<1> HIDE DEF next
<1>3. ASSUME NEW v \in Wait PROVE Told(published, next, v)
  <2>1. Heard(published, next, v) = Heard(published, doc, v)
    BY <1>2 DEF Heard
  <2>2. CASE v \in W
    <3>1. doc.waits[v] \in Outcome /\ next.waits[v] = "pruned"
      BY <1>2, <2>2 DEF Settled, Prunable
    <3>2. doc.waits[v] \in Heard(published, doc, v)
      BY <3>1 DEF Told
    <3> QED
      BY <2>1, <3>1, <3>2 DEF Told, Outcome
  <2>3. CASE v \notin W
    BY <1>2, <2>1, <2>3 DEF Told
  <2> QED
    BY <2>2, <2>3
<1>4. Detached(next) \subseteq Detached(doc)
  BY <1>2 DEF Detached
<1> QED
  BY <1>2, <1>3, <1>4 DEF next

LEMMA LogAppend ==
    ASSUME published \in [Wait -> Seq(Said)], NEW w \in Wait, NEW e \in Said,
           published' = [published EXCEPT ![w] = Append(@, e)]
    PROVE  /\ published' \in [Wait -> Seq(Said)]
           /\ \A v \in Wait :
                Range(published'[v])
                    = Range(published[v]) \cup (IF v = w THEN {e} ELSE {})
<1>1. published[w] \in Seq(Said) /\ Append(published[w], e) \in Seq(Said)
  OBVIOUS
<1>2. Range(Append(published[w], e)) = Range(published[w]) \cup {e}
  BY <1>1, RangeAppend
<1>3. /\ published'[w] = Append(published[w], e)
      /\ \A v \in Wait : v # w => published'[v] = published[v]
  OBVIOUS
<1>4. published' \in [Wait -> Seq(Said)]
  BY <1>1
<1> QED
  BY <1>2, <1>3, <1>4

LEMMA UnsentDoc ==
    ASSUME NEW doc \in Doc, doc.notifications # <<>>,
           NEW next, next = [doc EXCEPT !.notifications = Tail(@)]
    PROVE  /\ next \in Doc /\ next.waits = doc.waits
           /\ next.notifications = Tail(doc.notifications)
           /\ Head(doc.notifications) \in Notification
<1>1. doc.waits \in [Wait -> Status] /\ doc.notifications \in Seq(Notification)
  BY DEF Doc
<1>2. /\ Head(doc.notifications) \in Notification
      /\ Tail(doc.notifications) \in Seq(Notification)
  BY <1>1, RangeTail
<1> QED
  BY <1>1, <1>2 DEF Doc

(* An event leaves the queue once it is in the log. *)
LEMMA SentDoc ==
    ASSUME NEW doc \in Doc, doc.notifications # <<>>, NEW event,
           event = Head(doc.notifications),
           NEW next, next.waits = doc.waits,
           next.notifications = Tail(doc.notifications),
           \A v \in Wait : Range(published'[v]) =
               Range(published[v]) \cup (IF v = event.wait THEN {event.type} ELSE {})
    PROVE  \A v \in Wait : Told(published, doc, v) => Told(published', next, v)
<1>1. doc.notifications \in Seq(Notification)
  BY DEF Doc
<1>2. Range(doc.notifications) = {event} \cup Range(Tail(doc.notifications))
  BY <1>1, RangeTail
<1>3. ASSUME NEW v \in Wait, Told(published, doc, v) PROVE Told(published', next, v)
  <2>1. Heard(published, doc, v) \subseteq Heard(published', next, v)
    BY <1>2 DEF Heard
  <2> QED
    BY <1>3, <2>1 DEF Told
<1> QED
  BY <1>3

LEMMA TellMore ==
    ASSUME NEW doc, NEW w, NEW pub, NEW pub2,
           Range(pub[w]) \subseteq Range(pub2[w]), Told(pub, doc, w)
    PROVE  Told(pub2, doc, w)
<1>1. Heard(pub, doc, w) \subseteq Heard(pub2, doc, w)
  BY DEF Heard
<1> QED
  BY <1>1 DEF Told
-----------------------------------------------------------------------------
LEMMA Initially == Init => IInv
<1> SUFFICES ASSUME Init PROVE IInv
  OBVIOUS
<1>1. EmptyDoc \in Doc
  BY DEF EmptyDoc, Doc, Status
<1>2. TypeOK
  <2>1. op \in Op
    BY DEF Init, Idle, Op, OpKind, Phase, Step
  <2>2. /\ published \in [Wait -> Seq({"detached"} \cup Outcome)]
        /\ task \in [Task -> {"running", "terminal", "expired"}]
        /\ monitor \in [Wait -> Monitor]
        /\ saw \in [Wait -> {"none"} \cup Outcome]
    BY DEF Init, Monitor
  <2>3. 0 \in 0..MaxFaults /\ 0 \in 0..MaxCrashes
    BY WaitAssumption
  <2> QED
    BY <1>1, <2>1, <2>2, <2>3 DEF Init, TypeOK
<1>3. /\ op = Idle /\ op.kind = "idle" /\ op.phase = "commit"
      /\ op.step = "ready" /\ Held = {EmptyDoc} /\ Live = {EmptyDoc}
  BY DEF Init, Idle, Held, Live
<1>4. \A w \in Wait : EmptyDoc.waits[w] = "none"
  BY DEF EmptyDoc
<1>5. DocsSound
  BY <1>3, <1>4 DEF Init, DocsSound, Single, Detached, Told, Outcome
<1>6. \A w \in Wait : MonitorFits(w)
  BY <1>3 DEF Init, MonitorFits, Watched, Trying
<1> QED
  BY <1>2, <1>3, <1>5, <1>6
     DEF Init, IInv, OpFits, DetachFits, SettleFits, CloseFits
-----------------------------------------------------------------------------
(* Steps that bring no document in.                                        *)

LEMMA DocsKept ==
    ASSUME DocsSound, Live' \subseteq Live, published' = published,
           confirmed' = confirmed
    PROVE  DocsSound'
BY DEF DocsSound, Single, Detached

LEMMA WatchKept ==
    ASSUME NEW w \in Wait, MonitorFits(w), Held' \subseteq Held,
           monitor'[w] = monitor[w], saw'[w] = saw[w],
           w \in seen' <=> w \in seen, closed => closed'
    PROVE  MonitorFits(w)'
BY DEF MonitorFits, Watched, Trying

(* What an operation at work relies on, when only others move. *)
LEMMA OpKept ==
    ASSUME OpFits, DetachFits, SettleFits, Live' \subseteq Live,
           op' = op, mem' = mem, file' = file, pending' = pending,
           starts' = starts, images' = images, saw' = saw, seen' = seen,
           op.kind = "detach" /\ op.phase # "notify" =>
               monitor'[op.wait] = monitor[op.wait],
           op.kind = "settle" => monitor'[op.wait] = monitor[op.wait]
    PROVE  OpFits' /\ DetachFits' /\ SettleFits'
BY DEF OpFits, DetachFits, SettleFits, AtCommit

LEMMA TaskStep ==
    ASSUME IInv, NEW t \in Task, TaskEnds(t) \/ TaskExpires(t)
    PROVE  IInv'
<1>1. /\ task' \in [Task -> {"running", "terminal", "expired"}]
      /\ UNCHANGED <<file, images, published, process, confirmed, faults, crashes>>
  BY DEF IInv, TypeOK, TaskEnds, TaskExpires, TaskMoves, disk
<1>2. TypeOK'
  BY <1>1 DEF IInv, TypeOK, process
<1>3. Held' = Held /\ Live' = Live
  BY <1>1 DEF process, Held, Live
<1>4. DocsSound'
  BY <1>1, <1>3, DocsKept DEF IInv
<1>5. OpFits' /\ DetachFits' /\ SettleFits'
  BY <1>1, <1>3, OpKept DEF IInv, process
<1>6. \A w \in Wait : MonitorFits(w)'
  BY <1>1, <1>3, WatchKept DEF IInv, process
<1>7. CloseFits'
  BY <1>1 DEF IInv, CloseFits, process
<1> QED
  BY <1>2, <1>4, <1>5, <1>6, <1>7 DEF IInv

(* A monitor goes on, to try again or to end. *)
LEMMA MonitorGoes ==
    ASSUME IInv, NEW w \in Wait, NEW to \in {"queued", "delay", "off"},
           monitor' = [monitor EXCEPT ![w] = to],
           to \in Trying => monitor[w] \in Trying,
           to = "off" => closed,
           op.kind = "settle" => op.wait # w,
           op.kind = "detach" /\ op.phase # "notify" => op.wait # w,
           ~closeResolved,
           faults' \in 0..MaxFaults,
           UNCHANGED <<disk, task, mem, pending, starts, saw, retry, closed,
                       closeResolved, op, seen, confirmed, crashes>>
    PROVE  IInv'
<1>1. /\ monitor \in [Wait -> Monitor] /\ monitor' \in [Wait -> Monitor]
      /\ UNCHANGED <<file, images, published>>
  BY DEF IInv, TypeOK, Monitor, disk
<1>2. TypeOK'
  BY <1>1 DEF IInv, TypeOK
<1>3. Held' = Held /\ Live' = Live
  BY <1>1 DEF Held, Live
<1>4. DocsSound'
  BY <1>1, <1>3, DocsKept DEF IInv
<1>5. OpFits' /\ DetachFits' /\ SettleFits'
  <2>1. op.kind \in {"detach", "settle"} => op.wait \in Wait
    BY DEF IInv, OpFits
  <2> QED
    BY <1>1, <1>3, <2>1, OpKept DEF IInv
<1>6. ASSUME NEW v \in Wait PROVE MonitorFits(v)'
  <2>1. CASE v # w
    BY <1>1, <1>3, <2>1, WatchKept DEF IInv
  <2>2. CASE v = w
    <3>1. monitor'[v] = to /\ MonitorFits(v)
      BY <1>1, <2>2 DEF IInv
    <3> QED
      BY <1>3, <2>2, <3>1 DEF MonitorFits, Watched, Trying
  <2> QED
    BY <2>1, <2>2
<1>7. CloseFits'
  BY DEF CloseFits
<1> QED
  BY <1>2, <1>4, <1>5, <1>6, <1>7 DEF IInv

LEMMA MonitorSteps ==
    ASSUME IInv, NEW w \in Wait, Retry(w) \/ Stop(w) \/ SettleUnreadable(w)
    PROVE  IInv'
<1>1. /\ monitor[w] # "off" /\ ~closeResolved
      /\ op.kind = "detach" /\ op.phase # "notify" => op.wait # w
  BY DEF IInv, CloseFits, DetachFits, Retry, Stop, SettleUnreadable, MonitorStep
<1>2. faults' \in 0..MaxFaults
  BY WaitAssumption
     DEF IInv, TypeOK, Retry, Stop, SettleUnreadable, MonitorStep, Fault
<1>3. CASE Retry(w)
  <2>1. op.kind = "settle" => op.wait # w
    BY <1>3 DEF IInv, SettleFits, Retry, MonitorStep
  <2> QED
    BY <1>1, <1>2, <1>3, <2>1, MonitorGoes DEF Retry, MonitorStep, Trying
<1>4. CASE Stop(w)
  <2>1. op.kind = "settle" => op.wait # w
    BY <1>4 DEF IInv, SettleFits, Stop, MonitorStep
  <2> QED
    BY <1>1, <1>2, <1>4, <2>1, MonitorGoes DEF Stop, MonitorStep, Trying
<1>5. CASE SettleUnreadable(w)
  <2>1. op.kind # "settle"
    BY <1>5 DEF SettleUnreadable, Idle
  <2> QED
    BY <1>1, <1>2, <1>5, <2>1, MonitorGoes DEF SettleUnreadable, Trying
<1> QED
  BY <1>3, <1>4, <1>5

(* A monitor sees its task end.  It was reading, so no document has let    *)
(* the wait go, and the operation under way is about another.              *)
LEMMA ObserveStep ==
    ASSUME IInv, NEW w \in Wait, ReadTerminal(w) \/ ReadExpired(w)
    PROVE  IInv'
<1> PICK status \in Outcome :
        /\ Observe(w, status)
        /\ \/ status = "resolved" /\ seen' = seen \cup {w}
           \/ status = "failed" /\ seen' = seen
  BY DEF ReadTerminal, ReadExpired, Outcome
<1>1. /\ monitor \in [Wait -> Monitor] /\ saw \in [Wait -> {"none"} \cup Outcome]
      /\ monitor[w] = "reading" /\ ~closed
      /\ monitor' = [monitor EXCEPT ![w] = "queued"]
      /\ saw' = [saw EXCEPT ![w] = status]
      /\ UNCHANGED <<file, images, published, task, mem, pending, starts, retry,
                     closed, closeResolved, op, confirmed, faults, crashes>>
  BY DEF IInv, TypeOK, Observe, disk
<1>2. TypeOK'
  <2>1. monitor' \in [Wait -> Monitor] /\ saw' \in [Wait -> {"none"} \cup Outcome]
    BY <1>1 DEF Monitor
  <2> QED
    BY <1>1, <2>1 DEF IInv, TypeOK
<1>3. Held' = Held /\ Live' = Live
  BY <1>1 DEF Held, Live
<1>4. DocsSound'
  BY <1>1, <1>3, DocsKept DEF IInv
<1>5. /\ op.kind \in {"detach", "settle"} => op.wait \in Wait
      /\ op.kind = "settle" => op.wait # w
      /\ op.kind = "detach" /\ op.phase # "notify" => op.wait # w
  BY <1>1 DEF IInv, OpFits, SettleFits, DetachFits
<1>6. /\ \A v \in Wait : v # w => /\ monitor'[v] = monitor[v]
                                 /\ saw'[v] = saw[v]
                                 /\ v \in seen' <=> v \in seen
      /\ monitor'[w] = "queued" /\ saw'[w] = status
  BY <1>1
<1>7. OpFits'
  BY <1>1 DEF IInv, OpFits
<1>8. DetachFits'
  BY <1>1, <1>3, <1>5, <1>6 DEF IInv, DetachFits, AtCommit
<1>9. SettleFits'
  BY <1>1, <1>5, <1>6 DEF IInv, SettleFits, AtCommit
<1>10. ASSUME NEW v \in Wait PROVE MonitorFits(v)'
  <2>1. CASE v # w
    BY <1>1, <1>3, <1>6, <2>1, WatchKept DEF IInv
  <2>2. CASE v = w
    <3>1. MonitorFits(w)
      BY DEF IInv
    <3> QED
      BY <1>1, <1>3, <1>6, <2>2, <3>1
         DEF MonitorFits, Watched, Trying, Outcome
  <2> QED
    BY <2>1, <2>2
<1>11. CloseFits'
  BY <1>1 DEF IInv, CloseFits
<1> QED
  BY <1>2, <1>4, <1>7, <1>8, <1>9, <1>10, <1>11 DEF IInv

LEMMA CloseSteps ==
    ASSUME IInv, Close \/ CloseResolves
    PROVE  IInv'
<1>1. /\ closed' \in BOOLEAN /\ closeResolved' \in BOOLEAN /\ retry' \in BOOLEAN
      /\ closed => closed'
      /\ UNCHANGED <<file, images, published, task, mem, pending, starts,
                     monitor, saw, op, seen, confirmed, faults, crashes>>
  BY DEF IInv, TypeOK, Close, CloseResolves, disk
<1>2. TypeOK'
  BY <1>1 DEF IInv, TypeOK
<1>3. Held' = Held /\ Live' = Live
  BY <1>1 DEF Held, Live
<1>4. DocsSound'
  BY <1>1, <1>3, DocsKept DEF IInv
<1>5. OpFits' /\ DetachFits' /\ SettleFits'
  BY <1>1, <1>3, OpKept DEF IInv
<1>6. \A w \in Wait : MonitorFits(w)'
  BY <1>1, <1>3, WatchKept DEF IInv
<1>7. CloseFits'
  <2>1. CASE Close
    BY <2>1 DEF IInv, CloseFits, Close
  <2>2. CASE CloseResolves
    BY <2>2 DEF CloseFits, CloseResolves, Idle
  <2> QED
    BY <2>1, <2>2
<1> QED
  BY <1>2, <1>4, <1>5, <1>6, <1>7 DEF IInv

LEMMA RestartStep ==
    ASSUME IInv, Restart
    PROVE  IInv'
<1>1. /\ file' \in images /\ images' = {file'} /\ mem' = file'
      /\ pending' = NoDoc /\ starts' = NoWait
      /\ monitor' = [w \in Wait |-> "off"] /\ saw' = [w \in Wait |-> "none"]
      /\ op' = Idle /\ seen' = {} /\ UNCHANGED <<published, task, confirmed>>
      /\ ~closeResolved'
  BY DEF Restart
<1>2. TypeOK'
  <2>1. images' \subseteq Doc /\ file' \in images' /\ mem' \in Doc
    BY <1>1 DEF IInv, TypeOK
  <2>2. Idle \in Op
    BY DEF Idle, Op, OpKind, Phase, Step
  <2>3. crashes' \in 0..MaxCrashes
    BY WaitAssumption DEF IInv, TypeOK, Restart
  <2>4. monitor' \in [Wait -> Monitor] /\ saw' \in [Wait -> {"none"} \cup Outcome]
    BY <1>1 DEF Monitor
  <2> QED
    BY <1>1, <2>1, <2>2, <2>3, <2>4 DEF IInv, TypeOK, Restart
<1>3. /\ op'.kind = "idle" /\ op'.phase = "commit" /\ op'.step = "ready"
      /\ Held' = {file'} /\ Live' = {file'} /\ Live' \subseteq Live
  BY <1>1 DEF Idle, Held, Live
<1>4. DocsSound'
  BY <1>1, <1>3, DocsKept DEF IInv
<1>5. \A w \in Wait : MonitorFits(w)'
  BY <1>1, <1>3 DEF MonitorFits, Watched, Trying
<1> QED
  BY <1>1, <1>2, <1>3, <1>4, <1>5
     DEF IInv, OpFits, DetachFits, SettleFits, CloseFits
-----------------------------------------------------------------------------
(* The operations begin.                                                   *)

LEMMA BeginStep ==
    ASSUME IInv, NEW kind \in OpKind \ {"idle"}, NEW w \in Wait \cup {NoWait},
           Begin(kind, w), retry' \in BOOLEAN,
           kind \in {"detach", "settle"} => w \in Wait,
           kind = "detach" =>
               mem.waits[w] = "none" /\ file.waits[w] = "none" /\ starts # w,
           kind = "settle" => monitor[w] = "queued"
    PROVE  IInv'
<1>1. /\ op = Idle /\ op.step = "ready"
      /\ op' \in Op /\ op'.kind = kind /\ op'.wait = w /\ op'.step = "ready"
      /\ op'.phase \in {"commit", "reconcile"}
      /\ pending' = NoDoc /\ starts' = NoWait
      /\ UNCHANGED <<file, images, published, task, saw, closed, closeResolved,
                     seen, confirmed, faults, crashes>>
  BY DEF Begin, Idle, Op, Phase, Step, disk
<1>2. /\ file \in Doc /\ mem \in Doc /\ monitor \in [Wait -> Monitor]
  BY DEF IInv, TypeOK
<1>3. mem' \in {mem, file} /\ mem'.waits = file.waits
  BY <1>1 DEF IInv, OpFits, Begin
<1>4. ASSUME NEW v \in Wait
      PROVE  \/ monitor'[v] = monitor[v]
             \/ /\ v = starts /\ monitor[v] = "off" /\ monitor'[v] = "reading"
                /\ ~closed /\ mem' = file /\ file.waits[v] = "detached"
  <2>1. starts # NoWait => pending.waits[starts] = "detached"
    BY DEF IInv, OpFits
  <2> QED
    BY <1>2, <2>1 DEF Begin, Started
<1>5. monitor' \in [Wait -> Monitor]
  BY <1>2 DEF Begin, Started, Monitor
<1>6. TypeOK'
  BY <1>1, <1>2, <1>3, <1>5 DEF IInv, TypeOK
<1>7. Held' = {file, mem'} /\ Held' \subseteq Held /\ Live' \subseteq Live
  BY <1>1, <1>3 DEF Held, Live
<1>8. DocsSound'
  BY <1>1, <1>7, DocsKept DEF IInv
<1>9. OpFits'
  BY <1>1, <1>3 DEF OpFits
<1>10. ASSUME NEW v \in Wait PROVE MonitorFits(v)'
  <2>0. MonitorFits(v)
    BY DEF IInv
  <2>1. CASE monitor'[v] = monitor[v]
    BY <1>1, <1>7, <2>0, <2>1, WatchKept
  <2>2. CASE monitor'[v] # monitor[v]
    <3>1. /\ monitor[v] = "off" /\ monitor'[v] = "reading" /\ ~closed
          /\ file.waits[v] = "detached" /\ file \in Held
          /\ \A doc \in Held' : doc = file
      BY <1>4, <1>7, <2>2 DEF Held
    <3>2. v \notin seen
      BY <2>0, <3>1 DEF MonitorFits, Watched, Trying
    <3> QED
      BY <1>1, <3>1, <3>2 DEF MonitorFits, Watched, Trying
  <2> QED
    BY <2>1, <2>2
<1>11. DetachFits'
  <2>1. CASE kind = "detach"
    <3>1. w \in Wait /\ mem.waits[w] = "none" /\ MonitorFits(w) /\ mem \in Held
      BY <2>1 DEF IInv, Held
    <3>2. monitor[w] = "off" /\ w \notin seen
      BY <1>2, <3>1 DEF MonitorFits, Watched
    <3>3. monitor'[w] = "off"
      BY <1>4, <2>1, <3>1, <3>2
    <3>4. mem'.waits[w] = "none"
      BY <1>3, <2>1
    <3> QED
      BY <1>1, <3>2, <3>3, <3>4 DEF DetachFits, AtCommit
  <2> QED
    BY <1>1, <2>1 DEF DetachFits
<1>12. SettleFits'
  <2>1. CASE kind = "settle"
    <3>1. monitor'[w] = "queued"
      BY <1>4, <2>1
    <3> QED
      BY <1>1, <3>1 DEF SettleFits, AtCommit
  <2> QED
    BY <1>1, <2>1 DEF SettleFits
<1>13. CloseFits'
  <2>1. CASE closeResolved
    <3>1. closed /\ \A v \in Wait : monitor[v] = "off"
      BY <2>1 DEF IInv, CloseFits
    <3>2. kind # "settle" /\ \A v \in Wait : monitor'[v] = "off"
      BY <1>4, <3>1
    <3> QED
      BY <1>1, <3>1, <3>2 DEF CloseFits
  <2> QED
    BY <1>1, <2>1 DEF CloseFits
<1> QED
  BY <1>6, <1>8, <1>9, <1>10, <1>11, <1>12, <1>13 DEF IInv

LEMMA BeginSteps ==
    ASSUME IInv,
           (\E w \in Wait : Detach(w) \/ Settle(w)) \/ Deliver \/ Resume \/ List
    PROVE  IInv'
<1>1. retry \in BOOLEAN
  BY DEF IInv, TypeOK
<1>2. /\ "detach" \in OpKind /\ "settle" \in OpKind /\ "deliver" \in OpKind
      /\ "resume" \in OpKind /\ "list" \in OpKind
  BY DEF OpKind
<1>3. ASSUME NEW w \in Wait, Detach(w) PROVE IInv'
  BY <1>1, <1>2, <1>3, BeginStep DEF Detach
<1>4. ASSUME NEW w \in Wait, Settle(w) PROVE IInv'
  BY <1>1, <1>2, <1>4, BeginStep DEF Settle
<1>5. CASE Deliver
  BY <1>2, <1>5, BeginStep DEF Deliver
<1>6. CASE Resume
  BY <1>1, <1>2, <1>6, BeginStep DEF Resume
<1>7. CASE List
  BY <1>1, <1>2, <1>7, BeginStep DEF List
<1> QED
  BY <1>3, <1>4, <1>5, <1>6, <1>7
-----------------------------------------------------------------------------
(* The bodies.  Memory agrees with the file on the waits.                  *)

(* Monitors may be started for waits that are detached, and no operation   *)
(* relies on them being off.                                               *)
LEMMA StartKept ==
    ASSUME NEW v \in Wait, MonitorFits(v), NEW W, closed \/ v \notin W
               \/ \A doc \in Held : doc.waits[v] = "detached",
           monitor \in [Wait -> Monitor],
           monitor'[v] = Started(monitor, W)[v], Held' \subseteq Held,
           saw' = saw, seen' = seen, closed' = closed
    PROVE  /\ MonitorFits(v)'
           /\ monitor[v] # "off" => monitor'[v] = monitor[v]
           /\ v \notin W \/ closed => monitor'[v] = monitor[v]
<1>1. \/ monitor'[v] = monitor[v]
      \/ /\ v \in W /\ ~closed /\ monitor[v] = "off" /\ monitor'[v] = "reading"
  BY DEF Started
<1>2. CASE monitor'[v] = monitor[v]
  BY <1>2, WatchKept
<1>3. CASE monitor'[v] # monitor[v]
  <2>1. /\ v \in W /\ ~closed /\ monitor[v] = "off" /\ monitor'[v] = "reading"
        /\ \A doc \in Held : doc.waits[v] = "detached"
    BY <1>1, <1>3
  <2>2. mem \in Held
    BY DEF Held
  <2>3. v \notin seen
    BY <2>1, <2>2 DEF MonitorFits, Watched, Trying
  <2> QED
    BY <2>1, <2>3 DEF MonitorFits, Watched, Trying
<1> QED
  BY <1>2, <1>3

LEMMA AtBody ==
    ASSUME IInv, NEW kind \in OpKind \ {"idle"}, Body(kind)
    PROVE  /\ op \in Op /\ op.kind = kind /\ op.phase = "commit"
           /\ op.step = "ready" /\ op # Idle /\ starts = NoWait
           /\ mem.waits = file.waits /\ Held = {file, mem}
           /\ file \in Doc /\ mem \in Doc /\ monitor \in [Wait -> Monitor]
           /\ UNCHANGED <<file, images, published, task, mem, pending, starts,
                          saw, retry, closed, closeResolved, seen, confirmed,
                          faults, crashes>>
<1>1. op \in Op /\ op.kind = kind /\ op.phase = "commit" /\ op.step = "ready"
  BY DEF IInv, TypeOK, Body
<1>2. op # Idle
  BY <1>1 DEF Idle
<1> QED
  BY <1>1, <1>2 DEF IInv, TypeOK, OpFits, Held, Body, disk

LEMMA IdleOp ==
    Idle \in Op /\ Idle.kind = "idle" /\ Idle.phase = "commit" /\ Idle.step = "ready"
BY DEF Idle, Op, OpKind, Phase, Step

(* GoTo, of an operation under way. *)
LEMMA GoneTo ==
    ASSUME op \in Op, NEW phase \in Phase, NEW step \in Step,
           NEW doc \in Doc \cup {NoDoc},
           op' = [op EXCEPT !.phase = phase, !.step = step, !.doc = doc]
    PROVE  /\ op' \in Op /\ op'.kind = op.kind /\ op'.wait = op.wait
           /\ op'.phase = phase /\ op'.step = step /\ op'.doc = doc
           /\ op'.warned = op.warned
BY DEF Op

LEMMA StartedTyped ==
    ASSUME monitor \in [Wait -> Monitor], NEW W
    PROVE  Started(monitor, W) \in [Wait -> Monitor]
BY DEF Started, Monitor

(* The bodies that commit nothing: the operation ends, or turns to the     *)
(* events.                                                                 *)
LEMMA QuietBody ==
    ASSUME IInv, NEW kind \in OpKind \ {"idle"}, Body(kind),
           NEW W \in SUBSET Detached(mem), monitor' = Started(monitor, W),
           \/ op' = Idle
           \/ op' = [op EXCEPT !.phase = "notify", !.step = "ready", !.doc = NoDoc]
              /\ kind \in {"resume", "deliver"}
    PROVE  IInv'
<1>1. /\ op \in Op /\ op.kind = kind /\ mem.waits = file.waits
      /\ Held = {file, mem} /\ starts = NoWait /\ monitor \in [Wait -> Monitor]
      /\ UNCHANGED <<file, images, published, task, mem, pending, starts,
                     saw, retry, closed, closeResolved, seen, confirmed,
                     faults, crashes>>
  BY AtBody
<1>2. /\ op' \in Op /\ op'.step = "ready"
      /\ op'.kind \in {"idle", "resume", "deliver"}
  <2>1. CASE op' = Idle
    BY <2>1, IdleOp
  <2>2. CASE op' # Idle
    <3>1. "notify" \in Phase /\ "ready" \in Step /\ NoDoc \in Doc \cup {NoDoc}
      BY DEF Phase, Step
    <3> QED
      BY <1>1, <2>2, <3>1, GoneTo
  <2> QED
    BY <2>1, <2>2
<1>3. TypeOK'
  BY <1>1, <1>2, StartedTyped DEF IInv, TypeOK
<1>4. Held' = {file, mem} /\ Held' \subseteq Held /\ Live' \subseteq Live
  BY <1>1, <1>2 DEF Held, Live
<1>5. DocsSound'
  BY <1>1, <1>4, DocsKept DEF IInv
<1>6. ASSUME NEW v \in Wait
      PROVE  /\ MonitorFits(v)'
             /\ closed => monitor'[v] = monitor[v]
  <2>1. v \notin W \/ \A doc \in Held : doc.waits[v] = "detached"
    BY <1>1 DEF Detached
  <2>2. MonitorFits(v)
    BY DEF IInv
  <2> QED
    BY <1>1, <1>4, <2>1, <2>2, StartKept
<1>7. OpFits'
  BY <1>1, <1>2 DEF OpFits
<1>8. DetachFits' /\ SettleFits'
  BY <1>2 DEF DetachFits, SettleFits
<1>9. CloseFits'
  BY <1>1, <1>2, <1>6 DEF IInv, CloseFits
<1> QED
  BY <1>3, <1>5, <1>6, <1>7, <1>8, <1>9 DEF IInv

LEMMA OtherBodies ==
    ASSUME IInv, ResumeBody \/ DeliverBody \/ ListBody
    PROVE  IInv'
<1>1. /\ "resume" \in OpKind \ {"idle"} /\ "deliver" \in OpKind \ {"idle"}
      /\ "list" \in OpKind \ {"idle"}
  BY DEF OpKind
<1>2. monitor \in [Wait -> Monitor]
  BY DEF IInv, TypeOK
<1>3. Started(monitor, {}) = monitor
  BY <1>2 DEF Started
<1>4. CASE ResumeBody
  BY <1>1, <1>4, QuietBody DEF ResumeBody, GoTo
<1>5. CASE DeliverBody
  BY <1>1, <1>3, <1>5, QuietBody DEF DeliverBody, GoTo
<1>6. CASE ListBody
  BY <1>1, <1>3, <1>6, QuietBody DEF ListBody
<1> QED
  BY <1>4, <1>5, <1>6

(* The bodies that commit: a document joins those at work. *)
LEMMA CommitBody ==
    ASSUME IInv, NEW kind \in {"detach", "settle"}, Body(kind),
           NEW doc \in Doc,
           op' = [op EXCEPT !.phase = "commit", !.step = "rename", !.doc = doc],
           ~closeResolved, Single(doc),
           \A v \in Wait : Told(published, doc, v),
           \A v \in Wait : mem.waits[v] # "none" => doc.waits[v] # "none",
           \A v \in Wait : monitor'[v] = "reading" => doc.waits[v] = "detached",
           \A v \in seen : doc.waits[v] # "failed",
           \A v \in Wait : v # op.wait /\ doc.waits[v] = "detached"
                              => mem.waits[v] = "detached",
           monitor' \in [Wait -> Monitor],
           monitor'[op.wait] = monitor[op.wait],
           \A v \in Wait :
               /\ monitor[v] # "off" => monitor'[v] = monitor[v]
               /\ \/ monitor'[v] = monitor[v]
                  \/ /\ ~closed /\ monitor'[v] = "reading"
                     /\ mem.waits[v] = "detached",
           kind = "detach" => doc.waits[op.wait] = "detached",
           kind = "settle" => doc.waits[op.wait] = saw[op.wait]
    PROVE  IInv'
<1>0. kind \in OpKind \ {"idle"}
  BY DEF OpKind
<1>1. /\ op \in Op /\ op.kind = kind /\ op.phase = "commit" /\ op.step = "ready"
      /\ starts = NoWait /\ mem.waits = file.waits /\ Held = {file, mem}
      /\ file \in Doc /\ mem \in Doc /\ monitor \in [Wait -> Monitor]
      /\ UNCHANGED <<file, images, published, task, mem, pending, starts,
                     saw, retry, closed, closeResolved, seen, confirmed,
                     faults, crashes>>
  BY <1>0, AtBody
<1>2. /\ op' \in Op /\ op'.kind = kind /\ op'.wait = op.wait
      /\ op'.phase = "commit" /\ op'.step = "rename" /\ op'.doc = doc
  BY <1>1 DEF Op, Phase, Step
<1>3. op.wait \in Wait /\ (kind = "settle" => monitor[op.wait] = "queued")
  BY <1>1 DEF IInv, OpFits, SettleFits
<1>4. TypeOK'
  BY <1>1, <1>2 DEF IInv, TypeOK
<1>5. Held' = {file, mem, doc} /\ Live' = Live \cup {doc} /\ mem \in Live
  BY <1>1, <1>2 DEF Held, Live
<1>6. DocsSound'
  <2>1. \A w \in confirmed : w \in Wait /\ doc.waits[w] # "none"
    BY <1>5 DEF IInv, TypeOK, DocsSound
  <2>2. Single(doc)' /\ \A d : Single(d)' <=> Single(d)
    BY DEF Single, Detached
  <2> QED
    BY <1>1, <1>5, <2>1, <2>2 DEF IInv, DocsSound
<1>7. ASSUME NEW v \in Wait PROVE MonitorFits(v)'
  <2>0. MonitorFits(v) /\ (v = op.wait => monitor'[v] = monitor[v])
    BY DEF IInv
  <2>1. v = op.wait /\ kind = "settle" => monitor'[v] = "queued"
    BY <1>3, <2>0
  <2>2. v = op.wait /\ kind = "detach" => monitor'[v] = "off" /\ v \notin seen
    BY <1>1, <2>0 DEF IInv, DetachFits
  <2>3. \A d \in {file, mem} : d.waits[v] = mem.waits[v]
    BY <1>1
  <2>4. v \in seen => monitor'[v] # "reading"
    <3>1. CASE monitor'[v] = monitor[v]
      BY <2>0, <3>1 DEF MonitorFits
    <3>2. CASE monitor'[v] # monitor[v]
      BY <1>1, <2>0, <3>2 DEF MonitorFits, Watched, Trying
    <3> QED
      BY <3>1, <3>2
  <2>5. \A d \in {file, mem} : Watched(d, v)'
    BY <1>1, <2>0, <2>3, <2>4 DEF MonitorFits, Watched, Trying
  <2>6. Watched(doc, v)'
    <3>1. monitor'[v] # "off" => doc.waits[v] # "none"
      BY <1>1, <2>0 DEF MonitorFits, Watched
    <3>2. v \in seen => doc.waits[v] # "none"
      BY <1>1, <2>0 DEF MonitorFits, Watched
    <3>3. v \in seen /\ doc.waits[v] = "detached" => closed \/ monitor'[v] \in Trying
      <4>1. CASE v = op.wait
        BY <2>1, <2>2, <4>1 DEF Trying
      <4>2. CASE v # op.wait
        BY <1>1, <2>0, <4>2 DEF MonitorFits, Watched, Trying
      <4> QED
        BY <4>1, <4>2
    <3> QED
      BY <1>1, <3>1, <3>2, <3>3 DEF Watched
  <2>7. monitor'[v] \in Trying => saw[v] \in Outcome
    BY <2>0 DEF MonitorFits, Trying
  <2> QED
    BY <1>1, <1>5, <2>0, <2>4, <2>5, <2>6, <2>7 DEF MonitorFits
<1>8. OpFits'
  BY <1>1, <1>2, <1>3 DEF OpFits
<1>9. DetachFits'
  BY <1>1, <1>2, <1>3 DEF IInv, DetachFits, AtCommit
<1>10. SettleFits'
  BY <1>1, <1>2, <1>3 DEF SettleFits, AtCommit
<1>11. CloseFits'
  BY <1>1 DEF CloseFits
<1> QED
  BY <1>4, <1>6, <1>7, <1>8, <1>9, <1>10, <1>11 DEF IInv

LEMMA MemSound ==
    ASSUME IInv
    PROVE  /\ Single(mem) /\ \A v \in Wait : Told(published, mem, v)
           /\ \A v \in Wait : monitor[v] = "reading" => mem.waits[v] = "detached"
           /\ \A v \in seen : mem.waits[v] # "failed"
<1>1. mem \in Live /\ mem \in Held /\ seen \subseteq Wait
  BY DEF IInv, TypeOK, Held, Live
<1> QED
  BY <1>1 DEF IInv, DocsSound, MonitorFits, Watched

LEMMA DetachBodyStep == IInv /\ DetachBody => IInv'
<1> SUFFICES ASSUME IInv, DetachBody PROVE IInv'
  OBVIOUS
<1> DEFINE existing == {d \in Detached(mem) : TaskOf[d] = TaskOf[op.wait]}
<1>0. "detach" \in OpKind \ {"idle"} /\ Body("detach")
  BY DEF OpKind, DetachBody
<1>1. /\ op.kind = "detach" /\ op.phase = "commit" /\ mem \in Doc
      /\ monitor \in [Wait -> Monitor]
  BY <1>0, AtBody
<1>2. op.wait \in Wait
  BY <1>1 DEF IInv, OpFits
<1>3. CASE closed \/ existing # {}
  BY <1>0, <1>3, QuietBody DEF DetachBody
<1>4. CASE ~closed /\ existing = {}
  <2> PICK w \in Wait : w = op.wait
    BY <1>2
  <2> DEFINE doc == Moved(mem, w, "detached")
  <2>1. /\ op' = [op EXCEPT !.phase = "commit", !.step = "rename", !.doc = doc]
        /\ monitor' = monitor
    BY <1>1, <1>4 DEF DetachBody, GoTo, Started
  <2>2. /\ doc \in Doc /\ \A v \in Wait : Told(published, doc, v)
        /\ doc.waits = [mem.waits EXCEPT ![w] = "detached"]
    <3>1. "detached" \in Said
      BY DEF Said
    <3> QED
      BY <1>1, <3>1, MemSound, MovedDoc
  <2>3. mem.waits \in [Wait -> Status]
    BY <1>1 DEF Doc
  <2> HIDE DEF doc
  <2>4. Detached(doc) = Detached(mem) \cup {w}
    BY <2>2, <2>3 DEF Detached
  <2>5. Single(doc)
    BY <1>4, <2>4, MemSound DEF Single
  <2>6. ~closeResolved
    BY <1>4 DEF IInv, CloseFits
  <2>7. \A v \in Wait : IF v = w THEN doc.waits[v] = "detached"
                       ELSE doc.waits[v] = mem.waits[v]
    BY <2>2, <2>3
  <2>8. seen \subseteq Wait
    BY DEF IInv, TypeOK
  <2> QED
    BY <1>0, <1>1, <2>1, <2>2, <2>5, <2>6, <2>7, <2>8, MemSound, CommitBody
<1> QED
  BY <1>3, <1>4

(* A monitor that finds its wait settled, or has settled it, ends. *)
LEMMA SettleEnds ==
    ASSUME IInv, op.kind = "settle", op.step # "rename",
           mem.waits[op.wait] # "detached", op' = Idle,
           monitor' = [monitor EXCEPT ![op.wait] = "off"],
           UNCHANGED <<disk, task, mem, pending, starts, saw, retry, closed,
                       closeResolved, seen, confirmed, faults, crashes>>
    PROVE  IInv'
<1>1. /\ op.wait \in Wait /\ op # Idle /\ mem.waits = file.waits
      /\ starts = NoWait /\ ~closeResolved /\ monitor \in [Wait -> Monitor]
  BY DEF IInv, TypeOK, OpFits, CloseFits, Idle
<1>2. Held = {file, mem} /\ Held' = {file, mem} /\ Live' = Live
  BY IdleOp DEF Held, Live, disk
<1>3. TypeOK'
  <2>1. monitor' \in [Wait -> Monitor]
    BY <1>1 DEF Monitor
  <2> QED
    BY <2>1, IdleOp DEF IInv, TypeOK, disk
<1>4. DocsSound'
  BY <1>2, DocsKept DEF IInv, disk
<1>5. ASSUME NEW v \in Wait PROVE MonitorFits(v)'
  <2>0. MonitorFits(v)
    BY DEF IInv
  <2>1. CASE v # op.wait
    BY <1>1, <1>2, <2>0, <2>1, WatchKept
  <2>2. CASE v = op.wait
    <3>1. monitor'[v] = "off" /\ \A doc \in Held : doc.waits[v] # "detached"
      BY <1>1, <1>2, <2>2
    <3> QED
      BY <1>2, <2>0, <3>1 DEF MonitorFits, Watched, Trying
  <2> QED
    BY <2>1, <2>2
<1> QED
  BY <1>1, <1>3, <1>4, <1>5, IdleOp
     DEF IInv, OpFits, DetachFits, SettleFits, CloseFits, disk

LEMMA SettleBodyStep == IInv /\ SettleBody => IInv'
<1> SUFFICES ASSUME IInv, SettleBody PROVE IInv'
  OBVIOUS
<1>0. "settle" \in OpKind \ {"idle"} /\ Body("settle")
  BY DEF OpKind, SettleBody
<1>1. /\ op.kind = "settle" /\ op.phase = "commit" /\ op.step = "ready"
      /\ mem \in Doc /\ monitor \in [Wait -> Monitor]
      /\ UNCHANGED <<disk, task, mem, pending, starts, saw, retry, closed,
                     closeResolved, seen, confirmed, faults, crashes>>
  BY <1>0, AtBody DEF Body
<1>2. /\ op.wait \in Wait /\ monitor[op.wait] = "queued"
      /\ saw[op.wait] \in Outcome /\ ~closeResolved
  BY <1>1 DEF IInv, OpFits, SettleFits, CloseFits, MonitorFits, Trying
<1>3. CASE op.wait \notin Detached(mem)
  BY <1>1, <1>2, <1>3, SettleEnds DEF SettleBody, Detached
<1>4. CASE op.wait \in Detached(mem)
  <2> PICK w \in Wait, status \in Outcome : w = op.wait /\ status = saw[w]
    BY <1>2
  <2>1. monitor' = monitor
    BY <1>4 DEF SettleBody
  <2>2. mem.waits \in [Wait -> Status]
    BY <1>1 DEF Doc
  <2>3. PICK moved \in Doc :
            /\ moved = Moved(mem, w, status)
            /\ \A v \in Wait : Told(published, moved, v)
            /\ moved.waits = [mem.waits EXCEPT ![w] = status]
    <3>1. status \in Said /\ \A v \in Wait : Told(published, mem, v)
      BY MemSound DEF Said
    <3> QED
      BY <1>1, <3>1, MovedDoc
  <2>4. PICK W \in SUBSET (Settled(moved) \ {w}) :
            op' = [op EXCEPT !.phase = "commit", !.step = "rename",
                             !.doc = Pruned(moved, W)]
    BY <1>1, <1>4, <2>3 DEF SettleBody, GoTo
  <2>5. PICK doc \in Doc :
            /\ doc = Pruned(moved, W)
            /\ \A v \in Wait : Told(published, doc, v)
            /\ \A v \in Wait : /\ doc.waits[v] \in {moved.waits[v], "pruned"}
                               /\ v \notin W => doc.waits[v] = moved.waits[v]
            /\ Detached(doc) \subseteq Detached(moved)
    <3>1. Prunable(moved, W)
      BY DEF Prunable
    <3> DEFINE d == Pruned(moved, W)
    <3>2. d \in Doc
      BY <2>3, <3>1, PrunedDoc
    <3>3. \A v \in Wait : Told(published, d, v)
      BY <2>3, <3>1, PrunedDoc
    <3>4. Detached(d) \subseteq Detached(moved)
      BY <2>3, <3>1, PrunedDoc
    <3>5. \A v \in Wait : d.waits[v] \in {moved.waits[v], "pruned"}
      BY <2>3, <3>1, PrunedDoc
    <3>6. \A v \in Wait : v \notin W => d.waits[v] = moved.waits[v]
      BY DEF Pruned
    <3> QED
      BY <3>2, <3>3, <3>4, <3>5, <3>6
  <2>6. Detached(doc) \subseteq Detached(mem)
    BY <2>2, <2>3, <2>5 DEF Detached, Outcome
  <2>7. Single(doc)
    BY <2>6, MemSound DEF Single
  <2>8. \A v \in Wait : v # w => doc.waits[v] \in {mem.waits[v], "pruned"}
    BY <2>2, <2>3, <2>5
  <2>9. doc.waits[w] = status
    BY <2>2, <2>3, <2>5
  <2>10. \A v \in Wait : monitor'[v] = "reading" => doc.waits[v] = "detached"
    <3> SUFFICES ASSUME NEW v \in Wait, monitor[v] = "reading"
                 PROVE  doc.waits[v] = "detached"
      BY <2>1
    <3>1. mem.waits[v] = "detached" /\ v # w
      BY <1>2, MemSound
    <3>2. v \notin W
      BY <2>2, <2>3, <3>1 DEF Settled, Outcome
    <3> QED
      BY <2>2, <2>3, <2>5, <3>1, <3>2
  <2>11. \A v \in seen : doc.waits[v] # "failed"
    <3> SUFFICES ASSUME NEW v \in seen PROVE doc.waits[v] # "failed"
      OBVIOUS
    <3>1. v \in Wait /\ mem.waits[v] # "failed" /\ saw[v] = "resolved"
      BY MemSound DEF IInv, TypeOK, MonitorFits
    <3> QED
      BY <2>8, <2>9, <3>1
  <2>12. /\ \A v \in Wait : mem.waits[v] # "none" => doc.waits[v] # "none"
         /\ \A v \in Wait : v # op.wait /\ doc.waits[v] = "detached"
                            => mem.waits[v] = "detached"
    BY <2>8, <2>9 DEF Outcome
  <2>13. doc.waits[op.wait] = saw[op.wait]
    BY <2>9
  <2> QED
    BY <1>0, <1>1, <1>2, <2>1, <2>4, <2>5, <2>7, <2>10, <2>11, <2>12, <2>13,
       CommitBody
<1> QED
  BY <1>3, <1>4
-----------------------------------------------------------------------------
(* #persist.                                                               *)

LEMMA AtPersist ==
    ASSUME IInv, NEW step \in {"rename", "sync"}, Persisting(step)
    PROVE  /\ op \in Op /\ op # Idle /\ op.step = step /\ starts = NoWait
           /\ mem.waits = file.waits /\ ~closeResolved
           /\ monitor \in [Wait -> Monitor] /\ retry \in BOOLEAN
           /\ file \in images /\ images \subseteq Doc /\ mem \in Doc
           /\ op.phase = "commit" => op.kind \in {"detach", "settle"}
           /\ op.kind \in {"detach", "settle"} => op.wait \in Wait
           /\ step = "rename" => op.doc \in Doc /\ Held = {file, mem, op.doc}
           /\ step = "rename" /\ op.phase # "commit" => op.doc.waits = mem.waits
           /\ step = "sync" => Held = {file, mem}
           /\ UNCHANGED <<published, task, saw, closed, closeResolved, seen,
                          confirmed, crashes>>
<1>1. op \in Op /\ op.step = step /\ op # Idle
  BY IdleOp DEF IInv, TypeOK, Persisting
<1> QED
  BY <1>1 DEF IInv, TypeOK, OpFits, CloseFits, Held, Persisting

(* The commit, or the delivery, is given up; the file may have it all the  *)
(* same, and memory may not know.                                          *)
LEMMA ThrownStep ==
    ASSUME IInv, Persisting("rename"), Thrown, faults' \in 0..MaxFaults,
           file' \in {file, op.doc}, images \subseteq images',
           images' \subseteq images \cup {file'}, file' \in images',
           \/ mem' = file' /\ pending' = pending /\ starts' = starts
           \/ mem' = mem /\ file' = file /\ pending' = pending /\ starts' = starts
           \/ /\ mem' = mem /\ pending' = op.doc
              /\ starts' = IF op.kind = "detach" /\ op.phase = "commit"
                           THEN op.wait ELSE NoWait
    PROVE  IInv'
<1>0. "rename" \in {"rename", "sync"}
  OBVIOUS
<1>1. /\ op \in Op /\ op # Idle /\ op.step = "rename" /\ starts = NoWait
      /\ mem.waits = file.waits /\ ~closeResolved
      /\ monitor \in [Wait -> Monitor] /\ retry \in BOOLEAN
      /\ file \in images /\ images \subseteq Doc /\ mem \in Doc
      /\ op.phase = "commit" => op.kind \in {"detach", "settle"}
      /\ op.kind \in {"detach", "settle"} => op.wait \in Wait
      /\ op.doc \in Doc /\ Held = {file, mem, op.doc}
      /\ op.phase # "commit" => op.doc.waits = mem.waits
      /\ UNCHANGED <<published, task, saw, closed, closeResolved, seen,
                     confirmed, crashes>>
  BY <1>0, AtPersist
<1>2. /\ op' \in Op /\ op'.step # "rename" /\ op'.step # "sync"
      /\ op.phase = "commit" => op' = Idle
      /\ op.phase # "commit" =>
           op'.phase = op.phase /\ op'.kind = op.kind /\ op'.wait = op.wait
           /\ op'.step = "over" /\ op'.warned = op.warned
  <2>1. CASE op.phase = "commit"
    BY <2>1, IdleOp DEF Thrown
  <2>2. CASE op.phase # "commit"
    <3>1. /\ op.phase \in Phase /\ "over" \in Step /\ NoDoc \in Doc \cup {NoDoc}
          /\ op' = [op EXCEPT !.phase = op.phase, !.step = "over", !.doc = NoDoc]
      BY <1>1, <2>2 DEF Op, Step, Thrown, GoTo
    <3>2. op' = [op EXCEPT !.step = "over", !.doc = NoDoc]
      BY <1>1, <3>1 DEF Op
    <3>3. /\ op' \in Op /\ op'.step = "over" /\ op'.kind = op.kind
          /\ op'.wait = op.wait /\ op'.phase = op.phase /\ op'.warned = op.warned
      BY <1>1, <3>1, <3>2 DEF Op
    <3> QED
      BY <2>2, <3>3
  <2> QED
    BY <2>1, <2>2
<1>3. /\ file' \in Doc /\ mem' \in Doc /\ pending' \in Doc \cup {NoDoc}
      /\ images' \subseteq Doc /\ starts' \in Wait \cup {NoWait}
  BY <1>1 DEF IInv, TypeOK
<1>4. /\ Held' = {file', mem'} /\ Held' \subseteq Held /\ Live' \subseteq Live
      /\ op.phase # "commit" => mem'.waits = mem.waits /\ file'.waits = mem.waits
  BY <1>1, <1>2 DEF Held, Live
<1>5. /\ monitor' \in [Wait -> Monitor] /\ retry' \in BOOLEAN
      /\ \A v \in Wait :
           \/ monitor'[v] = monitor[v]
           \/ op.phase = "commit" /\ monitor[v] = "queued" /\ monitor'[v] = "delay"
  <2>1. op.kind = "settle" => monitor[op.wait] = "queued"
    BY DEF IInv, SettleFits
  <2> QED
    BY <1>1, <2>1 DEF Thrown, Rearm, Monitor
<1>6. TypeOK'
  BY <1>1, <1>2, <1>3, <1>5 DEF IInv, TypeOK
<1>7. DocsSound'
  BY <1>1, <1>4, DocsKept DEF IInv
<1>8. ASSUME NEW v \in Wait PROVE MonitorFits(v)'
  <2>0. MonitorFits(v)
    BY DEF IInv
  <2>1. CASE monitor'[v] = monitor[v]
    BY <1>1, <1>4, <2>0, <2>1, WatchKept
  <2>2. CASE monitor'[v] # monitor[v]
    BY <1>1, <1>4, <1>5, <2>0, <2>2 DEF MonitorFits, Watched, Trying
  <2> QED
    BY <2>1, <2>2
<1>9. OpFits'
  <2>1. op' # Idle \/ pending' = NoDoc => mem'.waits = file'.waits
    BY <1>1, <1>2, <1>4, DocAssumption
  <2>2. starts' # NoWait =>
          op' = Idle /\ pending' # NoDoc /\ pending'.waits[starts'] = "detached"
    <3>1. op.kind = "detach" /\ op.phase = "commit"
            => op.doc.waits[op.wait] = "detached"
      BY <1>1 DEF IInv, DetachFits, AtCommit
    <3> QED
      BY <1>1, <1>2, <3>1, DocAssumption
  <2>3. op'.kind \in {"detach", "settle"} => op'.wait \in Wait
    BY <1>1, <1>2, IdleOp
  <2> QED
    BY <1>2, <2>1, <2>2, <2>3 DEF OpFits
<1>10. DetachFits' /\ SettleFits'
  <2>1. CASE op.phase = "commit"
    BY <1>2, <2>1, IdleOp DEF DetachFits, SettleFits
  <2>2. CASE op.phase # "commit"
    <3>1. \A v \in Wait : monitor'[v] = monitor[v]
      BY <1>5, <2>2
    <3>2. DetachFits'
      BY <1>1, <1>2, <1>4, <2>2, <3>1 DEF IInv, DetachFits, AtCommit
    <3>3. SettleFits'
      BY <1>1, <1>2, <1>4, <2>2, <3>1 DEF IInv, SettleFits, AtCommit
    <3> QED
      BY <3>2, <3>3
  <2> QED
    BY <2>1, <2>2
<1>11. CloseFits'
  BY <1>1 DEF CloseFits
<1> QED
  BY <1>6, <1>7, <1>8, <1>9, <1>10, <1>11 DEF IInv

(* The document is in place, and an operation that has committed turns to  *)
(* the events.                                                             *)
LEMMA CommittedStep ==
    ASSUME IInv, NEW step \in {"rename", "sync"}, Persisting(step),
           NEW warning \in BOOLEAN, Committed(warning), faults' \in 0..MaxFaults,
           file' \in Held, mem' \in Held, images' \subseteq images \cup {file'},
           file' \in images', UNCHANGED <<pending, starts>>,
           mem'.waits = file'.waits,
           op.phase # "commit" => mem'.waits = mem.waits,
           op.phase = "commit" /\ op.kind = "detach" =>
               /\ mem'.waits[op.wait] = "detached"
               /\ ~warning => images' = {file'},
           op.phase = "commit" /\ op.kind = "settle" =>
               mem'.waits[op.wait] # "detached"
    PROVE  IInv'
<1>1. /\ op \in Op /\ op # Idle /\ op.step = step /\ starts = NoWait
      /\ ~closeResolved
      /\ monitor \in [Wait -> Monitor] /\ retry \in BOOLEAN
      /\ file \in images /\ images \subseteq Doc /\ mem \in Doc
      /\ op.phase = "commit" => op.kind \in {"detach", "settle"}
      /\ op.kind \in {"detach", "settle"} => op.wait \in Wait
      /\ step = "rename" => op.doc \in Doc /\ Held = {file, mem, op.doc}
      /\ step = "sync" => Held = {file, mem}
      /\ UNCHANGED <<published, task, saw, closed, closeResolved, seen,
                     confirmed, crashes>>
  BY AtPersist
<1>2. /\ op' \in Op /\ op'.kind = op.kind /\ op'.wait = op.wait
      /\ op'.step = "ready"
      /\ op'.phase = IF op.phase = "commit" THEN "notify" ELSE op.phase
      /\ op'.warned = (op.warned \/ (warning /\ op.phase = "commit"))
  <2>1. "ready" \in Step /\ "notify" \in Phase
    BY DEF Step, Phase
  <2> QED
    BY <1>1, <2>1 DEF Committed, Op
<1>3. file' \in Doc /\ mem' \in Doc /\ images' \subseteq Doc
  BY <1>1
<1>4. Held' = {file', mem'} /\ Held' \subseteq Held /\ Live' \subseteq Live
  BY <1>2 DEF Held, Live
<1>5. /\ monitor' \in [Wait -> Monitor] /\ retry' = retry
      /\ \A v \in Wait :
           \/ monitor'[v] = monitor[v]
           \/ /\ op.phase = "commit" /\ op.kind = "detach" /\ v = op.wait
              /\ monitor[v] = "off" /\ monitor'[v] = "reading"
  BY <1>1 DEF Committed, Started, Monitor
<1>6. TypeOK'
  BY <1>1, <1>2, <1>3, <1>5 DEF IInv, TypeOK
<1>7. DocsSound'
  BY <1>1, <1>4, DocsKept DEF IInv
<1>8. ASSUME NEW v \in Wait PROVE MonitorFits(v)'
  <2>0. MonitorFits(v)
    BY DEF IInv
  <2>1. CASE monitor'[v] = monitor[v]
    BY <1>1, <1>4, <2>0, <2>1, WatchKept
  <2>2. CASE monitor'[v] # monitor[v]
    <3>1. /\ monitor[v] = "off" /\ monitor'[v] = "reading" /\ v \notin seen
          /\ \A doc \in Held' : doc.waits[v] = "detached"
      BY <1>4, <1>5, <2>2 DEF IInv, DetachFits
    <3> QED
      BY <1>1, <3>1 DEF MonitorFits, Watched, Trying
  <2> QED
    BY <2>1, <2>2
<1>9. OpFits'
  BY <1>1, <1>2 DEF OpFits
<1>10. DetachFits'
  <2>1. CASE op.kind = "detach" /\ op.phase = "commit"
    <3>1. op'.phase = "notify" /\ (~op'.warned => ~warning)
      BY <1>2, <2>1
    <3>2. ~warning => Live' = {file', mem'}
      BY <1>4, <2>1 DEF Live
    <3>3. ~op'.warned => \A doc \in Live' : doc.waits[op.wait] = "detached"
      BY <2>1, <3>1, <3>2
    <3> QED
      BY <1>2, <3>1, <3>3 DEF DetachFits, AtCommit
  <2>2. CASE op.kind = "detach" /\ op.phase # "commit"
    <3>1. op'.phase = op.phase /\ op'.kind = "detach"
      BY <1>2, <2>2
    <3>3. op'.warned <=> op.warned
      BY <1>2, <2>2
    <3>2. monitor'[op.wait] = monitor[op.wait]
      BY <1>1, <1>5, <2>2
    <3> QED
      BY <1>1, <1>2, <1>4, <2>2, <3>1, <3>2, <3>3 DEF IInv, DetachFits, AtCommit
  <2>3. CASE op.kind # "detach"
    BY <1>2, <2>3 DEF DetachFits
  <2> QED
    BY <2>1, <2>2, <2>3
<1>11. SettleFits'
  <2>1. CASE op.kind = "settle"
    <3>1. monitor'[op.wait] = monitor[op.wait]
      BY <1>1, <1>5, <2>1
    <3> QED
      BY <1>1, <1>2, <2>1, <3>1 DEF IInv, SettleFits, AtCommit
  <2> QED
    BY <1>2, <2>1 DEF SettleFits
<1>12. CloseFits'
  BY <1>1 DEF CloseFits
<1> QED
  BY <1>6, <1>7, <1>8, <1>9, <1>10, <1>11, <1>12 DEF IInv

LEMMA RenameStep == IInv /\ Rename => IInv'
<1> SUFFICES ASSUME IInv, Rename PROVE IInv'
  OBVIOUS
<1>0. "rename" \in {"rename", "sync"} /\ Persisting("rename")
  BY DEF Rename
<1>1. /\ op \in Op /\ op # Idle /\ op.step = "rename" /\ starts = NoWait
      /\ ~closeResolved /\ images \subseteq Doc
      /\ op.phase = "commit" => op.kind \in {"detach", "settle"}
      /\ op.kind \in {"detach", "settle"} => op.wait \in Wait
      /\ op.doc \in Doc /\ Held = {file, mem, op.doc}
      /\ op.phase # "commit" => op.doc.waits = mem.waits
      /\ UNCHANGED <<published, task, saw, closed, closeResolved, seen,
                     confirmed, crashes>>
  BY <1>0, AtPersist
<1>2. /\ file' = op.doc /\ mem' = op.doc /\ images' = images \cup {op.doc}
      /\ UNCHANGED <<pending, starts, monitor, retry, faults>>
  BY DEF Rename
<1>3. /\ op' \in Op /\ op'.kind = op.kind /\ op'.wait = op.wait
      /\ op'.step = "sync" /\ op'.phase = op.phase /\ op'.warned = op.warned
  <2>1. /\ op.phase \in Phase /\ "sync" \in Step /\ NoDoc \in Doc \cup {NoDoc}
    BY <1>1 DEF Op, Step
  <2>2. op' = [op EXCEPT !.phase = op.phase, !.step = "sync", !.doc = NoDoc]
    BY DEF Rename, GoTo
  <2> QED
    BY <1>1, <2>1, <2>2 DEF Op
<1>4. TypeOK'
  BY <1>1, <1>2, <1>3 DEF IInv, TypeOK
<1>5. Held' = {op.doc} /\ Held' \subseteq Held /\ Live' \subseteq Live
  BY <1>1, <1>2, <1>3 DEF Held, Live
<1>6. DocsSound'
  BY <1>1, <1>5, DocsKept DEF IInv
<1>7. \A v \in Wait : MonitorFits(v)'
  BY <1>1, <1>2, <1>5, WatchKept DEF IInv
<1>8. OpFits'
  BY <1>1, <1>2, <1>3 DEF OpFits
<1>9. DetachFits'
  BY <1>1, <1>2, <1>3, <1>5 DEF IInv, DetachFits, AtCommit
<1>10. SettleFits'
  <2>1. op.kind = "settle" => saw[op.wait] \in Outcome
    BY <1>1 DEF IInv, SettleFits, MonitorFits, Trying
  <2> QED
    BY <1>1, <1>2, <1>3, <2>1 DEF IInv, SettleFits, AtCommit, Outcome
<1>11. CloseFits'
  BY <1>1 DEF CloseFits
<1> QED
  BY <1>4, <1>6, <1>7, <1>8, <1>9, <1>10, <1>11 DEF IInv

LEMMA FaultTyped == IInv /\ Fault => faults' \in 0..MaxFaults
BY WaitAssumption DEF IInv, TypeOK, Fault

LEMMA PersistFailures ==
    ASSUME IInv, WriteFails \/ RenameFails \/ RenameUnknown
    PROVE  IInv'
<1>0. /\ "rename" \in {"rename", "sync"} /\ Persisting("rename")
      /\ faults' \in 0..MaxFaults
  BY FaultTyped DEF WriteFails, RenameFails, RenameUnknown
<1>1. /\ file \in images /\ Held = {file, mem, op.doc}
      /\ op.phase # "commit" => op.doc.waits = mem.waits
      /\ op.kind \in {"detach", "settle"} => op.wait \in Wait
      /\ op.step = "rename"
  BY <1>0, AtPersist
<1>2. CASE WriteFails
  BY <1>0, <1>1, <1>2, ThrownStep DEF WriteFails
<1>3. CASE RenameUnknown
  BY <1>0, <1>1, <1>3, ThrownStep DEF RenameUnknown, Renamed
<1>4. CASE RenameFails /\ file' # op.doc
  BY <1>0, <1>1, <1>4, ThrownStep DEF RenameFails, Renamed
<1>5. CASE RenameFails /\ file' = op.doc
  <2>1. /\ mem' = op.doc /\ images' = images \cup {file'} /\ Committed(TRUE)
        /\ UNCHANGED <<pending, starts>>
    BY <1>5 DEF RenameFails, Renamed
  <2>2. op.phase = "commit" /\ op.kind = "detach"
          => op.doc.waits[op.wait] = "detached"
    BY <1>1 DEF IInv, DetachFits, AtCommit
  <2>3. op.phase = "commit" /\ op.kind = "settle"
          => op.doc.waits[op.wait] # "detached"
    BY <1>1 DEF IInv, SettleFits, AtCommit, MonitorFits, Trying, Outcome
  <2> QED
    BY <1>0, <1>1, <1>5, <2>1, <2>2, <2>3, CommittedStep
<1> QED
  BY <1>2, <1>3, <1>4, <1>5

LEMMA SyncSteps ==
    ASSUME IInv, Sync \/ SyncFails
    PROVE  IInv'
<1>0. /\ "sync" \in {"rename", "sync"} /\ Persisting("sync")
      /\ faults' \in 0..MaxFaults
  BY FaultTyped DEF IInv, TypeOK, Sync, SyncFails
<1>1. /\ file \in images /\ Held = {file, mem} /\ mem.waits = file.waits
      /\ op.step = "sync"
  BY <1>0, AtPersist
<1>2. /\ op.phase = "commit" /\ op.kind = "detach"
           => mem.waits[op.wait] = "detached"
      /\ op.phase = "commit" /\ op.kind = "settle"
           => mem.waits[op.wait] # "detached"
  BY <1>1 DEF IInv, DetachFits, SettleFits, AtCommit
<1>3. CASE Sync
  BY <1>0, <1>1, <1>2, <1>3, CommittedStep DEF Sync
<1>4. CASE SyncFails
  BY <1>0, <1>1, <1>2, <1>4, CommittedStep DEF SyncFails
<1> QED
  BY <1>3, <1>4
-----------------------------------------------------------------------------
(* #deliverNotifications.                                                  *)

LEMMA AtDelivery ==
    ASSUME IInv, op.phase \in {"reconcile", "notify"}
    PROVE  /\ op \in Op /\ op # Idle /\ starts = NoWait
           /\ mem.waits = file.waits /\ file \in images /\ images \subseteq Doc
           /\ mem \in Doc /\ monitor \in [Wait -> Monitor] /\ retry \in BOOLEAN
           /\ op.kind \in {"detach", "settle"} => op.wait \in Wait
           /\ op.step # "rename" => Held = {file, mem}
BY IdleOp DEF IInv, TypeOK, OpFits, Held

LEMMA PublishStep == IInv /\ Publish => IInv'
<1> SUFFICES ASSUME IInv, Publish PROVE IInv'
  OBVIOUS
<1>1. /\ op.phase \in {"reconcile", "notify"} /\ op.step = "ready" /\ ~closed
      /\ mem.notifications # <<>>
      /\ UNCHANGED <<file, images, task, mem, pending, starts, monitor, saw,
                     retry, closed, closeResolved, seen, confirmed, faults,
                     crashes>>
  BY DEF Publish, Delivering
<1>2. /\ op \in Op /\ op # Idle /\ starts = NoWait /\ mem.waits = file.waits
      /\ mem \in Doc /\ Held = {file, mem} /\ mem \in Held
      /\ op.kind \in {"detach", "settle"} => op.wait \in Wait
  BY <1>1, AtDelivery
<1>3. PICK doc \in Doc, event \in Notification :
        /\ doc = Unsent /\ event = Head(mem.notifications)
        /\ doc.waits = mem.waits /\ doc.notifications = Tail(mem.notifications)
  BY <1>1, <1>2, UnsentDoc DEF Unsent
<1>4. /\ published' \in [Wait -> Seq(Said)]
      /\ \A v \in Wait : Range(published'[v]) =
            Range(published[v]) \cup (IF v = event.wait THEN {event.type} ELSE {})
  <2>1. published \in [Wait -> Seq(Said)] /\ event.wait \in Wait /\ event.type \in Said
    BY <1>3 DEF IInv, TypeOK, Notification, Said
  <2>2. published' = [published EXCEPT ![event.wait] = Append(@, event.type)]
    BY <1>3 DEF Publish
  <2> QED
    BY <2>1, <2>2, LogAppend
<1>5. /\ op' \in Op /\ op'.kind = op.kind /\ op'.wait = op.wait
      /\ op'.phase = op.phase /\ op'.step = "rename" /\ op'.doc = doc
      /\ op'.warned = op.warned
  <2>1. /\ op.phase \in Phase /\ "rename" \in Step
    BY <1>2 DEF Op, Step
  <2>2. op' = [op EXCEPT !.phase = op.phase, !.step = "rename", !.doc = doc]
    BY <1>3 DEF Publish, GoTo
  <2> QED
    BY <1>2, <2>1, <2>2 DEF Op
<1>6. TypeOK'
  BY <1>1, <1>4, <1>5 DEF IInv, TypeOK, Said
<1>7. Held' = {file, mem, doc} /\ Live' = Live \cup {doc} /\ mem \in Live
  BY <1>1, <1>2, <1>5 DEF Held, Live
<1>8. DocsSound'
  <2>1. ASSUME NEW d \in Live PROVE \A w \in Wait : Told(published', d, w)
    <3>1. \A w \in Wait : Told(published, d, w)
      BY DEF IInv, DocsSound
    <3> QED
      BY <1>4, <3>1, TellMore
  <2>2. \A w \in Wait : Told(published', doc, w)
    <3>1. \A w \in Wait : Told(published, mem, w)
      BY MemSound
    <3> QED
      BY <1>1, <1>2, <1>3, <1>4, <3>1, SentDoc
  <2>3. Single(doc) /\ \A w \in confirmed : doc.waits[w] # "none"
    <3>1. Single(mem) /\ \A w \in confirmed : mem.waits[w] # "none"
      BY <1>7 DEF IInv, DocsSound
    <3> QED
      BY <1>3, <3>1 DEF Single, Detached
  <2>4. \A d : Single(d)' <=> Single(d)
    BY DEF Single, Detached
  <2> QED
    BY <1>1, <1>7, <2>1, <2>2, <2>3, <2>4 DEF IInv, DocsSound
<1>9. ASSUME NEW v \in Wait PROVE MonitorFits(v)'
  <2>1. MonitorFits(v)
    BY DEF IInv
  <2>2. \A d \in Held' : d.waits[v] = mem.waits[v]
    BY <1>2, <1>3, <1>7
  <2> QED
    BY <1>1, <1>2, <2>1, <2>2 DEF MonitorFits, Watched, Trying
<1>10. OpFits'
  BY <1>1, <1>2, <1>3, <1>5 DEF OpFits
<1>11. DetachFits'
  BY <1>1, <1>2, <1>3, <1>5, <1>7 DEF IInv, DetachFits, AtCommit
<1>12. SettleFits'
  BY <1>1, <1>2, <1>5 DEF IInv, SettleFits, AtCommit
<1>13. CloseFits'
  BY <1>1 DEF IInv, CloseFits
<1> QED
  BY <1>6, <1>8, <1>9, <1>10, <1>11, <1>12, <1>13 DEF IInv

LEMMA PublishFailsStep == IInv /\ PublishFails => IInv'
<1> SUFFICES ASSUME IInv, PublishFails PROVE IInv'
  OBVIOUS
<1>1. /\ op.phase \in {"reconcile", "notify"} /\ op.step = "ready" /\ ~closed
      /\ UNCHANGED <<file, images, published, task, mem, pending, starts,
                     monitor, saw, closed, closeResolved, seen, confirmed, crashes>>
  BY DEF PublishFails, Delivering, disk
<1>2. /\ op \in Op /\ op # Idle /\ starts = NoWait /\ mem.waits = file.waits
      /\ Held = {file, mem}
      /\ op.kind \in {"detach", "settle"} => op.wait \in Wait
  BY <1>1, AtDelivery
<1>3. /\ op' \in Op /\ op'.kind = op.kind /\ op'.wait = op.wait
      /\ op'.phase = op.phase /\ op'.step = "over" /\ op'.warned = op.warned
  <2>1. op.phase \in Phase /\ "over" \in Step /\ NoDoc \in Doc \cup {NoDoc}
    BY <1>2 DEF Op, Step
  <2>2. op' = [op EXCEPT !.phase = op.phase, !.step = "over", !.doc = NoDoc]
    BY DEF PublishFails, GoTo
  <2> QED
    BY <1>2, <2>1, <2>2 DEF Op
<1>4. TypeOK'
  <2>1. faults' \in 0..MaxFaults
    BY FaultTyped DEF PublishFails
  <2>2. retry' \in BOOLEAN
    BY DEF PublishFails, Rearm
  <2> QED
    BY <1>1, <1>3, <2>1, <2>2 DEF IInv, TypeOK
<1>5. Held' = Held /\ Live' = Live
  BY <1>1, <1>2, <1>3 DEF Held, Live
<1>6. DocsSound'
  BY <1>1, <1>5, DocsKept DEF IInv
<1>7. \A v \in Wait : MonitorFits(v)'
  BY <1>1, <1>5, WatchKept DEF IInv
<1>8. OpFits'
  BY <1>1, <1>2, <1>3 DEF OpFits
<1>9. DetachFits'
  BY <1>1, <1>2, <1>3, <1>5 DEF IInv, DetachFits, AtCommit
<1>10. SettleFits'
  BY <1>1, <1>2, <1>3 DEF IInv, SettleFits, AtCommit
<1>11. CloseFits'
  BY <1>1, <1>3 DEF IInv, CloseFits
<1> QED
  BY <1>4, <1>6, <1>7, <1>8, <1>9, <1>10, <1>11 DEF IInv

LEMMA ProceedStep == IInv /\ Proceed => IInv'
<1> SUFFICES ASSUME IInv, Proceed PROVE IInv'
  OBVIOUS
<1>1. /\ op.phase = "reconcile" /\ op.step \notin {"rename", "sync"}
      /\ UNCHANGED <<file, images, published, task, mem, pending, starts,
                     monitor, saw, retry, closed, closeResolved, seen,
                     confirmed, faults, crashes>>
  BY DEF Proceed, DeliveryOver, disk
<1>2. /\ op \in Op /\ op # Idle /\ starts = NoWait /\ mem.waits = file.waits
      /\ Held = {file, mem}
      /\ op.kind \in {"detach", "settle"} => op.wait \in Wait
  BY <1>1, AtDelivery
<1>3. /\ op' \in Op /\ op'.kind = op.kind /\ op'.wait = op.wait
      /\ op'.phase = "commit" /\ op'.step = "ready"
  <2>1. "commit" \in Phase /\ "ready" \in Step /\ NoDoc \in Doc \cup {NoDoc}
    BY DEF Phase, Step
  <2> QED
    BY <1>2, <2>1, GoneTo DEF Proceed, GoTo
<1>4. TypeOK'
  BY <1>1, <1>3 DEF IInv, TypeOK
<1>5. Held' = Held /\ Live' = Live
  BY <1>1, <1>2, <1>3 DEF Held, Live
<1>6. DocsSound'
  BY <1>1, <1>5, DocsKept DEF IInv
<1>7. \A v \in Wait : MonitorFits(v)'
  BY <1>1, <1>5, WatchKept DEF IInv
<1>8. OpFits'
  BY <1>1, <1>2, <1>3 DEF OpFits
<1>9. DetachFits' /\ SettleFits'
  BY <1>1, <1>2, <1>3 DEF IInv, DetachFits, SettleFits, AtCommit
<1>10. CloseFits'
  BY <1>1, <1>3 DEF IInv, CloseFits
<1> QED
  BY <1>4, <1>6, <1>7, <1>8, <1>9, <1>10 DEF IInv

(* The moment detach() promises that its record stays. *)
LEMMA ReturnStep == IInv /\ Return => IInv'
<1> SUFFICES ASSUME IInv, Return PROVE IInv'
  OBVIOUS
<1>1. /\ op.phase = "notify" /\ op.step \notin {"rename", "sync"} /\ op' = Idle
      /\ UNCHANGED <<disk, task, mem, pending, starts, saw, retry, closed,
                     closeResolved, seen, faults, crashes>>
  BY DEF Return, DeliveryOver
<1>2. /\ starts = NoWait /\ mem.waits = file.waits /\ Held = {file, mem}
      /\ op.kind \in {"detach", "settle"} => op.wait \in Wait
  BY <1>1, AtDelivery
<1>3. CASE op.kind = "settle"
  <2>1. mem.waits[op.wait] # "detached"
    BY <1>1, <1>3 DEF IInv, SettleFits
  <2>2. monitor' = [monitor EXCEPT ![op.wait] = "off"] /\ confirmed' = confirmed
    BY <1>3 DEF Return
  <2> QED
    BY <1>1, <1>3, <2>1, <2>2, SettleEnds
<1>4. CASE op.kind # "settle"
  <2>1. monitor' = monitor
    BY <1>4 DEF Return
  <2>2. Held' = {file, mem} /\ Held' = Held /\ Live' = Live
    BY <1>1, <1>2, IdleOp DEF Held, Live, disk
  <2>3. /\ confirmed' \subseteq Wait
        /\ \A w \in confirmed' : \A doc \in Live : doc.waits[w] # "none"
    <3>1. \A w \in confirmed : \A doc \in Live : doc.waits[w] # "none"
      BY DEF IInv, DocsSound
    <3>2. op.kind = "detach" /\ ~op.warned
            => \A doc \in Live : doc.waits[op.wait] # "none"
      BY <1>1 DEF IInv, DetachFits
    <3> QED
      BY <1>2, <3>1, <3>2 DEF IInv, TypeOK, Return
  <2>4. TypeOK'
    BY <1>1, <2>1, <2>3, IdleOp DEF IInv, TypeOK, disk
  <2>5. DocsSound'
    <3>1. \A d : Single(d)' <=> Single(d)
      BY DEF Single, Detached
    <3> QED
      BY <1>1, <2>2, <2>3, <3>1 DEF IInv, DocsSound, disk
  <2>6. \A v \in Wait : MonitorFits(v)'
    BY <1>1, <2>1, <2>2, WatchKept DEF IInv
  <2> QED
    BY <1>1, <1>2, <2>1, <2>4, <2>5, <2>6, IdleOp
       DEF IInv, OpFits, DetachFits, SettleFits, CloseFits, disk
<1> QED
  BY <1>3, <1>4
-----------------------------------------------------------------------------
LEMMA Stuttering == IInv /\ UNCHANGED vars => IInv'
<1> SUFFICES ASSUME IInv, UNCHANGED vars PROVE IInv'
  OBVIOUS
<1>1. UNCHANGED <<file, images, published, task, mem, pending, starts, monitor,
                  saw, retry, closed, closeResolved, op, seen, confirmed,
                  faults, crashes>>
  BY DEF vars, disk, process
<1>2. TypeOK' /\ CloseFits'
  BY <1>1 DEF IInv, TypeOK, CloseFits
<1>3. Held' = Held /\ Live' = Live
  BY <1>1 DEF Held, Live
<1>4. DocsSound'
  BY <1>1, <1>3, DocsKept DEF IInv
<1>5. OpFits' /\ DetachFits' /\ SettleFits'
  BY <1>1, <1>3, OpKept DEF IInv
<1>6. \A w \in Wait : MonitorFits(w)'
  BY <1>1, <1>3, WatchKept DEF IInv
<1> QED
  BY <1>2, <1>4, <1>5, <1>6 DEF IInv

LEMMA Steps == IInv /\ [Next]_vars => IInv'
<1> SUFFICES ASSUME IInv, [Next]_vars PROVE IInv'
  OBVIOUS
<1>1. ASSUME NEW w \in Wait, Detach(w) \/ Settle(w) PROVE IInv'
  BY <1>1, BeginSteps
<1>2. ASSUME NEW w \in Wait, Watch(w) PROVE IInv'
  BY <1>2, ObserveStep, MonitorSteps DEF Watch
<1>3. CASE Deliver \/ Resume \/ List
  BY <1>3, BeginSteps
<1>4. CASE Continue
  BY <1>4, DetachBodyStep, SettleBodyStep, OtherBodies, RenameStep, SyncSteps,
     PublishStep, ProceedStep, ReturnStep DEF Continue
<1>5. CASE Fails
  BY <1>5, PersistFailures, SyncSteps, PublishFailsStep, MonitorSteps DEF Fails
<1>6. CASE Close \/ CloseResolves
  BY <1>6, CloseSteps
<1>7. CASE Restart
  BY <1>7, RestartStep
<1>8. ASSUME NEW t \in Task, TaskEnds(t) \/ TaskExpires(t) PROVE IInv'
  BY <1>8, TaskStep
<1>9. CASE UNCHANGED vars
  BY <1>9, Stuttering
<1> QED
  BY <1>1, <1>2, <1>3, <1>4, <1>5, <1>6, <1>7, <1>8, <1>9 DEF Next

(* The inductive invariant holds of every state of every behaviour. *)
THEOREM Inductive == Spec => []IInv
<1>1. Init => IInv
  BY Initially
<1>2. IInv /\ [Next]_vars => IInv'
  BY Steps
<1> QED
  BY <1>1, <1>2, PTL DEF Spec

(* Every variable of #waits keeps its type: each document a read or a      *)
(* power failure can bring has a status per wait and a queue of events.    *)
THEOREM TypeCorrect == Spec => []TypeOK
<1>1. IInv => TypeOK
  BY DEF IInv
<1> QED
  BY <1>1, Inductive, PTL

(* A task has one wait at a time, however often detach() is repeated and   *)
(* whatever became of the earlier commits.                                 *)
THEOREM TasksHaveOneWait == Spec => []OneWaitPerTask
<1>1. IInv => OneWaitPerTask
  BY DEF IInv, DocsSound, Single, OneWaitPerTask, Held, Live
<1> QED
  BY <1>1, Inductive, PTL

(* A result a monitor has read is the one its wait ends with, however      *)
(* often the commit is repeated and although the result expires since.     *)
THEOREM ResultsAreKept == Spec => []ResultIsNotLost
<1>1. IInv => ResultIsNotLost
  <2>1. file \in Held
    BY DEF Held
  <2> QED
    BY <2>1 DEF IInv, TypeOK, MonitorFits, Watched, ResultIsNotLost
<1> QED
  BY <1>1, Inductive, PTL

(* Whatever document survives, each state it says a wait has is in the     *)
(* event log or in the document's own queue.                               *)
THEOREM StatesAreAnnounced == Spec => []NothingUnannounced
<1>1. IInv => NothingUnannounced
  <2>1. images \subseteq Live
    BY DEF Live
  <2> QED
    BY <2>1 DEF IInv, DocsSound, Told, Heard, NothingUnannounced, Announced
<1> QED
  BY <1>1, Inductive, PTL

(* A wait that detach() returned without a warning is in every document a  *)
(* power failure may leave, at any later moment.                           *)
THEOREM ConfirmedIsDurable == Spec => []ConfirmedSurvives
<1>1. IInv => ConfirmedSurvives
  <2>1. images \subseteq Live
    BY DEF Live
  <2> QED
    BY <2>1 DEF IInv, DocsSound, ConfirmedSurvives
<1> QED
  BY <1>1, Inductive, PTL

(* Once close() has resolved, no step of this process writes the document  *)
(* or the event log.                                                       *)
THEOREM ClosedIsQuiet == Spec => QuietOnceClosed
<1>1. IInv /\ [Next]_vars
        => [(closeResolved /\ closeResolved') => UNCHANGED <<file, published>>]_vars
  <2> SUFFICES ASSUME IInv, Next, closeResolved, closeResolved'
               PROVE  UNCHANGED <<file, published>>
    OBVIOUS
  <2>1. closed /\ op.step \notin {"rename", "sync"}
    BY DEF IInv, CloseFits
  <2>2. ASSUME NEW w \in Wait, Detach(w) \/ Settle(w) \/ Watch(w)
        PROVE  UNCHANGED <<file, published>>
    BY <2>2 DEF Detach, Settle, Begin, Watch, ReadTerminal, ReadExpired, Observe,
                Retry, Stop, MonitorStep, disk
  <2>3. CASE Deliver \/ Resume \/ List
    BY <2>3 DEF Deliver, Resume, List, Begin, disk
  <2>4. CASE Continue
    <3>1. ~Rename /\ ~Sync /\ ~Publish
      BY <2>1 DEF Rename, Sync, Persisting, Publish, Delivering
    <3> QED
      BY <2>4, <3>1
         DEF Continue, DetachBody, SettleBody, ResumeBody, DeliverBody, ListBody,
             Body, Proceed, Return, disk
  <2>5. CASE Fails
    <3>1. ~WriteFails /\ ~RenameFails /\ ~RenameUnknown /\ ~SyncFails
      BY <2>1 DEF WriteFails, RenameFails, RenameUnknown, SyncFails, Persisting
    <3> QED
      BY <2>5, <3>1 DEF Fails, PublishFails, SettleUnreadable, disk
  <2>6. CASE Close \/ CloseResolves
    BY <2>6 DEF Close, CloseResolves, disk
  <2>7. CASE Restart
    BY <2>7 DEF Restart
  <2>8. ASSUME NEW t \in Task, TaskEnds(t) \/ TaskExpires(t)
        PROVE  UNCHANGED <<file, published>>
    BY <2>8 DEF TaskEnds, TaskExpires, TaskMoves, disk
  <2> QED
    BY <2>2, <2>3, <2>4, <2>5, <2>6, <2>7, <2>8 DEF Next
<1> QED
  BY <1>1, Inductive, PTL DEF Spec, QuietOnceClosed
-----------------------------------------------------------------------------
(* The service implements WaitRegister.                                    *)

(* The records of a commit that settles w, as s, and lets go of W.         *)
LetsGo(rec, w, s, W, next) ==
    /\ next = Register!After(rec, w, s, W)
    /\ Cardinality(Register!Ended(next)) <= Retention
    /\ W # {} => Cardinality(Register!Ended(next)) = Retention

(* The document an operation is about to put in place differs from the one *)
(* that is there by what the operation is for, and by nothing else.        *)
Planned ==
    AtCommit("rename") =>
        /\ op.kind = "detach" =>
             /\ op.doc.waits = [mem.waits EXCEPT ![op.wait] = "detached"]
             /\ \A d \in Detached(mem) : TaskOf[d] # TaskOf[op.wait]
        /\ op.kind = "settle" =>
             /\ mem.waits[op.wait] = "detached"
             /\ \E W \in SUBSET Settled(mem) :
                    LetsGo(mem.waits, op.wait, saw[op.wait], W, op.doc.waits)

(* #pruneTerminal: what is kept is no more than Retention, and not less    *)
(* when something is let go of.                                            *)
LEMMA RetentionHolds ==
    ASSUME NEW old, IsFiniteSet(old), NEW w, w \notin old,
           NEW W \in SUBSET old,
           Cardinality(W) = Excess(old)
    PROVE  /\ Cardinality((old \ W) \cup {w}) <= Retention
           /\ W # {} => Cardinality((old \ W) \cup {w}) = Retention
<1>1. IsFiniteSet(W) /\ Cardinality(W) \in Nat /\ Cardinality(old) \in Nat
  BY FS_Subset, FS_CardinalityType
<1>2. /\ IsFiniteSet(old \ W)
      /\ Cardinality(old \ W) = Cardinality(old) - Cardinality(W)
  <2>1. old \cap W = W
    OBVIOUS
  <2> QED
    BY <2>1, FS_Difference
<1>3. Cardinality((old \ W) \cup {w}) = Cardinality(old \ W) + 1
  BY <1>2, FS_AddElement
<1>4. W # {} => Cardinality(W) # 0
  BY <1>1, FS_EmptySet
<1>5. Retention \in Nat \ {0}
  BY WaitAssumption
<1> QED
  BY <1>1, <1>2, <1>3, <1>4, <1>5 DEF Excess

LEMMA DetachPlans ==
    ASSUME IInv, DetachBody
    PROVE  Planned'
<1>0. "detach" \in OpKind \ {"idle"} /\ Body("detach")
  BY DEF OpKind, DetachBody
<1>1. /\ op \in Op /\ op.kind = "detach" /\ op.phase = "commit" /\ mem \in Doc
      /\ mem' = mem
  BY <1>0, AtBody
<1>2. CASE op' = Idle
  BY <1>2, IdleOp DEF Planned, AtCommit
<1>3. CASE op' # Idle
  <2>1. op' = [op EXCEPT !.phase = "commit", !.step = "rename",
                         !.doc = Moved(mem, op.wait, "detached")]
    BY <1>3 DEF DetachBody, GoTo
  <2>2. /\ op'.kind = op.kind /\ op'.wait = op.wait
        /\ op'.doc = Moved(mem, op.wait, "detached")
    BY <1>1, <2>1 DEF Op
  <2>3. op'.doc.waits = [mem.waits EXCEPT ![op.wait] = "detached"]
    BY <2>2 DEF Moved
  <2>4. \A d \in Detached(mem) : TaskOf[d] # TaskOf[op.wait]
    BY <1>3 DEF DetachBody
  <2> QED
    BY <1>1, <2>2, <2>3, <2>4 DEF Planned
<1> QED
  BY <1>2, <1>3

LEMMA SettlePlans ==
    ASSUME IInv, SettleBody
    PROVE  Planned'
<1>0. "settle" \in OpKind \ {"idle"} /\ Body("settle")
  BY DEF OpKind, SettleBody
<1>1. /\ op \in Op /\ op.kind = "settle" /\ op.phase = "commit" /\ mem \in Doc
      /\ mem' = mem /\ saw' = saw
  BY <1>0, AtBody
<1>2. op.wait \in Wait /\ saw[op.wait] \in Outcome
  BY <1>1 DEF IInv, OpFits, SettleFits, MonitorFits, Trying
<1>3. CASE op.wait \notin Detached(mem)
  BY <1>3, IdleOp DEF SettleBody, Planned, AtCommit
<1>4. CASE op.wait \in Detached(mem)
  <2> PICK w \in Wait, s \in Outcome : w = op.wait /\ s = saw[w]
    BY <1>2
  <2> DEFINE moved == Moved(mem, w, s)
             old == Settled(moved) \ {w}
  <2>1. mem.waits \in [Wait -> Status]
    BY <1>1 DEF Doc
  <2>2. moved.waits = [mem.waits EXCEPT ![w] = s]
    BY DEF Moved
  <2>3. old = Settled(mem) /\ w \notin old
    BY <1>4, <2>1, <2>2 DEF Settled, Detached, Outcome
  <2>4. PICK W \in SUBSET old :
            /\ Cardinality(W) = Excess(old)
            /\ op' = [op EXCEPT !.phase = "commit", !.step = "rename",
                                !.doc = Pruned(moved, W)]
    BY <1>1, <1>4 DEF SettleBody, GoTo
  <2>5. /\ op'.kind = op.kind /\ op'.wait = op.wait /\ op'.doc = Pruned(moved, W)
    BY <1>1, <2>4 DEF Op
  <2>6. Pruned(moved, W).waits = Register!After(mem.waits, w, s, W)
    <3>1. Pruned(moved, W).waits
            = [v \in Wait |-> IF v \in W THEN "pruned" ELSE moved.waits[v]]
      BY DEF Pruned, Moved
    <3> QED
      BY <2>1, <2>2, <2>3, <3>1 DEF Register!After
  <2>7. Register!Ended(Register!After(mem.waits, w, s, W)) = (old \ W) \cup {w}
    BY <2>1, <2>3 DEF Register!After, Register!Ended, Settled, Outcome
  <2>8. IsFiniteSet(old)
    BY <2>3, WaitAssumption, FS_Subset DEF Settled
  <2>9. LetsGo(mem.waits, w, s, W, op'.doc.waits)
    <3> HIDE DEF old, moved
    <3> QED
      BY <2>3, <2>4, <2>5, <2>6, <2>7, <2>8, RetentionHolds DEF LetsGo
  <2>10. mem.waits[w] = "detached"
    BY <1>4 DEF Detached
  <2> QED
    BY <1>1, <2>3, <2>5, <2>9, <2>10 DEF Planned
<1> QED
  BY <1>3, <1>4

(* Nothing else touches the plan while it is being carried out.            *)
LEMMA PlanStays ==
    ASSUME IInv, Planned, op' = op, mem' = mem,
           op.kind = "settle" => saw'[op.wait] = saw[op.wait]
    PROVE  Planned'
BY DEF Planned, AtCommit

LEMMA PlanDone ==
    ASSUME op'.step # "rename" \/ op'.phase # "commit"
    PROVE  Planned'
BY DEF Planned, AtCommit

LEMMA ThrownEnds ==
    ASSUME op \in Op, Thrown
    PROVE  op'.step # "rename"
BY IdleOp DEF Thrown, GoTo, Op

LEMMA CommittedEnds ==
    ASSUME op \in Op, NEW warning, Committed(warning)
    PROVE  op'.step # "rename"
BY DEF Committed, Op

LEMMA PlanKept ==
    ASSUME IInv, Planned, [Next]_vars
    PROVE  Planned'
<1>0. op \in Op
  BY DEF IInv, TypeOK
<1>1. ASSUME NEW kind, NEW w, Begin(kind, w)
      PROVE  Planned'
  <2>1. op' = [Idle EXCEPT !.kind = kind, !.wait = w,
                   !.phase = IF pending = NoDoc THEN "commit" ELSE "reconcile"]
    BY <1>1 DEF Begin
  <2>2. op'.step = "ready"
    BY <2>1 DEF Idle
  <2> QED
    BY <2>2, PlanDone
<1>2. ASSUME NEW w \in Wait, Detach(w) \/ Settle(w)
      PROVE  Planned'
  BY <1>1, <1>2 DEF Detach, Settle
<1>3. CASE Deliver \/ Resume \/ List
  BY <1>1, <1>3 DEF Deliver, Resume, List
<1>4. ASSUME NEW w \in Wait, Watch(w)
      PROVE  Planned'
  <2>1. op' = op /\ mem' = mem
    BY <1>4 DEF Watch, ReadTerminal, ReadExpired, Observe, Retry, Stop,
                MonitorStep, disk
  <2>2. op.kind = "settle" => op.wait \in Wait /\ monitor[op.wait] = "queued"
    BY DEF IInv, OpFits, SettleFits
  <2>3. op.kind = "settle" => saw'[op.wait] = saw[op.wait]
    BY <1>4, <2>2 DEF Watch, ReadTerminal, ReadExpired, Observe, Retry, Stop,
                      MonitorStep, IInv, TypeOK
  <2> QED
    BY <2>1, <2>3, PlanStays
<1>5. CASE Close \/ CloseResolves \/ (\E w \in Wait : SettleUnreadable(w))
           \/ (\E t \in Task : TaskEnds(t) \/ TaskExpires(t)) \/ UNCHANGED vars
  <2>1. UNCHANGED <<op, mem, saw>>
    BY <1>5 DEF Close, CloseResolves, SettleUnreadable, TaskEnds, TaskExpires,
                TaskMoves, vars, process
  <2> QED
    BY <2>1, PlanStays
<1>6. CASE DetachBody \/ SettleBody
  BY <1>6, DetachPlans, SettlePlans
<1>7. CASE ResumeBody \/ DeliverBody \/ ListBody
  <2>1. op'.step # "rename"
    BY <1>0, <1>7, IdleOp DEF ResumeBody, DeliverBody, ListBody, GoTo, Op
  <2> QED
    BY <2>1, PlanDone
<1>8. CASE WriteFails \/ Rename \/ RenameFails \/ RenameUnknown
  <2>1. op'.step # "rename"
    BY <1>0, <1>8, ThrownEnds, CommittedEnds
       DEF WriteFails, Rename, RenameFails, RenameUnknown, GoTo, Op
  <2> QED
    BY <2>1, PlanDone
<1>9. CASE Sync \/ SyncFails
  <2>1. op'.step # "rename"
    BY <1>0, <1>9, CommittedEnds DEF Sync, SyncFails
  <2> QED
    BY <2>1, PlanDone
<1>10. CASE Publish
  <2>1. op'.phase = op.phase /\ op.phase # "commit"
    BY <1>0, <1>10 DEF Publish, Delivering, GoTo, Op
  <2> QED
    BY <2>1, PlanDone
<1>11. CASE PublishFails \/ Proceed \/ Return \/ Restart
  <2>1. op'.step # "rename"
    BY <1>0, <1>11, IdleOp DEF PublishFails, Proceed, Return, Restart, GoTo, Op
  <2> QED
    BY <2>1, PlanDone
<1> QED
  BY <1>2, <1>3, <1>4, <1>5, <1>6, <1>7, <1>8, <1>9, <1>10, <1>11
     DEF Next, Continue, Fails
-----------------------------------------------------------------------------
(* Steps and what they are to the register.                                *)

LEMMA SameCount == \A X : Register!Cardinality(X) = Cardinality(X)
<1> QED
  BY Zenon DEF Cardinality, Register!Cardinality

Durable == {doc.waits : doc \in images}

(* A step that leaves the documents, and the histories, as they are. *)
LEMMA Unseen ==
    ASSUME UNCHANGED <<file, images, confirmed, seen, closeResolved>>
    PROVE  UNCHANGED Register!avars
BY DEF Register!avars

(* One document more that a power failure may leave. *)
LEMMA DurableGrows ==
    ASSUME NEW doc, images' = images \cup {doc}
    PROVE  Durable' = Durable \cup {doc.waits}
BY DEF Durable

(* op.doc comes into place: a commit is the step it was planned to be, and *)
(* an acknowledgement of an event is no step of the register.              *)
LEMMA PlaceDoc ==
    ASSUME IInv, Planned, Persisting("rename"),
           file' = op.doc, images' = images \cup {op.doc}
    PROVE  Register!Next \/ UNCHANGED Register!avars
<1>0. "rename" \in {"rename", "sync"}
  OBVIOUS
<1>1. /\ op.step = "rename" /\ mem.waits = file.waits /\ ~closeResolved
      /\ file \in images /\ mem \in Doc
      /\ op.phase = "commit" => op.kind \in {"detach", "settle"}
      /\ op.kind \in {"detach", "settle"} => op.wait \in Wait
      /\ op.phase # "commit" => op.doc.waits = mem.waits
      /\ UNCHANGED <<closeResolved, seen, confirmed>>
  BY <1>0, AtPersist
<1>2. Durable' = Durable \cup {op.doc.waits}
  BY DurableGrows
<1>3. CASE op.phase # "commit"
  <2>1. file'.waits = file.waits /\ file.waits \in Durable
    BY <1>1, <1>3 DEF Durable
  <2>2. Durable' = Durable
    BY <1>1, <1>2, <1>3, <2>1
  <2> QED
    BY <1>1, <2>1, <2>2 DEF Register!avars, Durable
<1>4. CASE op.phase = "commit" /\ op.kind = "detach"
  <2> PICK w \in Wait : w = op.wait
    BY <1>1, <1>4
  <2>1. file.waits[w] = "none"
    BY <1>1, <1>4 DEF IInv, DetachFits, AtCommit
  <2>2. /\ file'.waits = [file.waits EXCEPT ![w] = "detached"]
        /\ \A d \in Register!Open(file.waits) : TaskOf[d] # TaskOf[w]
    BY <1>1, <1>4 DEF Planned, AtCommit, Detached, Register!Open
  <2>3. Register!Detach(w)
    BY <1>1, <1>2, <2>1, <2>2 DEF Register!Detach, Register!Write, Durable
  <2> QED
    BY <2>3 DEF Register!Next
<1>5. CASE op.phase = "commit" /\ op.kind = "settle"
  <2> PICK w \in Wait : w = op.wait
    BY <1>1, <1>5
  <2>1. PICK s \in Outcome : s = saw[w]
    BY <1>5 DEF IInv, SettleFits, MonitorFits, Trying
  <2>2. w \in seen => s # "failed"
    BY <2>1 DEF IInv, MonitorFits
  <2>3. file.waits[w] = "detached"
    BY <1>1, <1>5 DEF Planned, AtCommit
  <2>4. PICK W \in SUBSET Settled(mem) : LetsGo(file.waits, w, s, W, file'.waits)
    BY <1>1, <1>5, <2>1 DEF Planned, AtCommit
  <2>5. W \in SUBSET Wait /\ W \subseteq Register!Ended(file.waits)
    BY <1>1, <2>4 DEF Settled, Register!Ended
  <2>6. Register!Settle(w, s, W)
    BY <1>1, <1>2, <2>2, <2>3, <2>4, <2>5, SameCount
       DEF LetsGo, Register!Settle, Register!Write, Durable
  <2> QED
    BY <2>5, <2>6 DEF Register!Next
<1> QED
  BY <1>1, <1>3, <1>4, <1>5

LEMMA Renames ==
    ASSUME IInv, Planned, Rename \/ RenameFails \/ RenameUnknown
    PROVE  Register!Next \/ UNCHANGED Register!avars
<1>1. /\ Persisting("rename") /\ file' \in {file, op.doc}
      /\ images' = images \cup {file'} /\ file \in images
      /\ UNCHANGED <<confirmed, seen, closeResolved>>
  BY DEF Rename, RenameFails, RenameUnknown, Renamed, Persisting, IInv, TypeOK
<1>2. CASE file' = op.doc
  BY <1>1, <1>2, PlaceDoc
<1>3. CASE file' = file
  <2>1. images' = images
    BY <1>1, <1>3
  <2> QED
    BY <1>1, <1>3, <2>1, Unseen
<1> QED
  BY <1>1, <1>2, <1>3

LEMMA SyncSaves ==
    ASSUME IInv, Sync
    PROVE  Register!Save
<1>1. ~closeResolved
  BY DEF IInv, CloseFits, Sync, Persisting
<1>2. images' = {file} /\ UNCHANGED <<file, confirmed, seen, closeResolved>>
  BY DEF Sync, Persisting
<1> QED
  BY <1>1, <1>2 DEF Register!Save

LEMMA ReturnConfirms ==
    ASSUME IInv, Return
    PROVE  Register!Next \/ UNCHANGED Register!avars
<1>1. UNCHANGED <<file, images, seen, closeResolved>>
  BY DEF Return, disk
<1>2. CASE op.kind = "detach" /\ ~op.warned
  <2>1. PICK w \in Wait : w = op.wait
    BY <1>2 DEF IInv, OpFits
  <2>2. \A doc \in images : doc.waits[w] # "none"
    BY <1>2, <2>1 DEF Return, IInv, DetachFits, Live
  <2>3. confirmed' = confirmed \cup {w}
    BY <1>2, <2>1 DEF Return
  <2>4. Register!Confirm(w)
    BY <1>1, <2>2, <2>3 DEF Register!Confirm
  <2> QED
    BY <2>4 DEF Register!Next
<1>3. CASE ~(op.kind = "detach" /\ ~op.warned)
  <2>1. confirmed' = confirmed
    BY <1>3 DEF Return
  <2> QED
    BY <1>1, <2>1, Unseen
<1> QED
  BY <1>2, <1>3

LEMMA ReadLearns ==
    ASSUME IInv, NEW w \in Wait, ReadTerminal(w)
    PROVE  Register!Learn(w)
<1>1. file.waits[w] = "detached"
  <2>1. file \in Held
    BY DEF Held
  <2> QED
    BY <2>1 DEF IInv, MonitorFits, Watched, ReadTerminal, Observe
<1>2. seen' = seen \cup {w} /\ UNCHANGED <<file, images, confirmed, closeResolved>>
  BY DEF ReadTerminal, Observe, disk
<1> QED
  BY <1>1, <1>2 DEF Register!Learn

LEMMA RestartRestores ==
    ASSUME Restart
    PROVE  Register!PowerFails
<1>1. /\ file' \in images /\ images' = {file'} /\ seen' = {} /\ ~closeResolved'
      /\ closeResolved' = FALSE /\ UNCHANGED confirmed
  BY DEF Restart
<1> QED
  BY <1>1 DEF Register!PowerFails

LEMMA StepRefines ==
    ASSUME IInv, Planned, [Next]_vars
    PROVE  Register!Next \/ UNCHANGED Register!avars
<1>1. ASSUME NEW w \in Wait, Detach(w) \/ Settle(w)
      PROVE  UNCHANGED Register!avars
  BY <1>1, Unseen DEF Detach, Settle, Begin, disk
<1>2. CASE Deliver \/ Resume \/ List
  BY <1>2, Unseen DEF Deliver, Resume, List, Begin, disk
<1>3. ASSUME NEW w \in Wait, Watch(w)
      PROVE  Register!Next \/ UNCHANGED Register!avars
  <2>1. CASE ReadTerminal(w)
    BY <2>1, ReadLearns DEF Register!Next
  <2>2. CASE ~ReadTerminal(w)
    BY <1>3, <2>2, Unseen
       DEF Watch, ReadExpired, Observe, Retry, Stop, MonitorStep, disk
  <2> QED
    BY <2>1, <2>2
<1>4. CASE DetachBody \/ SettleBody \/ ResumeBody \/ DeliverBody \/ ListBody
  BY <1>4, Unseen DEF DetachBody, SettleBody, ResumeBody, DeliverBody, ListBody,
                      Body, disk
<1>5. CASE Rename \/ RenameFails \/ RenameUnknown
  BY <1>5, Renames
<1>6. CASE Sync
  BY <1>6, SyncSaves DEF Register!Next
<1>7. CASE Publish \/ PublishFails \/ Proceed \/ WriteFails \/ SyncFails
           \/ (\E w \in Wait : SettleUnreadable(w))
  BY <1>7, Unseen DEF Publish, PublishFails, Proceed, WriteFails, SyncFails,
                      SettleUnreadable, Persisting, disk
<1>8. CASE Return
  BY <1>8, ReturnConfirms
<1>9. CASE Close \/ (\E t \in Task : TaskEnds(t) \/ TaskExpires(t))
           \/ UNCHANGED vars
  BY <1>9, Unseen DEF Close, TaskEnds, TaskExpires, TaskMoves, vars, disk, process
<1>10. CASE CloseResolves
  <2>1. Register!Seal
    BY <1>10 DEF CloseResolves, disk, Register!Seal
  <2> QED
    BY <2>1 DEF Register!Next
<1>11. CASE Restart
  BY <1>11, RestartRestores DEF Register!Next
<1> QED
  BY <1>1, <1>2, <1>3, <1>4, <1>5, <1>6, <1>7, <1>8, <1>9, <1>10, <1>11
     DEF Next, Continue, Fails

(* The service keeps its promise for the records: whatever becomes of a    *)
(* write, a rename or a sync, the document a read returns changes as one   *)
(* register does, by a detach or a settle that the rules allow.            *)
THEOREM Refinement == Spec => ImplementsRegister
<1>1. Init => Register!Init
  BY DEF Init, Register!Init, EmptyDoc
<1>2. Init => Planned
  BY IdleOp DEF Init, Planned, AtCommit
<1>3. Spec => [](IInv /\ Planned)
  BY <1>2, Inductive, PlanKept, PTL DEF Spec
<1> QED
  BY <1>1, <1>3, StepRefines, PTL DEF Spec, ImplementsRegister, Register!Spec
=============================================================================
