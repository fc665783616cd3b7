------------------------ MODULE ApprovalService_proofs ------------------------
(***************************************************************************)
(* The safety of the approval service, for any set of approvals and any    *)
(* number of failures and restarts: what a caller is told agrees with what *)
(* is stored and with what is announced.                                   *)
(*                                                                         *)
(* None of the properties is inductive.  IInv relates, for every approval, *)
(* the record on disk, the event log, the cached record, the waiter and    *)
(* the step the operation under way has reached with it.  An approval in   *)
(* halfFenced, whose fencing write is missing, keeps less of it.           *)
(***************************************************************************)
EXTENDS ApprovalService, SequenceTheorems, TLAPS

(* Outboxes of a terminal record that announce its status. *)
Full(t) == {<<t>>, <<"requested", t>>}

Asking == {<<>>, <<"requested">>}

Fits(rec) ==
    \/ rec.status \in {"none", "pruned"} /\ rec.outbox = <<>>
    \/ rec.status = "pending" /\ rec.outbox \in Asking
    \/ rec.status \in TerminalStatus
       /\ (rec.outbox = <<>> \/ rec.outbox \in Full(rec.status))

Asked == [status |-> "pending", outbox |-> <<"requested">>]

(* What the operation is doing with the approval. *)
Step(id) == IF op.id = id THEN op.step ELSE "next"

(* The requests first, then one outcome, however often each. *)
Ordered(q) ==
    \A i, j \in DOMAIN q :
        i < j /\ q[i] \in TerminalStatus => q[j] = q[i]

RecordFits(id) ==
    /\ id \notin halfFenced => Fits(stored[id])
    /\ stored[id].status = "none" => published[id] = <<>>

AnnouncedFits(id) ==
    /\ Terminal(id) =>
         stored[id].status \in Announced(id) \cup Range(stored[id].outbox)
    /\ stored[id].status = "pruned" => Announced(id) \cap TerminalStatus # {}
    /\ id \notin halfFenced =>
         /\ \A e \in Announced(id) \cap TerminalStatus :
                stored[id].status \in {e, "pruned"}
         /\ (\/ Step(id) \in {"fence", "refence", "settle"}
             \/ "requested" \in Range(stored[id].outbox))
               => Announced(id) \cap TerminalStatus = {}
         /\ Ordered(published[id])

CallerFits(id) ==
    /\ waiter[id] = "waiting" <=> Waits(id)
    /\ Waits(id) =>
         /\ ready
         /\ id \notin halfFenced =>
              /\ pending[id].status = "pending" /\ Fits(pending[id])
              /\ \/ stored[id].status = "pending"
                 \/ Step(id) \in {"fence", "refence", "settle"}
    /\ waiter[id] \in Decision =>
         /\ stored[id].status \in {waiter[id], "pruned"}
         /\ Step(id) \notin {"fence", "refence"}
    /\ id \notin halfFenced =>
         /\ stored[id].status \in Decision
              => \/ waiter[id] \in {stored[id].status, "lost"}
                 \/ Step(id) \in {"fence", "refence"}
         /\ \A d \in Decision \cap Announced(id) : waiter[id] \in {d, "lost"}
    /\ ready /\ stored[id].status = "pending" =>
         Waits(id) \/ closed \/ Step(id) = "register"

HalfFencedFits(id) ==
    id \in halfFenced =>
        /\ waiter[id] \notin Decision
        /\ stored[id].status \in TerminalStatus \cup {"pruned"}
        /\ Waits(id) => closed

StepFits(id) ==
    /\ Step(id) = "append" =>
         /\ stored[id] = NoRecord /\ op.rec = Asked
         /\ waiter[id] = "none" /\ ready
    /\ Step(id) = "register" =>
         /\ stored[id] = Asked /\ op.rec = Asked
         /\ waiter[id] = "none" /\ ready
    /\ Step(id) = "commit" => stored[id].status = "pending" \/ id \in halfFenced
    /\ Step(id) \in {"commit", "fence"} =>
         /\ op.rec.status \in TerminalStatus
         /\ op.rec.status \in Range(op.rec.outbox)
         /\ id \notin halfFenced => op.rec.outbox \in Full(op.rec.status)
         /\ op.rec.status \in Decision =>
              ready /\ (Waits(id) \/ closed) /\ id \notin halfFenced
    /\ Step(id) = "refence" => closed /\ stored[id].status \in Decision
    /\ Step(id) \in {"refence", "settle"} =>
         /\ id \notin halfFenced
         /\ op.rec.status = "cancelled" /\ op.rec.outbox \in Full("cancelled")
    /\ Step(id) \in {"fence", "settle", "event", "ack"} => stored[id] = op.rec
    /\ Step(id) \in {"event", "ack"} => op.rec.outbox # <<>>
    /\ Step(id) = "ack" => Head(op.rec.outbox) \in Announced(id)

(* Recovery still has to come to what is pending. *)
RecoverFits(id) ==
    op.kind = "recover" /\ stored[id].status = "pending" =>
        id \in op.todo \/ Step(id) = "commit"

Sound(id) ==
    /\ RecordFits(id) /\ AnnouncedFits(id)
    /\ CallerFits(id) /\ HalfFencedFits(id)

OpFits ==
    /\ op.step # "next" \/ op.kind = "evaluate" => op.id \in Id
    /\ op.kind = "recover" => ~ready
    /\ ~ready => op.kind \in {"idle", "recover"}

IInv ==
    /\ TypeOK
    /\ OpFits
    /\ \A id \in Id : Sound(id) /\ StepFits(id) /\ RecoverFits(id)
-----------------------------------------------------------------------------
(* Sequences of events.                                                    *)

LEMMA RangeShort ==
    ASSUME NEW a, NEW b
    PROVE  /\ Range(<<>>) = {} /\ Range(<<a>>) = {a} /\ Range(<<a, b>>) = {a, b}
BY DEF Range

LEMMA RangeAppend ==
    ASSUME NEW S, NEW q \in Seq(S), NEW e \in S
    PROVE  Range(Append(q, e)) = Range(q) \cup {e}
<1>1. /\ DOMAIN Append(q, e) = DOMAIN q \cup {Len(q) + 1}
      /\ \A i \in DOMAIN q : Append(q, e)[i] = q[i]
      /\ Append(q, e)[Len(q) + 1] = e
  OBVIOUS
<1> QED
  BY <1>1 DEF Range

LEMMA RangeTail ==
    ASSUME NEW S, NEW q \in Seq(S), q # <<>>
    PROVE  /\ Head(q) \in S /\ Tail(q) \in Seq(S)
           /\ Range(q) = {Head(q)} \cup Range(Tail(q))
<1>1. /\ Head(q) \in S /\ Tail(q) \in Seq(S)
      /\ Len(q) \in Nat /\ Len(q) >= 1 /\ DOMAIN q = 1..Len(q)
      /\ Head(q) = q[1] /\ DOMAIN Tail(q) = 1..(Len(q) - 1)
      /\ \A i \in 1..(Len(q) - 1) : Tail(q)[i] = q[i + 1]
  OBVIOUS
<1>2. ASSUME NEW x \in Range(q) PROVE x \in {Head(q)} \cup Range(Tail(q))
  <2>1. PICK i \in 1..Len(q) : x = q[i]
    BY <1>1 DEF Range
  <2>2. CASE i = 1
    BY <1>1, <2>1, <2>2
  <2>3. CASE i # 1
    <3>1. i - 1 \in 1..(Len(q) - 1) /\ Tail(q)[i - 1] = q[i]
      BY <1>1, <2>3
    <3> QED
      BY <1>1, <2>1, <3>1 DEF Range
  <2> QED
    BY <2>2, <2>3
<1>3. ASSUME NEW x \in Range(Tail(q)) PROVE x \in Range(q)
  <2>1. PICK i \in 1..(Len(q) - 1) : x = Tail(q)[i]
    BY <1>1 DEF Range
  <2>2. i + 1 \in 1..Len(q) /\ x = q[i + 1]
    BY <1>1, <2>1
  <2> QED
    BY <1>1, <2>2 DEF Range
<1>4. Head(q) \in Range(q)
  BY <1>1 DEF Range
<1> QED
  BY <1>1, <1>2, <1>3, <1>4

LEMMA OrderedAppend ==
    ASSUME NEW S, NEW q \in Seq(S), NEW e \in S, Ordered(q),
           \A x \in Range(q) \cap TerminalStatus : x = e
    PROVE  Ordered(Append(q, e))
<1>1. /\ DOMAIN Append(q, e) = 1..(Len(q) + 1) /\ DOMAIN q = 1..Len(q)
      /\ Len(q) \in Nat
      /\ \A i \in 1..Len(q) : Append(q, e)[i] = q[i]
      /\ Append(q, e)[Len(q) + 1] = e
  OBVIOUS
<1> SUFFICES ASSUME NEW i \in 1..(Len(q) + 1), NEW j \in 1..(Len(q) + 1),
                    i < j, Append(q, e)[i] \in TerminalStatus
             PROVE  Append(q, e)[j] = Append(q, e)[i]
  BY <1>1 DEF Ordered
<1>2. i \in 1..Len(q) /\ q[i] = Append(q, e)[i] /\ q[i] \in Range(q)
  BY <1>1 DEF Range
<1>3. CASE j = Len(q) + 1
  BY <1>1, <1>2, <1>3
<1>4. CASE j # Len(q) + 1
  BY <1>1, <1>2, <1>4 DEF Ordered
<1> QED
  BY <1>3, <1>4

LEMMA Pairs ==
    ASSUME NEW a, NEW b
    PROVE  Append(<<a>>, b) = <<a, b>> /\ SubSeq(<<a, b>>, 1, 1) = <<a>>
<1> DEFINE S == {a, b}
<1>1. <<a>> \in Seq(S) /\ <<a, b>> \in Seq(S) /\ Len(<<a>>) = 1 /\ Len(<<a, b>>) = 2
  OBVIOUS
<1>2. Append(<<a>>, b) = <<a, b>>
  <2>1. Append(<<a>>, b) \in Seq(S) /\ Len(Append(<<a>>, b)) = 2
    BY <1>1
  <2>2. Append(<<a>>, b)[1] = a /\ Append(<<a>>, b)[2] = b
    BY <1>1
  <2>3. \A i \in 1..2 : Append(<<a>>, b)[i] = <<a, b>>[i]
    BY <2>2
  <2> QED
    BY <1>1, <2>1, <2>3, SeqEqual
<1>3. SubSeq(<<a, b>>, 1, 1) = <<a>>
  <2>1. SubSeq(<<a, b>>, 1, 1) \in Seq(S) /\ Len(SubSeq(<<a, b>>, 1, 1)) = 1
    BY <1>1
  <2>2. \A i \in 1..1 : SubSeq(<<a, b>>, 1, 1)[i] = <<a>>[i]
    BY <1>1
  <2> QED
    BY <1>1, <2>1, <2>2, SeqEqual
<1> QED
  BY <1>2, <1>3

(* The outbox of a record that reaches its status, and of one that is      *)
(* fenced.                                                                 *)
LEMMA Outboxes ==
    ASSUME NEW t \in TerminalStatus
    PROVE  /\ \A q \in Asking : Append(q, t) \in Full(t)
           /\ \A q \in Full(t) :
                /\ q # <<>> /\ Front(q) \in Asking
                /\ t \in Range(q)
                /\ \/ Head(q) = t /\ Tail(q) = <<>>
                   \/ Head(q) = "requested" /\ Tail(q) = <<t>>
           /\ \A q \in Asking :
                q # <<>> => Head(q) = "requested" /\ Tail(q) = <<>>
           /\ "requested" \notin Range(<<t>>) /\ "requested" \notin Range(<<>>)
           /\ \A q \in Asking : Range(q) \cap TerminalStatus = {}
<1>1. /\ Append(<<>>, t) = <<t>>
      /\ <<t>> # <<>> /\ <<"requested", t>> # <<>> /\ <<"requested">> # <<>>
      /\ Head(<<t>>) = t /\ Tail(<<t>>) = <<>>
      /\ Head(<<"requested", t>>) = "requested" /\ Tail(<<"requested", t>>) = <<t>>
      /\ Head(<<"requested">>) = "requested" /\ Tail(<<"requested">>) = <<>>
  OBVIOUS
<1>2. Front(<<t>>) = <<>> /\ Front(<<"requested", t>>) = <<"requested">>
  <2>1. /\ Len(<<t>>) - 1 = 0 /\ Len(<<"requested", t>>) - 1 = 1
        /\ SubSeq(<<t>>, 1, 0) = <<>>
    OBVIOUS
  <2> QED
    BY <2>1, Pairs DEF Front
<1>3. /\ Range(<<>>) = {} /\ Range(<<t>>) = {t}
      /\ Range(<<"requested">>) = {"requested"}
      /\ Range(<<"requested", t>>) = {"requested", t}
  BY RangeShort
<1>4. t # "requested" /\ "requested" \notin TerminalStatus
  BY DEF TerminalStatus, Decision
<1> QED
  BY <1>1, <1>2, <1>3, <1>4, Pairs DEF Asking, Full
-----------------------------------------------------------------------------
(* Steps that keep what there is of an approval.                           *)

Kept(id) ==
    /\ stored'[id] = stored[id] /\ published'[id] = published[id]
    /\ pending'[id] = pending[id] /\ waiter'[id] = waiter[id]
    /\ id \in halfFenced' <=> id \in halfFenced
    /\ ready' = ready /\ (closed => closed')

LEMMA Initially == Init => IInv
<1> SUFFICES ASSUME Init PROVE IInv
  OBVIOUS
<1>1. NoRecord \in Record /\ Idle \in Op
  BY DEF NoRecord, Idle, Record, Status, Op, OpKind, OpStep
<1>2. TypeOK
  <2>1. <<>> \in Seq(Event) /\ "none" \in Waiter
    BY DEF Waiter
  <2>2. 0 \in 0..MaxFaults /\ 0 \in 0..MaxCrashes
    BY ApprovalAssumption
  <2> QED
    BY <1>1, <2>1, <2>2 DEF Init, TypeOK
<1>3. OpFits
  BY DEF Init, OpFits, Idle
<1>4. ASSUME NEW id \in Id
      PROVE  Sound(id) /\ StepFits(id) /\ RecoverFits(id)
  <2>1. /\ stored[id] = NoRecord /\ published[id] = <<>> /\ pending[id] = NoRecord
        /\ waiter[id] = "none" /\ id \notin halfFenced /\ Step(id) = "next"
        /\ op.kind = "idle" /\ closed = FALSE /\ Range(<<>>) = {}
    BY RangeShort DEF Init, Step, Idle
  <2>2. NoRecord.status = "none" /\ NoRecord.outbox = <<>>
    BY DEF NoRecord
  <2>3. RecordFits(id) /\ HalfFencedFits(id)
    BY <2>1, <2>2 DEF RecordFits, Fits, HalfFencedFits
  <2>4. Ordered(<<>>)
    BY DEF Ordered
  <2>5. AnnouncedFits(id)
    BY <2>1, <2>2, <2>4 DEF AnnouncedFits, Terminal, TerminalStatus, Decision, Announced
  <2>6. CallerFits(id)
    BY <2>1, <2>2 DEF CallerFits, Waits, Decision, Announced
  <2>7. StepFits(id) /\ RecoverFits(id)
    BY <2>1 DEF StepFits, RecoverFits
  <2> QED
    BY <2>3, <2>5, <2>6, <2>7 DEF Sound
<1> QED
  BY <1>2, <1>3, <1>4 DEF IInv

Light == {"next", "append", "commit", "event", "ack"}

LEMMA Carry ==
    ASSUME NEW id \in Id, Sound(id), Kept(id),
           \/ Step(id)' = Step(id)
           \/ Step(id) \in Light /\ Step(id)' \in Light
    PROVE  Sound(id)'
<1>1. RecordFits(id)' /\ HalfFencedFits(id)'
  BY DEF Kept, Sound, RecordFits, HalfFencedFits, Fits, Waits
<1>2. AnnouncedFits(id)'
  BY DEF Kept, Sound, AnnouncedFits, Announced, Terminal, Ordered, Light
<1>3. CallerFits(id)'
  BY DEF Kept, Sound, CallerFits, Waits, Announced, Fits, Light
<1> QED
  BY <1>1, <1>2, <1>3 DEF Sound

(* Nothing of StepFits is asked of an approval that is left alone. *)
LEMMA NothingAsked ==
    ASSUME NEW id \in Id, Step(id)' = "next"
    PROVE  StepFits(id)'
BY DEF StepFits

LEMMA Elsewhere ==
    ASSUME IInv, NEW id \in Id, Kept(id), Step(id) = "next", Step(id)' = "next",
           op'.kind = "recover" =>
               op.kind = "recover" /\ (id \in op.todo => id \in op'.todo)
    PROVE  Sound(id)' /\ StepFits(id)' /\ RecoverFits(id)'
<1>1. Sound(id)'
  <2>1. Sound(id) /\ Step(id)' = Step(id)
    BY DEF IInv
  <2> QED
    BY <2>1, Carry
<1>2. RecoverFits(id)'
  BY DEF IInv, Kept, RecoverFits
<1> QED
  BY <1>1, <1>2, NothingAsked

LEMMA TerminatedFits ==
    ASSUME NEW rec \in Record, NEW t \in TerminalStatus
    PROVE  /\ Terminated(rec, t) \in Record
           /\ Terminated(rec, t).status = t
           /\ t \in Range(Terminated(rec, t).outbox)
           /\ rec.outbox \in Asking => Terminated(rec, t).outbox \in Full(t)
<1>1. t \in Event /\ rec.outbox \in Seq(Event) /\ t \in Status
  BY DEF Event, Record, Status
<1>2. Append(rec.outbox, t) \in Seq(Event) /\ t \in Range(Append(rec.outbox, t))
  BY <1>1, RangeAppend
<1> QED
  BY <1>1, <1>2, Outboxes DEF Terminated, Record

LEMMA CurrentTyped ==
    ASSUME TypeOK, NEW id \in Id
    PROVE  Current(id) \in Record /\ stored[id] \in Record /\ pending[id] \in Record
BY DEF TypeOK, Current

(* An operation may begin, or go on, to commit a terminal status. *)
LEMMA CommitFits ==
    ASSUME IInv, NEW id \in Id, Step(id) = "next", NEW t \in TerminalStatus,
           Current(id).status = "pending" \/ Waits(id),
           t \in Decision => ready /\ ~closed /\ Current(id).status = "pending",
           Kept(id), op'.id = id, op'.step = "commit",
           op'.rec = Terminated(Current(id), t)
    PROVE  StepFits(id)' /\ Sound(id)' /\ RecoverFits(id)'
<1>1. /\ op'.rec.status = t /\ t \in Range(op'.rec.outbox)
      /\ Current(id).outbox \in Asking => op'.rec.outbox \in Full(t)
  BY CurrentTyped, TerminatedFits DEF IInv
<1>2. /\ RecordFits(id) /\ CallerFits(id) /\ HalfFencedFits(id)
      /\ Step(id)' = "commit"
  BY DEF IInv, Sound, Step
<1>3. ASSUME id \notin halfFenced
      PROVE  stored[id].status = "pending" /\ Current(id).outbox \in Asking
  <2>1. CASE Waits(id)
    BY <1>2, <1>3, <2>1 DEF CallerFits, Current, Fits, TerminalStatus, Decision
  <2>2. CASE ~Waits(id)
    BY <1>2, <1>3, <2>2 DEF RecordFits, Current, Fits, TerminalStatus, Decision
  <2> QED
    BY <2>1, <2>2
<1>4. ASSUME t \in Decision
      PROVE  ready /\ Waits(id) /\ id \notin halfFenced
  <2>1. ready /\ ~closed /\ Current(id).status = "pending"
    BY <1>4
  <2>2. id \notin halfFenced
    BY <1>2, <2>1 DEF HalfFencedFits, Current, TerminalStatus, Decision
  <2> QED
    BY <1>2, <1>3, <2>1, <2>2 DEF CallerFits
<1>5. StepFits(id)'
  BY <1>1, <1>2, <1>3, <1>4 DEF StepFits, Kept, Waits
<1>6. Sound(id)'
  BY <1>2, Carry DEF IInv, Light
<1> QED
  BY <1>2, <1>5, <1>6 DEF RecoverFits

LEMMA EventFits ==
    ASSUME IInv, NEW id \in Id, Step(id) = "next", stored[id].outbox # <<>>,
           Kept(id), op'.id = id, op'.step = "event", op'.rec = stored[id],
           op'.kind = "recover" => stored[id].status # "pending"
    PROVE  StepFits(id)' /\ Sound(id)' /\ RecoverFits(id)'
<1>1. Step(id)' = "event" /\ Sound(id)
  BY DEF Step, IInv
<1>2. StepFits(id)'
  BY <1>1 DEF StepFits, Kept
<1>3. Sound(id)'
  BY <1>1, Carry DEF Light
<1> QED
  BY <1>2, <1>3 DEF RecoverFits, Kept

(* A step on one approval, or on none, leaves the others as they are. *)
LEMMA Others ==
    ASSUME IInv, TypeOK', OpFits', NEW i,
           \A id \in Id \ {i} :
               Kept(id) /\ Step(id) = "next" /\ Step(id)' = "next",
           op'.kind = "recover" =>
               op.kind = "recover" /\ op.todo \ {i} \subseteq op'.todo,
           i \in Id => Sound(i)' /\ StepFits(i)' /\ RecoverFits(i)'
    PROVE  IInv'
<1>1. ASSUME NEW id \in Id
      PROVE  Sound(id)' /\ StepFits(id)' /\ RecoverFits(id)'
  <2>1. CASE id = i
    BY <2>1
  <2>2. CASE id # i
    BY <2>2, Elsewhere
  <2> QED
    BY <2>1, <2>2
<1> QED
  BY <1>1 DEF IInv

-----------------------------------------------------------------------------
(* Operations begin.                                                       *)

LEMMA StartFrame ==
    ASSUME UNCHANGED <<stored, published, pending, waiter, ready, halfFenced>>,
           closed => closed', op = Idle
    PROVE  \A id \in Id : Kept(id) /\ Step(id) = "next"
BY DEF Kept, Step, Idle

(* The parts of the operation that has begun. *)
LEMMA Begun ==
    ASSUME NEW kind, NEW step, NEW id, NEW rec, NEW todo,
           Begin(kind, step, id, rec, todo)
    PROVE  /\ op = Idle /\ op'.kind = kind /\ op'.step = step /\ op'.id = id
           /\ op'.rec = rec /\ op'.todo = todo
           /\ op' = [kind |-> kind, step |-> step, id |-> id, rec |-> rec,
                     todo |-> todo]
           /\ \A other \in Id \ {id} : Step(other)' = "next"
           /\ step = "next" => \A other \in Id : Step(other)' = "next"
BY DEF Begin, Step

LEMMA TerminateStarts ==
    ASSUME IInv, TypeOK', NEW id \in Id, ready,
           \/ Cancel(id) \/ Expire(id) \/ \E d \in Decision : Decide(id, d),
           UNCHANGED <<stored, published, pending, waiter, closed, ready,
                       retiring, halfFenced, faults, crashes>>
    PROVE  IInv'
<1>1. PICK kind \in {"cancel", "expire", "decide"}, t \in TerminalStatus :
        /\ BeginTerminate(kind, id, t)
        /\ Current(id).status = "pending" \/ Waits(id)
        /\ t \in Decision => ~closed /\ Current(id).status = "pending"
  BY DEF Cancel, Expire, Decide, TerminalStatus, Decision
<1>2. /\ op = Idle /\ op'.kind = kind /\ op'.step = "commit" /\ op'.id = id
      /\ op'.rec = Terminated(Current(id), t)
      /\ \A other \in Id \ {id} : Step(other)' = "next"
  BY <1>1, Begun DEF BeginTerminate
<1>3. \A other \in Id : Kept(other) /\ Step(other) = "next"
  BY <1>2, StartFrame
<1>4. StepFits(id)' /\ Sound(id)' /\ RecoverFits(id)'
  BY <1>1, <1>2, <1>3, CommitFits
<1>5. OpFits'
  BY <1>1, <1>2 DEF OpFits
<1> QED
  BY <1>1, <1>2, <1>3, <1>4, <1>5, Others

LEMMA EvaluateStarts ==
    ASSUME IInv, TypeOK', NEW id \in Id, ready, Evaluate(id),
           UNCHANGED <<stored, published, pending, waiter, closed, ready,
                       retiring, halfFenced, faults, crashes>>
    PROVE  IInv'
<1>1. /\ op = Idle /\ op'.kind = "evaluate" /\ op'.step = "append"
      /\ op'.id = id /\ op'.rec = Asked
      /\ \A other \in Id \ {id} : Step(other)' = "next"
  BY Begun DEF Evaluate, Asked
<1>2. \A other \in Id : Kept(other) /\ Step(other) = "next"
  BY <1>1, StartFrame
<1>3. Step(id)' = "append" /\ stored[id] = NoRecord /\ waiter[id] = "none"
  BY <1>1 DEF Step, Evaluate
<1>4. StepFits(id)'
  BY <1>1, <1>3 DEF StepFits
<1>5. Sound(id)'
  BY <1>2, <1>3, Carry DEF IInv, Light
<1>6. OpFits' /\ RecoverFits(id)'
  BY <1>1 DEF OpFits, RecoverFits
<1> QED
  BY <1>1, <1>2, <1>4, <1>5, <1>6, Others

LEMMA GetStarts ==
    ASSUME IInv, TypeOK', NEW id \in Id, ready, Get(id),
           UNCHANGED <<stored, published, pending, waiter, closed, ready,
                       retiring, halfFenced, faults, crashes>>
    PROVE  IInv'
<1>1. /\ op = Idle /\ op'.kind = "get" /\ op'.step = "event"
      /\ op'.id = id /\ op'.rec = stored[id] /\ stored[id].outbox # <<>>
      /\ \A other \in Id \ {id} : Step(other)' = "next"
  BY Begun DEF Get
<1>2. \A other \in Id : Kept(other) /\ Step(other) = "next"
  BY <1>1, StartFrame
<1>3. Sound(id)' /\ StepFits(id)' /\ RecoverFits(id)'
  BY <1>1, <1>2, EventFits
<1>4. OpFits'
  BY <1>1 DEF OpFits
<1> QED
  BY <1>1, <1>2, <1>3, <1>4, Others

LEMMA WalkStarts ==
    ASSUME IInv, TypeOK', Start(Replay) \/ RetireRun
    PROVE  IInv'
<1>1. /\ op = Idle /\ op'.kind \in {"replay", "retire"} /\ op'.step = "next"
      /\ \A other \in Id : Step(other)' = "next"
  BY Begun DEF Start, Replay, RetireRun
<1>2. \A other \in Id : Kept(other) /\ Step(other) = "next"
  BY <1>1, StartFrame DEF Start, RetireRun
<1>3. OpFits'
  BY <1>1 DEF OpFits, Start, RetireRun
<1> QED
  BY <1>1, <1>2, <1>3, ApprovalAssumption, Others

LEMMA RecoverStarts ==
    ASSUME IInv, TypeOK', Recover
    PROVE  IInv'
<1>1. /\ op = Idle /\ op'.kind = "recover" /\ op'.step = "next" /\ ~ready
      /\ op'.todo = {id \in Id : stored[id].status \notin {"none", "pruned"}}
      /\ \A other \in Id : Step(other)' = "next"
  BY Begun DEF Recover
<1>2. \A other \in Id : Kept(other) /\ Step(other) = "next"
  BY <1>1, StartFrame DEF Recover
<1>3. ASSUME NEW id \in Id
      PROVE  Sound(id)' /\ StepFits(id)' /\ RecoverFits(id)'
  <2>1. Sound(id)'
    BY <1>1, <1>2, Carry DEF IInv
  <2>2. StepFits(id)'
    BY <1>1, NothingAsked
  <2>3. RecoverFits(id)'
    BY <1>1, <1>2 DEF RecoverFits, Kept
  <2> QED
    BY <2>1, <2>2, <2>3
<1>4. OpFits'
  BY <1>1 DEF OpFits, Recover
<1> QED
  BY <1>3, <1>4 DEF IInv

LEMMA RetireStep ==
    ASSUME IInv, TypeOK', Retire
    PROVE  IInv'
<1>1. op' = op /\ closed' /\ \A id \in Id : Kept(id)
  BY DEF Retire, Kept
<1>2. ASSUME NEW id \in Id
      PROVE  Sound(id)' /\ StepFits(id)' /\ RecoverFits(id)'
  <2>1. Step(id)' = Step(id) /\ Sound(id) /\ StepFits(id) /\ RecoverFits(id)
    BY <1>1 DEF Step, IInv
  <2>2. Sound(id)'
    BY <1>1, <2>1, Carry
  <2>3. StepFits(id)' /\ RecoverFits(id)'
    BY <1>1, <2>1 DEF StepFits, RecoverFits, Kept, Waits, Announced
  <2> QED
    BY <2>2, <2>3
<1>3. OpFits'
  BY <1>1 DEF OpFits, IInv, Retire
<1> QED
  BY <1>2, <1>3 DEF IInv
-----------------------------------------------------------------------------
(* An operation goes on.                                                   *)

(* While it works on a record, it works on no other. *)
LEMMA Elsewise ==
    ASSUME NEW i, op.id = i \/ op.step = "next",
           op'.id = i \/ op'.step = "next"
    PROVE  \A id \in Id \ {i} : Step(id) = "next" /\ Step(id)' = "next"
BY DEF Step

LEMMA OpTyped ==
    ASSUME TypeOK
    PROVE  /\ op \in Op /\ op.rec \in Record /\ op.rec.outbox \in Seq(Event)
           /\ op.rec.status \in Status /\ op.todo \subseteq Id
           /\ op.kind \in OpKind /\ op.step \in OpStep
BY DEF TypeOK, Op, Record

LEMMA NextStep ==
    ASSUME IInv, TypeOK', NEW id \in Id, NextRecord(id)
    PROVE  IInv'
<1>1. /\ op.step = "next" /\ id \in op.todo
      /\ UNCHANGED <<stored, published, pending, waiter, closed, ready,
                     retiring, halfFenced, faults, crashes>>
  BY DEF NextRecord
<1>2. \A other \in Id : Kept(other) /\ Step(other) = "next"
  BY <1>1 DEF Kept, Step
<1>3. /\ op'.kind = op.kind /\ op'.todo = op.todo \ {id} /\ op'.id = id
  BY OpTyped DEF IInv, NextRecord, Op
<1>4. OpFits'
  BY <1>1, <1>3 DEF IInv, OpFits
<1>5. \A other \in Id \ {id} : Step(other)' = "next"
  BY <1>3 DEF Step
<1>6. StepFits(id)' /\ Sound(id)' /\ RecoverFits(id)'
  <2>1. CASE Current(id).status = "pending" /\ op.kind # "replay"
    <3>1. PICK t \in {"expired", "cancelled"} :
            op' = [op EXCEPT !.step = "commit", !.id = id,
                             !.rec = Terminated(Current(id), t),
                             !.todo = op.todo \ {id}]
      BY <2>1 DEF NextRecord
    <3>2. op'.step = "commit" /\ op'.rec = Terminated(Current(id), t)
      BY <3>1, OpTyped DEF IInv, Op
    <3>3. t \in TerminalStatus /\ t \notin Decision
      BY DEF TerminalStatus, Decision
    <3> QED
      BY <1>2, <1>3, <2>1, <3>2, <3>3, CommitFits
  <2>2. ASSUME op'.step = "next", op.kind = "recover" => stored[id].status # "pending"
        PROVE  StepFits(id)' /\ Sound(id)' /\ RecoverFits(id)'
    <3>1. Step(id)' = "next" /\ Sound(id)
      BY <2>2 DEF Step, IInv
    <3>2. Sound(id)'
      BY <1>2, <3>1, Carry
    <3> QED
      BY <1>2, <1>3, <2>2, <3>1, <3>2, NothingAsked DEF RecoverFits, Kept
  <2>3. CASE ~(Current(id).status = "pending" /\ op.kind # "replay")
    <3>1. op.kind = "recover" => stored[id].status # "pending"
      <4>1. ASSUME op.kind = "recover" PROVE ~Waits(id)
        BY <4>1 DEF IInv, OpFits, Sound, CallerFits
      <4> QED
        BY <2>3, <4>1 DEF Current
    <3>2. CASE op.kind = "retire"
      <4>1. op'.step = "next"
        BY <2>3, <3>2, OpTyped DEF NextRecord, IInv, Op
      <4> QED
        BY <2>2, <3>1, <4>1
    <3>3. CASE op.kind # "retire"
      <4>1. op'.step = AfterCommit(stored[id]) /\ op'.rec = stored[id]
        BY <2>3, <3>3, OpTyped DEF NextRecord, IInv, Op
      <4>2. CASE stored[id].outbox = <<>>
        BY <2>2, <3>1, <4>1, <4>2 DEF AfterCommit
      <4>3. CASE stored[id].outbox # <<>>
        BY <1>2, <1>3, <3>1, <4>1, <4>3, EventFits DEF AfterCommit
      <4> QED
        BY <4>2, <4>3
    <3> QED
      BY <3>2, <3>3
  <2> QED
    BY <2>1, <2>3
<1> QED
  BY <1>2, <1>3, <1>4, <1>5, <1>6, Others

(* The approval an operation is working on. *)
LEMMA Working ==
    ASSUME IInv, op.step # "next"
    PROVE  /\ op.id \in Id /\ Step(op.id) = op.step
           /\ Sound(op.id) /\ StepFits(op.id) /\ RecoverFits(op.id)
BY DEF IInv, OpFits, Step

LEMMA WrittenStep ==
    ASSUME IInv, TypeOK', NEW step, NEW next,
           <<step, next>> \in {<<"append", "register">>, <<"commit", "fence">>,
                               <<"refence", "settle">>},
           Written(step, next)
    PROVE  IInv'
<1>0. PICK i \in Id : i = op.id
  BY Working DEF Written
<1>1. /\ op.step = step /\ step # "next" /\ step \in {"append", "commit", "refence"}
      /\ step = "append" => next = "register"
      /\ step = "commit" => next = "fence"
      /\ step = "refence" => next = "settle"
      /\ UNCHANGED <<published, pending, waiter, closed, ready, halfFenced>>
  BY DEF Written
<1>2. /\ op'.step = next /\ op'.id = i /\ op'.rec = op.rec /\ op'.kind = op.kind
      /\ op'.todo = op.todo
  BY <1>0, OpTyped DEF Written, GoTo, IInv, Op
<1>3. /\ i \in Id /\ Step(i) = step
      /\ Sound(i) /\ StepFits(i) /\ RecoverFits(i)
  BY <1>0, <1>1, Working
<1>4. /\ stored'[i] = op.rec
      /\ \A id \in Id \ {i} : stored'[id] = stored[id]
  BY <1>0, <1>3 DEF Written, IInv, TypeOK
<1>5. \A id \in Id \ {i} : Kept(id) /\ Step(id) = "next" /\ Step(id)' = "next"
  BY <1>1, <1>2, <1>4, <1>0, Elsewise DEF Kept
<1>6. Step(i)' = next
  BY <1>2 DEF Step
<1>7. OpFits'
  BY <1>1, <1>2, <1>3 DEF IInv, OpFits
<1>8. Sound(i)' /\ StepFits(i)' /\ RecoverFits(i)'
  <2>1. /\ RecordFits(i) /\ AnnouncedFits(i) /\ CallerFits(i) /\ HalfFencedFits(i)
    BY <1>3 DEF Sound
  <2>2. CASE step = "append"
    <3>1. /\ op.rec = Asked /\ stored[i] = NoRecord /\ waiter[i] = "none"
          /\ ready /\ i \notin halfFenced
      BY <1>3, <2>1, <2>2 DEF StepFits, HalfFencedFits, NoRecord, TerminalStatus, Decision
    <3>2. published[i] = <<>>
      BY <2>1, <3>1 DEF RecordFits, NoRecord
    <3>3. RecordFits(i)' /\ HalfFencedFits(i)'
      BY <1>1, <1>4, <3>1, <3>2 DEF RecordFits, HalfFencedFits, Fits, Asked, Asking
    <3>4. AnnouncedFits(i)'
      <4>1. Announced(i)' = {} /\ Ordered(published'[i])
        <5>1. published'[i] = <<>> /\ Range(<<>>) = {}
          BY <1>1, <3>2, RangeShort
        <5>2. Ordered(<<>>)
          BY DEF Ordered
        <5> QED
          BY <5>1, <5>2 DEF Announced
      <4> QED
        BY <1>1, <1>4, <3>1, <4>1
        DEF AnnouncedFits, Asked, Terminal, TerminalStatus, Decision
    <3>5. CallerFits(i)'
      <4>1. Announced(i)' = {} /\ ~Waits(i)'
        BY <1>1, <2>1, <3>1, <3>2, RangeShort DEF Announced, CallerFits, Waits
      <4> QED
        BY <1>1, <1>4, <1>6, <2>2, <3>1, <4>1 DEF CallerFits, Asked, Decision
    <3>6. StepFits(i)'
      BY <1>1, <1>2, <1>4, <1>6, <2>2, <3>1 DEF StepFits
    <3>7. RecoverFits(i)'
      BY <1>2, <3>1 DEF IInv, OpFits, RecoverFits
    <3> QED
      BY <3>3, <3>4, <3>5, <3>6, <3>7 DEF Sound
  <2>3. CASE step = "commit"
    <3>1. /\ op.rec.status \in TerminalStatus
          /\ op.rec.status \in Range(op.rec.outbox)
          /\ i \notin halfFenced => /\ op.rec.outbox \in Full(op.rec.status)
                                    /\ stored[i].status = "pending"
          /\ op.rec.status \in Decision =>
               ready /\ (Waits(i) \/ closed) /\ i \notin halfFenced
      BY <1>3, <2>3 DEF StepFits
    <3>2. op.rec.status \notin {"none", "pending", "pruned", "requested"}
      BY <3>1 DEF TerminalStatus, Decision
    <3>3. waiter[i] \notin Decision
      BY <2>1, <3>1 DEF CallerFits, HalfFencedFits, Decision
    <3>4. i \notin halfFenced => Announced(i) \cap TerminalStatus = {}
      BY <2>1, <3>1 DEF AnnouncedFits, TerminalStatus, Decision
    <3>5. RecordFits(i)' /\ HalfFencedFits(i)'
      BY <1>1, <1>4, <2>1, <3>1, <3>2
      DEF RecordFits, HalfFencedFits, Fits, Waits
    <3>6. AnnouncedFits(i)'
      BY <1>1, <1>4, <2>1, <3>1, <3>2, <3>4
      DEF AnnouncedFits, Terminal, Announced, Ordered
    <3>7. CallerFits(i)'
      BY <1>1, <1>4, <1>6, <2>1, <2>3, <3>2, <3>3, <3>4
      DEF CallerFits, Waits, Announced, TerminalStatus, Fits
    <3>8. StepFits(i)'
      BY <1>1, <1>2, <1>4, <1>6, <2>3, <3>1 DEF StepFits, Waits
    <3>9. RecoverFits(i)'
      BY <1>4, <3>2 DEF RecoverFits
    <3> QED
      BY <3>5, <3>6, <3>7, <3>8, <3>9 DEF Sound
  <2>4. CASE step = "refence"
    <3>1. /\ closed /\ stored[i].status \in Decision /\ i \notin halfFenced
          /\ op.rec.status = "cancelled" /\ op.rec.outbox \in Full("cancelled")
      BY <1>3, <2>4 DEF StepFits
    <3>2. "cancelled" \in TerminalStatus
      BY DEF TerminalStatus
    <3>3. "cancelled" \in Range(op.rec.outbox)
      BY <3>1, <3>2, Outboxes
    <3>4. /\ Announced(i) \cap TerminalStatus = {}
          /\ waiter[i] \notin Decision
      <4>1. Announced(i) \cap TerminalStatus = {}
        BY <1>3, <2>1, <2>4, <3>1 DEF AnnouncedFits
      <4>2. waiter[i] \notin Decision
        BY <1>3, <2>1, <2>4 DEF CallerFits
      <4> QED
        BY <4>1, <4>2
    <3>5. RecordFits(i)' /\ HalfFencedFits(i)'
      BY <1>1, <1>4, <3>1, <3>2 DEF RecordFits, HalfFencedFits, Fits
    <3>6. AnnouncedFits(i)'
      BY <1>1, <1>4, <2>1, <3>1, <3>3, <3>4
      DEF AnnouncedFits, Terminal, Announced, Ordered
    <3>7. CallerFits(i)'
      BY <1>1, <1>4, <1>6, <2>1, <2>4, <3>1, <3>4
      DEF CallerFits, Waits, Announced, TerminalStatus, Fits, Decision
    <3>8. StepFits(i)'
      BY <1>1, <1>2, <1>4, <1>6, <2>4, <3>1 DEF StepFits
    <3>9. RecoverFits(i)'
      BY <1>4, <3>1 DEF RecoverFits
    <3> QED
      BY <3>5, <3>6, <3>7, <3>8, <3>9 DEF Sound
  <2> QED
    BY <1>1, <2>2, <2>3, <2>4
<1> QED
  BY <1>2, <1>5, <1>7, <1>8, Others

LEMMA WriteFailsStep ==
    ASSUME IInv, TypeOK', WriteFails
    PROVE  IInv'
<1>0. PICK i \in Id : i = op.id
  BY Working DEF WriteFails
<1>1. /\ op.step \in {"append", "commit", "refence"} /\ op' = Idle
      /\ halfFenced' = IF op.step = "refence" THEN halfFenced \cup {i} ELSE halfFenced
      /\ UNCHANGED <<stored, published, pending, waiter, closed, ready>>
  BY <1>0 DEF WriteFails
<1>2. /\ op'.step = "next" /\ op'.kind = "idle"
  BY <1>1 DEF Idle
<1>3. /\ i \in Id /\ Step(i) = op.step
      /\ Sound(i) /\ StepFits(i) /\ RecoverFits(i)
  BY <1>0, <1>1, Working
<1>4. \A id \in Id \ {i} : Kept(id) /\ Step(id) = "next" /\ Step(id)' = "next"
  BY <1>0, <1>1, <1>2, Elsewise DEF Kept
<1>5. OpFits'
  BY <1>2 DEF OpFits
<1>6. Step(i)' = "next"
  BY <1>2 DEF Step
<1>7. StepFits(i)' /\ RecoverFits(i)'
  BY <1>2, <1>3, <1>6, NothingAsked DEF RecoverFits
<1>8. Sound(i)'
  <2>1. CASE op.step # "refence"
    BY <1>1, <1>3, <1>6, <2>1, Carry DEF Kept, Light
  <2>2. CASE op.step = "refence"
    <3>1. /\ closed /\ stored[i].status \in Decision /\ i \in halfFenced'
      BY <1>1, <1>3, <2>2 DEF StepFits
    <3>2. RecordFits(i) /\ AnnouncedFits(i) /\ CallerFits(i)
      BY <1>3 DEF Sound
    <3>3. waiter[i] \notin Decision
      BY <1>3, <2>2, <3>2 DEF CallerFits
    <3>4. RecordFits(i)' /\ AnnouncedFits(i)'
      BY <1>1, <3>1, <3>2 DEF RecordFits, AnnouncedFits, Announced, Terminal
    <3>5. CallerFits(i)'
      BY <1>1, <3>1, <3>2, <3>3 DEF CallerFits, Waits, Decision
    <3>6. HalfFencedFits(i)'
      BY <1>1, <3>1, <3>3 DEF HalfFencedFits, TerminalStatus
    <3> QED
      BY <3>4, <3>5, <3>6 DEF Sound
  <2> QED
    BY <2>1, <2>2
<1> QED
  BY <1>2, <1>3, <1>4, <1>5, <1>7, <1>8, Others

LEMMA RegisterStep ==
    ASSUME IInv, TypeOK', Register
    PROVE  IInv'
<1>0. PICK i \in Id : i = op.id
  BY Working DEF Register
<1>1. /\ op.step = "register"
      /\ UNCHANGED <<stored, published, closed, ready, halfFenced>>
  BY DEF Register
<1>2. /\ Step(i) = "register"
      /\ Sound(i) /\ StepFits(i) /\ RecoverFits(i)
  BY <1>0, <1>1, Working
<1>3. /\ RecordFits(i) /\ AnnouncedFits(i) /\ CallerFits(i) /\ HalfFencedFits(i)
  BY <1>2 DEF Sound
<1>4. /\ stored[i] = Asked /\ op.rec = Asked /\ waiter[i] = "none" /\ ready
      /\ stored[i].status = "pending" /\ i \notin halfFenced /\ ~Waits(i)
      /\ stored[i].outbox = <<"requested">>
  BY <1>2, <1>3
  DEF StepFits, HalfFencedFits, CallerFits, Asked, TerminalStatus, Decision
<1>5. Announced(i) \cap TerminalStatus = {}
  BY <1>3, <1>4 DEF AnnouncedFits, TerminalStatus, Decision
<1>6. /\ op'.id = i /\ op'.todo = op.todo /\ op'.step \in {"commit", "event"}
      /\ op'.kind \in {op.kind, "cancel"} /\ op.kind # "recover"
  BY <1>0, <1>1, <1>4, OpTyped DEF Register, GoTo, IInv, OpFits, Op
<1>7. /\ pending \in [Id -> Record] /\ waiter \in [Id -> Waiter]
  BY DEF IInv, TypeOK
<1>8. \A id \in Id \ {i} : Kept(id) /\ Step(id) = "next" /\ Step(id)' = "next"
  <2>1. \A id \in Id \ {i} : Step(id) = "next" /\ Step(id)' = "next"
    BY <1>0, <1>6, Elsewise
  <2>2. ASSUME NEW id \in Id \ {i}
        PROVE  waiter'[id] = waiter[id] /\ pending'[id] = pending[id]
    BY <1>0, <1>7 DEF Register
  <2> QED
    BY <1>1, <2>1, <2>2 DEF Kept
<1>9. OpFits' /\ RecoverFits(i)'
  BY <1>0, <1>1, <1>4, <1>6 DEF IInv, OpFits, RecoverFits
<1>10. RecordFits(i)' /\ HalfFencedFits(i)'
  BY <1>1, <1>3, <1>4 DEF RecordFits, HalfFencedFits
<1>11. AnnouncedFits(i)'
  BY <1>1, <1>3, <1>5 DEF AnnouncedFits, Announced, Terminal, Ordered
<1>12. CASE closed
  <2>1. /\ waiter'[i] = "cancelled" /\ op'.step = "commit"
        /\ op'.rec = Terminated(NoRecord, "cancelled") /\ pending' = pending
    BY <1>0, <1>7, <1>12, OpTyped DEF Register, IInv, Op
  <2>2. /\ op'.rec.status = "cancelled" /\ op'.rec.outbox \in Full("cancelled")
        /\ "cancelled" \in Range(op'.rec.outbox)
        /\ "cancelled" \in TerminalStatus \ Decision
    <3>1. "cancelled" \in TerminalStatus \ Decision
      BY DEF TerminalStatus, Decision
    <3>2. NoRecord \in Record /\ NoRecord.outbox \in Asking
      BY DEF NoRecord, Record, Status, Asking
    <3> QED
      BY <2>1, <3>1, <3>2, TerminatedFits
  <2>3. Step(i)' = "commit"
    BY <1>6, <2>1 DEF Step
  <2>4. StepFits(i)'
    BY <1>1, <1>4, <2>2, <2>3 DEF StepFits
  <2>5. CallerFits(i)'
    BY <1>1, <1>3, <1>4, <1>5, <1>12, <2>1, <2>3
    DEF CallerFits, Waits, Announced, TerminalStatus, Decision
  <2> QED
    BY <1>6, <1>8, <1>9, <1>10, <1>11, <2>4, <2>5, Others DEF Sound
<1>13. CASE ~closed
  <2>1. /\ waiter'[i] = "waiting" /\ op'.step = "event" /\ op'.rec = op.rec
        /\ pending'[i] = op.rec
    BY <1>0, <1>7, <1>13, OpTyped DEF Register, GoTo, IInv, Op
  <2>2. Step(i)' = "event"
    BY <1>6, <2>1 DEF Step
  <2>3. /\ Asked # NoRecord /\ Asked.status = "pending" /\ Fits(Asked)
        /\ Asked.outbox # <<>>
    BY DEF Asked, NoRecord, Fits, Asking
  <2>4. StepFits(i)'
    BY <1>1, <1>4, <2>1, <2>2, <2>3 DEF StepFits
  <2>5. CallerFits(i)'
    BY <1>1, <1>4, <1>5, <2>1, <2>2, <2>3
    DEF CallerFits, Waits, Announced, TerminalStatus, Decision
  <2> QED
    BY <1>6, <1>8, <1>9, <1>10, <1>11, <2>4, <2>5, Others DEF Sound
<1> QED
  BY <1>12, <1>13

(* The transition is durable, and whoever waits is told. *)
LEMMA SettleStep ==
    ASSUME IInv, TypeOK', op.step \in {"fence", "settle"}, Settle,
           op.step = "fence" => ~(closed /\ op.rec.status \in Decision),
           UNCHANGED <<stored, published, closed, ready, retiring, halfFenced,
                       faults, crashes>>
    PROVE  IInv'
<1>0. PICK i \in Id : i = op.id
  BY Working
<1>1. /\ Step(i) = op.step
      /\ Sound(i) /\ StepFits(i) /\ RecoverFits(i)
  BY <1>0, Working
<1>2. /\ RecordFits(i) /\ AnnouncedFits(i) /\ CallerFits(i) /\ HalfFencedFits(i)
  BY <1>1 DEF Sound
<1>3. /\ op'.id = i /\ op'.todo = op.todo /\ op'.step = "event"
      /\ op'.kind = op.kind /\ op'.rec = op.rec
  BY <1>0, OpTyped DEF Settle, GoTo, IInv, Op
<1>4. /\ pending' = [pending EXCEPT ![i] = NoRecord]
      /\ waiter' = [waiter EXCEPT ![i] = IF Waits(i) THEN op.rec.status ELSE @]
      /\ pending \in [Id -> Record] /\ waiter \in [Id -> Waiter]
  BY <1>0 DEF Settle, IInv, TypeOK
<1>5. /\ ~Waits(i)' /\ waiter'[i] = IF Waits(i) THEN op.rec.status ELSE waiter[i]
  BY <1>4 DEF Waits
<1>6. \A id \in Id \ {i} : Kept(id) /\ Step(id) = "next" /\ Step(id)' = "next"
  <2>1. \A id \in Id \ {i} : Step(id) = "next" /\ Step(id)' = "next"
    BY <1>0, <1>3, Elsewise
  <2>2. \A id \in Id \ {i} : waiter'[id] = waiter[id] /\ pending'[id] = pending[id]
    BY <1>4
  <2> QED
    BY <2>1, <2>2 DEF Kept
<1>7. /\ stored[i] = op.rec /\ op.rec.status \in TerminalStatus
      /\ op.rec.status \in Range(op.rec.outbox) /\ op.rec.outbox # <<>>
      /\ i \notin halfFenced => op.rec.outbox \in Full(op.rec.status)
      /\ op.rec.status \in Decision => ready /\ Waits(i) /\ i \notin halfFenced
  <2>1. CASE op.step = "fence"
    <3>1. op.rec.status \in Range(op.rec.outbox) /\ Range(<<>>) = {}
      BY <1>1, <2>1, RangeShort DEF StepFits
    <3>2. op.rec.outbox # <<>>
      BY <3>1
    <3> QED
      BY <1>1, <2>1, <3>1, <3>2 DEF StepFits
  <2>2. CASE op.step = "settle"
    <3>1. "cancelled" \in TerminalStatus \ Decision
      BY DEF TerminalStatus, Decision
    <3> QED
      BY <1>1, <2>2, <3>1, Outboxes DEF StepFits
  <2> QED
    BY <2>1, <2>2
<1>8. waiter[i] \notin Decision /\ (i \notin halfFenced => Announced(i) \cap TerminalStatus = {})
  <2>1. i \notin halfFenced => Announced(i) \cap TerminalStatus = {}
    BY <1>1, <1>2 DEF AnnouncedFits
  <2>2. CASE op.step = "fence"
    BY <1>1, <1>2, <2>1, <2>2 DEF CallerFits
  <2>3. CASE op.step = "settle"
    <3>1. op.rec.status = "cancelled"
      BY <1>1, <2>3 DEF StepFits
    <3> QED
      BY <1>2, <1>7, <2>1, <3>1 DEF CallerFits, Decision
  <2> QED
    BY <2>2, <2>3
<1>9. op.rec.status \notin {"none", "pending", "pruned", "waiting"}
  BY <1>7 DEF TerminalStatus, Decision
<1>10. OpFits' /\ RecoverFits(i)'
  BY <1>0, <1>3, <1>7, <1>9 DEF IInv, OpFits, RecoverFits
<1>11. RecordFits(i)' /\ HalfFencedFits(i)'
  BY <1>2, <1>5, <1>7, <1>8 DEF RecordFits, HalfFencedFits, Fits
<1>12. AnnouncedFits(i)'
  BY <1>2, <1>8 DEF AnnouncedFits, Announced, Terminal, Ordered
<1>13. Step(i)' = "event"
  BY <1>3 DEF Step
<1>14. CallerFits(i)'
  <2>1. Announced(i)' = Announced(i)
    BY DEF Announced
  <2>2. Announced(i) \cap Decision = {} \/ i \in halfFenced
    BY <1>8 DEF TerminalStatus
  <2> QED
    BY <1>2, <1>5, <1>7, <1>8, <1>9, <1>13, <2>1, <2>2 DEF CallerFits
<1>15. StepFits(i)'
  BY <1>3, <1>7, <1>13 DEF StepFits
<1> QED
  BY <1>3, <1>6, <1>10, <1>11, <1>12, <1>14, <1>15, Others DEF Sound

LEMMA FenceSteps ==
    ASSUME IInv, TypeOK', Fence \/ SettleFenced
    PROVE  IInv'
<1>1. CASE SettleFenced
  BY <1>1, SettleStep DEF SettleFenced
<1>2. CASE Fence /\ ~(closed /\ op.rec.status \in Decision)
  BY <1>2, SettleStep DEF Fence
<1>3. CASE Fence /\ closed /\ op.rec.status \in Decision
  <2>0. PICK i \in Id : i = op.id
    BY <1>3, Working DEF Fence
  <2>1. /\ op.step = "fence"
        /\ op' = [op EXCEPT !.step = "refence", !.rec =
                    Terminated([op.rec EXCEPT !.outbox = Front(op.rec.outbox)],
                               "cancelled")]
        /\ UNCHANGED <<stored, published, pending, waiter, closed, ready,
                       retiring, halfFenced, faults, crashes>>
    BY <1>3 DEF Fence
  <2>2. /\ Step(i) = "fence" /\ Sound(i) /\ StepFits(i) /\ RecoverFits(i)
    BY <2>0, <2>1, Working
  <2>3. /\ i \notin halfFenced /\ op.rec.outbox \in Full(op.rec.status)
        /\ op.rec.status \in TerminalStatus /\ stored[i] = op.rec
    BY <1>3, <2>2 DEF StepFits
  <2>4. Front(op.rec.outbox) \in Asking
    BY <2>3, Outboxes
  <2>5. /\ op'.id = i /\ op'.todo = op.todo /\ op'.step = "refence"
        /\ op'.kind = op.kind /\ op'.rec.status = "cancelled"
        /\ op'.rec.outbox = Append(Front(op.rec.outbox), "cancelled")
    BY <2>0, <2>1, OpTyped DEF IInv, Op, Terminated, Record
  <2>6. op'.rec.outbox \in Full("cancelled")
    <3>1. "cancelled" \in TerminalStatus
      BY DEF TerminalStatus
    <3>2. \A q \in Asking : Append(q, "cancelled") \in Full("cancelled")
      BY <3>1, Outboxes
    <3> QED
      BY <2>4, <2>5, <3>2
  <2>7. \A id \in Id \ {i} : Kept(id) /\ Step(id) = "next" /\ Step(id)' = "next"
    BY <2>0, <2>1, <2>5, Elsewise DEF Kept
  <2>8. Step(i)' = "refence"
    BY <2>5 DEF Step
  <2>9. StepFits(i)'
    BY <1>3, <2>1, <2>3, <2>5, <2>6, <2>8 DEF StepFits
  <2>10. Sound(i)'
    <3>1. RecordFits(i)' /\ HalfFencedFits(i)'
      BY <2>1, <2>2 DEF Sound, RecordFits, HalfFencedFits, Fits, Waits
    <3>2. AnnouncedFits(i)'
      BY <2>1, <2>2, <2>8 DEF Sound, AnnouncedFits, Announced, Terminal, Ordered
    <3>3. CallerFits(i)'
      BY <2>1, <2>2, <2>8 DEF Sound, CallerFits, Waits, Announced, Fits
    <3> QED
      BY <3>1, <3>2, <3>3 DEF Sound
  <2>11. OpFits' /\ RecoverFits(i)'
    BY <1>3, <2>0, <2>1, <2>3, <2>5 DEF IInv, OpFits, RecoverFits, TerminalStatus, Decision
  <2> QED
    BY <2>5, <2>7, <2>9, <2>10, <2>11, Others
<1> QED
  BY <1>1, <1>2, <1>3
-----------------------------------------------------------------------------
(* Delivery of the outbox.                                                 *)

(* What is at the head of an outbox, and what is left without it. *)
LEMMA HeadFits ==
    ASSUME IInv, NEW i \in Id, Step(i) \in {"event", "ack"}
    PROVE  /\ stored[i] = op.rec /\ op.rec.outbox # <<>>
           /\ op.rec.outbox \in Seq(Event) /\ Head(op.rec.outbox) \in Event
           /\ Tail(op.rec.outbox) \in Seq(Event)
           /\ Range(op.rec.outbox)
                = {Head(op.rec.outbox)} \cup Range(Tail(op.rec.outbox))
           /\ i \notin halfFenced =>
                \/ /\ op.rec.status = "pending"
                   /\ Head(op.rec.outbox) = "requested" /\ Tail(op.rec.outbox) = <<>>
                \/ /\ op.rec.status \in TerminalStatus
                   /\ \/ Head(op.rec.outbox) = op.rec.status
                         /\ Tail(op.rec.outbox) = <<>>
                      \/ Head(op.rec.outbox) = "requested"
                         /\ Tail(op.rec.outbox) = <<op.rec.status>>
<1> DEFINE q == op.rec.outbox
<1>1. stored[i] = op.rec /\ q # <<>> /\ q \in Seq(Event) /\ RecordFits(i)
  BY OpTyped DEF IInv, Sound, StepFits
<1>2. /\ Head(q) \in Event /\ Tail(q) \in Seq(Event)
      /\ Range(q) = {Head(q)} \cup Range(Tail(q))
  BY <1>1, RangeTail
<1>3. ASSUME i \notin halfFenced
      PROVE  \/ /\ op.rec.status = "pending"
                /\ Head(q) = "requested" /\ Tail(q) = <<>>
             \/ /\ op.rec.status \in TerminalStatus
                /\ \/ Head(q) = op.rec.status /\ Tail(q) = <<>>
                   \/ Head(q) = "requested" /\ Tail(q) = <<op.rec.status>>
  <2>1. Fits(op.rec)
    BY <1>1, <1>3 DEF RecordFits
  <2>2. CASE op.rec.status = "pending"
    <3>1. "cancelled" \in TerminalStatus
      BY DEF TerminalStatus
    <3>2. q \in Asking
      BY <2>1, <2>2 DEF Fits, TerminalStatus, Decision
    <3> QED
      BY <1>1, <2>2, <3>1, <3>2, Outboxes
  <2>3. CASE op.rec.status \in TerminalStatus
    <3>1. q \in Full(op.rec.status)
      BY <1>1, <2>1, <2>3 DEF Fits, TerminalStatus, Decision
    <3> QED
      BY <2>3, <3>1, Outboxes
  <2> QED
    BY <1>1, <2>1, <2>2, <2>3 DEF Fits
<1> QED
  BY <1>1, <1>2, <1>3

LEMMA PublishStep ==
    ASSUME IInv, TypeOK', Publish
    PROVE  IInv'
<1>0. PICK i \in Id : i = op.id
  BY Working DEF Publish
<1> DEFINE e == Head(op.rec.outbox)
<1>1. /\ op.step = "event" /\ published' = [published EXCEPT ![i] = Append(@, e)]
      /\ UNCHANGED <<stored, pending, waiter, closed, ready, halfFenced>>
  BY <1>0 DEF Publish
<1>2. /\ Step(i) = "event" /\ Sound(i) /\ StepFits(i) /\ RecoverFits(i)
  BY <1>0, <1>1, Working
<1>3. /\ RecordFits(i) /\ AnnouncedFits(i) /\ CallerFits(i) /\ HalfFencedFits(i)
  BY <1>2 DEF Sound
<1>4. /\ op'.id = i /\ op'.todo = op.todo /\ op'.step = "ack"
      /\ op'.kind = op.kind /\ op'.rec = op.rec
  BY <1>0, OpTyped DEF Publish, GoTo, IInv, Op
<1>5. Step(i)' = "ack"
  BY <1>4 DEF Step
<1>6. /\ published \in [Id -> Seq(Event)] /\ published[i] \in Seq(Event)
      /\ published'[i] = Append(published[i], e)
  BY <1>1 DEF IInv, TypeOK
<1>7. \A id \in Id \ {i} : Kept(id) /\ Step(id) = "next" /\ Step(id)' = "next"
  <2>1. \A id \in Id \ {i} : Step(id) = "next" /\ Step(id)' = "next"
    BY <1>0, <1>4, Elsewise
  <2>2. \A id \in Id \ {i} : published'[id] = published[id]
    BY <1>1, <1>6
  <2> QED
    BY <1>1, <2>1, <2>2 DEF Kept
<1>8. OpFits' /\ RecoverFits(i)'
  BY <1>0, <1>1, <1>2, <1>4, <1>5 DEF IInv, OpFits, RecoverFits
<1>9. /\ stored[i] = op.rec /\ op.rec.outbox # <<>> /\ e \in Event
      /\ e \in Range(op.rec.outbox)
      /\ i \notin halfFenced =>
           \/ op.rec.status = "pending" /\ e = "requested"
           \/ op.rec.status \in TerminalStatus /\ e \in {op.rec.status, "requested"}
  BY <1>2, HeadFits
<1>10. Announced(i)' = Announced(i) \cup {e}
  BY <1>6, <1>9, RangeAppend DEF Announced
<1>11. StepFits(i)'
  BY <1>1, <1>4, <1>5, <1>9, <1>10 DEF StepFits
<1>12. RecordFits(i)' /\ HalfFencedFits(i)'
  <2>1. stored[i].status # "none"
    <3>1. CASE i \in halfFenced
      BY <1>3, <3>1 DEF HalfFencedFits, TerminalStatus, Decision
    <3>2. CASE i \notin halfFenced
      BY <1>9, <3>2 DEF TerminalStatus, Decision
    <3> QED
      BY <3>1, <3>2
  <2> QED
    BY <1>1, <1>3, <2>1 DEF RecordFits, HalfFencedFits, Fits, Waits
<1>13. ASSUME i \notin halfFenced
       PROVE  /\ e \in TerminalStatus => e = op.rec.status
              /\ \A x \in Announced(i) \cap TerminalStatus : x = e
  <2>1. e \in TerminalStatus => e = op.rec.status
    BY <1>9, <1>13 DEF TerminalStatus, Decision
  <2>2. ASSUME NEW x \in Announced(i) \cap TerminalStatus PROVE x = e
    <3>1. e # "requested"
      BY <1>3, <1>9, <1>13, <2>2 DEF AnnouncedFits
    <3>2. op.rec.status \in {x, "pruned"} /\ op.rec.status = e /\ e \in TerminalStatus
      BY <1>3, <1>9, <1>13, <3>1 DEF AnnouncedFits
    <3> QED
      BY <3>2 DEF TerminalStatus, Decision
  <2> QED
    BY <2>1, <2>2
<1>14. AnnouncedFits(i)'
  <2>1. /\ (Terminal(i) => stored[i].status \in Announced(i)' \cup Range(stored[i].outbox))
        /\ stored[i].status = "pruned" => Announced(i)' \cap TerminalStatus # {}
    BY <1>3, <1>10 DEF AnnouncedFits
  <2>2. ASSUME i \notin halfFenced
        PROVE  /\ \A x \in Announced(i)' \cap TerminalStatus :
                      stored[i].status \in {x, "pruned"}
               /\ "requested" \in Range(stored[i].outbox)
                     => Announced(i)' \cap TerminalStatus = {}
               /\ Ordered(published'[i])
    <3>1. \A x \in Announced(i)' \cap TerminalStatus : stored[i].status \in {x, "pruned"}
      BY <1>3, <1>9, <1>10, <1>13, <2>2 DEF AnnouncedFits
    <3>2. Ordered(published'[i])
      BY <1>3, <1>6, <1>9, <1>13, <2>2, OrderedAppend DEF AnnouncedFits, Announced
    <3>3. ASSUME "requested" \in Range(stored[i].outbox)
          PROVE  Announced(i)' \cap TerminalStatus = {}
      <4>1. Announced(i) \cap TerminalStatus = {}
        BY <1>3, <2>2, <3>3 DEF AnnouncedFits
      <4>2. e = "requested"
        <5>1. e = op.rec.status => Range(op.rec.outbox) = {e}
          BY <1>2, <1>9, <2>2, HeadFits, RangeShort DEF TerminalStatus, Decision
        <5> QED
          BY <1>9, <2>2, <3>3, <5>1
      <4> QED
        BY <1>10, <4>1, <4>2 DEF TerminalStatus, Decision
    <3> QED
      BY <3>1, <3>2, <3>3
  <2> QED
    BY <1>1, <1>5, <2>1, <2>2 DEF AnnouncedFits, Terminal
<1>15. CallerFits(i)'
  <2>1. ASSUME i \notin halfFenced, NEW d \in Decision \cap Announced(i)'
        PROVE  waiter[i] \in {d, "lost"}
    <3>1. CASE d \in Announced(i)
      BY <1>3, <2>1, <3>1 DEF CallerFits
    <3>2. CASE d = e
      <4>1. stored[i].status = d
        BY <1>9, <1>13, <2>1, <3>2 DEF TerminalStatus
      <4> QED
        BY <1>2, <1>3, <2>1, <4>1 DEF CallerFits
    <3> QED
      BY <1>10, <2>1, <3>1, <3>2
  <2> QED
    BY <1>1, <1>2, <1>3, <1>5, <2>1 DEF CallerFits, Waits, Fits
<1> QED
  BY <1>4, <1>7, <1>8, <1>11, <1>12, <1>14, <1>15, Others DEF Sound

(* An operation comes to the end of the delivery of its record. *)
LEMMA CacheFits ==
    ASSUME IInv, NEW i \in Id, Step(i) \in {"event", "ack"},
           NEW rec \in Record, rec.status = op.rec.status,
           i \notin halfFenced => Fits(rec),
           pending' = [pending EXCEPT ![i] = rec] \/ pending' = pending,
           pending' # pending => Waits(i)
    PROVE  /\ \A id \in Id \ {i} : pending'[id] = pending[id]
           /\ Waits(i)' <=> Waits(i)
           /\ Waits(i) /\ i \notin halfFenced =>
                pending'[i].status = "pending" /\ Fits(pending'[i])
<1>1. pending \in [Id -> Record] /\ stored[i] = op.rec /\ Sound(i)
  BY HeadFits DEF IInv, TypeOK
<1>2. \A id \in Id \ {i} : pending'[id] = pending[id]
  BY <1>1
<1>3. op.rec.status # "none"
  <2>1. CASE i \in halfFenced
    BY <1>1, <2>1 DEF Sound, HalfFencedFits, TerminalStatus, Decision
  <2>2. CASE i \notin halfFenced
    BY <2>2, HeadFits DEF TerminalStatus, Decision
  <2> QED
    BY <2>1, <2>2
<1>4. Waits(i)' <=> Waits(i)
  BY <1>1, <1>3 DEF Waits, NoRecord
<1>5. ASSUME Waits(i), i \notin halfFenced
      PROVE  pending'[i].status = "pending" /\ Fits(pending'[i])
  <2>1. stored[i].status = "pending" /\ pending[i].status = "pending" /\ Fits(pending[i])
    BY <1>1, <1>5 DEF Sound, CallerFits
  <2> QED
    BY <1>1, <1>5, <2>1
<1> QED
  BY <1>2, <1>4, <1>5

LEMMA AcknowledgeStep ==
    ASSUME IInv, TypeOK', Acknowledge
    PROVE  IInv'
<1>0. PICK i \in Id : i = op.id
  BY Working DEF Acknowledge
<1> DEFINE q == op.rec.outbox
           rest == [op.rec EXCEPT !.outbox = Tail(@)]
<1>1. /\ op.step = "ack" /\ stored' = [stored EXCEPT ![i] = rest]
      /\ op' = [op EXCEPT !.rec = rest, !.step = AfterCommit(rest)]
      /\ IF rest.outbox = <<>> THEN CachePending(rest) ELSE UNCHANGED pending
      /\ UNCHANGED <<published, waiter, closed, ready, halfFenced>>
  BY <1>0 DEF Acknowledge
<1>2. /\ Step(i) = "ack" /\ Sound(i) /\ StepFits(i) /\ RecoverFits(i)
  BY <1>0, <1>1, Working
<1>3. /\ RecordFits(i) /\ AnnouncedFits(i) /\ CallerFits(i) /\ HalfFencedFits(i)
  BY <1>2 DEF Sound
<1>4. /\ stored[i] = op.rec /\ q # <<>> /\ Head(q) \in Announced(i)
      /\ Tail(q) \in Seq(Event) /\ Range(q) = {Head(q)} \cup Range(Tail(q))
  BY <1>2, HeadFits DEF StepFits
<1>5. rest \in Record /\ rest.status = op.rec.status /\ rest.outbox = Tail(q)
  BY <1>4, OpTyped DEF IInv, Record
<1>6. stored'[i] = rest /\ \A id \in Id \ {i} : stored'[id] = stored[id]
  BY <1>1 DEF IInv, TypeOK
<1>7. /\ op'.id = i /\ op'.todo = op.todo /\ op'.step = AfterCommit(rest)
      /\ op'.kind = op.kind /\ op'.rec = rest
  BY <1>0, <1>1, OpTyped DEF IInv, Op
<1>8. Step(i)' = AfterCommit(rest) /\ AfterCommit(rest) \in {"next", "event"}
      /\ (AfterCommit(rest) = "event" => rest.outbox # <<>>)
  BY <1>7 DEF Step, AfterCommit
<1>9. i \notin halfFenced => Fits(rest) /\ "requested" \notin Range(rest.outbox)
  <2>1. ASSUME i \notin halfFenced
        PROVE  \/ op.rec.status = "pending" /\ rest.outbox = <<>>
               \/ op.rec.status \in TerminalStatus
                  /\ rest.outbox \in {<<>>, <<op.rec.status>>}
    BY <1>2, <1>5, <2>1, HeadFits
  <2>2. Range(<<>>) = {} /\ \A t : Range(<<t>>) = {t}
    BY RangeShort
  <2>3. "requested" \notin TerminalStatus
    BY DEF TerminalStatus, Decision
  <2> QED
    BY <1>5, <2>1, <2>2, <2>3 DEF Fits, Asking, Full
<1>10. /\ \A id \in Id \ {i} : pending'[id] = pending[id]
       /\ Waits(i)' <=> Waits(i)
       /\ Waits(i) /\ i \notin halfFenced =>
            pending'[i].status = "pending" /\ Fits(pending'[i])
  <2>1. /\ pending' = [pending EXCEPT ![i] = rest] \/ pending' = pending
        /\ pending' # pending => Waits(i)
    BY <1>0, <1>1 DEF CachePending
  <2> HIDE DEF rest
  <2> QED
    BY <1>2, <1>5, <1>9, <2>1, CacheFits
<1>11. \A id \in Id \ {i} : Kept(id) /\ Step(id) = "next" /\ Step(id)' = "next"
  <2>1. \A id \in Id \ {i} : Step(id) = "next" /\ Step(id)' = "next"
    BY <1>0, <1>7, Elsewise
  <2> QED
    BY <1>1, <1>6, <1>10, <2>1 DEF Kept
<1> HIDE DEF rest
<1>12. OpFits' /\ RecoverFits(i)'
  BY <1>0, <1>1, <1>2, <1>4, <1>5, <1>6, <1>7, <1>8 DEF IInv, OpFits, RecoverFits
<1>13. StepFits(i)'
  BY <1>6, <1>7, <1>8 DEF StepFits
<1>14. RecordFits(i)' /\ HalfFencedFits(i)'
  BY <1>1, <1>3, <1>4, <1>5, <1>6, <1>9, <1>10 DEF RecordFits, HalfFencedFits
<1>15. AnnouncedFits(i)'
  BY <1>1, <1>2, <1>3, <1>4, <1>5, <1>6, <1>8, <1>9
  DEF AnnouncedFits, Announced, Terminal, Ordered
<1>16. CallerFits(i)'
  BY <1>1, <1>2, <1>3, <1>4, <1>5, <1>6, <1>8, <1>10 DEF CallerFits, Announced
<1> QED
  BY <1>7, <1>11, <1>12, <1>13, <1>14, <1>15, <1>16, Others DEF Sound

LEMMA DeliveryFailsStep ==
    ASSUME IInv, TypeOK', DeliveryFails
    PROVE  IInv'
<1>0. PICK i \in Id : i = op.id
  BY Working DEF DeliveryFails
<1>1. /\ op.step \in {"event", "ack"}
      /\ pending' = IF Waits(i) THEN [pending EXCEPT ![i] = op.rec] ELSE pending
      /\ UNCHANGED <<stored, published, waiter, closed, ready, halfFenced>>
  BY <1>0 DEF DeliveryFails, CachePending
<1>2. /\ Step(i) = op.step /\ Sound(i) /\ StepFits(i) /\ RecoverFits(i)
  BY <1>0, <1>1, Working
<1>3. /\ RecordFits(i) /\ AnnouncedFits(i) /\ CallerFits(i) /\ HalfFencedFits(i)
  BY <1>2 DEF Sound
<1>4. /\ op'.id = i /\ op'.todo = op.todo /\ op'.step = "next" /\ op'.kind = op.kind
  BY <1>0, OpTyped DEF DeliveryFails, GoTo, IInv, Op
<1>5. Step(i)' = "next"
  BY <1>4 DEF Step
<1>6. stored[i] = op.rec /\ op.rec \in Record
  BY <1>1, <1>2, HeadFits, OpTyped DEF IInv
<1>7. /\ \A id \in Id \ {i} : pending'[id] = pending[id]
      /\ Waits(i)' <=> Waits(i)
      /\ Waits(i) /\ i \notin halfFenced =>
           pending'[i].status = "pending" /\ Fits(pending'[i])
  BY <1>1, <1>2, <1>3, <1>6, CacheFits DEF RecordFits
<1>8. \A id \in Id \ {i} : Kept(id) /\ Step(id) = "next" /\ Step(id)' = "next"
  <2>1. \A id \in Id \ {i} : Step(id) = "next" /\ Step(id)' = "next"
    BY <1>0, <1>4, Elsewise
  <2> QED
    BY <1>1, <1>7, <2>1 DEF Kept
<1>9. OpFits' /\ RecoverFits(i)' /\ StepFits(i)'
  BY <1>1, <1>2, <1>4, <1>5, NothingAsked DEF IInv, OpFits, RecoverFits
<1>10. RecordFits(i)' /\ AnnouncedFits(i)' /\ HalfFencedFits(i)'
  BY <1>1, <1>2, <1>3, <1>5, <1>7
  DEF RecordFits, AnnouncedFits, HalfFencedFits, Announced, Terminal, Ordered
<1>11. CallerFits(i)'
  BY <1>1, <1>2, <1>3, <1>5, <1>7 DEF CallerFits, Announced
<1> QED
  BY <1>4, <1>8, <1>9, <1>10, <1>11, Others DEF Sound
-----------------------------------------------------------------------------
(* An operation ends.                                                      *)

LEMMA CancelEvaluatedStep ==
    ASSUME IInv, TypeOK', CancelEvaluated
    PROVE  IInv'
<1>0. PICK i \in Id : i = op.id
  BY DEF CancelEvaluated, EvaluateClosed, IInv, OpFits
<1>1. /\ op.step = "next" /\ op.kind = "evaluate" /\ Current(i).status = "pending"
      /\ UNCHANGED <<stored, published, pending, waiter, closed, ready, halfFenced>>
  BY <1>0 DEF CancelEvaluated, EvaluateClosed
<1>2. /\ op'.id = i /\ op'.todo = op.todo /\ op'.step = "commit"
      /\ op'.kind = "cancel" /\ op'.rec = Terminated(Current(i), "cancelled")
  BY <1>0, OpTyped DEF CancelEvaluated, IInv, Op
<1>3. \A id \in Id : Kept(id) /\ Step(id) = "next"
  BY <1>1 DEF Kept, Step
<1>4. \A id \in Id \ {i} : Step(id)' = "next"
  BY <1>2 DEF Step
<1>5. "cancelled" \in TerminalStatus \ Decision
  BY DEF TerminalStatus, Decision
<1>6. StepFits(i)' /\ Sound(i)' /\ RecoverFits(i)'
  BY <1>1, <1>2, <1>3, <1>5, CommitFits
<1>7. OpFits'
  BY <1>1, <1>2 DEF IInv, OpFits
<1> QED
  BY <1>2, <1>3, <1>4, <1>6, <1>7, Others

PrunedRecord == [status |-> "pruned", outbox |-> <<>>]

(* Retention takes away what has been announced, and recovery is over when *)
(* nothing is pending.                                                     *)
LEMMA EndsFits ==
    ASSUME IInv, TypeOK', op.step = "next", op.todo = {}, op' = Idle,
           \A id \in Id : \/ stored'[id] = stored[id]
                          \/ id \in Prunable /\ stored'[id] = PrunedRecord,
           ready' \in {ready, ready \/ op.kind = "recover"},
           UNCHANGED <<published, pending, waiter, closed, halfFenced>>
    PROVE  IInv'
<1>1. OpFits'
  BY DEF Idle, OpFits
<1>2. ASSUME NEW id \in Id
      PROVE  Sound(id)' /\ StepFits(id)' /\ RecoverFits(id)'
  <2>1. /\ Step(id) = "next" /\ Step(id)' = "next"
        /\ Sound(id) /\ RecoverFits(id)
    BY DEF Step, Idle, IInv
  <2>2. /\ RecordFits(id) /\ AnnouncedFits(id) /\ CallerFits(id) /\ HalfFencedFits(id)
    BY <2>1 DEF Sound
  <2>3. StepFits(id)' /\ RecoverFits(id)'
    BY <2>1, NothingAsked DEF RecoverFits, Idle
  <2>4. ready' /\ stored[id].status = "pending" => Waits(id) \/ closed
    BY <2>1, <2>2 DEF RecoverFits, CallerFits
  <2>5. ready => ready'
    OBVIOUS
  <2>6. CASE stored'[id] = stored[id]
    <3>1. RecordFits(id)' /\ AnnouncedFits(id)' /\ HalfFencedFits(id)'
      BY <2>1, <2>2, <2>6
      DEF RecordFits, AnnouncedFits, HalfFencedFits, Announced, Terminal, Ordered, Waits
    <3>2. CallerFits(id)'
      BY <2>1, <2>2, <2>4, <2>5, <2>6 DEF CallerFits, Announced, Waits
    <3> QED
      BY <2>3, <3>1, <3>2 DEF Sound
  <2>7. CASE id \in Prunable /\ stored'[id] = PrunedRecord
    <3>1. /\ stored[id].status \in TerminalStatus
          /\ stored[id].status \in Announced(id)
          /\ stored'[id].status = "pruned" /\ stored'[id].outbox = <<>>
          /\ stored[id].status \notin {"none", "pending", "pruned"}
      <4>1. stored[id].status \in TerminalStatus /\ stored[id].outbox = <<>>
        BY <2>7 DEF Prunable, Terminal
      <4>2. Range(stored[id].outbox) = {}
        BY <4>1, RangeShort
      <4>3. stored[id].status \in Announced(id)
        BY <2>2, <4>1, <4>2 DEF AnnouncedFits, Terminal
      <4> QED
        BY <2>7, <4>1, <4>3 DEF PrunedRecord, TerminalStatus, Decision
    <3>2. RecordFits(id)' /\ HalfFencedFits(id)'
      BY <2>2, <3>1 DEF RecordFits, HalfFencedFits, Fits, Waits
    <3>3. AnnouncedFits(id)'
      BY <2>1, <2>2, <3>1, RangeShort
      DEF AnnouncedFits, Announced, Terminal, Ordered, TerminalStatus, Decision
    <3>4. CallerFits(id)'
      BY <2>1, <2>2, <2>5, <3>1 DEF CallerFits, Announced, Waits, Decision
    <3> QED
      BY <2>3, <3>2, <3>3, <3>4 DEF Sound
  <2> QED
    BY <2>6, <2>7
<1> QED
  BY <1>1, <1>2 DEF IInv

LEMMA EndSteps ==
    ASSUME IInv, TypeOK', End \/ PruneFails
    PROVE  IInv'
<1>1. /\ op.step = "next" /\ op.todo = {} /\ op' = Idle
      /\ ready' \in {ready, ready \/ op.kind = "recover"}
      /\ UNCHANGED <<published, pending, waiter, closed, halfFenced>>
  BY DEF End, PruneFails
<1>2. ASSUME NEW id \in Id
      PROVE  \/ stored'[id] = stored[id]
             \/ id \in Prunable /\ stored'[id] = PrunedRecord
  <2>1. CASE stored' = stored
    BY <2>1
  <2>2. CASE \E D \in SUBSET Prunable : PruneOnly(D)
    BY <1>2, <2>2 DEF PruneOnly, PrunedRecord
  <2> QED
    BY <2>1, <2>2 DEF End, PruneFails, Prune
<1> QED
  BY <1>1, <1>2, EndsFits
-----------------------------------------------------------------------------
(* What comes from outside the operations.                                 *)

LEMMA CloseStep ==
    ASSUME IInv, TypeOK', Close
    PROVE  IInv'
<1>1. /\ closed' = TRUE
      /\ UNCHANGED <<stored, published, ready, op, halfFenced>>
  BY DEF Close
<1>2. OpFits'
  BY <1>1 DEF IInv, OpFits
<1>3. ASSUME NEW id \in Id
      PROVE  Sound(id)' /\ StepFits(id)' /\ RecoverFits(id)'
  <2>1. /\ Step(id)' = Step(id)
        /\ Sound(id) /\ StepFits(id) /\ RecoverFits(id)
    BY <1>1 DEF Step, IInv
  <2>2. /\ waiter'[id] = IF Waits(id) THEN "cancelled" ELSE waiter[id]
        /\ pending'[id] = NoRecord
    BY DEF Close
  <2>3. /\ RecordFits(id) /\ AnnouncedFits(id) /\ CallerFits(id) /\ HalfFencedFits(id)
    BY <2>1 DEF Sound
  <2>4. RecordFits(id)' /\ AnnouncedFits(id)' /\ HalfFencedFits(id)'
    BY <1>1, <2>1, <2>2, <2>3
    DEF RecordFits, AnnouncedFits, HalfFencedFits, Announced, Terminal, Ordered, Decision
  <2>5. Waits(id) /\ id \notin halfFenced =>
          stored[id].status \notin Decision \/ Step(id) \in {"fence", "refence"}
    BY <2>1, <2>3 DEF CallerFits, StepFits, Decision
  <2>6. ~Waits(id)'
    BY <2>2 DEF Waits
  <2>7. CallerFits(id)'
    BY <1>1, <2>1, <2>2, <2>3, <2>5, <2>6 DEF CallerFits, Announced, Decision
  <2>8. StepFits(id)'
    BY <1>1, <2>1, <2>2, <2>3 DEF StepFits, CallerFits, Announced
  <2>9. RecoverFits(id)'
    BY <1>1, <2>1 DEF RecoverFits
  <2> QED
    BY <2>4, <2>7, <2>8, <2>9 DEF Sound
<1> QED
  BY <1>2, <1>3 DEF IInv

LEMMA RestartStep ==
    ASSUME IInv, TypeOK', Restart
    PROVE  IInv'
<1>1. /\ closed' = FALSE /\ ready' = FALSE /\ op' = Idle
      /\ UNCHANGED <<stored, published>>
  BY DEF Restart
<1>2. OpFits'
  BY <1>1 DEF OpFits, Idle
<1>3. ASSUME NEW id \in Id
      PROVE  Sound(id)' /\ StepFits(id)' /\ RecoverFits(id)'
  <2>1. /\ Step(id)' = "next" /\ Sound(id) /\ StepFits(id)
    BY <1>1 DEF Step, IInv, Idle
  <2>2. /\ waiter'[id] = IF waiter[id] = "waiting" THEN "lost" ELSE waiter[id]
        /\ ~Waits(id)'
    BY DEF Restart, Waits
  <2>3. /\ RecordFits(id) /\ AnnouncedFits(id) /\ CallerFits(id) /\ HalfFencedFits(id)
    BY <2>1 DEF Sound
  <2>4. id \in halfFenced' <=>
          \/ id \in halfFenced
          \/ closed /\ Step(id) \in {"fence", "refence"}
               /\ stored[id].status \in Decision
    <3>1. op.step \in {"fence", "refence"} => op.id \in Id
      BY DEF IInv, OpFits
    <3> QED
      BY <3>1 DEF Restart, Step
  <2>5. RecordFits(id)' /\ AnnouncedFits(id)'
    BY <1>1, <2>1, <2>3, <2>4
    DEF RecordFits, AnnouncedFits, Announced, Terminal, Ordered
  <2>6. HalfFencedFits(id)'
    BY <1>1, <2>2, <2>3, <2>4 DEF HalfFencedFits, CallerFits, TerminalStatus, Decision
  <2>7. /\ Step(id) \in {"fence", "refence"} /\ stored[id].status \in Decision
             /\ id \notin halfFenced'
           => waiter[id] = "waiting"
    BY <2>1, <2>3, <2>4 DEF StepFits, CallerFits
  <2>8. CallerFits(id)'
    BY <1>1, <2>1, <2>2, <2>3, <2>4, <2>7 DEF CallerFits, Announced, Decision
  <2>9. StepFits(id)' /\ RecoverFits(id)'
    BY <1>1, <2>1, NothingAsked DEF RecoverFits, Idle
  <2> QED
    BY <2>5, <2>6, <2>8, <2>9 DEF Sound
<1> QED
  BY <1>2, <1>3 DEF IInv
-----------------------------------------------------------------------------
(* Typing.                                                                 *)

LEMMA StartsTyped ==
    ASSUME IInv,
           \/ \E id \in Id :
                \/ Start(Evaluate(id)) \/ Start(Cancel(id)) \/ Start(Expire(id))
                \/ Start(Get(id)) \/ \E d \in Decision : Start(Decide(id, d))
           \/ Start(Replay) \/ Recover \/ RetireRun
    PROVE  TypeOK'
<1>1. TypeOK /\ NoRecord \in Record /\ Asked \in Record
  BY DEF IInv, NoRecord, Asked, Record, Status, Event
<1>2. \E kind \in OpKind, step \in OpStep, id \in Id \cup {NoId},
         rec \in Record, todo \in SUBSET Id : Begin(kind, step, id, rec, todo)
  <2>1. CASE \E id \in Id : Start(Evaluate(id))
    <3>1. PICK id \in Id : Start(Evaluate(id))
      BY <2>1
    <3>2. Begin("evaluate", "append", id, Asked, {})
      BY <3>1 DEF Start, Evaluate, Asked
    <3> QED
      BY <1>1, <3>2 DEF OpKind, OpStep
  <2>2. CASE \E id \in Id : \/ Start(Cancel(id)) \/ Start(Expire(id))
                            \/ \E d \in Decision : Start(Decide(id, d))
    <3>1. PICK id \in Id, kind \in {"cancel", "expire", "decide"},
               t \in TerminalStatus : BeginTerminate(kind, id, t)
      BY <2>2 DEF Start, Cancel, Expire, Decide, TerminalStatus, Decision
    <3>2. Terminated(Current(id), t) \in Record
      BY <1>1, CurrentTyped, TerminatedFits
    <3>3. Begin(kind, "commit", id, Terminated(Current(id), t), {})
      BY <3>1 DEF BeginTerminate
    <3>4. kind \in OpKind /\ "commit" \in OpStep /\ {} \in SUBSET Id
      BY DEF OpKind, OpStep
    <3> QED
      BY <3>2, <3>3, <3>4
  <2>3. CASE \E id \in Id : Start(Get(id))
    <3>1. PICK id \in Id : Begin("get", "event", id, stored[id], {})
      BY <2>3 DEF Start, Get
    <3>2. stored[id] \in Record /\ "get" \in OpKind /\ "event" \in OpStep
      BY <1>1, CurrentTyped DEF OpKind, OpStep
    <3> QED
      BY <3>1, <3>2
  <2>4. CASE Start(Replay) \/ Recover \/ RetireRun
    <3>1. \E kind \in {"replay", "recover", "retire"}, todo \in SUBSET Id :
            Begin(kind, "next", NoId, NoRecord, todo)
      BY <2>4 DEF Start, Replay, Recover, RetireRun
    <3>2. "next" \in OpStep /\ {"replay", "recover", "retire"} \subseteq OpKind
      BY DEF OpKind, OpStep
    <3> QED
      BY <1>1, <3>1, <3>2
  <2> QED
    BY <2>1, <2>2, <2>3, <2>4
<1>3. op' \in Op
  BY <1>2 DEF Begin, Op
<1>4. UNCHANGED <<stored, published, pending, waiter, closed, ready, halfFenced,
                  faults, crashes>> /\ retiring' \in BOOLEAN
  BY <1>1 DEF Start, Recover, RetireRun, TypeOK
<1> QED
  BY <1>1, <1>3, <1>4 DEF TypeOK

LEMMA FaultTyped ==
    ASSUME TypeOK, Fault
    PROVE  faults' \in 0..MaxFaults
BY ApprovalAssumption DEF TypeOK, Fault

(* Steps of an operation leave the counters and most of the state alone.   *)
LEMMA StepsTyped ==
    ASSUME IInv, op' \in Op, stored' \in [Id -> Record],
           published' \in [Id -> Seq(Event)], pending' \in [Id -> Record],
           waiter' \in [Id -> Waiter], ready' \in BOOLEAN,
           halfFenced' \subseteq Id, faults' \in 0..MaxFaults,
           UNCHANGED <<closed, retiring, crashes>>
    PROVE  TypeOK'
BY DEF IInv, TypeOK

LEMMA IdleTyped == Idle \in Op /\ NoRecord \in Record /\ PrunedRecord \in Record
BY DEF Idle, NoRecord, PrunedRecord, Record, Status, Op, OpKind, OpStep

LEMMA FrontTyped ==
    ASSUME NEW q \in Seq(Event), q # <<>>
    PROVE  Front(q) \in Seq(Event)
BY DEF Front

LEMMA WritesTyped ==
    ASSUME IInv,
           \/ Written("append", "register") \/ Written("commit", "fence")
           \/ Written("refence", "settle") \/ WriteFails
    PROVE  TypeOK'
<1>1. TypeOK /\ op \in Op /\ op.rec \in Record
  BY OpTyped DEF IInv
<1>2. CASE WriteFails
  <2>1. op.id \in Id
    BY <1>2, Working DEF WriteFails
  <2>2. halfFenced' \subseteq Id
    BY <1>1, <1>2, <2>1 DEF WriteFails, TypeOK
  <2> QED
    BY <1>1, <1>2, <2>2, IdleTyped, FaultTyped, StepsTyped DEF WriteFails, TypeOK
<1>3. ASSUME NEW step, NEW next \in OpStep, Written(step, next)
      PROVE  TypeOK'
  <2>1. stored' \in [Id -> Record]
    BY <1>1, <1>3 DEF Written, TypeOK
  <2>2. op' \in Op
    BY <1>1, <1>3 DEF Written, GoTo, Op
  <2> QED
    BY <1>1, <1>3, <2>1, <2>2, StepsTyped DEF Written, TypeOK
<1>4. {"register", "fence", "settle"} \subseteq OpStep
  BY DEF OpStep
<1> QED
  BY <1>2, <1>3, <1>4

LEMMA CallersTyped ==
    ASSUME IInv, Register \/ Fence \/ SettleFenced \/ CancelEvaluated
    PROVE  TypeOK'
<1>1. /\ TypeOK /\ op \in Op /\ op.rec \in Record
      /\ UNCHANGED <<stored, published, closed, ready, retiring, halfFenced,
                     faults, crashes>>
  BY OpTyped DEF IInv, Register, Fence, SettleFenced, CancelEvaluated
<1>2. "cancelled" \in TerminalStatus /\ TerminalStatus \subseteq Waiter
  BY DEF TerminalStatus, Waiter
<1>3. CASE \/ SettleFenced
           \/ Fence /\ ~(closed /\ op.rec.status \in Decision)
  <2>0. Settle /\ op.step \in {"fence", "settle"}
    BY <1>3 DEF Fence, SettleFenced
  <2>1. op' \in Op
    BY <1>1, <2>0 DEF Settle, GoTo, Op, OpStep
  <2>2. pending' \in [Id -> Record]
    BY <1>1, <2>0, IdleTyped DEF Settle, TypeOK
  <2>3. op.rec.status \in TerminalStatus
    <3>1. op.id \in Id /\ Step(op.id) = op.step /\ StepFits(op.id)
      BY <2>0, Working
    <3> QED
      BY <1>2, <2>0, <3>1 DEF StepFits
  <2>4. waiter' \in [Id -> Waiter]
    BY <1>1, <1>2, <2>0, <2>3 DEF Settle, TypeOK
  <2> QED
    BY <1>1, <2>1, <2>2, <2>4, StepsTyped DEF TypeOK
<1>4. CASE Register
  <2>1. Terminated(NoRecord, "cancelled") \in Record
    BY <1>2, IdleTyped, TerminatedFits
  <2>2. op' \in Op
    BY <1>1, <1>4, <2>1 DEF Register, GoTo, Op, OpKind, OpStep
  <2>3. pending' \in [Id -> Record] /\ waiter' \in [Id -> Waiter]
    BY <1>1, <1>2, <1>4 DEF Register, TypeOK, Waiter
  <2> QED
    BY <1>1, <2>2, <2>3, StepsTyped DEF TypeOK
<1>5. CASE Fence /\ closed /\ op.rec.status \in Decision
  <2>1. op.id \in Id /\ Step(op.id) = "fence" /\ StepFits(op.id)
    BY <1>5, Working DEF Fence
  <2>2. op.rec.outbox # <<>>
    <3>1. op.rec.status \in Range(op.rec.outbox) /\ Range(<<>>) = {}
      BY <2>1, RangeShort DEF StepFits
    <3> QED
      BY <3>1
  <2>3. Front(op.rec.outbox) \in Seq(Event)
    BY <2>2, FrontTyped, OpTyped DEF IInv
  <2>4. [op.rec EXCEPT !.outbox = Front(op.rec.outbox)] \in Record
    BY <1>1, <2>3 DEF Record
  <2>5. Terminated([op.rec EXCEPT !.outbox = Front(op.rec.outbox)], "cancelled")
          \in Record
    BY <1>2, <2>4, TerminatedFits
  <2>6. op' \in Op
    BY <1>1, <1>5, <2>5 DEF Fence, Op, OpStep
  <2> QED
    BY <1>1, <1>5, <2>6, StepsTyped DEF Fence, TypeOK
<1>6. CASE CancelEvaluated
  <2>1. op.id \in Id
    BY <1>6 DEF CancelEvaluated, EvaluateClosed, IInv, OpFits
  <2>2. Terminated(Current(op.id), "cancelled") \in Record
    BY <1>1, <1>2, <2>1, CurrentTyped, TerminatedFits
  <2>3. op' \in Op
    BY <1>1, <1>6, <2>2 DEF CancelEvaluated, Op, OpKind, OpStep
  <2> QED
    BY <1>1, <1>6, <2>3, StepsTyped DEF CancelEvaluated, TypeOK
<1> QED
  BY <1>3, <1>4, <1>5, <1>6

LEMMA NextTyped ==
    ASSUME IInv, NEW id \in Id, NextRecord(id)
    PROVE  TypeOK'
<1>1. /\ TypeOK /\ op \in Op /\ stored[id] \in Record /\ Current(id) \in Record
      /\ op.todo \ {id} \subseteq Id
      /\ UNCHANGED <<stored, published, pending, waiter, closed, ready,
                     retiring, halfFenced, faults, crashes>>
  BY OpTyped, CurrentTyped DEF IInv, NextRecord
<1>2. \A t \in {"expired", "cancelled"} : Terminated(Current(id), t) \in Record
  BY <1>1, TerminatedFits DEF TerminalStatus
<1>3. \E step \in OpStep, rec \in Record :
        op' = [op EXCEPT !.step = step, !.id = id, !.rec = rec,
                         !.todo = op.todo \ {id}]
  <2>1. AfterCommit(stored[id]) \in OpStep /\ {"commit", "next"} \subseteq OpStep
    BY DEF AfterCommit, OpStep
  <2> QED
    BY <1>1, <1>2, <2>1 DEF NextRecord
<1>4. op' \in Op
  BY <1>1, <1>3 DEF Op
<1> QED
  BY <1>1, <1>4, StepsTyped DEF TypeOK

LEMMA DeliveryTyped ==
    ASSUME IInv, Publish \/ Acknowledge \/ DeliveryFails
    PROVE  TypeOK'
<1>1. /\ TypeOK /\ op \in Op /\ op.rec \in Record
      /\ UNCHANGED <<waiter, closed, ready, retiring, halfFenced, crashes>>
  BY OpTyped DEF IInv, Publish, Acknowledge, DeliveryFails
<1>2. /\ op.id \in Id /\ Head(op.rec.outbox) \in Event
      /\ Tail(op.rec.outbox) \in Seq(Event)
  <2>1. op.step \in {"event", "ack"}
    BY DEF Publish, Acknowledge, DeliveryFails
  <2>2. op.id \in Id /\ Step(op.id) = op.step
    BY <2>1, Working
  <2> QED
    BY <2>1, <2>2, HeadFits
<1>3. CASE Publish
  <2>1. published' \in [Id -> Seq(Event)]
    <3>1. \A q \in Seq(Event) : Append(q, Head(op.rec.outbox)) \in Seq(Event)
      BY <1>2
    <3> QED
      BY <1>1, <1>3, <3>1 DEF Publish, TypeOK
  <2>2. op' \in Op
    BY <1>1, <1>3 DEF Publish, GoTo, Op, OpStep
  <2> QED
    BY <1>1, <1>3, <2>1, <2>2, StepsTyped DEF Publish, TypeOK
<1>4. CASE Acknowledge
  <2> DEFINE rest == [op.rec EXCEPT !.outbox = Tail(@)]
  <2>1. rest \in Record
    BY <1>1, <1>2 DEF Record
  <2>2. AfterCommit(rest) \in OpStep
    BY DEF AfterCommit, OpStep
  <2> HIDE DEF rest
  <2>3. /\ stored' = [stored EXCEPT ![op.id] = rest]
        /\ op' = [op EXCEPT !.rec = rest, !.step = AfterCommit(rest)]
        /\ pending' \in {pending, [pending EXCEPT ![op.id] = rest]}
        /\ UNCHANGED <<published, faults>>
    BY <1>4 DEF Acknowledge, CachePending, rest
  <2>4. /\ stored' \in [Id -> Record] /\ op' \in Op /\ pending' \in [Id -> Record]
    BY <1>1, <2>1, <2>2, <2>3 DEF TypeOK, Op
  <2> QED
    BY <1>1, <2>3, <2>4, StepsTyped DEF TypeOK
<1>5. CASE DeliveryFails
  <2>1. op' \in Op
    BY <1>1, <1>5 DEF DeliveryFails, GoTo, Op, OpStep
  <2>2. pending' \in [Id -> Record]
    BY <1>1, <1>5 DEF DeliveryFails, CachePending, TypeOK
  <2> QED
    BY <1>1, <1>5, <2>1, <2>2, FaultTyped, StepsTyped DEF DeliveryFails, TypeOK
<1> QED
  BY <1>3, <1>4, <1>5

LEMMA EndTyped ==
    ASSUME IInv, End \/ PruneFails
    PROVE  TypeOK'
<1>1. /\ TypeOK /\ op' = Idle
      /\ UNCHANGED <<published, pending, waiter, closed, retiring, halfFenced, crashes>>
      /\ ready' \in BOOLEAN /\ faults' \in 0..MaxFaults
  BY FaultTyped DEF IInv, End, PruneFails, TypeOK
<1>2. stored' \in [Id -> Record]
  <2>1. CASE stored' = stored
    BY <1>1, <2>1 DEF TypeOK
  <2>2. CASE \E D \in SUBSET Prunable : PruneOnly(D)
    BY <1>1, <2>2, IdleTyped DEF PruneOnly, PrunedRecord, TypeOK
  <2> QED
    BY <2>1, <2>2 DEF End, PruneFails, Prune
<1> QED
  BY <1>1, <1>2, IdleTyped, StepsTyped DEF TypeOK

LEMMA OutsideTyped ==
    ASSUME IInv, Close \/ Restart \/ Retire
    PROVE  TypeOK'
<1>1. TypeOK /\ "lost" \in Waiter /\ "cancelled" \in Waiter
  BY DEF IInv, Waiter, TerminalStatus
<1>2. CASE Close
  BY <1>1, <1>2, IdleTyped DEF Close, TypeOK
<1>3. CASE Retire
  BY <1>1, <1>3 DEF Retire, TypeOK
<1>4. CASE Restart
  <2>1. /\ waiter' \in [Id -> Waiter] /\ pending' \in [Id -> Record]
    BY <1>1, <1>4, IdleTyped DEF Restart, TypeOK
  <2>2. crashes' \in 0..MaxCrashes
    BY <1>1, <1>4, ApprovalAssumption DEF Restart, TypeOK
  <2>3. halfFenced' \subseteq Id
    <3>1. op.step \in {"fence", "refence"} => op.id \in Id
      BY DEF IInv, OpFits
    <3> QED
      BY <1>1, <1>4, <3>1 DEF Restart, TypeOK
  <2> QED
    BY <1>1, <1>4, <2>1, <2>2, <2>3, IdleTyped DEF Restart, TypeOK
<1> QED
  BY <1>2, <1>3, <1>4
-----------------------------------------------------------------------------
(* IInv is an invariant of the service, whatever calls, failures, closes   *)
(* and restarts fall between the awaits of an operation.                   *)
THEOREM Inductive == Spec => []IInv
<1>1. IInv /\ [Next]_vars => IInv'
  <2> SUFFICES ASSUME IInv, [Next]_vars
               PROVE  IInv'
    OBVIOUS
  <2>1. CASE UNCHANGED vars
    <3>1. /\ UNCHANGED <<stored, published, pending, waiter, closed, ready,
                         op, halfFenced>>
      BY <2>1 DEF vars
    <3>2. TypeOK' /\ OpFits'
      BY <2>1 DEF vars, IInv, TypeOK, OpFits
    <3>3. ASSUME NEW id \in Id
          PROVE  Sound(id)' /\ StepFits(id)' /\ RecoverFits(id)'
      <4>1. /\ Sound(id) /\ StepFits(id) /\ RecoverFits(id)
            /\ Kept(id) /\ Step(id)' = Step(id)
        BY <3>1 DEF IInv, Kept, Step
      <4>2. Sound(id)'
        BY <4>1, Carry
      <4> QED
        BY <3>1, <4>1, <4>2 DEF StepFits, RecoverFits, Waits, Announced
    <3> QED
      BY <3>2, <3>3 DEF IInv
  <2>2. CASE \E id \in Id :
               \/ Start(Cancel(id)) \/ Start(Expire(id))
               \/ \E d \in Decision : Start(Decide(id, d))
    BY <2>2, StartsTyped, TerminateStarts DEF Start
  <2>3. CASE \E id \in Id : Start(Evaluate(id))
    BY <2>3, StartsTyped, EvaluateStarts DEF Start
  <2>4. CASE \E id \in Id : Start(Get(id))
    BY <2>4, StartsTyped, GetStarts DEF Start
  <2>5. CASE Start(Replay) \/ Recover \/ RetireRun
    BY <2>5, StartsTyped, WalkStarts, RecoverStarts
  <2>6. CASE Continue
    <3>1. CASE \E id \in Id : NextRecord(id)
      BY <3>1, NextTyped, NextStep
    <3>2. CASE \/ Written("append", "register") \/ Written("commit", "fence")
               \/ Written("refence", "settle")
      BY <3>2, WritesTyped, WrittenStep
    <3>3. CASE Register \/ Fence \/ SettleFenced \/ CancelEvaluated
      BY <3>3, CallersTyped, RegisterStep, FenceSteps, CancelEvaluatedStep
    <3>4. CASE Publish \/ Acknowledge
      BY <3>4, DeliveryTyped, PublishStep, AcknowledgeStep
    <3>5. CASE End
      BY <3>5, EndTyped, EndSteps
    <3> QED
      BY <2>6, <3>1, <3>2, <3>3, <3>4, <3>5 DEF Continue
  <2>7. CASE WriteFails
    BY <2>7, WritesTyped, WriteFailsStep
  <2>8. CASE DeliveryFails
    BY <2>8, DeliveryTyped, DeliveryFailsStep
  <2>9. CASE PruneFails
    BY <2>9, EndTyped, EndSteps
  <2>10. CASE Close \/ Restart \/ Retire
    BY <2>10, OutsideTyped, CloseStep, RestartStep, RetireStep
  <2> QED
    BY <2>1, <2>2, <2>3, <2>4, <2>5, <2>6, <2>7, <2>8, <2>9, <2>10 DEF Next
<1> QED
  BY <1>1, Initially, PTL DEF Spec

(* Every state of the service, its store and its event log is one the code *)
(* can be in.                                                              *)
THEOREM TypeCorrect == Spec => []TypeOK
<1>1. IInv => TypeOK
  BY DEF IInv
<1> QED
  BY <1>1, Inductive, PTL

(* awaitDecision resolves with "approved" only when #complete has stored   *)
(* the approval, which stands until retention removes it.                  *)
THEOREM GrantsAreDurable == Spec => []GrantIsDurable
<1>1. IInv => GrantIsDurable
  BY DEF IInv, Sound, CallerFits, GrantIsDurable, Decision
<1> QED
  BY <1>1, Inductive, PTL

(* A decision the event log announces is the one the caller was given, or  *)
(* would have been given had it not died with its process; approvals whose *)
(* fencing write is missing excepted.                                      *)
THEOREM DecisionsMatch == Spec => []DecisionEventMatchesCaller
<1>1. IInv => DecisionEventMatchesCaller
  BY DEF IInv, Sound, CallerFits, DecisionEventMatchesCaller
<1> QED
  BY <1>1, Inductive, PTL

(* A terminal status is announced or still in the outbox, and retention    *)
(* (#pruneTerminal) removes only what has been announced.                  *)
THEOREM EventsAreKept == Spec => []NoEventLost
<1>1. IInv => NoEventLost
  BY DEF IInv, Sound, AnnouncedFits, NoEventLost
<1> QED
  BY <1>1, Inductive, PTL

(* #deliverEvents may announce an event more than once, but no request and *)
(* no other outcome after an outcome.                                      *)
THEOREM EventsAreOrdered == Spec => []EventsInOrder
<1>1. IInv => EventsInOrder
  BY DEF IInv, Sound, AnnouncedFits, Ordered, EventsInOrder
<1> QED
  BY <1>1, Inductive, PTL

(* The only steps that tell a caller a decision are those of #complete,    *)
(* and a closed service gets to them only with a cancellation.             *)
LEMMA ClosedDecidesNothing ==
    ASSUME IInv, [Next]_vars, closed, NEW id \in Id,
           waiter'[id] # waiter[id], waiter'[id] \in Decision
    PROVE  FALSE
<1>1. TypeOK /\ waiter \in [Id -> Waiter] /\ "cancelled" \notin Decision
  BY DEF IInv, TypeOK, Decision
<1>2. CASE Fence \/ SettleFenced
  <2>1. Settle /\ op.step \in {"fence", "settle"}
    BY <1>2 DEF Fence, SettleFenced
  <2>2. op.id \in Id /\ Step(op.id) = op.step /\ StepFits(op.id)
    BY <2>1, Working
  <2>3. op.rec.status \notin Decision
    <3>1. CASE Fence
      BY <2>1, <3>1 DEF Fence
    <3>2. CASE SettleFenced
      BY <1>1, <2>2, <3>2 DEF SettleFenced, StepFits
    <3> QED
      BY <1>2, <3>1, <3>2
  <2> QED
    BY <1>1, <2>1, <2>3 DEF Settle
<1>3. CASE Register
  BY <1>1, <1>3 DEF Register
<1>4. CASE Close \/ Restart
  BY <1>4 DEF Close, Restart, Decision
<1>5. ~(Fence \/ SettleFenced \/ Register \/ Close \/ Restart) => UNCHANGED waiter
  BY DEF Next, vars, Start, Continue, Recover, Retire, RetireRun, NextRecord,
     Written, WriteFails, Publish, Acknowledge, DeliveryFails, CancelEvaluated,
     End, PruneFails
<1> QED
  BY <1>2, <1>3, <1>4, <1>5

(* close() and retire() fence the decisions in flight (#complete): no      *)
(* caller of a closed service is let through or refused by decision.       *)
THEOREM ClosedIsFenced == Spec => NoDecisionOnceClosed
<1>1. IInv /\ [Next]_vars =>
        [\A id \in Id : closed /\ waiter'[id] \in Decision
                          => waiter'[id] = waiter[id]]_vars
  BY ClosedDecidesNothing
<1> QED
  BY <1>1, Inductive, PTL DEF Spec, NoDecisionOnceClosed

(* The steps that write a record. *)
LEMMA OutcomeChange ==
    ASSUME IInv, [Next]_vars, NEW id \in Id \ halfFenced, Terminal(id),
           stored'[id].status # stored[id].status
    PROVE  \/ stored'[id].status = "pruned"
           \/ closed /\ op.step = "refence" /\ op.id = id
<1>1. /\ stored \in [Id -> Record] /\ Sound(id) /\ StepFits(id)
  BY DEF IInv, TypeOK
<1>2. ASSUME NEW step, NEW next, Written(step, next),
             step \in {"append", "commit", "refence"}
      PROVE  closed /\ op.step = "refence" /\ op.id = id
  <2>1. op.id = id /\ op.step = step
    BY <1>1, <1>2 DEF Written
  <2>2. Step(id) = step
    BY <2>1 DEF Step
  <2>3. step = "refence"
    BY <1>2, <2>2, <1>1 DEF StepFits, Terminal, NoRecord, TerminalStatus, Decision
  <2> QED
    BY <1>1, <2>1, <2>2, <2>3 DEF StepFits
<1>3. CASE Acknowledge
  <2>1. op.id = id
    BY <1>1, <1>3 DEF Acknowledge
  <2>2. stored[id] = op.rec /\ op.rec \in Record
    BY <1>1, <1>3, <2>1, OpTyped DEF Acknowledge, Step, StepFits, IInv
  <2>3. stored'[id] = [op.rec EXCEPT !.outbox = Tail(@)]
    BY <1>1, <1>3, <2>1 DEF Acknowledge
  <2> QED
    BY <2>2, <2>3 DEF Record
<1>4. CASE End \/ PruneFails
  <2>1. stored' = stored \/ \E D \in SUBSET Prunable : PruneOnly(D)
    BY <1>4 DEF End, PruneFails, Prune
  <2> QED
    BY <2>1 DEF PruneOnly
<1>5. \/ Written("append", "register") \/ Written("commit", "fence")
      \/ Written("refence", "settle")
      \/ Acknowledge \/ End \/ PruneFails \/ UNCHANGED stored
  BY DEF Next, vars, Start, Continue, Recover, Retire, RetireRun, NextRecord,
     WriteFails, Register, Fence, SettleFenced, Publish, DeliveryFails,
     CancelEvaluated, Close, Restart
<1> QED
  BY <1>2, <1>3, <1>4, <1>5

(* A terminal record stands: decide, cancel, expiry, recovery, retirement  *)
(* and redelivery never change an outcome; only the fence of #complete and *)
(* retention write over it.                                                *)
THEOREM OutcomesStand == Spec => OutcomeStands
<1>1. IInv /\ [Next]_vars =>
        [\A id \in Id \ halfFenced :
            (Terminal(id) /\ stored'[id].status # stored[id].status) =>
                \/ stored'[id].status = "pruned"
                \/ closed /\ op.step = "refence" /\ op.id = id]_vars
  BY OutcomeChange
<1> QED
  BY <1>1, Inductive, PTL DEF Spec, OutcomeStands
-----------------------------------------------------------------------------
(* The service implements ApprovalOutcome.                                 *)

Resolving == {"fence", "refence", "settle"}

(* What the mapping makes of a step that leaves every outcome alone, and   *)
(* of one that changes a single outcome.                                   *)
LEMMA OutcomesKept ==
    ASSUME \A id \in Id : OutcomeOf(id)' = OutcomeOf(id)
    PROVE  [id \in Id |-> OutcomeOf(id)]' = [id \in Id |-> OutcomeOf(id)]
OBVIOUS

LEMMA OneOutcome ==
    ASSUME NEW i \in Id, \A id \in Id \ {i} : OutcomeOf(id)' = OutcomeOf(id)
    PROVE  [id \in Id |-> OutcomeOf(id)]'
             = [[id \in Id |-> OutcomeOf(id)] EXCEPT ![i] = OutcomeOf(i)']
OBVIOUS

(* An operation that is not resolving an approval, before or after.        *)
LEMMA StoredOutcome ==
    ASSUME op.step \notin Resolving, NEW id \in Id
    PROVE  OutcomeOf(id) = IF id \in halfFenced THEN "disputed"
                           ELSE stored[id].status
BY DEF OutcomeOf, Unresolved, Resolving

LEMMA Aside ==
    ASSUME UNCHANGED <<stored, published, waiter, closed, halfFenced>>,
           op.step \notin Resolving, op'.step \notin Resolving
    PROVE  UNCHANGED Outcome!avars
<1>1. \A id \in Id : OutcomeOf(id)' = OutcomeOf(id)
  BY DEF OutcomeOf, Unresolved, Resolving
<1> QED
  BY <1>1, OutcomesKept DEF Outcome!avars

(* Operations begin and walk over their records behind the scenes.         *)
LEMMA StartsAside ==
    ASSUME \/ \E id \in Id :
                \/ Start(Evaluate(id)) \/ Start(Cancel(id)) \/ Start(Expire(id))
                \/ Start(Get(id)) \/ \E d \in Decision : Start(Decide(id, d))
           \/ Start(Replay) \/ Recover \/ RetireRun
    PROVE  UNCHANGED Outcome!avars
<1>1. ASSUME NEW kind, NEW id, NEW rec, NEW todo,
             NEW step \in {"append", "commit", "event", "next"},
             Begin(kind, step, id, rec, todo)
      PROVE  op.step \notin Resolving /\ op'.step \notin Resolving
  BY <1>1, Begun DEF Resolving, Idle
<1>2. op.step \notin Resolving /\ op'.step \notin Resolving
  <2>1. ASSUME NEW id \in Id, Evaluate(id) \/ Get(id)
        PROVE  op.step \notin Resolving /\ op'.step \notin Resolving
    BY <1>1, <2>1 DEF Evaluate, Get
  <2>2. ASSUME NEW id \in Id,
               Cancel(id) \/ Expire(id) \/ \E d \in Decision : Decide(id, d)
        PROVE  op.step \notin Resolving /\ op'.step \notin Resolving
    BY <1>1, <2>2 DEF Cancel, Expire, Decide, BeginTerminate
  <2>3. CASE Replay \/ Recover \/ RetireRun
    BY <1>1, <2>3 DEF Replay, Recover, RetireRun
  <2> QED
    BY <2>1, <2>2, <2>3 DEF Start
<1>3. UNCHANGED <<stored, published, waiter, closed, halfFenced>>
  BY DEF Start, Recover, RetireRun
<1> QED
  BY <1>2, <1>3, Aside

LEMMA WalkAside ==
    ASSUME IInv,
           \/ \E id \in Id : NextRecord(id)
           \/ CancelEvaluated \/ DeliveryFails
    PROVE  UNCHANGED Outcome!avars
<1>1. op.step \notin Resolving /\ UNCHANGED <<stored, published, waiter, closed, halfFenced>>
  BY DEF NextRecord, CancelEvaluated, DeliveryFails, Resolving
<1>2. op'.step \notin Resolving
  BY OpTyped DEF NextRecord, CancelEvaluated, DeliveryFails, Resolving, GoTo,
     AfterCommit, Op, IInv
<1> QED
  BY <1>1, <1>2, Aside

(* store.append(): a new approval is asked; a terminal status does not     *)
(* come out yet, and an acknowledgement leaves the status.                 *)
LEMMA AppendAsks ==
    ASSUME IInv, Written("append", "register")
    PROVE  Outcome!Ask(op.id)
<1>0. PICK i \in Id : i = op.id
  BY Working DEF Written
<1>1. /\ op.step = "append" /\ op'.step = "register" /\ op'.id = op.id
      /\ stored \in [Id -> Record] /\ stored' = [stored EXCEPT ![i] = op.rec]
      /\ UNCHANGED <<published, waiter, closed, halfFenced>>
  BY <1>0, OpTyped DEF Written, GoTo, IInv, TypeOK, Op
<1>2. /\ stored[i].status = "none" /\ op.rec.status = "pending"
      /\ i \notin halfFenced
  BY <1>0, <1>1, Working DEF StepFits, NoRecord, Asked, Sound, HalfFencedFits,
     TerminalStatus, Decision
<1>3. OutcomeOf(i) = "none" /\ OutcomeOf(i)' = "pending"
  BY <1>1, <1>2 DEF OutcomeOf, Unresolved
<1>4. \A id \in Id \ {i} : OutcomeOf(id)' = OutcomeOf(id)
  BY <1>1 DEF OutcomeOf, Unresolved
<1> QED
  BY <1>0, <1>1, <1>3, <1>4, OneOutcome DEF Outcome!Ask

LEMMA CommitAside ==
    ASSUME IInv, Written("commit", "fence")
    PROVE  UNCHANGED Outcome!avars
<1>0. PICK i \in Id : i = op.id
  BY Working DEF Written
<1>1. /\ op.step = "commit" /\ op'.step = "fence" /\ op'.id = op.id
      /\ stored \in [Id -> Record] /\ stored' = [stored EXCEPT ![i] = op.rec]
      /\ UNCHANGED <<published, waiter, closed, halfFenced>>
  BY <1>0, OpTyped DEF Written, GoTo, IInv, TypeOK, Op
<1>2. i \in halfFenced \/ stored[i].status = "pending"
  BY <1>0, <1>1, Working DEF StepFits
<1>3. OutcomeOf(i)' = OutcomeOf(i)
  BY <1>0, <1>1, <1>2 DEF OutcomeOf, Unresolved
<1>4. \A id \in Id \ {i} : OutcomeOf(id)' = OutcomeOf(id)
  BY <1>0, <1>1 DEF OutcomeOf, Unresolved
<1> QED
  BY <1>1, <1>3, <1>4, OutcomesKept DEF Outcome!avars

LEMMA RewriteAside ==
    ASSUME IInv, Written("refence", "settle")
    PROVE  UNCHANGED Outcome!avars
<1>0. PICK i \in Id : i = op.id
  BY Working DEF Written
<1>1. /\ op.step = "refence" /\ op'.step = "settle" /\ op'.id = op.id
      /\ stored \in [Id -> Record] /\ stored' = [stored EXCEPT ![i] = op.rec]
      /\ UNCHANGED <<published, waiter, closed, halfFenced>>
  BY <1>0, OpTyped DEF Written, GoTo, IInv, TypeOK, Op
<1>2. \A id \in Id : OutcomeOf(id)' = OutcomeOf(id)
  BY <1>0, <1>1 DEF OutcomeOf, Unresolved
<1> QED
  BY <1>1, <1>2, OutcomesKept DEF Outcome!avars

LEMMA AcknowledgeAside ==
    ASSUME IInv, Acknowledge
    PROVE  UNCHANGED Outcome!avars
<1>0. PICK i \in Id : i = op.id
  BY Working DEF Acknowledge
<1>1. DEFINE rest == [op.rec EXCEPT !.outbox = Tail(@)]
<1>2. /\ op.step = "ack" /\ stored \in [Id -> Record]
      /\ stored' = [stored EXCEPT ![i] = rest] /\ stored[i] = op.rec
      /\ UNCHANGED <<published, waiter, closed, halfFenced>>
  BY <1>0, Working DEF Acknowledge, IInv, TypeOK, StepFits
<1>3. rest.status = op.rec.status
  BY OpTyped DEF IInv, Record
<1>4. op'.step \notin Resolving
  BY OpTyped DEF Acknowledge, AfterCommit, IInv, Op, Resolving
<1>5. op.step \notin Resolving
  BY <1>2 DEF Resolving
<1>6. \A id \in Id : stored'[id].status = stored[id].status
  BY <1>2, <1>3
<1>7. \A id \in Id : OutcomeOf(id)' = OutcomeOf(id)
  BY <1>2, <1>4, <1>5, <1>6 DEF OutcomeOf, Unresolved, Resolving
<1> QED
  BY <1>2, <1>7, OutcomesKept DEF Outcome!avars

(* A store that fails: the fence that is not written leaves the approval   *)
(* in dispute.                                                             *)
LEMMA FailedWrite ==
    ASSUME IInv, WriteFails
    PROVE  Outcome!Next \/ UNCHANGED Outcome!avars
<1>0. PICK i \in Id : i = op.id
  BY Working DEF WriteFails
<1>1. /\ op'.step \notin Resolving /\ op'.id \notin Id
      /\ UNCHANGED <<stored, published, waiter, closed>>
  BY ApprovalAssumption DEF WriteFails, Idle, Resolving
<1>2. CASE op.step # "refence"
  <2>1. op.step \notin Resolving /\ UNCHANGED halfFenced
    BY <1>2 DEF WriteFails, Resolving
  <2> QED
    BY <1>1, <2>1, Aside
<1>3. CASE op.step = "refence"
  <2>1. halfFenced' = halfFenced \cup {i} /\ i \notin halfFenced /\ closed
    BY <1>0, <1>3, Working DEF WriteFails, StepFits
  <2>2. OutcomeOf(i) = "pending" /\ OutcomeOf(i)' = "disputed"
    BY <1>0, <1>3, <2>1 DEF OutcomeOf, Unresolved
  <2>3. \A id \in Id \ {i} : OutcomeOf(id)' = OutcomeOf(id)
    BY <1>0, <1>1, <2>1 DEF OutcomeOf, Unresolved
  <2>4. Outcome!Dispute(i)
    BY <1>1, <2>1, <2>2, <2>3, OneOutcome DEF Outcome!Dispute
  <2> QED
    BY <2>4 DEF Outcome!Next
<1> QED
  BY <1>2, <1>3

(* evaluate() lets its caller wait, or turns it away.                      *)
LEMMA RegisterAnswers ==
    ASSUME IInv, Register
    PROVE  Outcome!Answer(op.id)
<1>0. PICK i \in Id : i = op.id
  BY Working DEF Register
<1>1. /\ op.step = "register" /\ op'.step \notin Resolving
      /\ UNCHANGED <<stored, published, closed, halfFenced>>
  BY OpTyped DEF Register, GoTo, IInv, Op, Resolving
<1>2. /\ stored[i].status = "pending" /\ waiter[i] = "none"
      /\ i \notin halfFenced
  BY <1>0, <1>1, Working DEF StepFits, Asked, Sound, HalfFencedFits,
     TerminalStatus, Decision
<1>3. \A id \in Id : OutcomeOf(id)' = OutcomeOf(id)
  BY <1>1 DEF OutcomeOf, Unresolved, Resolving
<1>4. OutcomeOf(i) = "pending"
  BY <1>1, <1>2 DEF OutcomeOf, Unresolved
<1>5. waiter' = [waiter EXCEPT ![i] = IF ~closed THEN "waiting" ELSE "cancelled"]
  BY <1>0 DEF Register
<1> QED
  BY <1>0, <1>1, <1>2, <1>3, <1>4, <1>5, OutcomesKept DEF Outcome!Answer

(* #complete: the status that is stored comes out, and whoever waits is    *)
(* told; one in dispute is only told that there is no decision.            *)
LEMMA SettleSettles ==
    ASSUME IInv, Settle, op.step \in {"fence", "settle"},
           closed => op.rec.status \notin Decision,
           UNCHANGED <<stored, published, closed, halfFenced>>
    PROVE  Outcome!Next \/ UNCHANGED Outcome!avars
<1>0. PICK i \in Id : i = op.id
  BY Working
<1>1. PICK s \in TerminalStatus : s = op.rec.status
  BY Working DEF StepFits, TerminalStatus
<1>2. /\ stored[i].status = s
      /\ i \in halfFenced => s \notin Decision
      /\ s \in Decision => Waits(i)
      /\ waiter[i] = "waiting" <=> Waits(i)
  BY <1>0, <1>1, Working DEF StepFits, Sound, CallerFits, Decision
<1>3. waiter' = [waiter EXCEPT ![i] = IF @ = "waiting" THEN s ELSE @]
  BY <1>0, <1>1, <1>2 DEF Settle
<1>4. op'.step \notin Resolving /\ op.step \in Resolving
  BY OpTyped DEF Settle, GoTo, IInv, Op, Resolving
<1>5. \A id \in Id \ {i} : OutcomeOf(id)' = OutcomeOf(id)
  BY <1>0, <1>4 DEF OutcomeOf, Unresolved, Resolving
<1>6. CASE i \notin halfFenced
  <2>1. OutcomeOf(i) = "pending" /\ OutcomeOf(i)' = s
    BY <1>0, <1>2, <1>4, <1>6 DEF OutcomeOf, Unresolved, Resolving
  <2>2. Outcome!Settle(i, s)
    BY <1>1, <1>2, <1>3, <1>5, <2>1, OneOutcome DEF Outcome!Settle
  <2> QED
    BY <2>2 DEF Outcome!Next
<1>7. CASE i \in halfFenced
  <2>1. OutcomeOf(i) = "disputed" /\ OutcomeOf(i)' = "disputed"
    BY <1>7 DEF OutcomeOf
  <2>2. [id \in Id |-> OutcomeOf(id)]' = [id \in Id |-> OutcomeOf(id)]
    BY <1>5, <2>1, OutcomesKept
  <2>3. CASE waiter[i] = "waiting"
    <3>1. waiter' = [waiter EXCEPT ![i] = s]
      BY <1>3, <2>3
    <3>2. Outcome!Drop(i, s)
      BY <2>1, <2>2, <2>3, <3>1 DEF Outcome!Drop
    <3> QED
      BY <1>2, <1>7, <3>2 DEF Outcome!Next
  <2>4. CASE waiter[i] # "waiting"
    <3>1. waiter' = waiter
      BY <1>3, <2>4 DEF IInv, TypeOK
    <3> QED
      BY <2>2, <3>1 DEF Outcome!avars
  <2> QED
    BY <2>3, <2>4
<1> QED
  BY <1>6, <1>7

LEMMA FenceSettles ==
    ASSUME IInv, Fence \/ SettleFenced
    PROVE  Outcome!Next \/ UNCHANGED Outcome!avars
<1>1. CASE Settle /\ (closed => op.rec.status \notin Decision)
  BY <1>1, SettleSettles DEF Fence, SettleFenced
<1>2. CASE SettleFenced
  <2>1. op.rec.status \notin Decision
    BY <1>2, Working DEF SettleFenced, StepFits, Decision
  <2> QED
    BY <1>1, <1>2, <2>1 DEF SettleFenced
<1>3. CASE Fence /\ closed /\ op.rec.status \in Decision
  <2>1. /\ op.step = "fence" /\ op'.step = "refence" /\ op'.id = op.id
        /\ UNCHANGED <<stored, published, waiter, closed, halfFenced>>
    BY <1>3, OpTyped DEF Fence, IInv, Op
  <2>2. \A id \in Id : OutcomeOf(id)' = OutcomeOf(id)
    BY <2>1 DEF OutcomeOf, Unresolved
  <2> QED
    BY <2>1, <2>2, OutcomesKept DEF Outcome!avars
<1> QED
  BY <1>1, <1>2, <1>3 DEF Fence

(* #deliverEvents announces what came out. *)
LEMMA PublishAnnounces ==
    ASSUME IInv, Publish
    PROVE  Outcome!Next
<1>0. PICK i \in Id : i = op.id
  BY Working DEF Publish
<1>1. PICK e \in Event : e = Head(op.rec.outbox)
  BY <1>0, Working, HeadFits DEF Publish
<1>2. /\ op.step = "event" /\ op'.step = "ack" /\ Step(i) = "event"
      /\ published' = [published EXCEPT ![i] = Append(@, e)]
      /\ UNCHANGED <<stored, waiter, closed, halfFenced>>
  BY <1>0, <1>1, Working, OpTyped DEF Publish, GoTo, IInv, Op
<1>3. \A id \in Id : OutcomeOf(id)' = OutcomeOf(id)
  BY <1>2 DEF OutcomeOf, Unresolved
<1>4. OutcomeOf(i) = IF i \in halfFenced THEN "disputed" ELSE stored[i].status
  BY <1>2 DEF OutcomeOf, Unresolved
<1>5. Outcome!Said(i) = Announced(i)
  BY DEF Outcome!Said, Announced, Range
<1>6. \/ /\ e = "requested" /\ Announced(i) \cap TerminalStatus = {}
         /\ OutcomeOf(i) \in {"pending"} \cup TerminalStatus
      \/ e \in TerminalStatus /\ OutcomeOf(i) \in {e, "disputed"}
      \/ e = "requested" /\ OutcomeOf(i) = "disputed"
  <2>1. CASE i \in halfFenced
    BY <1>4, <2>1 DEF Event
  <2>2. CASE i \notin halfFenced
    <3>1. /\ stored[i] = op.rec /\ e \in Range(stored[i].outbox)
          /\ \/ op.rec.status = "pending" /\ e = "requested"
             \/ /\ op.rec.status \in TerminalStatus
                /\ e \in {op.rec.status, "requested"}
      BY <1>1, <1>2, <2>2, HeadFits
    <3>2. e = "requested" => Announced(i) \cap TerminalStatus = {}
      BY <2>2, <3>1 DEF IInv, Sound, AnnouncedFits
    <3> QED
      BY <1>4, <2>2, <3>1, <3>2
  <2> QED
    BY <2>1, <2>2
<1>7. Outcome!Announce(i, e)
  BY <1>2, <1>3, <1>5, <1>6, OutcomesKept DEF Outcome!Announce
<1> QED
  BY <1>7 DEF Outcome!Next, Event

(* #pruneTerminal forgets outcomes that have been announced.               *)
LEMMA PruneForgets ==
    ASSUME IInv, End \/ PruneFails
    PROVE  Outcome!Next \/ UNCHANGED Outcome!avars
<1>1. /\ op.step \notin Resolving /\ op'.step \notin Resolving
      /\ UNCHANGED <<published, waiter, closed, halfFenced>>
  BY DEF End, PruneFails, Idle, Resolving
<1>2. CASE UNCHANGED stored
  BY <1>1, <1>2, Aside
<1>3. ASSUME NEW D \in SUBSET Prunable, PruneOnly(D)
      PROVE  Outcome!Next
  <2> DEFINE F == D \ halfFenced
  <2>1. F \in SUBSET Id
    BY DEF Prunable
  <2>2. ASSUME NEW id \in F
        PROVE  OutcomeOf(id) \in TerminalStatus \cap Outcome!Said(id)
    <3>1. stored[id].status \in TerminalStatus /\ stored[id].outbox = <<>>
      BY DEF Prunable, Terminal
    <3>2. stored[id].status \in Announced(id)
      BY <2>1, <3>1, RangeShort DEF IInv, Sound, AnnouncedFits, Terminal
    <3>3. OutcomeOf(id) = stored[id].status
      BY <1>1, <2>1, StoredOutcome
    <3> QED
      BY <3>1, <3>2, <3>3 DEF Outcome!Said, Announced, Range
  <2>3. ASSUME NEW id \in Id
        PROVE  OutcomeOf(id)' = IF id \in F THEN "pruned" ELSE OutcomeOf(id)
    <3>1. stored'[id].status = IF id \in D THEN "pruned" ELSE stored[id].status
      BY <1>3 DEF PruneOnly
    <3> QED
      BY <1>1, <3>1 DEF OutcomeOf, Unresolved, Resolving
  <2>4. Outcome!Forget(F)
    BY <1>1, <2>1, <2>2, <2>3 DEF Outcome!Forget
  <2> QED
    BY <2>1, <2>4 DEF Outcome!Next
<1> QED
  BY <1>2, <1>3 DEF End, PruneFails, Prune

(* retire() shuts the door, close() dismisses who waits.                   *)
LEMMA RetireShuts ==
    ASSUME Retire
    PROVE  Outcome!Shut
<1>1. \A id \in Id : OutcomeOf(id)' = OutcomeOf(id)
  BY DEF Retire, OutcomeOf, Unresolved
<1> QED
  BY <1>1, OutcomesKept DEF Retire, Outcome!Shut

LEMMA CloseCloses ==
    ASSUME IInv, Close
    PROVE  Outcome!Close
<1>1. \A id \in Id : OutcomeOf(id)' = OutcomeOf(id)
  BY DEF Close, OutcomeOf, Unresolved
<1>2. \A id \in Id : waiter[id] = "waiting" <=> Waits(id)
  BY DEF IInv, Sound, CallerFits
<1> QED
  BY <1>1, <1>2, OutcomesKept DEF Close, Outcome!Close, Outcome!Dismissed

(* The process ends: a status whose write was done has come out, unless    *)
(* the fence was due.                                                      *)
LEMMA RestartCrashes ==
    ASSUME IInv, Restart
    PROVE  Outcome!Crash
<1>1. /\ op'.step \notin Resolving /\ op'.id \notin Id
      /\ UNCHANGED <<stored, published>> /\ ~closed'
  BY ApprovalAssumption DEF Restart, Idle, Resolving
<1>2. waiter' = Outcome!Dismissed("lost")
  BY DEF Restart, Outcome!Dismissed
<1>3. CASE op.step \notin Resolving
  <2>1. halfFenced' = halfFenced
    BY <1>3 DEF Restart, Resolving
  <2>2. \A id \in Id : OutcomeOf(id)' = OutcomeOf(id)
    BY <1>1, <1>3, <2>1 DEF OutcomeOf, Unresolved, Resolving
  <2> QED
    BY <1>1, <1>2, <2>2, OutcomesKept DEF Outcome!Crash
<1>4. CASE op.step \in Resolving
  <2>0. PICK i \in Id : i = op.id
    BY <1>4, Working DEF Resolving
  <2>1. \A id \in Id \ {i} : OutcomeOf(id)' = OutcomeOf(id)
    BY <1>1, <2>0 DEF Restart, OutcomeOf, Unresolved
  <2>2. CASE i \in halfFenced
    <3>1. OutcomeOf(i)' = OutcomeOf(i)
      BY <2>2 DEF Restart, OutcomeOf
    <3> QED
      BY <1>1, <1>2, <2>1, <3>1, OutcomesKept DEF Outcome!Crash
  <2>3. CASE i \notin halfFenced
    <3>1. OutcomeOf(i) = "pending"
      BY <1>4, <2>0, <2>3 DEF OutcomeOf, Unresolved, Resolving
    <3>2. /\ stored[i].status \in TerminalStatus
          /\ stored[i].status \in Decision /\ ~closed => waiter[i] = "waiting"
          /\ stored[i].status \in Decision => op.step \in {"fence", "refence"}
      BY <1>4, <2>0, Working
      DEF Resolving, StepFits, Sound, CallerFits, TerminalStatus, Decision
    <3>3. PICK s \in TerminalStatus \cup {"disputed"} : s = OutcomeOf(i)'
      BY <1>1, <3>2 DEF OutcomeOf, Unresolved
    <3>4. /\ s \in Decision => ~closed /\ waiter[i] = "waiting"
          /\ s = "disputed" => closed
      <4>1. CASE closed /\ stored[i].status \in Decision
        <5>1. i \in halfFenced'
          BY <2>0, <3>2, <4>1 DEF Restart
        <5> QED
          BY <3>3, <4>1, <5>1 DEF OutcomeOf, Decision
      <4>2. CASE ~(closed /\ stored[i].status \in Decision)
        <5>1. i \notin halfFenced'
          BY <2>0, <2>3, <4>2 DEF Restart
        <5>2. s = stored[i].status /\ s # "disputed"
          BY <1>1, <3>2, <3>3, <5>1 DEF OutcomeOf, Unresolved, TerminalStatus, Decision
        <5> QED
          BY <3>2, <4>2, <5>2
      <4> QED
        BY <4>1, <4>2
    <3>5. Outcome!Torn(i)
      BY <2>1, <3>1, <3>3, <3>4, OneOutcome DEF Outcome!Torn
    <3> QED
      BY <1>1, <1>2, <3>5 DEF Outcome!Crash
  <2> QED
    BY <2>2, <2>3
<1> QED
  BY <1>3, <1>4

LEMMA StepRefines ==
    ASSUME IInv, [Next]_vars
    PROVE  Outcome!Next \/ UNCHANGED Outcome!avars
<1>1. CASE \/ \E id \in Id :
                \/ Start(Evaluate(id)) \/ Start(Cancel(id)) \/ Start(Expire(id))
                \/ Start(Get(id)) \/ \E d \in Decision : Start(Decide(id, d))
           \/ Start(Replay) \/ Recover \/ RetireRun
  BY <1>1, StartsAside
<1>2. CASE \/ \E id \in Id : NextRecord(id)
           \/ CancelEvaluated \/ DeliveryFails
  BY <1>2, WalkAside
<1>3. CASE \/ Written("append", "register") \/ Written("commit", "fence")
           \/ Written("refence", "settle")
  <2>1. CASE Written("append", "register")
    <3>1. op.id \in Id
      BY <2>1, Working DEF Written
    <3> QED
      BY <2>1, <3>1, AppendAsks DEF Outcome!Next
  <2> QED
    BY <1>3, <2>1, CommitAside, RewriteAside
<1>4. CASE Register
  <2>1. op.id \in Id
    BY <1>4, Working DEF Register
  <2> QED
    BY <1>4, <2>1, RegisterAnswers DEF Outcome!Next
<1>5. CASE Fence \/ SettleFenced
  BY <1>5, FenceSettles
<1>6. CASE Publish \/ Acknowledge
  BY <1>6, PublishAnnounces, AcknowledgeAside
<1>7. CASE End \/ PruneFails
  BY <1>7, PruneForgets
<1>8. CASE WriteFails
  BY <1>8, FailedWrite
<1>9. CASE Retire \/ Close \/ Restart
  BY <1>9, RetireShuts, CloseCloses, RestartCrashes DEF Outcome!Next
<1>10. CASE UNCHANGED vars
  <2>1. \A id \in Id : OutcomeOf(id)' = OutcomeOf(id)
    BY <1>10 DEF vars, OutcomeOf, Unresolved
  <2> QED
    BY <1>10, <2>1, OutcomesKept DEF vars, Outcome!avars
<1> QED
  BY <1>1, <1>2, <1>3, <1>4, <1>5, <1>6, <1>7, <1>8, <1>9, <1>10
  DEF Next, Continue

(* The service keeps its promise to the ToolCalls that wait: an approval   *)
(* comes out once, its outcome and the caller's answer agree and are given *)
(* together, decisions are given at an open door only, and what is         *)
(* announced or forgotten is what came out, whatever fails or restarts in  *)
(* between.                                                                *)
THEOREM Refinement == Spec => ImplementsOutcome
<1>1. Init => Outcome!Init
  BY DEF Init, Outcome!Init, OutcomeOf, Unresolved, NoRecord, Idle
<1> QED
  BY <1>1, Inductive, StepRefines, PTL DEF Spec, ImplementsOutcome, Outcome!Spec
=============================================================================
