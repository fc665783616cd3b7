---------------------------- MODULE ToolScheduler ----------------------------
(***************************************************************************)
(* The per-instance scheduler every ToolCall passes before it executes     *)
(* (packages/core/src/toolcall/execution/Scheduler.ts,                     *)
(* WorkerToolCallScheduler).  A caller reserves capacity, audits, then     *)
(* queues its work; the scheduler starts work while the instance, the tool *)
(* and the context have room.  Abort signals, queue timeouts, release and  *)
(* close race with all of that.                                            *)
(*                                                                         *)
(* The class is synchronous JavaScript, so a method is one step, with one  *)
(* exception: when work ends, #finish and the #drain in the promise        *)
(* chain's finally() run in different microtasks, and other callers may    *)
(* run in between.                                                         *)
(***************************************************************************)
EXTENDS Naturals, FiniteSets

CONSTANTS
    Entry,                  (* the reservations callers may ask for         *)
    CallId, Tool, Ctx,      (* call ids, tool names and context ids         *)
    CallOf, ToolOf, CtxOf,  (* the request each reservation carries         *)
    NoCtx, NoEntry,         (* request without a ctxId; absent map key      *)
    UrgentTools,            (* urgentToolNames                              *)
    MaxRunning, QueueDepth,                     (* instance limits          *)
    MaxRunningPerSession, QueueDepthPerSession, (* limits of one context    *)
    ToolMaxRunning, ToolQueueDepth              (* #toolLimit of each tool  *)

ASSUME RequestAssumption ==
    /\ IsFiniteSet(Entry)
    /\ CallOf \in [Entry -> CallId]
    /\ ToolOf \in [Entry -> Tool]
    /\ CtxOf \in [Entry -> Ctx \cup {NoCtx}]
    /\ NoEntry \notin Entry /\ NoCtx \notin Ctx
    /\ UrgentTools \subseteq Tool

ASSUME LimitAssumption ==
    /\ MaxRunning \in Nat /\ QueueDepth \in Nat
    /\ MaxRunningPerSession \in Nat /\ QueueDepthPerSession \in Nat
    /\ ToolMaxRunning \in [Tool -> Nat]
    /\ ToolQueueDepth \in [Tool -> Nat]

VARIABLES
    state,          (* ToolSchedulerEntry.state, "new" before reserve()     *)
    entries,        (* #entries: call id -> its live reservation            *)
    ticket,         (* push order of the entries in #waiting, 0 outside it  *)
    pushed,         (* number of pushes onto #waiting so far                *)
    finishing,      (* ended work whose finally() has not drained yet       *)
    answer,         (* how the promise returned by run() has settled        *)
    began,          (* history: entries whose work was ever invoked         *)
    closed,         (* #closed                                              *)
    closeResolved   (* the promise of close() has resolved                  *)

vars == <<state, entries, ticket, pushed, finishing, answer, began,
          closed, closeResolved>>

Waiting == {"reserved", "queued"}
Live == Waiting \cup {"running"}
Terminal == {"completed", "failed", "cancelled", "queueTimeout"}
EntryState == {"new"} \cup Live \cup Terminal

(* run() not called; unsettled; the work's own outcome; or one of the two  *)
(* retryable scheduler errors, which tell the caller the work never began. *)
Answer == {"none", "pending", "value", "error", "cancelled", "queueTimeout"}
Retryable == {"cancelled", "queueTimeout"}

-----------------------------------------------------------------------------
(* Capacity.                                                               *)

Urgent(e) == ToolOf[e] \in UrgentTools
UrgentAllowance(e) == IF Urgent(e) THEN 1 ELSE 0

(* Membership in #entries, by call id. *)
Accepted == {e \in Entry : entries[CallOf[e]] = e}
Queued(st) == {e \in Entry : st[e] = "queued"}
Running(st) == {e \in Entry : st[e] = "running"}

SameTool(e, S) == {d \in S : ToolOf[d] = ToolOf[e]}
SameCtx(e, S) == {d \in S : CtxOf[d] = CtxOf[e]}

(* Mutation: reservations that have not been queued hold no capacity. *)
HasCapacityIgnoringReserved(e) ==
    Cardinality({d \in Accepted : state[d] # "reserved"})
        < MaxRunning + QueueDepth + UrgentAllowance(e)

(* #assertCapacity: reserved, queued and running calls all hold capacity;  *)
(* the urgent allowance does not apply to the limit of the tool.           *)
HasCapacity(e) ==
    /\ Cardinality(Accepted) < MaxRunning + QueueDepth + UrgentAllowance(e)
    /\ Cardinality(SameTool(e, Accepted))
            < ToolMaxRunning[ToolOf[e]] + ToolQueueDepth[ToolOf[e]]
    /\ CtxOf[e] # NoCtx =>
            Cardinality(SameCtx(e, Accepted))
                < MaxRunningPerSession + QueueDepthPerSession
                    + UrgentAllowance(e)

(* Mutation: off by one at the instance limit. *)
CanRunOneMore(e, running) ==
    /\ Cardinality(running) <= MaxRunning + UrgentAllowance(e)
    /\ Cardinality(SameTool(e, running)) < ToolMaxRunning[ToolOf[e]]

(* #canRun against the set of entries running at that moment. *)
CanRun(e, running) ==
    /\ Cardinality(running) < MaxRunning + UrgentAllowance(e)
    /\ Cardinality(SameTool(e, running)) < ToolMaxRunning[ToolOf[e]]
    /\ CtxOf[e] # NoCtx =>
            Cardinality(SameCtx(e, running))
                < MaxRunningPerSession + UrgentAllowance(e)

(* What the loop of #drain could start, and what it does start next: the   *)
(* first urgent entry in #waiting that can run, else the first that can.   *)
Runnable(waiting, running) == {e \in waiting : CanRun(e, running)}

FirstPushed(S, tk) == CHOOSE e \in S : \A d \in S : tk[e] <= tk[d]

NextOf(runnable, tk) ==
    LET urgent == {e \in runnable : Urgent(e)} IN
    FirstPushed(IF urgent # {} THEN urgent ELSE runnable, tk)

NextToStart(waiting, running, tk) == NextOf(Runnable(waiting, running), tk)

(* Mutations: push order only; the newest entry of a class first. *)
AheadWithoutUrgency(tk, d, e) == tk[d] < tk[e]
AheadNewestFirst(tk, d, e) ==
    IF Urgent(d) = Urgent(e) THEN tk[d] > tk[e] ELSE Urgent(d)

(* The order in which #drain considers entries: urgent ones first, then    *)
(* the position in #waiting.                                               *)
Ahead(tk, d, e) ==
    IF Urgent(d) = Urgent(e) THEN tk[d] < tk[e] ELSE Urgent(d)

(* The entries one #drain starts.  Starting an entry only adds to what     *)
(* runs, so an entry the loop passed over stays unrunnable until the loop  *)
(* ends, and the loop is one pass in the order of Ahead: it starts exactly *)
(* the entries that fit beside what runs and what was started before them. *)
(* DrainLoop is the loop itself, which starts the same entries.            *)
IsDrained(S, queued, running, tk) ==
    \A e \in queued :
        e \in S <=> CanRun(e, running \cup {d \in S : Ahead(tk, d, e)})

(* What remains of #waiting: the tickets of the entries still queued.      *)
StillWaiting(st, tk) ==
    [e \in Entry |-> IF st[e] = "queued" THEN tk[e] ELSE 0]

(* #drain and #start, on the entry states and tickets the caller left.     *)
Drain(st, tk) ==
    \E S \in SUBSET Queued(st) :
        /\ IF closed THEN S = {}
           ELSE IsDrained(S, Queued(st), Running(st), tk)
        /\ state' = [e \in Entry |-> IF e \in S THEN "running" ELSE st[e]]
        /\ began' = began \cup S
        /\ ticket' = StillWaiting(state', tk)

(* Mutations: close() resolves with the first call that ends, or never. *)
FinishResolvesEarly(S, outcome) ==
    /\ entries' = [c \in CallId |-> IF \E e \in S : CallOf[e] = c
                                    THEN NoEntry ELSE entries[c]]
    /\ answer' = [e \in Entry |-> IF e \in S /\ answer[e] = "pending"
                                  THEN outcome ELSE answer[e]]
    /\ closeResolved' = closed

FinishForgetsClose(S, outcome) ==
    /\ entries' = [c \in CallId |-> IF \E e \in S : CallOf[e] = c
                                    THEN NoEntry ELSE entries[c]]
    /\ answer' = [e \in Entry |-> IF e \in S /\ answer[e] = "pending"
                                  THEN outcome ELSE answer[e]]
    /\ UNCHANGED closeResolved

(* #finish for a set of live entries: forget their call ids, answer the    *)
(* callers that wait, and resolve close() with the last live entry.        *)
Finish(S, outcome) ==
    /\ entries' = [c \in CallId |-> IF \E e \in S : CallOf[e] = c
                                    THEN NoEntry ELSE entries[c]]
    /\ answer' = [e \in Entry |-> IF e \in S /\ answer[e] = "pending"
                                  THEN outcome ELSE answer[e]]
    /\ closeResolved' =
            (closeResolved \/ (closed /\ \A c \in CallId : entries'[c] = NoEntry))
-----------------------------------------------------------------------------
(* The operations.                                                         *)

Init ==
    /\ state = [e \in Entry |-> "new"]
    /\ entries = [c \in CallId |-> NoEntry]
    /\ ticket = [e \in Entry |-> 0]
    /\ pushed = 0
    /\ finishing = {}
    /\ answer = [e \in Entry |-> "none"]
    /\ began = {}
    /\ closed = FALSE
    /\ closeResolved = FALSE

(* reserve(): the calls that throw change nothing and are not steps. *)
Reserve(e) ==
    /\ state[e] = "new"
    /\ ~closed
    /\ entries[CallOf[e]] = NoEntry
    /\ HasCapacity(e)
    /\ state' = [state EXCEPT ![e] = "reserved"]
    /\ entries' = [entries EXCEPT ![CallOf[e]] = e]
    /\ UNCHANGED <<ticket, pushed, finishing, answer, began, closed,
                   closeResolved>>

(* run() of a live reservation: wait in line, then drain. *)
Queue(e) ==
    /\ state[e] = "reserved"
    /\ pushed' = pushed + 1
    /\ answer' = [answer EXCEPT ![e] = "pending"]
    /\ Drain([state EXCEPT ![e] = "queued"], [ticket EXCEPT ![e] = pushed'])
    /\ UNCHANGED <<entries, finishing, closed, closeResolved>>

(* run() of a reservation that was cancelled in the meantime. *)
QueueSettled(e) ==
    /\ state[e] \in Terminal
    /\ answer[e] = "none"
    /\ answer' = [answer EXCEPT ![e] = "cancelled"]
    /\ UNCHANGED <<state, entries, ticket, pushed, finishing, began, closed,
                   closeResolved>>

(* Mutation: #finish without its settled guard, so a stale handle evicts   *)
(* whoever reuses the call id.                                             *)
CancelAgain(e) ==
    /\ state[e] \in Waiting \cup Terminal
    /\ Finish({e}, "cancelled")
    /\ Drain([state EXCEPT ![e] = "cancelled"], ticket)
    /\ UNCHANGED <<pushed, finishing, closed>>

(* release(), or the abort listener: a no-op once running or settled. *)
Cancel(e) ==
    /\ state[e] \in Waiting
    /\ Finish({e}, "cancelled")
    /\ Drain([state EXCEPT ![e] = "cancelled"], ticket)
    /\ UNCHANGED <<pushed, finishing, closed>>

(* The queue timer.  A timer is a macrotask: it fires only after the       *)
(* promise jobs of ended work, the finally() among them, have run.         *)
Timeout(e) ==
    /\ state[e] = "queued"
    /\ finishing = {}
    /\ Finish({e}, "queueTimeout")
    /\ Drain([state EXCEPT ![e] = "queueTimeout"], ticket)
    /\ UNCHANGED <<pushed, finishing, closed>>

(* The work settles: #finish runs, the #drain of finally() comes later. *)
End(e, st, outcome) ==
    /\ state[e] = "running"
    /\ state' = [state EXCEPT ![e] = st]
    /\ Finish({e}, outcome)
    /\ finishing' = finishing \cup {e}
    /\ UNCHANGED <<ticket, pushed, began, closed>>

(* Mutation: the entry state is handed to the caller in place of a value. *)
CompleteWithState(e) == End(e, "completed", "completed")

Complete(e) == End(e, "completed", "value")
Fail(e) == End(e, "failed", "error")

(* Mutation: the freed capacity is not handed on. *)
FinallyWithoutDrain(e) ==
    /\ e \in finishing
    /\ finishing' = finishing \ {e}
    /\ UNCHANGED <<state, began, ticket, entries, pushed, answer, closed,
                   closeResolved>>

(* finally(): the drain that hands the freed capacity on. *)
Finally(e) ==
    /\ e \in finishing
    /\ finishing' = finishing \ {e}
    /\ Drain(state, ticket)
    /\ UNCHANGED <<entries, pushed, answer, closed, closeResolved>>

(* Mutations: close() also "cancels" what already runs; close() drops the  *)
(* promises of the calls it cancels.                                       *)
CloseCancelsRunning ==
    /\ ~closed
    /\ closed' = TRUE
    /\ state' = [e \in Entry |-> IF e \in Accepted THEN "cancelled" ELSE state[e]]
    /\ entries' = [c \in CallId |-> NoEntry]
    /\ answer' = [e \in Entry |-> IF answer[e] = "pending" THEN "cancelled"
                                  ELSE answer[e]]
    /\ closeResolved' = TRUE
    /\ ticket' = StillWaiting(state', ticket)
    /\ UNCHANGED <<pushed, finishing, began>>

CloseDropsPromises ==
    LET waiting == {e \in Accepted : state[e] # "running"} IN
    /\ ~closed
    /\ closed' = TRUE
    /\ state' = [e \in Entry |-> IF e \in waiting THEN "cancelled" ELSE state[e]]
    /\ entries' = [c \in CallId |-> IF entries[c] \in waiting THEN NoEntry
                                    ELSE entries[c]]
    /\ closeResolved' = (\A c \in CallId : entries'[c] = NoEntry)
    /\ ticket' = StillWaiting(state', ticket)
    /\ UNCHANGED <<answer, pushed, finishing, began>>

(* close(): refuse new calls, cancel what has not started, wait for the    *)
(* rest.  Entries that settle here never drain.                            *)
Close ==
    LET waiting == {e \in Accepted : state[e] # "running"} IN
    /\ ~closed
    /\ closed' = TRUE
    /\ state' = [e \in Entry |-> IF e \in waiting THEN "cancelled" ELSE state[e]]
    /\ entries' = [c \in CallId |-> IF entries[c] \in waiting THEN NoEntry
                                    ELSE entries[c]]
    /\ answer' = [e \in Entry |-> IF e \in waiting /\ answer[e] = "pending"
                                  THEN "cancelled" ELSE answer[e]]
    /\ closeResolved' = (\A c \in CallId : entries'[c] = NoEntry)
    /\ ticket' = StillWaiting(state', ticket)
    /\ UNCHANGED <<pushed, finishing, began>>

Next ==
    \/ \E e \in Entry :
        \/ Reserve(e) \/ Queue(e) \/ QueueSettled(e) \/ Cancel(e)
        \/ Timeout(e) \/ Complete(e) \/ Fail(e) \/ Finally(e)
    \/ Close

Spec == Init /\ [][Next]_vars

(* Timers fire, promise jobs run, and the work of a started call settles   *)
(* (the worker RPC under it has its own deadline).  Callers owe nothing.   *)
Fairness ==
    /\ \A e \in Entry : WF_vars(Timeout(e))
    /\ \A e \in Entry : WF_vars(Finally(e))
    /\ \A e \in Entry : WF_vars(Complete(e) \/ Fail(e))

FairSpec == Spec /\ Fairness
-----------------------------------------------------------------------------
(* Properties.                                                             *)

TypeOK ==
    /\ state \in [Entry -> EntryState]
    /\ entries \in [CallId -> Entry \cup {NoEntry}]
    /\ ticket \in [Entry -> Nat]
    /\ pushed \in Nat
    /\ finishing \subseteq Entry
    /\ answer \in [Entry -> Answer]
    /\ began \subseteq Entry
    /\ closed \in BOOLEAN
    /\ closeResolved \in BOOLEAN

(* #entries and the states of the reservations agree although call ids may *)
(* be used again: the map holds exactly the reservations that are neither  *)
(* new nor settled, so a settled reservation never evicts a later one that *)
(* reuses its call id, and no live call is invisible to the capacity       *)
(* counts.                                                                 *)
MapHoldsLiveCalls ==
    \A e \in Entry : entries[CallOf[e]] = e <=> state[e] \in Live

WithinLimits(running) ==
    LET routine == {e \in running : ~Urgent(e)}
    IN  /\ Cardinality(running) <= MaxRunning + 1
        /\ Cardinality(routine) <= MaxRunning
        /\ \A e \in Entry :
            /\ Cardinality(SameTool(e, running)) <= ToolMaxRunning[ToolOf[e]]
            /\ CtxOf[e] # NoCtx =>
                /\ Cardinality(SameCtx(e, running)) <= MaxRunningPerSession + 1
                /\ Cardinality(SameCtx(e, routine)) <= MaxRunningPerSession

(* However calls, drains, timeouts and cancellations interleave, what runs *)
(* stays within the limits of the instance, of each tool and of each       *)
(* context; only an urgent call may exceed the instance or the context     *)
(* limit, and only by one.                                                 *)
RunningWithinLimits == WithinLimits(Running(state))

WithinDepths(accepted) ==
    /\ Cardinality(accepted) <= MaxRunning + QueueDepth + 1
    /\ \A e \in Entry :
        /\ Cardinality(SameTool(e, accepted))
                <= ToolMaxRunning[ToolOf[e]] + ToolQueueDepth[ToolOf[e]]
        /\ CtxOf[e] # NoCtx =>
            Cardinality(SameCtx(e, accepted))
                <= MaxRunningPerSession + QueueDepthPerSession + 1

(* The same for every call that is alive, reserved and queued ones         *)
(* included: the queue cannot grow past the configured depths.  The states *)
(* say what is alive, not #entries, which the code counts: a reservation   *)
(* that had lost its entry in the map would be missed by the code, but not *)
(* here.                                                                   *)
AcceptedWithinLimits == WithinDepths({e \in Entry : state[e] \in Live})

(* A call that is told "cancelled before it started" or "timed out while   *)
(* waiting" (both retryable) has not begun and will not begin: retrying it *)
(* cannot repeat its effects.                                              *)
RetryableNeverBegan ==
    \A e \in Entry : answer[e] \in Retryable => e \notin began

(* No capacity is lost: outside the window between the end of a call and   *)
(* its finally(), a queued call that could run does not exist.             *)
WorkConserving ==
    (~closed /\ finishing = {}) =>
        \A e \in Queued(state) : ~CanRun(e, Running(state))

(* What makes the above inductive: #entries is within the depths, and it   *)
(* holds what is alive; the queued entries hold distinct tickets; and the  *)
(* state of an entry determines what its caller was told and whether its   *)
(* work began.                                                             *)
CountedWithinLimits == WithinDepths(Accepted)

QueueOrder(st, tk, last) ==
    /\ \A e \in Queued(st) : tk[e] \in 1..last
    /\ \A d, e \in Queued(st) : tk[d] = tk[e] => d = e

AnswerOf(st, ans, begun) ==
    \A e \in Entry :
        /\ st[e] \in {"new", "reserved"} => ans[e] = "none" /\ e \notin begun
        /\ st[e] = "queued" => ans[e] = "pending" /\ e \notin begun
        /\ st[e] = "running" => ans[e] = "pending"
        /\ st[e] \in {"completed", "failed"} => ans[e] \in {"value", "error"}
        /\ st[e] \in Retryable =>
                ans[e] \in {"none"} \cup Retryable /\ e \notin begun

IInv ==
    /\ TypeOK
    /\ MapHoldsLiveCalls
    /\ RunningWithinLimits
    /\ CountedWithinLimits
    /\ QueueOrder(state, ticket, pushed)
    /\ AnswerOf(state, answer, began)

(* And what the refinement of CallAdmission needs besides: a closed        *)
(* scheduler has nothing left that could still begin, and every map entry  *)
(* is filed under its own call id.                                         *)
DoorInv ==
    /\ closeResolved => closed
    /\ closed => \A e \in Entry : state[e] \notin Waiting
    /\ \A c \in CallId :
        entries[c] # NoEntry => CallOf[entries[c]] = c

(* Two calls the limits cannot tell apart (same tool, same context) start  *)
(* in the order they were queued.                                          *)
FifoWithinClass ==
    [][\A d, e \in Queued(state) :
            /\ ToolOf[d] = ToolOf[e] /\ CtxOf[d] = CtxOf[e]
            /\ ticket[d] < ticket[e]
            /\ state'[e] = "running"
            => state'[d] # "queued"]_vars

StartsUrgentFirst ==
    LET started == Running(state') \ Running(state)
        routine == {e \in started : ~Urgent(e)}
        others == Running(state') \ routine
    IN  /\ \A e \in routine : CanRun(e, others)
        /\ started # {} =>
             \A d \in Queued(state') : Urgent(d) => ~CanRun(d, others)

(* Urgent calls come first, wherever they stand in the queue.  A routine   *)
(* call is only started if it fits beside all urgent calls that the same   *)
(* drain starts, and an urgent call that is left waiting would not fit     *)
(* either if none of the routine calls had been started.                   *)
UrgentFirst == [][StartsUrgentFirst]_vars

(* Whoever called run() is answered: no queued call waits forever and no   *)
(* promise is dropped by a cancellation, a timeout or close().             *)
EveryRunAnswered ==
    \A e \in Entry : answer[e] = "pending" ~> answer[e] # "pending"

(* close() resolves. *)
CloseCompletes == closed ~> closeResolved

(* The scheduler implements the admission promise. *)
PhaseOf(st) ==
    CASE st = "new" -> "outside"
      [] st \in Waiting -> "admitted"
      [] st = "running" -> "executing"
      [] st \in Terminal -> "settled"

Admission == INSTANCE CallAdmission WITH
    Call <- Entry,
    MaxAdmitted <- MaxRunning + QueueDepth + 1,
    MaxExecuting <- MaxRunning + 1,
    phase <- [e \in Entry |-> PhaseOf(state[e])],
    door <- IF closeResolved THEN "closed"
            ELSE IF closed THEN "closing" ELSE "open"

ImplementsAdmission == Admission!Spec
=============================================================================
