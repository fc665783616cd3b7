--------------------------- MODULE ApprovalService ---------------------------
(***************************************************************************)
(* Approval of ToolCalls (packages/core/src/approval/execution/Service.ts):*)
(* evaluate() stores a pending record and hands the caller a promise that  *)
(* decide, cancel, expiry, close, retire or recovery settles.  A record    *)
(* carries an outbox, so a state and the event that announces it share one *)
(* store commit; events are then delivered at least once.                  *)
(*                                                                         *)
(* Operations run one at a time (#exclusive), and recovery runs before     *)
(* any of them (#ensureReady).  But they await the store and the event     *)
(* log, and close() is synchronous: it, and a crash, can fall between any  *)
(* two of an operation's steps.  One step here is one completed await      *)
(* with the synchronous code up to the next one.                           *)
(***************************************************************************)
EXTENDS Naturals, Sequences, FiniteSets, SequencesExt, Functions

CONSTANTS
    Id,                 (* approval ids, each created at most once           *)
    NoId,               (* the operation works on no record                  *)
    TerminalMaxCount,   (* TERMINAL_MAX_COUNT                                *)
    MaxFaults,          (* bound: store and event calls that fail            *)
    MaxCrashes          (* bound: restarts of the process                    *)

ASSUME ApprovalAssumption ==
    /\ IsFiniteSet(Id) /\ NoId \notin Id
    /\ TerminalMaxCount \in Nat /\ MaxFaults \in Nat /\ MaxCrashes \in Nat

VARIABLES
    (* on disk *)
    stored,         (* the store: the record of each approval               *)
    published,      (* the event log, per approval                          *)
    (* in memory *)
    pending,        (* #pending: the cached record of each waiting approval *)
    waiter,         (* how awaitDecision of each approval stands            *)
    closed,         (* #closed                                              *)
    ready,          (* #ready is fulfilled: recovery has finished           *)
    retiring,       (* a retire() waits for its turn                        *)
    op,             (* the operation that holds #operation                  *)
    (* bookkeeping *)
    halfFenced,     (* history: approvals whose fencing write never happened *)
    faults, crashes

vars == <<stored, published, pending, waiter, closed, ready, retiring, op,
          halfFenced, faults, crashes>>

Decision == {"approved", "denied"}
TerminalStatus == Decision \cup {"expired", "cancelled"}
Status == {"none", "pending", "pruned"} \cup TerminalStatus
Event == {"requested"} \cup TerminalStatus
Record == [status : Status, outbox : Seq(Event)]
NoRecord == [status |-> "none", outbox |-> <<>>]

Waiter == {"none", "waiting", "lost"} \cup TerminalStatus

OpKind == {"idle", "evaluate", "decide", "cancel", "expire", "retire",
           "recover", "replay", "get"}
OpStep == {"append", "register", "commit", "fence", "refence", "settle",
           "event", "ack", "next"}
Op == [kind : OpKind, step : OpStep, id : Id \cup {NoId}, rec : Record,
       todo : SUBSET Id]
Idle == [kind |-> "idle", step |-> "next", id |-> NoId, rec |-> NoRecord,
         todo |-> {}]

-----------------------------------------------------------------------------
(* Helpers.                                                                *)

Waits(id) == pending[id] # NoRecord

(* pending?.request ?? store.get(approvalId) *)
Current(id) == IF Waits(id) THEN pending[id] ELSE stored[id]

(* The record in a terminal status, with the event that says so. *)
Terminated(rec, status) ==
    [status |-> status, outbox |-> Append(rec.outbox, status)]

Begin(kind, step, id, rec, todo) ==
    /\ op = Idle
    /\ op' = [kind |-> kind, step |-> step, id |-> id, rec |-> rec,
              todo |-> todo]

(* An operation that starts by committing a terminal status. *)
BeginTerminate(kind, id, status) ==
    Begin(kind, "commit", id, Terminated(Current(id), status), {})

GoTo(step) == op' = [op EXCEPT !.step = step]

(* Delivery follows if the record still has events to announce. *)
AfterCommit(rec) == IF rec.outbox = <<>> THEN "next" ELSE "event"

Fault ==
    /\ faults < MaxFaults
    /\ faults' = faults + 1

Terminal(id) == stored[id].status \in TerminalStatus

PruneOnly(D) ==
    stored' = [id \in Id |-> IF id \in D THEN [status |-> "pruned", outbox |-> <<>>]
                             ELSE stored[id]]

(* Mutation: retention ignores undelivered events. *)
PrunableUndelivered == {id \in Id : Terminal(id)}

(* Retention leaves the records that have events to deliver. *)
Prunable == {id \in Id : Terminal(id) /\ stored[id].outbox = <<>>}

(* #pruneTerminal: old terminal records go, and the oldest beyond the      *)
(* count; age is abstracted to a choice.                                   *)
Prune ==
    \E D \in SUBSET Prunable :
        /\ Cardinality(Prunable \ D) <= TerminalMaxCount
        /\ PruneOnly(D)

Prunes(kind) == kind \in {"decide", "cancel", "expire", "retire", "recover",
                          "replay"}
-----------------------------------------------------------------------------
Init ==
    /\ stored = [id \in Id |-> NoRecord]
    /\ published = [id \in Id |-> <<>>]
    /\ pending = [id \in Id |-> NoRecord]
    /\ waiter = [id \in Id |-> "none"]
    /\ closed = FALSE
    /\ ready = FALSE
    /\ retiring = FALSE
    /\ op = Idle
    /\ halfFenced = {}
    /\ faults = 0
    /\ crashes = 0

(* Operations that start when #exclusive is free and recovery is done.     *)
Start(action) ==
    /\ ready
    /\ action
    /\ UNCHANGED <<stored, published, pending, waiter, closed, ready,
                   retiring, halfFenced, faults, crashes>>

(* evaluate() under a policy that asks; "allow" and "deny" store nothing.  *)
Evaluate(id) ==
    /\ ~closed
    /\ stored[id] = NoRecord /\ waiter[id] = "none"
    /\ Begin("evaluate", "append", id,
             [status |-> "pending", outbox |-> <<"requested">>], {})

(* decideApproval(): a closed service cancels what is still undecided.     *)
Decide(id, decision) ==
    /\ Current(id).status = "pending"
    /\ BeginTerminate("decide", id, IF closed THEN "cancelled" ELSE decision)

(* cancel(), called by clients and by the abort listener. *)
Cancel(id) ==
    /\ Current(id).status = "pending"
    /\ BeginTerminate("cancel", id, "cancelled")

(* Mutations: a timer that outlived its approval terminates the record;    *)
(* a timer whose #expire failed is not armed again.                        *)
ExpireStale(id) ==
    /\ stored[id].status \in TerminalStatus
    /\ BeginTerminate("expire", id, "expired")

ExpireOnce(id) ==
    /\ Waits(id) /\ faults = 0
    /\ BeginTerminate("expire", id, "expired")

(* The timer of a pending approval, armed again when #expire fails. *)
Expire(id) ==
    /\ Waits(id)
    /\ BeginTerminate("expire", id, "expired")

(* getApproval() and listApprovals() deliver what the outboxes hold. *)
Get(id) ==
    /\ stored[id].outbox # <<>>
    /\ Begin("get", "event", id, stored[id], {})

Replay == Begin("replay", "next", NoId, NoRecord,
                {id \in Id : stored[id].outbox # <<>>})

(* retire(): closes admission at once, cancels when its turn comes. *)
Retire ==
    /\ ~retiring
    /\ closed' = TRUE
    /\ retiring' = TRUE
    /\ UNCHANGED <<stored, published, pending, waiter, ready, op, halfFenced,
                   faults, crashes>>

RetireRun ==
    /\ ready /\ retiring
    /\ Begin("retire", "next", NoId, NoRecord, {id \in Id : Waits(id)})
    /\ retiring' = FALSE
    /\ UNCHANGED <<stored, published, pending, waiter, closed, ready,
                   halfFenced, faults, crashes>>

(* #ensureReady: the first call after a start replays the store. *)
Recover ==
    /\ ~ready
    /\ Begin("recover", "next", NoId, NoRecord,
             {id \in Id : stored[id].status \notin {"none", "pruned"}})
    /\ UNCHANGED <<stored, published, pending, waiter, closed, ready,
                   retiring, halfFenced, faults, crashes>>
-----------------------------------------------------------------------------
(* The awaits inside an operation.                                         *)

(* Retirement, recovery and replay walk over a list of records. *)
NextRecord(id) ==
    /\ op.step = "next" /\ id \in op.todo
    /\ LET rec == Current(id)
           left == op.todo \ {id}
           go(step, r) == op' = [op EXCEPT !.step = step, !.id = id, !.rec = r,
                                           !.todo = left]
       IN  IF rec.status = "pending" /\ op.kind # "replay"
           THEN \E status \in IF op.kind = "recover"
                              THEN {"expired", "cancelled"} ELSE {"cancelled"} :
                    go("commit", Terminated(rec, status))
           ELSE IF op.kind = "retire" THEN go("next", rec)
           ELSE go(AfterCommit(stored[id]), stored[id])
    /\ UNCHANGED <<stored, published, pending, waiter, closed, ready, retiring,
                   halfFenced, faults, crashes>>

(* store.append() of a record has been committed. *)
Written(step, next) ==
    /\ op.step = step
    /\ stored' = [stored EXCEPT ![op.id] = op.rec]
    /\ GoTo(next)
    /\ UNCHANGED <<published, pending, waiter, closed, ready, retiring,
                   halfFenced, faults, crashes>>

(* Mutation: the waiter is resolved before the write is known to be done. *)
WriteFailsAfterResolve ==
    /\ op.step \in {"append", "commit", "refence"}
    /\ Fault
    /\ op' = Idle
    /\ waiter' = [waiter EXCEPT ![op.id] = IF Waits(op.id) THEN op.rec.status
                                           ELSE @]
    /\ UNCHANGED <<stored, published, pending, closed, ready, retiring,
                   halfFenced, crashes>>

(* store.append() failed: the operation throws and lets go of the queue.   *)
WriteFails ==
    /\ op.step \in {"append", "commit", "refence"}
    /\ Fault
    /\ halfFenced' = IF op.step = "refence" THEN halfFenced \cup {op.id}
                     ELSE halfFenced
    /\ op' = Idle
    /\ UNCHANGED <<stored, published, pending, waiter, closed, ready, retiring,
                   crashes>>

(* evaluate() after its append.  A service that closed meanwhile cancels   *)
(* the record without ever publishing the request; the call is refused.    *)
Register ==
    /\ op.step = "register"
    /\ IF closed
       THEN /\ waiter' = [waiter EXCEPT ![op.id] = "cancelled"]
            /\ op' = [op EXCEPT !.kind = "cancel", !.step = "commit",
                        !.rec = Terminated(NoRecord, "cancelled")]
            /\ UNCHANGED pending
       ELSE /\ waiter' = [waiter EXCEPT ![op.id] = "waiting"]
            /\ pending' = [pending EXCEPT ![op.id] = op.rec]
            /\ GoTo("event")
    /\ UNCHANGED <<stored, published, closed, ready, retiring, halfFenced,
                   faults, crashes>>

(* #complete: the durable transition resolves the waiter, if there is one. *)
Settle ==
    /\ pending' = [pending EXCEPT ![op.id] = NoRecord]
    /\ waiter' = [waiter EXCEPT ![op.id] = IF Waits(op.id) THEN op.rec.status
                                           ELSE @]
    /\ GoTo("event")

(* Mutations: no fence; a fence that keeps the event of the decision. *)
FenceMissing ==
    /\ op.step = "fence"
    /\ Settle
    /\ UNCHANGED <<stored, published, closed, ready, retiring, halfFenced,
                   faults, crashes>>

FenceKeepsEvent ==
    /\ op.step = "fence"
    /\ IF closed /\ op.rec.status \in Decision
       THEN /\ op' = [op EXCEPT !.step = "refence",
                                !.rec = Terminated(op.rec, "cancelled")]
            /\ UNCHANGED <<pending, waiter>>
       ELSE Settle
    /\ UNCHANGED <<stored, published, closed, ready, retiring, halfFenced,
                   faults, crashes>>

(* #complete after its first write: a decision that lost the race against  *)
(* close() is written over as a cancellation, without its own event.       *)
Fence ==
    /\ op.step = "fence"
    /\ IF closed /\ op.rec.status \in Decision
       THEN /\ op' = [op EXCEPT !.step = "refence", !.rec =
                        Terminated([op.rec EXCEPT !.outbox = Front(@)],
                                   "cancelled")]
            /\ UNCHANGED <<pending, waiter>>
       ELSE Settle
    /\ UNCHANGED <<stored, published, closed, ready, retiring, halfFenced,
                   faults, crashes>>

SettleFenced ==
    /\ op.step = "settle"
    /\ Settle
    /\ UNCHANGED <<stored, published, closed, ready, retiring, halfFenced,
                   faults, crashes>>

(* #deliverEvents: append the first event, then store the outbox without   *)
(* it.  Either may fail; delivery stops and the outbox stays as it was.    *)
Publish ==
    /\ op.step = "event"
    /\ published' = [published EXCEPT ![op.id] = Append(@, Head(op.rec.outbox))]
    /\ GoTo("ack")
    /\ UNCHANGED <<stored, pending, waiter, closed, ready, retiring, halfFenced,
                   faults, crashes>>

(* #updatePending, when delivery is over. *)
CachePending(rec) ==
    pending' = IF Waits(op.id) THEN [pending EXCEPT ![op.id] = rec] ELSE pending

Acknowledge ==
    LET rest == [op.rec EXCEPT !.outbox = Tail(@)] IN
    /\ op.step = "ack"
    /\ stored' = [stored EXCEPT ![op.id] = rest]
    /\ op' = [op EXCEPT !.rec = rest, !.step = AfterCommit(rest)]
    /\ IF rest.outbox = <<>> THEN CachePending(rest) ELSE UNCHANGED pending
    /\ UNCHANGED <<published, waiter, closed, ready, retiring, halfFenced,
                   faults, crashes>>

(* Mutation: an event that cannot be delivered lets the next one pass. *)
DeliveryFailsOvertaken ==
    /\ op.step = "event"
    /\ Fault
    /\ op' = [op EXCEPT !.rec.outbox = Append(Tail(@), Head(@))]
    /\ UNCHANGED <<stored, published, pending, waiter, closed, ready, retiring,
                   halfFenced, crashes>>

DeliveryFails ==
    /\ op.step \in {"event", "ack"}
    /\ Fault
    /\ GoTo("next")
    /\ CachePending(op.rec)
    /\ UNCHANGED <<stored, published, waiter, closed, ready, retiring,
                   halfFenced, crashes>>

(* evaluate() cancels what a close() left behind while it delivered. *)
EvaluateClosed ==
    op.kind = "evaluate" /\ closed /\ Current(op.id).status = "pending"

CancelEvaluated ==
    /\ op.step = "next" /\ EvaluateClosed
    /\ op' = [op EXCEPT !.kind = "cancel", !.step = "commit",
                !.rec = Terminated(Current(op.id), "cancelled")]
    /\ UNCHANGED <<stored, published, pending, waiter, closed, ready, retiring,
                   halfFenced, faults, crashes>>

End ==
    /\ op.step = "next" /\ op # Idle
    /\ op.todo = {} /\ ~EvaluateClosed
    /\ IF Prunes(op.kind) THEN Prune ELSE UNCHANGED stored
    /\ ready' = (ready \/ op.kind = "recover")
    /\ op' = Idle
    /\ UNCHANGED <<published, pending, waiter, closed, retiring, halfFenced,
                   faults, crashes>>

(* Retention fails half way.  What was committed stands; a recovery that   *)
(* ends so is not finished, and the next call recovers again.              *)
PruneFails ==
    /\ op.step = "next" /\ op # Idle
    /\ op.todo = {} /\ ~EvaluateClosed
    /\ Prunes(op.kind)
    /\ Fault
    /\ \E D \in SUBSET Prunable : PruneOnly(D)
    /\ op' = Idle
    /\ UNCHANGED <<published, pending, waiter, closed, ready, retiring,
                   halfFenced, crashes>>

(* Mutation: close() has an outcome of its own for the waiters. *)
CloseAsClosed ==
    /\ closed' = TRUE
    /\ waiter' = [id \in Id |-> IF Waits(id) THEN "closed" ELSE waiter[id]]
    /\ pending' = [id \in Id |-> NoRecord]
    /\ UNCHANGED <<stored, published, ready, retiring, op, halfFenced, faults,
                   crashes>>

(* close(): every waiter is told "cancelled" at once; the records stay. *)
Close ==
    /\ ~closed \/ \E id \in Id : Waits(id)
    /\ closed' = TRUE
    /\ waiter' = [id \in Id |-> IF Waits(id) THEN "cancelled" ELSE waiter[id]]
    /\ pending' = [id \in Id |-> NoRecord]
    /\ UNCHANGED <<stored, published, ready, retiring, op, halfFenced, faults,
                   crashes>>

(* The process ends and another opens the same store and event log. *)
Restart ==
    /\ crashes < MaxCrashes
    /\ crashes' = crashes + 1
    /\ waiter' = [id \in Id |-> IF waiter[id] = "waiting" THEN "lost"
                                ELSE waiter[id]]
    /\ pending' = [id \in Id |-> NoRecord]
    /\ closed' = FALSE /\ ready' = FALSE /\ retiring' = FALSE
    /\ op' = Idle
    /\ halfFenced' = IF closed /\ op.step \in {"fence", "refence"}
                          /\ stored[op.id].status \in Decision
                     THEN halfFenced \cup {op.id} ELSE halfFenced
    /\ UNCHANGED <<stored, published, faults>>

Continue ==
    \/ \E id \in Id : NextRecord(id)
    \/ Written("append", "register") \/ Written("commit", "fence")
    \/ Written("refence", "settle")
    \/ Register \/ Fence \/ SettleFenced \/ Publish \/ Acknowledge
    \/ CancelEvaluated \/ End

Next ==
    \/ \E id \in Id :
        \/ Start(Evaluate(id)) \/ Start(Cancel(id)) \/ Start(Expire(id))
        \/ Start(Get(id)) \/ \E d \in Decision : Start(Decide(id, d))
    \/ Start(Replay) \/ Recover \/ Retire \/ RetireRun
    \/ Continue \/ WriteFails \/ DeliveryFails \/ PruneFails
    \/ Close \/ Restart

Spec == Init /\ [][Next]_vars

(* Awaits finish.  A timer that fired waits in the FIFO of #exclusive, and *)
(* is armed again after a failure: it gets its turn although others do.    *)
Fairness ==
    /\ WF_vars(Continue)
    /\ \A id \in Id : SF_vars(Start(Expire(id)))

FairSpec == Spec /\ Fairness
-----------------------------------------------------------------------------
(* Properties.                                                             *)

TypeOK ==
    /\ stored \in [Id -> Record]
    /\ published \in [Id -> Seq(Event)]
    /\ pending \in [Id -> Record]
    /\ waiter \in [Id -> Waiter]
    /\ closed \in BOOLEAN /\ ready \in BOOLEAN /\ retiring \in BOOLEAN
    /\ op \in Op
    /\ halfFenced \subseteq Id
    /\ faults \in 0..MaxFaults
    /\ crashes \in 0..MaxCrashes

Announced(id) == Range(published[id])

(* A call is let through only on a durable approval: whoever was told      *)
(* "approved" has a stored approval, until retention removes it.           *)
GrantIsDurable ==
    \A id \in Id :
        waiter[id] = "approved" => stored[id].status \in {"approved", "pruned"}

(* close() and retire() fence the decisions in flight: a closed service    *)
(* lets nothing through and refuses nothing by decision.                   *)
NoDecisionOnceClosed ==
    [][\A id \in Id :
            (closed /\ waiter'[id] \in Decision) => waiter'[id] = waiter[id]]_vars

(* The event log does not announce a decision other than the one the       *)
(* caller was given; only a caller that died with its process was not told.*)
(* Approvals whose fencing write failed, or was cut off by a restart, are  *)
(* the exception, see NoFencedDecisionPublished.                           *)
DecisionEventMatchesCaller ==
    \A id \in Id \ halfFenced :
        \A d \in Decision \cap Announced(id) : waiter[id] \in {d, "lost"}

(* The service's own account of the fence: a decision that raced with      *)
(* close() is terminalized as a cancellation, never published.             *)
NoFencedDecisionPublished ==
    \A id \in Id :
        waiter[id] = "cancelled" => Decision \cap Announced(id) = {}

(* No committed event intent is lost, whatever fails and whenever the      *)
(* process restarts: a terminal status is announced or still in the        *)
(* outbox, and retention removes only what has been announced.             *)
NoEventLost ==
    \A id \in Id :
        /\ Terminal(id) =>
             stored[id].status \in Announced(id) \cup Range(stored[id].outbox)
        /\ stored[id].status = "pruned" => Announced(id) \cap TerminalStatus # {}

(* Redelivery duplicates events but does not reorder them: once an outcome *)
(* is announced, the request is not announced again, and no other outcome  *)
(* follows.                                                                *)
EventsInOrder ==
    \A id \in Id \ halfFenced :
        \A i, j \in DOMAIN published[id] :
            (i < j /\ published[id][i] \in TerminalStatus) =>
                published[id][j] = published[id][i]

(* A terminal record stands: decisions, timers, cancellation, recovery and *)
(* redelivery never change an outcome, except the fence of #complete.      *)
OutcomeStands ==
    [][\A id \in Id \ halfFenced :
            (Terminal(id) /\ stored'[id].status # stored[id].status) =>
                \/ stored'[id].status = "pruned"
                \/ closed /\ op.step = "refence" /\ op.id = id]_vars

(* The service implements ApprovalOutcome: between the write of a terminal *)
(* status and the resolution of its caller the approval is still pending,  *)
(* for the fence may yet write the status over.                            *)
Unresolved(id) == op.id = id /\ op.step \in {"fence", "refence", "settle"}

OutcomeOf(id) ==
    IF id \in halfFenced THEN "disputed"
    ELSE IF Unresolved(id) THEN "pending" ELSE stored[id].status

Outcome == INSTANCE ApprovalOutcome WITH
    outcome <- [id \in Id |-> OutcomeOf(id)],
    told <- waiter,
    log <- published,
    open <- ~closed

ImplementsOutcome == Outcome!Spec

(* No caller waits forever: the timer settles what nobody decides. *)
EveryWaiterAnswered ==
    \A id \in Id : waiter[id] = "waiting" ~> waiter[id] # "waiting"
=============================================================================
