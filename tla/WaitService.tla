----------------------------- MODULE WaitService -----------------------------
(***************************************************************************)
(* Waits on detached tmux tasks (packages/core/src/task/wait/index.ts).    *)
(* A wait is one record of a JSON document that is replaced as a whole:    *)
(* temporary file, rename, directory sync.  Any of the three may fail, and *)
(* when rename fails the service reads the document back to learn what     *)
(* happened; when that fails too the outcome is unknown until the next     *)
(* operation reads it.  The document carries its own queue of events, so a *)
(* state and its announcement are one commit.                              *)
(*                                                                         *)
(* Operations run one at a time (#exclusive).  Each detached wait has a    *)
(* monitor that reads the task until it ends, and then commits what it     *)
(* saw.  close() and a power failure fall between any two steps.           *)
(***************************************************************************)
EXTENDS Naturals, Sequences, FiniteSets, Functions, SequencesExt

CONSTANTS
    Wait,               (* wait ids, each detached at most once             *)
    Task, TaskOf,       (* the task (and context) each wait is for          *)
    NoWait, NoDoc,
    Retention,          (* WAIT_TERMINAL_RETENTION                          *)
    MaxFaults,          (* bound: file and event calls that fail            *)
    MaxCrashes          (* bound: power failures                            *)

ASSUME WaitAssumption ==
    /\ IsFiniteSet(Wait) /\ NoWait \notin Wait
    /\ TaskOf \in [Wait -> Task]
    /\ Retention \in Nat \ {0} /\ MaxFaults \in Nat /\ MaxCrashes \in Nat

VARIABLES
    (* on disk *)
    file,           (* the document a read returns                          *)
    images,         (* the documents a power failure may leave behind       *)
    published,      (* the event log, per wait                              *)
    (* the Worker *)
    task,           (* what tmux_read reports of each task                  *)
    (* in memory *)
    mem,            (* #records and #notifications                          *)
    pending,        (* #pending.document, NoDoc when every outcome is known *)
    starts,         (* #pending.start                                       *)
    monitor,        (* what the monitor of each wait is doing               *)
    saw,            (* the terminal status a monitor has to commit          *)
    retry,          (* #retryTimer is armed                                 *)
    closed,         (* #closed                                              *)
    closeResolved,  (* the promise of close() has resolved                  *)
    op,             (* the operation that holds #operation                  *)
    (* bookkeeping *)
    seen,           (* history: waits whose result this process has read    *)
    confirmed,      (* history: detach() returned a new record, no warning  *)
    faults, crashes

disk == <<file, images, published>>
process == <<mem, pending, starts, monitor, saw, retry, closed,
             closeResolved, op, seen>>
vars == <<disk, task, process, confirmed, faults, crashes>>

Outcome == {"resolved", "failed"}
Status == {"none", "detached", "pruned"} \cup Outcome
Notification == [wait : Wait, type : {"detached"} \cup Outcome]
Doc == [waits : [Wait -> Status], notifications : Seq(Notification)]

(* A document is one, and not the absence of one. *)
ASSUME DocAssumption == NoDoc \notin Doc

EmptyDoc == [waits |-> [w \in Wait |-> "none"], notifications |-> <<>>]

Monitor == {"off", "reading", "queued", "delay"}

(* An operation first settles an unknown outcome and delivers events       *)
(* (reconcile), then does its own commit, then delivers events (notify).   *)
(* Both deliveries and the commit write documents, in steps.               *)
OpKind == {"idle", "detach", "settle", "deliver", "resume", "list"}
Phase == {"reconcile", "commit", "notify"}
Step == {"ready", "rename", "sync", "over"}
Op == [kind : OpKind, wait : Wait \cup {NoWait}, phase : Phase, step : Step,
       doc : Doc \cup {NoDoc}, warned : BOOLEAN]
Idle == [kind |-> "idle", wait |-> NoWait, phase |-> "commit",
         step |-> "ready", doc |-> NoDoc, warned |-> FALSE]
-----------------------------------------------------------------------------
(* Helpers.                                                                *)

Detached(doc) == {w \in Wait : doc.waits[w] = "detached"}
Settled(doc) == {w \in Wait : doc.waits[w] \in Outcome}

(* The record of w takes a status, and the queue the event that says so.   *)
Moved(doc, w, status) ==
    [waits |-> [doc.waits EXCEPT ![w] = status],
     notifications |-> Append(doc.notifications, [wait |-> w, type |-> status])]

Pruned(doc, W) ==
    [doc EXCEPT !.waits = [w \in Wait |-> IF w \in W THEN "pruned" ELSE @[w]]]

(* #start, for a set of records: nothing once closed, nothing twice. *)
Started(mon, W) ==
    [w \in Wait |-> IF w \in W /\ ~closed /\ mon[w] = "off" THEN "reading"
                    ELSE mon[w]]

Fault ==
    /\ faults < MaxFaults
    /\ faults' = faults + 1

GoTo(phase, step, doc) ==
    op' = [op EXCEPT !.phase = phase, !.step = step, !.doc = doc]

(* Mutation: a failed delivery is not tried again. *)
RearmForgotten == UNCHANGED retry

(* #scheduleDelivery *)
Rearm == retry' = (retry \/ ~closed)

Init ==
    /\ file = EmptyDoc /\ images = {EmptyDoc}
    /\ published = [w \in Wait |-> <<>>]
    /\ task = [t \in Task |-> "running"]
    /\ mem = EmptyDoc /\ pending = NoDoc /\ starts = NoWait
    /\ monitor = [w \in Wait |-> "off"]
    /\ saw = [w \in Wait |-> "none"]
    /\ retry = FALSE /\ closed = FALSE /\ closeResolved = FALSE
    /\ op = Idle
    /\ seen = {} /\ confirmed = {}
    /\ faults = 0 /\ crashes = 0
-----------------------------------------------------------------------------
(* The operations.                                                         *)

(* #exclusive: an unknown outcome is settled by what a read returns, and   *)
(* the monitor it should have started is started.                          *)
Begin(kind, w) ==
    /\ op = Idle
    /\ op' = [Idle EXCEPT !.kind = kind, !.wait = w,
                 !.phase = IF pending = NoDoc THEN "commit" ELSE "reconcile"]
    /\ IF pending = NoDoc
       THEN UNCHANGED <<mem, monitor>>
       ELSE /\ mem' = file
            /\ monitor' = IF file = pending /\ starts # NoWait
                          THEN Started(monitor, {starts}) ELSE monitor
    /\ pending' = NoDoc
    /\ starts' = NoWait
    /\ UNCHANGED <<disk, task, saw, closed, closeResolved, seen, confirmed,
                   faults, crashes>>

(* detach(), with an id never used before. *)
Detach(w) ==
    /\ mem.waits[w] = "none" /\ file.waits[w] = "none" /\ starts # w
    /\ published[w] = <<>>
    /\ Begin("detach", w)
    /\ UNCHANGED retry

Settle(w) ==
    /\ monitor[w] = "queued"
    /\ Begin("settle", w)
    /\ UNCHANGED retry

(* The retry timer. *)
Deliver ==
    /\ retry
    /\ Begin("deliver", NoWait)
    /\ retry' = FALSE

(* resume(), called when the Worker is ready; and list(). *)
Resume ==
    /\ ~closed
    /\ Begin("resume", NoWait)
    /\ UNCHANGED retry

List ==
    /\ pending # NoDoc
    /\ Begin("list", NoWait)
    /\ UNCHANGED retry

(* The read of #exclusive fails: a settle is tried again; a detach, a list *)
(* or a delivery that fails so changes nothing.                            *)
SettleUnreadable(w) ==
    /\ op = Idle /\ pending # NoDoc
    /\ monitor[w] = "queued"
    /\ Fault
    /\ monitor' = [monitor EXCEPT ![w] = "delay"]
    /\ UNCHANGED <<disk, task, mem, pending, starts, saw, retry, closed,
                   closeResolved, op, seen, confirmed, crashes>>

Body(kind) ==
    /\ op.kind = kind /\ op.phase = "commit" /\ op.step = "ready"
    /\ UNCHANGED <<disk, task, mem, pending, starts, saw, retry, closed,
                   closeResolved, seen, confirmed, faults, crashes>>

(* Mutation: the task may have a wait already. *)
DetachBodyAgain ==
    /\ Body("detach")
    /\ IF closed THEN op' = Idle
       ELSE GoTo("commit", "rename", Moved(mem, op.wait, "detached"))
    /\ UNCHANGED monitor

(* A closed service refuses; a task that has a wait keeps it. *)
DetachBody ==
    LET existing == {d \in Detached(mem) : TaskOf[d] = TaskOf[op.wait]} IN
    /\ Body("detach")
    /\ IF closed \/ existing # {} THEN op' = Idle
       ELSE GoTo("commit", "rename", Moved(mem, op.wait, "detached"))
    /\ monitor' = Started(monitor, existing)

(* Mutation: the record that is settled is not counted. *)
ExcessOldOnly(old) ==
    IF Cardinality(old) <= Retention THEN 0 ELSE Cardinality(old) - Retention

(* #pruneTerminal: how many of the older terminal records go, with the one *)
(* that is settled now kept beside the rest.                               *)
Excess(old) ==
    IF Cardinality(old) < Retention THEN 0 ELSE Cardinality(old) + 1 - Retention

(* Commit what the monitor saw, and let go of the oldest terminal records; *)
(* their order is abstracted to a choice.                                  *)
SettleBody ==
    LET doc == Moved(mem, op.wait, saw[op.wait])
        old == Settled(doc) \ {op.wait}
    IN  /\ Body("settle")
        /\ IF op.wait \notin Detached(mem)
           THEN /\ op' = Idle
                /\ monitor' = [monitor EXCEPT ![op.wait] = "off"]
           ELSE /\ \E W \in SUBSET old :
                    /\ Cardinality(W) = Excess(old)
                    /\ GoTo("commit", "rename", Pruned(doc, W))
                /\ UNCHANGED monitor

ResumeBody ==
    /\ Body("resume")
    /\ monitor' = Started(monitor, Detached(mem))
    /\ GoTo("notify", "ready", NoDoc)

DeliverBody ==
    /\ Body("deliver")
    /\ GoTo("notify", "ready", NoDoc)
    /\ UNCHANGED monitor

ListBody ==
    /\ Body("list")
    /\ op' = Idle
    /\ UNCHANGED monitor
-----------------------------------------------------------------------------
(* #persist: replace the document by op.doc.                               *)

(* Mutations: after a failed commit the monitor reads the task again, or   *)
(* ends.                                                                   *)
ThrownReads ==
    IF op.phase = "commit"
    THEN /\ op' = Idle
         /\ monitor' = IF op.kind = "settle"
                       THEN [monitor EXCEPT ![op.wait] = "reading"] ELSE monitor
         /\ UNCHANGED retry
    ELSE /\ GoTo(op.phase, "over", NoDoc)
         /\ Rearm
         /\ UNCHANGED monitor

ThrownStops ==
    IF op.phase = "commit"
    THEN /\ op' = Idle
         /\ monitor' = IF op.kind = "settle"
                       THEN [monitor EXCEPT ![op.wait] = "off"] ELSE monitor
         /\ UNCHANGED retry
    ELSE /\ GoTo(op.phase, "over", NoDoc)
         /\ Rearm
         /\ UNCHANGED monitor

(* #persist threw.  detach() throws, a settle waits and tries again, a     *)
(* delivery gives up until the timer.                                      *)
Thrown ==
    IF op.phase = "commit"
    THEN /\ op' = Idle
         /\ monitor' = IF op.kind = "settle"
                       THEN [monitor EXCEPT ![op.wait] = "delay"] ELSE monitor
         /\ UNCHANGED retry
    ELSE /\ GoTo(op.phase, "over", NoDoc)
         /\ Rearm
         /\ UNCHANGED monitor

(* #persist returned, with a warning if durability is not confirmed. *)
Committed(warning) ==
    /\ op' = [op EXCEPT !.step = "ready", !.doc = NoDoc,
                !.phase = IF @ = "commit" THEN "notify" ELSE @,
                !.warned = @ \/ (warning /\ op.phase = "commit")]
    /\ monitor' = IF op.phase = "commit" /\ op.kind = "detach"
                  THEN Started(monitor, {op.wait}) ELSE monitor
    /\ UNCHANGED retry

Persisting(step) ==
    /\ op.step = step
    /\ UNCHANGED <<published, task, saw, closed, closeResolved, seen,
                   confirmed, crashes>>

(* The document a failed rename leaves. *)
Renamed ==
    /\ file' \in {file, op.doc}
    /\ images' = images \cup {file'}

WriteFails ==
    /\ Persisting("rename")
    /\ Fault
    /\ Thrown
    /\ UNCHANGED <<file, images, mem, pending, starts>>

Rename ==
    /\ Persisting("rename")
    /\ file' = op.doc
    /\ images' = images \cup {op.doc}
    /\ mem' = op.doc
    /\ GoTo(op.phase, "sync", NoDoc)
    /\ UNCHANGED <<pending, starts, monitor, retry, faults>>

(* Rename fails and the probe reads what is there. *)
RenameFails ==
    /\ Persisting("rename")
    /\ Fault
    /\ Renamed
    /\ mem' = file'
    /\ IF file' = op.doc THEN Committed(TRUE) ELSE Thrown
    /\ UNCHANGED <<pending, starts>>

(* Rename fails and so does the probe. *)
RenameUnknown ==
    /\ Persisting("rename")
    /\ Fault
    /\ Renamed
    /\ pending' = op.doc
    /\ starts' = IF op.kind = "detach" /\ op.phase = "commit" THEN op.wait
                 ELSE NoWait
    /\ Thrown
    /\ UNCHANGED mem

Sync ==
    /\ Persisting("sync")
    /\ images' = {file}
    /\ Committed(FALSE)
    /\ UNCHANGED <<file, mem, pending, starts, faults>>

(* Mutation: the directory was not synced, and nobody is told. *)
SyncFailsSilently ==
    /\ Persisting("sync")
    /\ Fault
    /\ Committed(FALSE)
    /\ UNCHANGED <<file, images, mem, pending, starts>>

SyncFails ==
    /\ Persisting("sync")
    /\ Fault
    /\ Committed(TRUE)
    /\ UNCHANGED <<file, images, mem, pending, starts>>
-----------------------------------------------------------------------------
(* #deliverNotifications: publish the first event, persist the rest.       *)

Delivering ==
    /\ op.phase \in {"reconcile", "notify"} /\ op.step = "ready"
    /\ ~closed /\ mem.notifications # <<>>

DeliveryOver ==
    \/ op.step = "over"
    \/ op.step = "ready" /\ (closed \/ mem.notifications = <<>>)

Unsent == [mem EXCEPT !.notifications = Tail(@)]

Publish ==
    /\ Delivering
    /\ LET event == Head(mem.notifications)
       IN  published' = [published EXCEPT ![event.wait] = Append(@, event.type)]
    /\ GoTo(op.phase, "rename", Unsent)
    /\ UNCHANGED <<file, images, task, mem, pending, starts, monitor, saw,
                   retry, closed, closeResolved, seen, confirmed, faults,
                   crashes>>

(* Mutation: an event that cannot be published is dropped. *)
PublishFailsDropped ==
    /\ Delivering
    /\ Fault
    /\ mem' = Unsent
    /\ UNCHANGED <<disk, task, pending, starts, monitor, saw, retry, closed,
                   closeResolved, op, seen, confirmed, crashes>>

PublishFails ==
    /\ Delivering
    /\ Fault
    /\ Rearm
    /\ GoTo(op.phase, "over", NoDoc)
    /\ UNCHANGED <<disk, task, mem, pending, starts, monitor, saw, closed,
                   closeResolved, seen, confirmed, crashes>>

Proceed ==
    /\ op.phase = "reconcile" /\ DeliveryOver
    /\ GoTo("commit", "ready", NoDoc)
    /\ UNCHANGED <<disk, task, mem, pending, starts, monitor, saw, retry,
                   closed, closeResolved, seen, confirmed, faults, crashes>>

(* The operation returns; a monitor that has settled its wait ends. *)
Return ==
    /\ op.phase = "notify" /\ DeliveryOver
    /\ op' = Idle
    /\ monitor' = IF op.kind = "settle" THEN [monitor EXCEPT ![op.wait] = "off"]
                  ELSE monitor
    /\ confirmed' = IF op.kind = "detach" /\ ~op.warned
                    THEN confirmed \cup {op.wait} ELSE confirmed
    /\ UNCHANGED <<disk, task, mem, pending, starts, saw, retry, closed,
                   closeResolved, seen, faults, crashes>>
-----------------------------------------------------------------------------
(* The monitors, close() and the world.                                    *)

Observe(w, status) ==
    /\ monitor[w] = "reading" /\ ~closed
    /\ saw' = [saw EXCEPT ![w] = status]
    /\ monitor' = [monitor EXCEPT ![w] = "queued"]
    /\ UNCHANGED <<disk, task, mem, pending, starts, retry, closed,
                   closeResolved, op, confirmed, faults, crashes>>

(* tmux_read returns a terminal result, or tmux.taskExpired.  Every other  *)
(* answer and every other error leads to another read.                     *)
ReadTerminal(w) ==
    /\ task[TaskOf[w]] = "terminal"
    /\ Observe(w, "resolved")
    /\ seen' = seen \cup {w}

ReadExpired(w) ==
    /\ task[TaskOf[w]] = "expired"
    /\ Observe(w, "failed")
    /\ UNCHANGED seen

MonitorStep(w, from, to) ==
    /\ monitor[w] = from
    /\ monitor' = [monitor EXCEPT ![w] = to]
    /\ UNCHANGED <<disk, task, mem, pending, starts, retry, closed,
                   closeResolved, op, seen, confirmed, faults, crashes>>

(* Mutation: the retry has lost what the monitor saw. *)
RetryForgets(w) ==
    /\ ~closed /\ MonitorStep(w, "delay", "queued")
    /\ saw' = [saw EXCEPT ![w] = "none"]

(* #settleObserved: try again, unless aborted. *)
Retry(w) == ~closed /\ MonitorStep(w, "delay", "queued") /\ UNCHANGED saw

Stop(w) ==
    /\ closed
    /\ MonitorStep(w, "reading", "off") \/ MonitorStep(w, "delay", "off")
    /\ UNCHANGED saw

(* close(): abort the monitors; a settle that waits its turn still gets it. *)
Close ==
    /\ ~closed
    /\ closed' = TRUE
    /\ retry' = FALSE
    /\ UNCHANGED <<disk, task, mem, pending, starts, monitor, saw,
                   closeResolved, op, seen, confirmed, faults, crashes>>

(* Mutation: close() does not wait for the operation under way. *)
CloseResolvesEarly ==
    /\ closed /\ ~closeResolved
    /\ \A w \in Wait : monitor[w] = "off"
    /\ closeResolved' = TRUE
    /\ UNCHANGED <<disk, task, mem, pending, starts, monitor, saw, retry,
                   closed, op, seen, confirmed, faults, crashes>>

CloseResolves ==
    /\ closed /\ ~closeResolved
    /\ \A w \in Wait : monitor[w] = "off"
    /\ op = Idle
    /\ closeResolved' = TRUE
    /\ UNCHANGED <<disk, task, mem, pending, starts, monitor, saw, retry,
                   closed, op, seen, confirmed, faults, crashes>>

(* What a read finds of the task in the registry of the Worker.  A task    *)
(* ends; later its result is pruned.  A task that vanishes with its Worker *)
(* expires without having been terminal.                                   *)
TaskMoves(t, from, to) ==
    /\ task[t] \in from
    /\ task' = [task EXCEPT ![t] = to]
    /\ UNCHANGED <<disk, process, confirmed, faults, crashes>>

(* The power fails, or the process ends, and another opens the document. *)
Restart ==
    /\ crashes < MaxCrashes
    /\ crashes' = crashes + 1
    /\ file' \in images
    /\ images' = {file'}
    /\ mem' = file'
    /\ pending' = NoDoc /\ starts' = NoWait
    /\ monitor' = [w \in Wait |-> "off"]
    /\ saw' = [w \in Wait |-> "none"]
    /\ retry' = FALSE /\ closed' = FALSE /\ closeResolved' = FALSE
    /\ op' = Idle
    /\ seen' = {}
    /\ UNCHANGED <<published, task, confirmed, faults>>

Continue ==
    \/ DetachBody \/ SettleBody \/ ResumeBody \/ DeliverBody \/ ListBody
    \/ Rename \/ Sync \/ Publish \/ Proceed \/ Return

Fails ==
    \/ WriteFails \/ RenameFails \/ RenameUnknown \/ SyncFails \/ PublishFails
    \/ \E w \in Wait : SettleUnreadable(w)

Watch(w) == ReadTerminal(w) \/ ReadExpired(w) \/ Retry(w) \/ Stop(w)

TaskEnds(t) == TaskMoves(t, {"running"}, "terminal")
TaskExpires(t) == TaskMoves(t, {"running", "terminal"}, "expired")

Next ==
    \/ \E w \in Wait : Detach(w) \/ Settle(w) \/ Watch(w)
    \/ Deliver \/ Resume \/ List
    \/ Continue \/ Fails
    \/ Close \/ CloseResolves \/ Restart
    \/ \E t \in Task : TaskEnds(t) \/ TaskExpires(t)

Spec == Init /\ [][Next]_vars

(* File and event calls return, timers fire, and whoever waits its turn in *)
(* #exclusive, a FIFO, gets it although others do.  Callers owe nothing.   *)
Fairness ==
    /\ WF_vars(Continue) /\ SF_vars(Deliver) /\ WF_vars(CloseResolves)
    /\ \A w \in Wait : WF_vars(Watch(w)) /\ SF_vars(Settle(w))

FairSpec == Spec /\ Fairness
-----------------------------------------------------------------------------
(* Properties.                                                             *)

TypeOK ==
    /\ images \subseteq Doc /\ file \in images /\ mem \in Doc
    /\ published \in [Wait -> Seq({"detached"} \cup Outcome)]
    /\ task \in [Task -> {"running", "terminal", "expired"}]
    /\ pending \in Doc \cup {NoDoc}
    /\ starts \in Wait \cup {NoWait}
    /\ monitor \in [Wait -> Monitor]
    /\ saw \in [Wait -> {"none"} \cup Outcome]
    /\ retry \in BOOLEAN /\ closed \in BOOLEAN /\ closeResolved \in BOOLEAN
    /\ op \in Op
    /\ seen \subseteq Wait /\ confirmed \subseteq Wait
    /\ faults \in 0..MaxFaults /\ crashes \in 0..MaxCrashes

Announced(doc, w) ==
    Range(published[w])
        \cup {event.type : event \in
                {n \in Range(doc.notifications) : n.wait = w}}

(* A task has one wait at a time, on disk too: a detach that is repeated,  *)
(* as it must be when its outcome was unknown, finds the wait of before.   *)
OneWaitPerTask ==
    \A d, e \in Detached(file) : TaskOf[d] = TaskOf[e] => d = e

(* "A terminal observation is a fact": once a monitor has read the result  *)
(* of a task, the wait never fails because that result has expired since,  *)
(* however often the commit has to be repeated.                            *)
ResultIsNotLost == \A w \in seen : file.waits[w] # "failed"

(* No state is left unannounced: what any document that may survive says   *)
(* of a wait has been published or is in its queue.                        *)
NothingUnannounced ==
    \A doc \in images : \A w \in Wait :
        /\ doc.waits[w] \in {"detached"} \cup Outcome =>
                doc.waits[w] \in Announced(doc, w)
        /\ doc.waits[w] = "pruned" => Announced(doc, w) \cap Outcome # {}

(* A new wait that detach() returned without a warning survives a power    *)
(* failure at any later moment.                                            *)
ConfirmedSurvives ==
    \A w \in confirmed : \A doc \in images : doc.waits[w] # "none"

(* Once close() has resolved, this process does not touch the document:    *)
(* its successor may own it.                                               *)
QuietOnceClosed ==
    [][(closeResolved /\ closeResolved') => UNCHANGED <<file, published>>]_vars

(* The service implements WaitRegister: the document a read returns is its *)
(* register, whatever the memory of the process says.                      *)
Register == INSTANCE WaitRegister WITH
    record <- file.waits,
    durable <- {doc.waits : doc \in images},
    known <- seen,
    sealed <- closeResolved

ImplementsRegister == Register!Spec

(* A monitored wait is settled after its task has ended, however often the *)
(* commit fails.                                                           *)
EndedTaskSettles ==
    \A w \in Wait :
        (monitor[w] = "reading" /\ task[TaskOf[w]] # "running")
            ~> (file.waits[w] \in {"pruned"} \cup Outcome \/ closed)

(* Every state a wait takes in the document the service works with is      *)
(* published, unless the service closes.  A detach whose rename ended with *)
(* an unknown outcome is not such a move yet: if it did reach the disk,    *)
(* its event is published from the next operation on, which adopts it, and *)
(* no timer asks for one.  Until then NothingUnannounced alone speaks of   *)
(* it: the event is in the document on disk.                               *)
EveryMovePublished ==
    \A w \in Wait : \A s \in {"detached"} \cup Outcome :
        mem.waits[w] = s ~> (s \in Range(published[w]) \/ closed)
=============================================================================
