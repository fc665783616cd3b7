# Verification of portable-devshell

portable-devshell lets an AI client work in a developer's shell. A daemon
(Control) accepts tool calls over MCP, decides whether they may run, schedules
them, and forwards them to Workers, small processes on the machines where the
work is done. This directory holds TLA+ models of parts of Control, the TLC
configurations that check them, and TLAPS proofs about them.

A tool call takes this path: inbound review (approval), rewriting, choice of
the target, scheduler (reserve, queue, execute), transformation of the result,
outbound review, audit. Detached tasks outlive their call; Control waits for
them and announces their end, which may re-enter the model through a goal.

## Contents

| Module | What it models |
| --- | --- |
| `CallAdmission` | abstract: what the scheduler promises its callers |
| `ToolScheduler` | `toolcall/execution/Scheduler.ts` |
| `ToolScheduler_proofs` | proofs: the inductive invariant of `ToolScheduler` |
| `ToolScheduler_refines` | proofs: `ToolScheduler` implements `CallAdmission` |
| `DrainLoop` | the loop of `#drain`, one iteration a step |
| `ToolScheduler_drains` | proofs: lost capacity, the order of starts, and the loop of `#drain` |
| `ApprovalService` | `approval/execution/Service.ts` |
| `ApprovalOutcome` | abstract: one outcome per approval, which its caller and the log may only follow |
| `ApprovalService_proofs` | proofs: all its safety properties, and that it implements `ApprovalOutcome` |
| `WaitService` | `task/wait/index.ts` |
| `WaitRegister` | abstract: a register of wait records that changes in one step |
| `WaitService_proofs` | proofs: all its safety properties, and that it implements `WaitRegister` |
| `GoalContinuation` | `task/goal/storage/State.ts`: the record of a goal and its continuation |
| `RecoveryDelivery` | composes it with the hosts (`packages/mcpapp/src/App.tsx`), Control (`packages/mcp/src/mcpapp/Reentry.ts`, `ActionStore.ts`) and `instance/mcpapp/Reentry.ts` |
| `RecoveryDelivery_proofs` | proofs: a goal is continued once, a directive sent once |
| `ReverseAttachment` | composes `instance/runtime/supervision/Connection.ts`, `instance/transport/reverse/Connections.ts`, `Endpoint.ts` of shared and the credential store of control |
| `ReverseAttachment_proofs` | proofs: the views of a connection agree |
| `WorkerSessions` | composes `instance/model/ToolSessions.ts`, `toolcall/index.ts`, `instance/model/Lifecycle.ts` and `retire()` of `Instance.ts` |
| `WorkerSessions_proofs` | proofs: workspaces of calls, owed releases, the catalog |
| `MC*` | instances of these for TLC |

Paths are relative to `src/packages/core/src`. `PROJECT.json` maps every
definition to its source lines.

## The system

Control is JavaScript: one thread, where a function runs without interruption
up to its next `await`. Every concurrency question is therefore one of what
may run between an await and the code after it. The models take one completed
await, with the synchronous code up to the next one, as one step. Components
serialise their own operations with promise chains (`#exclusive`), but their
`close()` is usually synchronous and cuts in between, and a crash comes
anywhere.

| Component | State | Operations | Hard because | Correct when |
| --- | --- | --- | --- | --- |
| Tool call scheduler | entries by call id, waiting array, closed | reserve, run, release, abort, timeout, end, close | ended work drains in a later microtask; timers and signals race with starts; call ids are reused | limits hold, nothing runnable waits, "retryable" answers are honest, everybody is answered |
| Approval service | store with outboxes, pending map with timers, closed | evaluate, decide, cancel, expire, retire, recover, prune, deliver | `close()` during writes; failed writes; restarts; redelivery | grants are durable, no decision after close, outcomes stand, events neither lost nor reordered |
| Task waits | document on disk, copy in memory, monitors, retry timer | detach, observe, settle, resume, deliver, close | three-step file commit with unknown outcomes; results that expire; power failures | one wait per task, results once read survive, every state is announced, confirmed waits survive |
| Goals, re-entry | goal document, claim, attempt, lease; receipts of Control | set, claim, validate, attempt, report, release, touch | attempts with unknown outcome, stale claims, lost replies, restarts | no message is repeated before the agent moved, a directive is sent once |
| Worker supervision | connection owner, generation, update in progress | attach, refresh, reconnect, update, disconnect | handlers of replaced connections resume after awaits | only the current owner changes the state, nothing serves during an update |
| Worker ownership | set of references, auto and explicit ownership | acquire, release, mark, clear | admission ends during a start; a stop fails | the Worker runs while referenced, stops with the last reference |
| Event stream, snapshots | ring of events, cursor | append, read from, snapshot | gap boundaries, cursor against snapshot | no event is missed without a gap being reported |
| Reverse connections, credentials | active and candidate channel per instance, stored token and the one it replaces | open, promote, roll back, commit, revoke, accept frames | a candidate fails after taking over, a credential goes while it is used | the routes agree, Ready is said to the connection in use, frames accepted in order and once |
| Tool sessions, workspaces, retirement | sessions with calls, opening and closing promise; owner of each workspace; leases | open, activate, call, disconnect, release, refresh, retire | disconnect during opening, shared workspaces, failed releases, retirement at any point | calls have their workspace, no release is forgotten, retirement ends |
| Packet streams | queue, sequence numbers, terminal state | send, accept, finish, cancel, resume | slow consumers, lost connections | messages in order, bounded queue, both sides end |
| Tool call path and audit | audit record per call | review, reserve, run, record | failures between effect and record | a call ends once, its record says how |
| Artifacts, configuration, contexts, extensions, MCP and OAuth, Worker, interfaces | see `PROJECT.json` | | | |

Interactions: the tool call path calls `ApprovalService.evaluate` and awaits
its decision, then `reserve` and `run` of the scheduler, with an abort signal
that reaches both. The instance resumes the waits whenever its Worker has
become ready, and retires approvals and closes the services when it is
removed. Waits read tasks through the same tool call path. Both services
publish to the instance's event log, which clients follow with snapshots.

The hazards of this code, each at its line, are listed in `PROJECT.json` with
the properties that cover them or the module that will.

## ToolScheduler

*State.* `state`, `entries`, `closed` are the fields of the same names; `ticket`
is the position in `#waiting` (the order of pushes; 0 outside it); `finishing`
is the work whose `finally()` has not run; `answer` is the promise of `run()`;
`closeResolved` that of `close()`; `began` records every call whose work was
invoked. What a call asks for (its id, tool and context) is fixed by
constants, so a behaviour of the model is the life of a set of requests.

*Actions.* The class is synchronous, so a method is one action: `Reserve`,
`Queue` (run), `Cancel` (release and abort), `Timeout`, `Close`. Ended work is
two: `Complete` or `Fail` runs `#finish`, and `Finally` the `#drain` that
follows in a later microtask. A timer is a macrotask, so `Timeout` waits until
no microtask is left. `Drain` is written declaratively: the set it starts is
the one whose every member fits beside what runs and what is ahead of it.
`DrainLoop` is the loop of the source as a state machine whose steps are its
iterations, from any typed states with a queue in push order; that both start
the same entries is a theorem (`LoopIsDrain`). The entry it starts next is
`NextToStart`, the two `findIndex` of the source.

*Properties.* `RunningWithinLimits`, `AcceptedWithinLimits`,
`RetryableNeverBegan`, `WorkConserving`, the order of starting
(`FifoWithinClass` and `UrgentFirst`), and the liveness of answers and of close.
`AcceptedWithinLimits` counts the calls that are alive by their states and not
by `#entries`, which the code counts. `MapHoldsLiveCalls`, which says that the
two agree, is proved (`MapCorrect`) and not run: a stale handle that evicts a
later call lets too many in, which breaks `AcceptedWithinLimits`, and breaks
`ImplementsAdmission` too. `UrgentFirst` says that a drain starts a routine call
only if it fits beside all urgent ones it starts, and leaves no urgent call
waiting that would fit without the routine ones. The refinement
`ImplementsAdmission` maps the scheduler to `CallAdmission`: calls are
admitted at most once, withdrawn or executed but not both, within the two
bounds, and the door reports closed in the very step the last call leaves.

*Instances.* `scheduler_safety`: five requests, where two share a call id, two
use an urgent tool and one has no context; one running call at the instance,
depth two; limits of tool and context differ, so that each is the tightest
somewhere. Five is the least number with which the queue is full, a call runs,
and a call that may use the urgent allowance arrives. `scheduler_liveness`:
four requests and tool limits that refuse before the instance does. Deadlock
is not checked: when every request has been answered the model is at its end.

*Fairness.* Timers fire, microtasks run and started work settles (the RPC below
it has its own deadline). Callers owe nothing: a reservation nobody runs or
releases is never required to end, and indeed holds its capacity.

## ApprovalService

*State.* `stored` is the store with the outbox of each record, `published` the
event log; both survive `Restart`. `pending` is the map of that name, `waiter`
the promise each caller holds, `op` the operation that holds `#exclusive`, with
the await it stands at and the record it carries; `ready` and `closed` are the
flags, `retiring` a `retire()` in the queue.

*Actions.* An operation starts when `op` is idle and recovery is done, and then
goes from await to await: `Written` is a store write that returned, `Register`
and `Fence` the checks of `#closed` after it, `Settle` the resolution of the
waiter, `Publish` and `Acknowledge` the delivery of one event, `End` retention
and release of the queue. `WriteFails`, `DeliveryFails` and `PruneFails` are the
calls that fail; `Close`, `Retire` and `Restart` come between any two steps.
The age rule of retention is a free choice, since time is not modelled; the
match of a call against the policy is left out, and every modelled call asks.

*Properties.* `GrantIsDurable`, `NoDecisionOnceClosed`,
`DecisionEventMatchesCaller`, `NoEventLost`, `EventsInOrder` and, under
fairness, `EveryWaiterAnswered`. Some of them except `halfFenced` approvals,
which leads to the finding below.

The refinement `ImplementsOutcome` maps the service to `ApprovalOutcome`, which
has no queue, awaits, cache or outbox: an approval is asked once, settled once
with its caller answered in the same step, announced as it was settled, and
forgotten only when announced. A decision needs an open door and a caller that
waits. Between the write of a terminal status and the resolution of its caller
the outcome is still `"pending"` (`Unresolved`), because the fence may write the
status over; so the point at which an approval is settled is `Settle`, after all
awaits, and a restart in between is the crash that settles one approval
(`Torn`). An approval whose fence failed is `"disputed"`, the weak spot of the
promise. `OutcomeStands`, which says that a stored outcome does not change,
follows the stored status instead of the settled one; it is proved
(`OutcomesStand`) and not run, since what breaks it breaks the refinement.

*Instances.* Two approvals (interchangeable, hence the symmetry), retention of
one record, two failing calls and one restart: enough for a failure inside the
recovery after a failure, for retention to choose, and for two approvals to
interleave. For liveness no symmetry, one failure, no restart.

*Fairness.* Awaited calls return (weak fairness of `Continue`). The timer of an
approval needs strong fairness: it queues in `#exclusive`, a FIFO, and is armed
again when its expiry fails, so it gets its turn although it is disabled while
others hold the queue.

*Finding* (`approval_fence`). The comment at `Service.ts:493` says that a
decision overtaken by `close()` is terminalized as a cancellation. The second
write that does so may itself fail, or the process may end between the two.
The record then stays approved with its event in the outbox, and the next
`getApproval` or recovery publishes "approved", though the caller was told
"cancelled". The call itself is not let through: `NoDecisionOnceClosed` holds.

## WaitService

*State.* `file` is the document a read returns, `images` the documents a power
failure may leave (what has been renamed since the last directory sync),
`published` the event log, `task` what the Worker answers about each task.
`mem` is the copy in memory, `pending` and `starts` the two fields of
`#pending`, `monitor` and `saw` the monitor of each wait and the terminal
status it has to commit, `retry` the delivery timer, `op` the operation in
`#exclusive`. `seen` and `confirmed` record what a caller or monitor was told.

*Actions.* An operation settles an unknown outcome first (`Begin`, phase
`reconcile`), then commits (its `...Body`), then delivers events (`notify`).
Every document goes through `#persist`: `Rename` then `Sync`, or one of
`WriteFails` (nothing happened), `RenameFails` (the probe reads what is there),
`RenameUnknown` (the probe fails too) and `SyncFails` (committed, unconfirmed).
Monitors read a task until it is terminal or expired, settle, and retry the
commit of what they saw. `Close`, `CloseResolves`, `Restart` and the moves of
the tasks come between any two steps.

*Properties.* `OneWaitPerTask`, `ResultIsNotLost`, `NothingUnannounced`,
`ConfirmedSurvives`, `QuietOnceClosed`; under fairness `EndedTaskSettles` and
`EveryMovePublished`. `ConfirmedSurvives` speaks of new records only: a
repeated detach that finds its wait returns it without a warning, also when
the durability of that wait was never confirmed. `EveryMovePublished` speaks of
the document in memory. A detach whose rename ended with an unknown outcome
throws and arms no timer, so an event that did reach the disk stays in the file
until the next operation has settled the outcome, and callers owe none; that it
is not lost meanwhile is `NothingUnannounced`.

The refinement `ImplementsRegister` maps the service to `WaitRegister`, which
has no documents, no commit protocol and no unknown outcomes. The register is
the file a read returns (`file.waits`), and its durable contents are those of
`images`. It changes in one step, the rename, whatever the process believes of
that commit: detaching a wait of a free task, or settling one and forgetting
just as many settled waits as exceed the retention (`Excess`). A power failure
restores one of the durable contents, all of which hold the confirmed waits,
and nothing changes once `close()` has resolved.

*Instances.* Two waits on the same task, so that a repeated detach and
retention (one record) happen, two failing calls (the least that make an
outcome unknown and then disturb its settlement) and one power failure. What a
read of a task finds comes from the registry of the Worker
(`tool/tmux/state/`), reduced to running, terminal and expired, and it may move
at any time; that a pruned task is adopted again from a pane which could not be
cleaned up is left out. For
liveness one wait and no power failure. Deadlock is not checked, since a
closed service stops.

*Fairness.* File and event calls return, timers fire, a monitor reads again,
and whoever waits in the FIFO gets its turn. Callers owe nothing; the failures
are bounded, so a retry succeeds in the end.

## GoalContinuation and RecoveryDelivery

*State.* `goal` is the stored goal: `status`, `revision`, the claim and what
became of it (`attempted`, `fresh`), `epoch` for the progress the agent made,
and `covered`, the progress a continuation has already answered. `receipt` is
what Control stores of each directive of the user, `live` the owner it has
confirmed since its start. `calls` are the requests on their way, `pc`, `kind`
and `sent` the hosts. `grant` is history: the revision and epoch under which an
automatic operation got its claim.

*Actions.* A host goes `Start`, then claim, validate, attempt, `Send`, report,
or release when it gives up; `HostError` and `HostVanishes` interrupt it. Each
request is taken up by Control (`Queue`, `AskFor`: the receipt is written
before the instance is asked), by the instance (`Read`, `Act`: one request of a
context at a time, what to do is decided on the goal that was read, the store
then decides again), and answered (`Answered`, which writes the receipt and
takes a claim back that nobody can use). `AnswerLost` and `ReplyLost` are the two
legs, `Restart` is one of Control alone: the requests it had sent go on at the
instance as orphans. `Touch`, `Manage`, `UserResume`, `LeaseEnds`, `ClaimAges`,
`LiveClaimAges` and `RetryDue` are the agent, the user and time. The decisions
on a goal are functions of the record, in `GoalContinuation`.

*Properties.* `OncePerEpoch`: automatic operations send at most one message that
may have arrived while the goal stands at one revision and one epoch.
`DirectiveSentOnce`: what the user asked for once is sent by one host only, also
over takeovers and restarts. `TypeOK` includes that a pending attempt has a
claim.

*Instances.* Two hosts, one directive, one change of the goal and one fault: the
least with which a second host can take over from a first one that was late
rather than gone, with a change in between.

*Observed.* The code fails closed: when an attempt is refused with an error
because its claim was replaced meanwhile, the receipt stays started and the
directive is never offered again. `DirectiveSentOnce` says nothing against that,
and there is no liveness property here for that reason.

## ReverseAttachment

*State.* `cred` is the stored token and the one it replaces, `queue` and `act`
the serialized activations of the credential store and the stage of the one
under way, `net` the channels (`open`), the `gateway` of `Endpoint`, the
`active` connection of `Connections`, the owner token and the readiness of
supervision; `gen` the admitted generation, `update` the staged update with its
timer, `expiring` the owner for which an expiry still awaits, `state` the
connection state of the instance, `told` the connections that heard Ready.

*Actions.* One dial goes through `Dial`, `Admit`, `LinkOpened`, `Verified`,
`Promoted`, then `Announce`, `Negotiate`, `Updating` and `StagedReply` or
`CatalogRead` and `Connected`, then `Commit` (the late commit of a token). Each
is what runs between two awaits, and each re-checks the owner where the code
does (`IsCurrent`). `HandshakeFails` rolls back as `Endpoint.reconnect` does,
`Failing` as the handler does. `HangUp`, `Disconnect`, `Enroll`, `Withdraw`,
`LossNoticed`, `Expire`, `ExpiryEnds`, `RefreshStatus` and `RefreshAnswered`
come between any two.

*Properties.* `RoutesAgree`, `ServingIsReady`, `NothingServesDuringUpdate`, and
the action property `ReadyToldToServing`. Its second half, `GenerationAdvances`,
relates the generation an activation announces with the one the instance had
admitted, several awaits after `Admit` compared them: it is newer, or the
connection brings the credential that is to replace the one in use, for which
the comparison is skipped. `ServingIsReady` also covers a refresh that fails
after a candidate has taken the gateway: taken for an answer of the candidate
(`AnyLinkAsked`), it closes that and takes the ownership, and the predecessor,
back on the gateway when the cutover then fails, is not ready any more.

*Instances.* `reverse_safety`: three dials, so that a replacement can meet a
serving connection and a third one the remains of both; two credentials, one
connection waiting. Deadlock is not checked, since dials are bounded.

*Finding* (`reverse_strand`). The comment at `Connection.ts:413` says that the
expiry of an update must not strand a replacement that has been verified. When
the timer fires after the replacement has announced the connected state and
before its negotiation ends, the expiry leaves it the owner token, since the
gateway is no longer the link the update was staged on, but overwrites the state
with `failed`. The replacement then finds that it is current and not ready: it
does not take readiness, leaves the update staged and returns, and stays on the
gateway of a failed instance. Two dials show it.

*Observed, and not among the runs.* While the handler of a lost link awaits the
append of its event, a new link may open as the gateway and fail its
verification: `Endpoint.disconnect()` is silent, the older handler finds that
it has been superseded, and the state stays `connected` without a gateway
until the next refresh. `docs/operations/reverse-connections.md:313` says that
the instance goes offline. The rollback at `Connections.ts:100` restores a
predecessor that is never there at that point.

## WorkerSessions

*State.* `ses` is `#sessions` of `ToolSessions.ts`: `stage` of the opening,
`active`, `calls`, `released`, `closing` (the promise: not there, awaiting the
opening and the calls, or in the chain), `aborted` the signal, `gone` the
stream, `lease` that of the opener. `owner` is the map `sessions` of
`toolcall/index.ts`, `ops` its promise chain `sessionTail`, `prepared` the
workspaces the Worker has confirmed and not released. The links lead to one
Worker, which outlives them. `tools` is the link (numbered in the order of opening; the
identity of the connection), the link the catalog came from, and who is reading
it. `life` is the phase of `InstanceLifecycle` and the `retire()` under way.

*Actions.* `Open`, `Activate`, `Close`, `Disconnect`, `Call`, `CallEnds` are the
stream and the calls under it. An opening passes the chain: `PrepareAnswered`,
`ToolsAnswered`, or `Undo` and `UndoAnswered` when it fails. A release awaits
both its opening and its calls (`Proceed`), passes the chain
(`ReleaseAnswered`), closes the stream and settles (`Settled`), or fails at any
of these and is owed again. `LinkBreaks` and `LinkOpens` are the endpoint,
`RefreshTools` and `RefreshAnswered` the refresh when the instance becomes
ready. `Retire`, `ReleaseAll`, `RetireEnds` are `Instance.retire()`, which may be
repeated when it failed.

*Properties.* `CallsHaveWorkspace`: a session in use owns a workspace the Worker
holds, whatever its co-owners do. `NoReleaseForgotten`: every workspace the
Worker has confirmed and still holds has an owner that still owes its release,
and nothing is left of an instance that retired. `CatalogNeverOlder`: an answer that was overtaken by a
new link never replaces a newer catalog. Under fairness `RetireSettles`.

*Instances.* `session_safety`: two sessions that share a workspace or not (two
workspaces), one call each, two failing answers (one in an opening, one in the
release that undoes it) and two links. `session_liveness`: one workspace, one
failure, one link. Deadlock is not checked, since a retired instance stops.

*Fairness.* The abort signal reaches every call, so calls end; the Worker
answers or its link breaks, which is an answer too; the promise chains go on.
Nobody has to open, activate, call or close anything.

## Runs

| Run | Question |
| --- | --- |
| `scheduler_safety` | limits, honesty of answers, no lost capacity, refinement |
| `scheduler_liveness` | is everybody answered, does close resolve |
| `approval_safety` | durability, fence, outbox and order of events, refinement |
| `approval_liveness` | does an undecided caller get an answer |
| `approval_fence` | the comment on the fence, refuted |
| `wait_safety` | uncertain commits, duplicates, results, power failures, refinement |
| `wait_liveness` | settlement and publication |
| `recovery_safety` | is a message ever repeated, or a directive sent twice |
| `reverse_safety` | do routes, readiness and what Workers are told agree |
| `reverse_strand` | the comment on the expiry of an update, refuted |
| `session_safety` | shared workspaces, owed releases, the catalog, retirement |
| `session_liveness` | does retirement end |

The largest runs (`recovery_safety`, `reverse_safety`, `session_safety`) visit
one to two million states in about a minute each.

Each property has a mutant in `PROJECT.json`: a plausible bug in a mapped
definition under which TLC finds that property violated. The mutated forms
stand in the modules before the definitions they change.

## What is proved

Every safety and action property of the passing runs is proved for every value
of the constants:

- `ToolScheduler_proofs`: `TypeCorrect`, `MapCorrect`, `RunningBounded`,
  `AcceptedBounded` and `RetryIsSafe`, from `Invariant`, which says that their
  strengthening `IInv` is inductive;
- `ToolScheduler_refines`: `Refinement`, that the scheduler implements
  `CallAdmission`;
- `ToolScheduler_drains`: `NothingRunnableWaits` (`WorkConserving`),
  `StartInOrder` (`FifoWithinClass`), `UrgentStartsFirst` (`UrgentFirst`), and
  of `DrainLoop` that it computes the drain (`LoopIsDrain`) and ends
  (`LoopEnds`);
- `WorkerSessions_proofs`: `UsedWorkspaceIsHeld` (`CallsHaveWorkspace`),
  `ReleasesAreOwed` (`NoReleaseForgotten`) and the action property
  `CatalogAdvances` (`CatalogNeverOlder`);
- `ApprovalService_proofs`: `GrantsAreDurable` (`GrantIsDurable`),
  `DecisionsMatch` (`DecisionEventMatchesCaller`), `EventsAreKept`
  (`NoEventLost`), `EventsAreOrdered` (`EventsInOrder`), the action
  properties `ClosedIsFenced` (`NoDecisionOnceClosed`) and `OutcomesStand`
  (`OutcomeStands`), and `Refinement`, that the service implements
  `ApprovalOutcome`;
- `WaitService_proofs`: `TasksHaveOneWait` (`OneWaitPerTask`), `ResultsAreKept`
  (`ResultIsNotLost`), `StatesAreAnnounced` (`NothingUnannounced`),
  `ConfirmedIsDurable` (`ConfirmedSurvives`), the action property
  `ClosedIsQuiet` (`QuietOnceClosed`), and `Refinement`, that the service
  implements `WaitRegister`;
- `RecoveryDelivery_proofs`: `SentOncePerEpoch` (`OncePerEpoch`) and
  `SentOncePerDirective` (`DirectiveSentOnce`);
- `ReverseAttachment_proofs`: `RoutesAlwaysAgree` (`RoutesAgree`), `ToldIsReady`
  (`ServingIsReady`), `NothingServes` (`NothingServesDuringUpdate`), and the
  action property `ReadyToServing` (`ReadyToldToServing`).

The last five modules each have `TypeCorrect` (`TypeOK`) and `Inductive`, which
says that their `IInv` is an invariant. TLC had checked every `IInv` on the
instance of the component's safety run before it was proved.

The assumptions are those of the modules, and concern constants only: a value
that stands for "none" is none of the things it replaces (`NoId`, `NoWait`,
`NoDoc`, `NoOp`, `NoWorkspace`, `Automatic`), bounds and limits are natural, a
wait has a task (`WaitAssumption`), at least one wait is retained, and at least
one credential exists (`ReverseAssumption`). Requests, approvals and waits are
finite sets; sessions, workspaces, operations and directives may be any. The
bounds that TLC needs (failures, crashes, links, dials, changes) are arbitrary
numbers in the theorems.

*The invariant of the scheduler.* The limits are not inductive by themselves.
The code counts `#entries`, `AcceptedWithinLimits` and `RunningWithinLimits`
speak of states. What is inductive is the bound on what is counted
(`CountedWithinLimits`), and `MapHoldsLiveCalls` makes it one on what is alive;
`RetryableNeverBegan` needs that a state determines what the caller was told
(`AnswerOf`); and the drain needs that queued entries hold different tickets
(`QueueOrder`). The drain starts several calls at once, and the limit holds for
each only beside those ahead of it. `DrainWithinLimits` closes that gap: of the
started calls that count against a limit, the last in the order of `Ahead`
(`LastInOrder`, which takes the greatest ticket) was admitted beside all the
others, so one more fits (`OneMore`). No induction is needed. From there on
every action is a drain, a set of finished calls, or both, and `DrainStep`,
`FinishStep`, `WithdrawStep` and `EndStep` carry the invariant through each.

*The refinement of the scheduler.* It needs `DoorInv` besides: a closed scheduler has nothing
left that waits, so a drain never starts work behind a closing door, and each
entry of the map is filed under its own call id, so that an empty map means an
empty room (`NobodyInside`) and `close()` resolves in the very step in which
`CallAdmission` closes the door. `MoveStep` maps everything that drains.

*The drains.* Running more calls never makes another one runnable
(`CanRunShrinks`). Hence a call the drain passed over still cannot run when the
drain is over (`DrainConserves`), and if the drain started the later of two
calls of one class, the earlier one, which met fewer calls ahead of it, had room
as well (`DrainInOrder`). What an urgent call met is urgent or ran before, and a
routine call met all urgent ones that were started (`DrainUrgentFirst`).

*The loop.* What the recursion of `#drain` computes cannot be shown by induction
over data here, but it can by an invariant over its iterations. `LoopInv` says
that whatever can still run comes after all that was started, and whatever
cannot was passed over because of what is ahead of it; the second part survives
an iteration because running more only shrinks what can run (`CanRunShrinks`),
the first because the loop takes the first entry that can (`FirstInOrder`). When
nothing can run any more, `LoopInv` is `IsDrained`, and no other set satisfies
that (`OneDrain`: two such sets agree up to the first entry they differ in).
`IsDrained` therefore never leaves `Drain` without a choice or with two. TLC
checked `LoopInv`, `LoopDrains` and `LoopAdvances` from every situation of the
five requests of `scheduler_safety` before they were proved.

*The sessions.* `CallsHaveWorkspace` breaks in one step of `Activate` unless
whatever is open and not aborted has its workspace (`OpenHasWorkspace`), and
that breaks at the end of an opening unless the reader of the catalog at the
head of the chain has its own (`ReaderHasWorkspace`). A release takes a
workspace away, so it has to be known of every operation in the chain what its
session is doing (`OpsMatch`): a queued release has no calls and admits none, an
opening was never open. That needs that a session has at most one operation in
the chain, which is part of `TypeOK`; `Popped`, `Pushed` and `NoneOf` carry it
through the chain. Other owners of the same workspace are untouched because only
the last owner takes it (`ReleaseKeeps`).

`NoReleaseForgotten` has an invariant of its own beside `IInv`, `Owed`. A
workspace that the Worker holds has an owner (`ConfirmedIsOwned`), and an owner
is a session whose release is still to come (`OwnersAreKept`), so nothing may
overwrite the entry of a session: an opening that has not asked the Worker yet
owns nothing (`OpeningOwnsNothing`). `retire()` waits for every session that is
left unless one of their releases has failed (`RetireWaits`). The catalog needs
only that links are numbered in the order of opening and that a refresh is
applied for the link it was read from (`LinksAreNumbered`).

*The approvals.* None of the properties is inductive, because each speaks of two
of the places an approval is kept at: the store, the log, the cached record, the
promise of the caller. `IInv` says, for each approval, how all of them fit
together at the step the operation under way has reached with it (`Sound`,
`StepFits`), and that recovery still comes to whatever is pending
(`RecoverFits`). For an approval in `halfFenced` (its fencing write failed, or
the process died before it) much less is true, and `HalfFencedFits` says what
remains; that set is the finding above. An operation changes one approval only,
so the others are carried through by lemmas about what stays the same.

*The refinement of the approvals.* `IInv` suffices. An operation changes the
outcome of at most one approval, so each step is described by what it leaves of
the outcomes (`OneOutcome`, `OutcomesKept`). Most steps of an operation are
stutters: starting one, the writes of a terminal status (`CommitAside`), the
acknowledgement of an event, each with its lemma `...Aside`. The rest are
`AppendAsks`, `RegisterAnswers`, `SettleSettles`, `FenceSettles`,
`PublishAnnounces`, `PruneForgets`, `RetireShuts` and `CloseCloses`; a failed
fence becomes `Dispute` in `FailedWrite`. `RestartCrashes` has the case that matters most: the status stored for the unresolved approval
becomes its outcome, and it may be a decision only if the door was open and the
caller waited, unless the fence was due, which makes it disputed.

*The waits.* `IInv` distinguishes three sets of documents: those a power failure
may bring back (`images`), those this process works with (`Held`), and all of
them (`Live`). What every document has to satisfy by itself (`DocsSound`: one
wait per task, every state announced, confirmed waits present) is kept for all
of `Live`, since any of them may become the file. What monitors have seen
constrains `Held` only, because a restart forgets the monitors together with
what they saw. `OpFits` says that memory and file agree on the waits whenever an
operation runs, although a commit with an unknown outcome leaves them apart:
then no operation runs, and the next one begins by reading the file.

*The refinement of the waits.* `IInv` does not say why the document being put
in place is there, and the rename, which is the step that changes the register,
has to be explained by it. `Planned` adds that: while a commit is before its
rename, `op.doc` differs from what is in place by one detached wait of a free
task, by one settled wait and what it pushes out (`LetsGo`), or only in its
events. TLC checked `Planned` on the instance of `wait_safety` first. It is
established by the bodies of the operations (`DetachPlans`, `SettlePlans`, with
the arithmetic of retention in `RetentionHolds`), and kept until the rename
because only the operation itself writes the file (`PlanKept`). The same step
then serves a rename that returns, one that reports a failure but happened, and
one nobody can probe (`Renames`, `PlaceDoc`). `SyncSaves`, `ReturnConfirms`,
`ReadLearns` and `RestartRestores` are the other steps that move the register;
every other one is a stutter.

*The goal and its continuation.* There are two halves. For automatic operations
the goal remembers: whoever may send has spent the revision and the epoch of its
claim (`Spent`), since an attempted claim goes only when the epoch is covered,
the revision changes, or its owner reports that nothing arrived; and two
operations that may send had different grants (`SendersFit`). For a directive
the receipt remembers: while a request is in flight the receipt stands still and
is what the request expects (`Expects`), there is one request at a time, and
once its owner may have sent it nobody takes it over (`DirectiveFits`). Both rest
on the discipline of the hosts (`CallFits`, `HostFits`): what a call on its way
says of where its caller stands, also when the caller has gone or the call
outlived a restart of Control (an orphan).

*The reverse connections.* The four views are related by the stage of the
activation under way. `RoutesFit` says for every stage where both routes lead:
while a candidate is probed they keep its predecessor as long as that is open,
after the cutover the route of Connections is empty until the activation
returns. `ReadyFits` says who is ready, what a staged update forbids, and that an
activation which will say Ready still can. `ToldFits` extends `ServingIsReady` to
a predecessor that gets its route back when the candidate fails: it must be
ready although it is not the gateway meanwhile. `QueueFits` keeps waiting
connections apart from all that are in use. The parts are predicates on
records, so what the close of a channel does to them is shown once
(`CutsKeep`), for hanging up, refusal, withdrawal and timers alike.

The generations have an invariant of their own beside `IInv`, `GenFits`: until
it is announced, the connection of the activation is newer than the admitted
generation or replaces a credential, and from then on it is the admitted one.

*Only model-checked.* Liveness, which TLAPS cannot treat. The two findings are
counterexamples, which TLC shows.

## Plan

Modules, in this order:

1. `ToolScheduler`, `CallAdmission`, proofs: done. 2. `ApprovalService`: done.
   3. `WaitService`: done.
4. `GoalContinuation`, `RecoveryDelivery`: done. 5. `ReverseAttachment`, which
   became one composition of supervision, reverse connections, endpoint and
   credentials, since their hazards lie between them: done.
6. `WorkerSessions`, with its proofs: done.
7. `WorkerOwnership`: the references that start and stop the Worker. Read so
   far: the start for a first reference and the release of the last one are
   serialized only in part, and a failed handshake leaves the process running.
8. `EventStream`: ring and gaps, composed with a snapshot reader.
9. `PacketStream`.
10. `ToolCallPipeline`: composes `ApprovalService` (through `ApprovalOutcome`)
   with `ToolScheduler` (through `CallAdmission`) and the audit record.

Abstract specifications worth stating: `CallAdmission`, `ApprovalOutcome` and
`WaitRegister` (done); the delivery of a message at most once for goals; a
gap-free log for the event stream.

Runs: one safety run per module with failures and one restart, and a liveness
run where something must happen; two or three actors each, since every hazard
listed involves at most two operations and one interruption.

Theorems still worth proving: that `RecoveryDelivery` and `ReverseAttachment`
implement abstract specifications of what they promise, as the first three
components do, and the invariants of the modules to come.

## Not modelled

Transport encoding, file formats, the audit database, OAuth, provisioning and
the user interfaces: conversions and I/O. The Worker, the extension host and
the artifact store have protocols of their own and come after the plan above.

Left out of the modelled components:

- `RecoveryDelivery`: `recordReentry` and the retire and reset actions (nothing
  calls them), the start of a second goal, streaks and counts, the activity
  journal, receipts that cannot be written, revocation of a context.
- `ReverseAttachment`: upstream batches, their sequence numbers and the overlap
  rule of SSE streams; reliable frames over WebSockets; `Connections.stop()` and
  the close of the instance; the start and reconnect loop of a Worker that
  Control manages itself; `acceptReverseChannel` and `stopSelfManaged` (nothing
  calls them); messages to the Worker about the state of its update; the
  sharing of one reconnect promise.
- `WorkerSessions`: a prepare whose reply was lost after the Worker had done it
  (nobody here owns that workspace; preparing it again finds the same
  directories, and the Worker collects temporary ones by age, so it is modelled
  as not done); the sessions that connections of Control open by the same chain, which
  are owners like any other; the leases of the other routes; the registration of
  the tools with Control; the checks of owner, token and generation; an instance
  without a handshake; `close()` of `toolcall/index.ts`, which finds no owner
  after a retirement that succeeded.
