--------------------------- MODULE RecoveryDelivery ---------------------------
(***************************************************************************)
(* How a Goal that went quiet is continued.  A Host (an iframe of          *)
(* packages/mcpapp/src/App.tsx) runs one recovery operation: claim,        *)
(* validate, attempt, send the message, report; or release when it gives   *)
(* up.  Each request passes Control (packages/mcp/src/mcpapp/Reentry.ts),  *)
(* which for a message the user asked for keeps a durable receipt          *)
(* (ActionStore.ts), and the Instance                                      *)
(* (packages/core/src/instance/mcpapp/Reentry.ts), which serializes the    *)
(* requests of a Context and asks the Goal (GoalContinuation).             *)
(*                                                                         *)
(* Several Hosts show the same Goal.  A Host may vanish at any point, a    *)
(* reply may be lost on either leg, and Control may be restarted while the *)
(* Instance goes on with the requests it was sent.                         *)
(***************************************************************************)
EXTENDS GoalContinuation, FiniteSets

CONSTANTS
    Directive,      (* the user's requests to resume the Goal               *)
    Automatic,      (* an operation that no directive asked for             *)
    MaxChanges,     (* bound: revisions and progress of the Goal            *)
    MaxFaults       (* bound: replies lost, Hosts gone, Control restarted   *)

ASSUME DeliveryAssumption ==
    /\ Automatic \notin Directive
    /\ MaxChanges \in Nat /\ MaxFaults \in Nat

VARIABLES
    goal,       (* the stored Goal                                          *)
    receipt,    (* the stored receipt of each directive                     *)
    live,       (* #liveClaims: the owner this Control has confirmed        *)
    calls,      (* requests on their way                                    *)
    pc,         (* what each operation does, or the reply it waits for      *)
    kind,       (* what each operation is for                               *)
    sent,       (* what became of its message                               *)
    grant,      (* history: revision and epoch of an automatic claim        *)
    faults

control == <<receipt, live>>
hosts == <<pc, kind, sent>>
vars == <<goal, control, calls, hosts, grant, faults>>

Awaiting == {"claim", "validate", "attempt", "report", "release"}
Outcome == {"accepted", "rejected", "unknown"}
ReceiptStatus ==
    {"none", "prepared", "applied", "claiming", "attempting", "attempted",
     "reporting", "settled", "conflicted"}

(* A request: waiting at Control, at the Instance, or answered there. The  *)
(* caller of an orphan is gone. "cleanup" is the release by which Control  *)
(* takes back a claim whose answer it could not pass on; "from" is the     *)
(* owner a claim takes the directive over from, itself when it is first.   *)
Call ==
    [op : Op, act : Awaiting \cup {"cleanup"},
     stage : {"new", "waiting", "asked", "reading", "answered"},
     do : {"none", "claim", "validate", "attempt", "report", "release"},
     answer : {"none", "yes", "no", "duplicate", "error"},
     from : Op \cup {NoOp}, orphan : BOOLEAN]

(* Control has nothing to look up for an operation without a directive. *)
NewCall(c, act, what) ==
    [op |-> c, act |-> act,
     stage |-> IF what = Automatic THEN "asked" ELSE "new", do |-> "none",
     answer |-> "none", from |-> NoOp, orphan |-> FALSE]

TypeOK ==
    /\ goal \in Goal
    /\ Pending(goal) => goal.claim # NoOp
    /\ goal.covered <= goal.epoch /\ goal.claimEpoch <= goal.epoch
    /\ receipt \in [Directive -> [status : ReceiptStatus, started : BOOLEAN,
                                  claim : Op \cup {NoOp}]]
    /\ live \in [Directive -> Op \cup {NoOp}]
    /\ calls \subseteq Call
    /\ pc \in [Op -> {"idle", "send", "done"} \cup Awaiting]
    /\ kind \in [Op -> Directive \cup {Automatic}]
    /\ sent \in [Op -> {"none"} \cup Outcome]
    /\ grant \in [Op -> Nat \X Nat]
    /\ faults \in 0..MaxFaults

Init ==
    /\ goal = StartedGoal
    /\ receipt = [d \in Directive |->
                    [status |-> "none", started |-> FALSE, claim |-> NoOp]]
    /\ live = [d \in Directive |-> NoOp]
    /\ calls = {}
    /\ pc = [c \in Op |-> "idle"]
    /\ kind = [c \in Op |-> Automatic]
    /\ sent = [c \in Op |-> "none"]
    /\ grant = [c \in Op |-> <<0, 0>>]
    /\ faults = 0

Fault == faults < MaxFaults /\ faults' = faults + 1

-----------------------------------------------------------------------------
(* The agent, the user and time.  The resume a directive stands for is not *)
(* counted as a change.                                                    *)

MayChange == goal.revision + goal.epoch < MaxChanges + 2

Touch ==
    /\ goal.status = "active"
    /\ \E k \in {"execution", "mutation"} :
        /\ k = "mutation" => MayChange
        /\ goal' = Touched(goal, k)
    /\ UNCHANGED <<control, calls, hosts, grant, faults>>

Manage ==
    /\ MayChange
    /\ \/ \E to \in {"held", "ended"} :
            CanMove(goal, to) /\ goal' = Revised(goal, to)
       \/ \E changes \in BOOLEAN :
            goal.status # "ended" /\ goal' = Updated(goal, changes)
    /\ UNCHANGED <<control, calls, hosts, grant, faults>>

(* The user resumes the Goal: the receipt is prepared before the Instance  *)
(* is asked and applied after it has answered.                             *)
UserResume(d) ==
    /\ CanMove(goal, "active")
    /\ receipt[d].status = "none"
    /\ goal' = Revised(goal, "active")
    /\ receipt' = [receipt EXCEPT ![d].status = "prepared"]
    /\ UNCHANGED <<live, calls, hosts, grant, faults>>

ResumeAnswered(d) ==
    /\ receipt[d].status = "prepared"
    /\ \E status \in {"applied", "conflicted"} :
        receipt' = [receipt EXCEPT ![d].status = status]
    /\ UNCHANGED <<goal, live, calls, hosts, grant, faults>>

(* Nobody asks for the lease or the retry time of a Goal that is not       *)
(* active, and resuming it sets both anew.                                 *)
LeaseEnds ==
    /\ goal.status = "active" /\ ~goal.leaseOver
    /\ goal' = [goal EXCEPT !.leaseOver = TRUE]
    /\ UNCHANGED <<control, calls, hosts, grant, faults>>

(* The lease is a minute, and whatever restarts it clears the claim; a     *)
(* claim lives five.                                                       *)
ClaimAges ==
    /\ goal.fresh /\ goal.leaseOver
    /\ goal' = [goal EXCEPT !.fresh = FALSE]
    /\ UNCHANGED <<control, calls, hosts, grant, faults>>

RetryDue ==
    /\ goal.status = "active" /\ ~goal.retryReady
    /\ goal' = [goal EXCEPT !.retryReady = TRUE]
    /\ UNCHANGED <<control, calls, hosts, grant, faults>>

LiveClaimAges(d) ==
    /\ live[d] # NoOp
    /\ live' = [live EXCEPT ![d] = NoOp]
    /\ UNCHANGED <<goal, receipt, calls, hosts, grant, faults>>

-----------------------------------------------------------------------------
(* The Host.  What it does next depends on the answer, and at every step   *)
(* it gives up if its scope is no longer current.                          *)

After(act, answer) ==
    CASE act = "claim" -> IF answer = "yes" THEN {"validate", "release"}
                          ELSE {"done"}
      [] act = "validate" -> IF answer = "yes" THEN {"attempt", "release"}
                             ELSE {"release"}
      [] act = "attempt" -> IF answer = "yes" THEN {"send", "report"}
                            ELSE IF answer = "error" THEN {"report"}
                            ELSE {"release"}
      [] act \in {"report", "release"} -> {"done"}

(* What Host c reports: uncertain unless the message was answered. *)
Accepted(c) == sent[c] = "accepted"
Uncertain(c) == sent[c] \notin {"accepted", "rejected"}

Requests(c, next) == IF next \in Awaiting THEN {NewCall(c, next, kind[c])} ELSE {}

(* k is over: its caller, if it still waits for it, is told the answer. *)
Reply(k, answer) ==
    LET c == k.op
        act == IF k.act = "cleanup" THEN "claim" ELSE k.act
    IN  IF pc[c] = act /\ ~k.orphan
        THEN \E next \in After(act, answer) :
                /\ pc' = [pc EXCEPT ![c] = next]
                /\ calls' = (calls \ {k}) \cup Requests(c, next)
                /\ UNCHANGED <<kind, sent>>
        ELSE calls' = calls \ {k} /\ UNCHANGED hosts

Start(c) ==
    /\ pc[c] = "idle"
    /\ \E what \in Directive \cup {Automatic} :
        /\ what # Automatic => receipt[what].status \notin {"none", "prepared"}
        /\ kind' = [kind EXCEPT ![c] = what]
        /\ calls' = calls \cup {NewCall(c, "claim", what)}
    /\ pc' = [pc EXCEPT ![c] = "claim"]
    /\ UNCHANGED <<goal, control, sent, grant, faults>>

Send(c) ==
    /\ pc[c] = "send"
    /\ \E o \in Outcome : sent' = [sent EXCEPT ![c] = o]
    /\ pc' = [pc EXCEPT ![c] = "report"]
    /\ calls' = calls \cup Requests(c, "report")
    /\ UNCHANGED <<goal, control, kind, grant, faults>>

(* No answer will come: the request or its reply is lost. *)
HostError(c) ==
    /\ pc[c] \in Awaiting
    /\ \A k \in calls : k.op = c => k.orphan
    /\ \E next \in After(pc[c], "error") :
        /\ pc' = [pc EXCEPT ![c] = next]
        /\ calls' = calls \cup Requests(c, next)
    /\ UNCHANGED <<goal, control, kind, sent, grant, faults>>

(* Between its steps; to vanish while a request is on its way is to lose   *)
(* the reply and to vanish then.                                           *)
HostVanishes(c) ==
    /\ \/ pc[c] = "send" /\ UNCHANGED calls
       \/ \E k \in calls : k = NewCall(c, pc[c], kind[c]) /\ calls' = calls \ {k}
    /\ pc' = [pc EXCEPT ![c] = "done"]
    /\ Fault
    /\ UNCHANGED <<goal, control, kind, sent, grant>>

-----------------------------------------------------------------------------
(* Control, before it asks the Instance.  Requests for a directive are     *)
(* taken one at a time, the round trip to the Instance included.           *)

Move(k, stage) == calls' = (calls \ {k}) \cup {[k EXCEPT !.stage = stage]}

Ask(k, owner) ==
    /\ calls' = (calls \ {k}) \cup
                    {[k EXCEPT !.stage = "asked", !.from = owner]}
    /\ UNCHANGED hosts

Delivering(d) ==
    \E k \in calls : /\ kind[k.op] = d /\ ~k.orphan
                     /\ k.stage \in {"asked", "reading", "answered"}

Queue(k) ==
    /\ k.stage = "new" /\ Delivering(kind[k.op])
    /\ Move(k, "waiting")
    /\ UNCHANGED <<goal, control, hosts, grant, faults>>

(* Mutation: a receipt that was attempted may still be taken over. *)
UnattemptedOrNot(r) == r.status \in {"claiming", "attempting", "attempted"}

Unattempted(r) == r.status \in {"claiming", "attempting"} /\ ~r.started

(* beginDelivery, or the takeover of a claim whose owner this Control does *)
(* not know to be alive.                                                   *)
AskClaim(k, d) ==
    LET r == receipt[d]
        c == k.op
    IN  \/ /\ r.status = "applied" /\ ~r.started
           /\ receipt' = [receipt EXCEPT ![d].status = "claiming",
                                         ![d].claim = c]
           /\ live' = [live EXCEPT ![d] = c]
           /\ Ask(k, c)
        \/ /\ Unattempted(r) /\ k.stage # "waiting"
           /\ r.claim \notin {c, live[d]}
           /\ Ask(k, r.claim)
           /\ UNCHANGED control
        \/ /\ ~(r.status = "applied" /\ ~r.started)
           /\ ~(Unattempted(r) /\ k.stage # "waiting"
                    /\ r.claim \notin {c, live[d]})
           /\ Reply(k, "no")
           /\ UNCHANGED control

(* beginAttempt: the intent is stored before the Instance is asked. *)
AskAttempt(k, d) ==
    LET r == receipt[d]
    IN  IF r.claim = k.op /\ r.status = "attempting"
        THEN /\ receipt' = [receipt EXCEPT ![d].started = TRUE]
             /\ Ask(k, k.op) /\ UNCHANGED live
        ELSE /\ Reply(k, IF r.claim = k.op /\ r.status = "attempted"
                         THEN "duplicate" ELSE "no")
             /\ UNCHANGED control

(* beginReport *)
AskReport(k, d) ==
    LET r == receipt[d]
    IN  IF r.claim = k.op /\ r.status \in {"attempted", "reporting"}
        THEN /\ receipt' = [receipt EXCEPT ![d].status = "reporting"]
             /\ Ask(k, k.op) /\ UNCHANGED live
        ELSE Reply(k, "no") /\ UNCHANGED control

AskOther(k, d) ==
    LET r == receipt[d]
        owned == r.claim = k.op
        ok == CASE k.act = "validate" -> owned /\ r.status = "attempting"
                [] k.act = "release"  -> owned /\ Unattempted(r)
    IN  /\ IF ok THEN Ask(k, k.op) ELSE Reply(k, "no")
        /\ UNCHANGED control

AskFor(k) ==
    LET d == kind[k.op]
    IN  /\ k.stage \in {"new", "waiting"} /\ ~Delivering(d)
        /\ CASE k.act = "claim"   -> AskClaim(k, d)
             [] k.act = "attempt" -> AskAttempt(k, d)
             [] k.act = "report"  -> AskReport(k, d)
             [] k.act \in {"validate", "release"} -> AskOther(k, d)
        /\ UNCHANGED <<goal, grant, faults>>

-----------------------------------------------------------------------------
(* The Instance: it reads the Goal, and from what it read either answers   *)
(* or asks the Goal to act.  Others may change the Goal in between.        *)

Busy == \E k \in calls : k.stage = "reading"

Answer(k, answer) ==
    calls' = (calls \ {k}) \cup
                {[k EXCEPT !.stage = "answered", !.answer = answer,
                           !.do = "none"]}

WillDo(k, do) ==
    calls' = (calls \ {k}) \cup {[k EXCEPT !.stage = "reading", !.do = do]}

Read(k) ==
    LET c == k.op
        uncertain == k.act = "report" /\ Uncertain(c)
    IN  /\ k.stage = "asked" /\ ~Busy
        /\ CASE k.act = "claim" ->
                    IF IF kind[c] = Automatic THEN ContinuationDue(goal)
                                              ELSE goal.status = "active"
                    THEN WillDo(k, "claim") ELSE Answer(k, "no")
             [] k.act # "claim" /\ ~Pending(goal) ->
                    Answer(k, IF k.act \in {"release", "cleanup"}
                                 \/ (k.act = "report" /\ ~uncertain)
                              THEN "yes" ELSE "no")
             [] k.act = "attempt" /\ Pending(goal) ->
                    WillDo(k, IF goal.attempted THEN "validate" ELSE "attempt")
             [] k.act = "report" /\ Pending(goal) ->
                    IF ~uncertain THEN WillDo(k, "report")
                    ELSE IF goal.attempted THEN WillDo(k, "validate")
                    ELSE Answer(k, "no")
             [] k.act = "validate" /\ Pending(goal) -> WillDo(k, "validate")
             [] k.act \in {"release", "cleanup"} /\ Pending(goal) ->
                    WillDo(k, "release")
        /\ UNCHANGED <<goal, control, hosts, grant, faults>>

Act(k) ==
    LET c == k.op
        res == Continuation(goal, k.do, c, kind[c] # Automatic, Accepted(c))
    IN  /\ k.stage = "reading"
        /\ goal' = res.goal
        /\ Answer(k, IF k.act = "attempt" /\ k.do = "validate"
                        /\ res.answer = "yes"
                     THEN "duplicate" ELSE res.answer)
        /\ grant' = IF k.do = "claim" /\ res.answer = "yes"
                       /\ kind[c] = Automatic
                    THEN [grant EXCEPT ![c] = <<goal.revision, goal.epoch>>]
                    ELSE grant
        /\ UNCHANGED <<control, hosts, faults>>

(* The Instance fails, or its answer does not reach Control. *)
AnswerLost(k) ==
    /\ k.stage = "answered" /\ ~k.orphan /\ k.answer # "error"
    /\ Answer(k, "error")
    /\ Fault
    /\ UNCHANGED <<goal, control, hosts, grant>>

-----------------------------------------------------------------------------
(* Control, once the Instance has answered. *)

(* restoreDelivery *)
Restored(d, owner) ==
    IF receipt[d].claim = owner /\ Unattempted(receipt[d])
    THEN /\ receipt' = [receipt EXCEPT ![d].status = "applied",
                                       ![d].claim = NoOp]
         /\ live' = [live EXCEPT ![d] = NoOp]
    ELSE UNCHANGED control

(* Take the claim back.  The claim may stand whatever the answer was. *)
CleanUp(k, owner) ==
    calls' = (calls \ {k}) \cup
                {[k EXCEPT !.act = "cleanup", !.stage = "asked",
                           !.answer = "none", !.from = owner]}

(* confirmDelivery, then the snapshot the message is made from. *)
Confirmed(k, d) ==
    /\ receipt' = [receipt EXCEPT ![d].status = "attempting",
                                  ![d].claim = k.op]
    /\ live' = [live EXCEPT ![d] = k.op]
    /\ \/ Reply(k, "yes") /\ UNCHANGED faults
       \/ CleanUp(k, k.op) /\ Fault /\ UNCHANGED hosts

ClaimAnswered(k, d) ==
    CASE k.answer = "error" ->
            CleanUp(k, k.from) /\ UNCHANGED <<control, hosts, faults>>
      [] k.answer = "yes" /\ d # Automatic -> Confirmed(k, d)
      [] k.answer = "yes" /\ d = Automatic ->
            /\ \/ Reply(k, "yes") /\ UNCHANGED faults
               \/ CleanUp(k, k.op) /\ Fault /\ UNCHANGED hosts
            /\ UNCHANGED control
      [] k.answer = "no" ->
            /\ IF d # Automatic /\ k.from = k.op THEN Restored(d, k.op)
               ELSE UNCHANGED control
            /\ Reply(k, "no") /\ UNCHANGED faults

(* What an answer to a request other than a claim does to the receipt:     *)
(* restoreDelivery, markAttempted, cancelAttempt, settle.                  *)
ReceiptAfter(k, d) ==
    CASE d = Automatic \/ k.answer = "error" -> UNCHANGED control
      [] k.act = "validate" /\ d # Automatic /\ k.answer = "no" ->
            Restored(d, k.op)
      [] k.act \in {"release", "cleanup"} /\ d # Automatic
            /\ k.answer = "yes" -> Restored(d, k.from)
      [] k.act = "attempt" /\ d # Automatic /\ k.answer # "error" ->
            IF k.answer = "no"
            THEN /\ receipt' = [receipt EXCEPT ![d].started = FALSE]
                 /\ UNCHANGED live
            ELSE /\ receipt' = [receipt EXCEPT ![d].status = "attempted"]
                 /\ live' = [live EXCEPT ![d] = NoOp]
      [] k.act = "report" /\ d # Automatic /\ k.answer = "yes" ->
            /\ receipt' = [receipt EXCEPT ![d].status = "settled"]
            /\ live' = [live EXCEPT ![d] = NoOp]
      [] OTHER -> UNCHANGED control

Answered(k) ==
    LET d == kind[k.op]
    IN  /\ k.stage = "answered"
        /\ \/ k.orphan /\ Reply(k, k.answer) /\ UNCHANGED <<control, faults>>
           \/ ~k.orphan /\ k.act = "claim" /\ ClaimAnswered(k, d)
           \/ /\ ~k.orphan /\ k.act # "claim"
              /\ ReceiptAfter(k, d)
              /\ Reply(k, IF k.act = "cleanup" THEN "error" ELSE k.answer)
              /\ UNCHANGED faults
        /\ UNCHANGED <<goal, grant>>

(* Control has stored the answer and the Host does not hear of it.  When   *)
(* there is no receipt to store it in, this is AnswerLost.                 *)
ReplyLost(k) ==
    LET d == kind[k.op]
    IN  /\ k.stage = "answered" /\ ~k.orphan
        /\ k.act # "claim" /\ d # Automatic
        /\ ReceiptAfter(k, d)
        /\ calls' = calls \ {k}
        /\ Fault
        /\ UNCHANGED <<goal, hosts, grant>>

(* Control is restarted.  What it had asked the Instance goes on there;    *)
(* a resume whose answer it did not see is never applied.                  *)
Restart ==
    /\ Fault
    /\ live' = [d \in Directive |-> NoOp]
    /\ calls' = {[k EXCEPT !.orphan = TRUE] :
                    k \in {j \in calls : j.stage \in {"asked", "reading"}}}
    /\ receipt' = [d \in Directive |->
                    IF receipt[d].status = "prepared"
                    THEN [receipt[d] EXCEPT !.status = "conflicted"]
                    ELSE receipt[d]]
    /\ UNCHANGED <<goal, hosts, grant>>

-----------------------------------------------------------------------------
HostStep(c) == Send(c) \/ HostError(c)
Handle(k) == Queue(k) \/ AskFor(k) \/ Read(k) \/ Act(k) \/ Answered(k)

Next ==
    \/ Touch \/ Manage \/ LeaseEnds \/ ClaimAges \/ RetryDue
    \/ \E d \in Directive : UserResume(d) \/ ResumeAnswered(d)
                                \/ LiveClaimAges(d)
    \/ \E c \in Op : Start(c) \/ HostStep(c) \/ HostVanishes(c)
    \/ \E k \in calls : Handle(k) \/ AnswerLost(k) \/ ReplyLost(k)
    \/ Restart

Spec == Init /\ [][Next]_vars

-----------------------------------------------------------------------------
(* Of the operations no directive asked for, at most one sends a message   *)
(* that the conversation may have received while the Goal stands at one    *)
(* revision and one progress epoch: a message is not repeated before the   *)
(* agent has made progress or the Goal has been changed, whichever replies *)
(* are lost, however late the requests of a Host whose claim expired, and  *)
(* also when nobody ever learns what became of the first message           *)
(* (storage/State.ts, attempt, report and settleAttemptedReentry).         *)
OncePerEpoch ==
    \A a, b \in Op :
        /\ a # b /\ kind[a] = Automatic /\ kind[b] = Automatic
        /\ sent[a] \in {"accepted", "unknown"}
        /\ sent[b] \in {"accepted", "unknown"}
        => grant[a] # grant[b]

(* What the user asked for once is sent at most once, by one Host: taking  *)
(* a directive over from a Host that vanished, also after a restart of     *)
(* Control, never sends a message the former owner may have sent           *)
(* (ActionStore.ts, attemptStarted).                                       *)
DirectiveSentOnce ==
    \A a, b \in Op :
        a # b /\ kind[a] = kind[b] /\ kind[a] \in Directive
            => "none" \in {sent[a], sent[b]}
=============================================================================
