----------------------- MODULE RecoveryDelivery_proofs -----------------------
(***************************************************************************)
(* A Goal is continued once, for any set of operations and directives and  *)
(* any number of lost replies, vanished Hosts and restarts of Control.     *)
(*                                                                         *)
(* The argument has two halves.  For messages no directive asked for it is *)
(* the Goal that remembers: an operation that may send has used up the     *)
(* revision and the epoch it claimed (Spent), because an attempted claim   *)
(* only goes when the epoch is covered, the revision changes, or its owner *)
(* reports that nothing was delivered.  For a directive it is the receipt: *)
(* one request is in flight at a time, the receipt stands still meanwhile, *)
(* and once its owner may send nobody can take it over.  Both rest on the  *)
(* discipline of the Hosts: what a call on its way says about where its    *)
(* caller stands.                                                          *)
(***************************************************************************)
EXTENDS RecoveryDelivery, TLAPS

(* What is true of the record of the Goal by itself. *)
GoalSound(g) ==
    /\ g \in Goal
    /\ Pending(g) => g.claim # NoOp
    /\ g.covered <= g.epoch /\ g.claimEpoch <= g.epoch
    /\ g.claim # NoOp => g.status = "active" /\ g.claimEpoch >= g.covered

(* The claim is that of a Host that has started, and an automatic one is   *)
(* for the revision and the epoch it was granted.                          *)
ClaimFits ==
    goal.claim # NoOp =>
        /\ pc[goal.claim] # "idle"
        /\ kind[goal.claim] = Automatic =>
             /\ grant[goal.claim] = <<goal.revision, goal.claimEpoch>>
             /\ goal.claimEpoch > goal.covered

(* The step of the Host that waits for a call. *)
Waits(k) == IF k.act = "cleanup" THEN "claim" ELSE k.act

Does(act) ==
    CASE act = "claim" -> {"claim"}
      [] act = "validate" -> {"validate"}
      [] act = "attempt" -> {"validate", "attempt"}
      [] act = "report" -> {"validate", "report"}
      [] act \in {"release", "cleanup"} -> {"release"}

CallFits(k) ==
    /\ k.stage \in {"new", "waiting"} =>
         k.act # "cleanup" /\ kind[k.op] \in Directive
    /\ k.stage = "reading" =>
         /\ k.do \in Does(k.act)
         /\ k.do = "report" => sent[k.op] \in {"accepted", "rejected"}
    /\ k.stage = "answered" =>
         k.answer # "none" /\ (k.answer = "duplicate" => k.act = "attempt")
    /\ ~k.orphan => pc[k.op] = Waits(k)
    /\ k.act = "claim" => pc[k.op] \in {"claim", "done"} /\ sent[k.op] = "none"

HostFits(c) ==
    /\ pc[c] \in {"idle", "send"} => \A k \in calls : k.op # c
    /\ \A j, k \in calls :
         /\ j.op = c /\ k.op = c
         /\ pc[c] \in {"claim", "validate", "attempt"} \/ (~j.orphan /\ ~k.orphan)
         => j = k
    /\ pc[c] \in {"idle", "claim", "validate", "attempt", "send"}
         => sent[c] = "none"

InFlight(k, d) ==
    kind[k.op] = d /\ ~k.orphan /\ k.stage \in {"asked", "reading", "answered"}

(* What the receipt is while a request for its directive is in flight. *)
Expects(k, r) ==
    /\ Waits(k) = "claim" => Unattempted(r)
    /\ k.act = "attempt" => r.claim = k.op /\ r.status = "attempting" /\ r.started
    /\ k.act = "report" => r.claim = k.op /\ r.status = "reporting"

MayHaveSent(c) == sent[c] # "none" \/ pc[c] = "send"

DirectiveFits(d) ==
    /\ \A k \in calls : InFlight(k, d) => Expects(k, receipt[d])
    /\ \A j, k \in calls : InFlight(j, d) /\ InFlight(k, d) => j = k
    /\ \A c \in Op : kind[c] = d /\ MayHaveSent(c) =>
         /\ receipt[d].claim = c
         /\ receipt[d].status \in {"attempted", "reporting", "settled"}

Granted(k) ==
    ~k.orphan /\ k.act = "attempt" /\ k.stage = "answered" /\ k.answer = "yes"

(* The operation has sent a message that may have arrived, or still may. *)
MaySend(c) ==
    /\ kind[c] = Automatic
    /\ \/ sent[c] \in {"accepted", "unknown"}
       \/ pc[c] = "send"
       \/ \E k \in calls : k.op = c /\ Granted(k)

Spent(g, c, at) ==
    \/ at[1] < g.revision
    \/ /\ at[1] = g.revision
       /\ \/ g.claim = c /\ g.attempted
          \/ g.covered >= at[2]

SendersFit ==
    /\ \A c \in Op : MaySend(c) => Spent(goal, c, grant[c])
    /\ \A a, b \in Op : a # b /\ MaySend(a) /\ MaySend(b) => grant[a] # grant[b]

CallsFit == \A k \in calls : CallFits(k)
HostsFit == \A c \in Op : HostFits(c)
DirectivesFit == \A d \in Directive : DirectiveFits(d)

HostsTyped ==
    /\ calls \subseteq Call
    /\ pc \in [Op -> {"idle", "send", "done"} \cup Awaiting]
    /\ kind \in [Op -> Directive \cup {Automatic}]
    /\ sent \in [Op -> {"none"} \cup Outcome]

Receipt == [status : ReceiptStatus, started : BOOLEAN, claim : Op \cup {NoOp}]

ReceiptsTyped ==
    /\ receipt \in [Directive -> Receipt]
    /\ live \in [Directive -> Op \cup {NoOp}]

GoalInv ==
    GoalSound(goal) /\ grant \in [Op -> Nat \X Nat] /\ ClaimFits /\ SendersFit
HostInv == HostsTyped /\ CallsFit /\ HostsFit
DirectiveInv == ReceiptsTyped /\ DirectivesFit

IInv == GoalInv /\ HostInv /\ DirectiveInv /\ faults \in 0..MaxFaults
-----------------------------------------------------------------------------
(* The record of the Goal.                                                 *)

(* The claim goes, and with it no attempt that was not counted. *)
LetsGo(g, h) ==
    /\ h.claim = NoOp
    /\ \/ h.revision > g.revision
       \/ /\ h.revision = g.revision /\ h.covered >= g.covered
          /\ g.claim # NoOp /\ g.attempted => h.covered >= g.claimEpoch

(* The claim stays, and an attempt with it. *)
Keeps(g, h) ==
    /\ h.claim = g.claim /\ h.claimEpoch = g.claimEpoch
    /\ h.revision = g.revision /\ h.covered = g.covered
    /\ g.attempted => h.attempted

LEMMA ClearedGoal ==
    ASSUME NEW g, GoalSound(g)
    PROVE  /\ Cleared(g) \in Goal /\ ~Pending(Cleared(g))
           /\ Cleared(g).claim = NoOp /\ Cleared(g).claimEpoch = 0
           /\ Cleared(g).status = g.status /\ Cleared(g).revision = g.revision
           /\ Cleared(g).epoch = g.epoch /\ Cleared(g).covered = g.covered
           /\ GoalSound(Cleared(g))
           /\ ~g.attempted => LetsGo(g, Cleared(g))
<1> DEFINE s == Cleared(g)
<1>1. g \in Goal /\ NoOp \in Op \cup {NoOp} /\ 0 \in Nat
  BY DEF GoalSound
<1>2. s \in Goal
  BY <1>1 DEF Cleared, Goal
<1>3. /\ s.claim = NoOp /\ s.claimEpoch = 0 /\ s.status = g.status
      /\ s.revision = g.revision /\ s.epoch = g.epoch /\ s.covered = g.covered
      /\ s.fresh = FALSE /\ s.attempted = FALSE
  BY <1>1 DEF Cleared, Goal
<1> HIDE DEF s
<1>4. ~Pending(s)
  BY <1>3 DEF Pending
<1>5. GoalSound(s)
  BY <1>1, <1>2, <1>3, <1>4 DEF GoalSound, Goal
<1>6. ~g.attempted => LetsGo(g, s)
  BY <1>1, <1>3 DEF LetsGo, Goal
<1> QED
  BY <1>2, <1>3, <1>4, <1>5, <1>6 DEF s

LEMMA SettledGoal ==
    ASSUME NEW g, GoalSound(g)
    PROVE  /\ GoalSound(Settled(g)) /\ ~Pending(Settled(g))
           /\ Settled(g).revision = g.revision /\ Settled(g).epoch = g.epoch
           /\ Settled(g).status = g.status /\ LetsGo(g, Settled(g))
<1> DEFINE s == Cleared(g)
<1>1. /\ s \in Goal /\ ~Pending(s) /\ s.claim = NoOp /\ s.claimEpoch = 0
      /\ s.status = g.status /\ s.revision = g.revision /\ s.epoch = g.epoch
      /\ s.covered = g.covered /\ GoalSound(s)
  BY ClearedGoal
<1> HIDE DEF s
<1>2. g \in Goal /\ g.covered <= g.epoch /\ g.claimEpoch <= g.epoch
  BY DEF GoalSound
<1>3. CASE g.attempted /\ g.claimEpoch > g.covered
  <2>1. Settled(g) = CoveredTo(s, g.claimEpoch)
    BY <1>3 DEF Settled, s
  <2> DEFINE t == CoveredTo(s, g.claimEpoch)
  <2>2. /\ t \in Goal /\ t.covered = g.claimEpoch /\ t.claim = NoOp
        /\ t.claimEpoch = 0 /\ t.status = g.status /\ t.revision = g.revision
        /\ t.epoch = g.epoch /\ t.fresh = s.fresh /\ t.attempted = s.attempted
    BY <1>1, <1>2 DEF CoveredTo, Goal
  <2> HIDE DEF t
  <2>3. GoalSound(t) /\ ~Pending(t) /\ LetsGo(g, t)
    BY <1>1, <1>2, <1>3, <2>2 DEF GoalSound, Pending, LetsGo, Goal
  <2> QED
    BY <2>1, <2>2, <2>3 DEF t
<1>4. CASE ~(g.attempted /\ g.claimEpoch > g.covered)
  <2>1. Settled(g) = s
    BY <1>4 DEF Settled, s
  <2>2. LetsGo(g, s)
    BY <1>1, <1>2, <1>4 DEF LetsGo, Goal
  <2> QED
    BY <1>1, <2>1, <2>2
<1> QED
  BY <1>3, <1>4

LEMMA ProgressedGoal ==
    ASSUME NEW g, GoalSound(g), g.claim = NoOp
    PROVE  /\ GoalSound(Progressed(g)) /\ Progressed(g).claim = NoOp
           /\ Progressed(g).revision = g.revision
           /\ Progressed(g).covered = g.covered
<1> DEFINE s == Progressed(g)
<1>1. g \in Goal /\ g.epoch + 1 \in Nat \ {0}
  BY DEF GoalSound, Goal
<1>2. s \in Goal
  BY <1>1 DEF Progressed, Goal
<1>3. /\ s.claim = g.claim /\ s.claimEpoch = g.claimEpoch
      /\ s.revision = g.revision /\ s.epoch = g.epoch + 1
      /\ s.covered = g.covered /\ s.fresh = g.fresh /\ s.attempted = g.attempted
  BY <1>1 DEF Progressed, Goal
<1> HIDE DEF s
<1>4. GoalSound(s)
  BY <1>1, <1>2, <1>3 DEF GoalSound, Goal, Pending
<1> QED
  BY <1>3, <1>4 DEF s

LEMMA TouchedGoal ==
    ASSUME NEW g, GoalSound(g), NEW what
    PROVE  GoalSound(Touched(g, what)) /\ LetsGo(g, Touched(g, what))
<1> DEFINE s == Settled(g)
<1>1. GoalSound(s) /\ s.claim = NoOp /\ LetsGo(g, s) /\ s.revision = g.revision
  BY SettledGoal DEF LetsGo
<1> HIDE DEF s
<1>2. CASE what = "mutation"
  <2>1. Touched(g, what) = Progressed(s)
    BY <1>2 DEF Touched, s
  <2>2. /\ GoalSound(Progressed(s)) /\ Progressed(s).claim = NoOp
        /\ Progressed(s).revision = s.revision
        /\ Progressed(s).covered = s.covered
    BY <1>1, ProgressedGoal
  <2>3. LetsGo(g, Progressed(s))
    BY <1>1, <2>2 DEF LetsGo
  <2> QED
    BY <2>1, <2>2, <2>3
<1>3. CASE what # "mutation"
  <2> DEFINE t == [s EXCEPT !.leaseOver = FALSE]
  <2>1. Touched(g, what) = t
    BY <1>3 DEF Touched, s
  <2>2. GoalSound(t) /\ LetsGo(g, t)
    BY <1>1 DEF GoalSound, Goal, Pending, LetsGo
  <2> QED
    BY <2>1, <2>2
<1> QED
  BY <1>2, <1>3

LEMMA RevisedGoal ==
    ASSUME NEW g, GoalSound(g), NEW status \in Status
    PROVE  GoalSound(Revised(g, status)) /\ LetsGo(g, Revised(g, status))
<1> DEFINE s == Cleared(g)
           t == [s EXCEPT !.status = status, !.revision = @ + 1,
                          !.leaseOver = FALSE, !.retryReady = TRUE]
<1>1. GoalSound(s) /\ s.claim = NoOp /\ s.revision = g.revision /\ s \in Goal
  BY ClearedGoal
<1> HIDE DEF s
<1>2. t \in Goal
  <2>1. s.revision + 1 \in Nat \ {0}
    BY <1>1 DEF Goal
  <2> QED
    BY <1>1, <2>1 DEF Goal
<1>3. /\ t.claim = NoOp /\ t.claimEpoch = s.claimEpoch
      /\ t.revision = s.revision + 1 /\ t.epoch = s.epoch
      /\ t.covered = s.covered /\ t.fresh = s.fresh /\ t.attempted = s.attempted
  BY <1>1 DEF Goal
<1>4. s.revision \in Nat
  BY <1>1 DEF Goal
<1>5. t = Revised(g, status)
  BY DEF Revised, s
<1> HIDE DEF t
<1>6. GoalSound(t) /\ LetsGo(g, t)
  BY <1>1, <1>2, <1>3, <1>4 DEF GoalSound, Pending, LetsGo
<1> QED
  BY <1>5, <1>6

LEMMA UpdatedGoal ==
    ASSUME NEW g, GoalSound(g), NEW changes \in BOOLEAN
    PROVE  GoalSound(Updated(g, changes)) /\ LetsGo(g, Updated(g, changes))
<1> DEFINE r == Settled(g)
           s == [r EXCEPT !.revision = @ + 1]
<1>1. GoalSound(r) /\ r.claim = NoOp /\ r.revision = g.revision
  BY SettledGoal DEF LetsGo
<1> HIDE DEF r
<1>2. GoalSound(s) /\ s.claim = NoOp /\ s.revision > g.revision
  BY <1>1 DEF GoalSound, Goal, Pending
<1> HIDE DEF s
<1>3. Updated(g, changes) = IF changes THEN Progressed(s) ELSE s
  BY DEF Updated, s, r
<1>4. CASE changes
  <2>1. GoalSound(Progressed(s)) /\ Progressed(s).claim = NoOp
        /\ Progressed(s).revision = s.revision
    BY <1>2, ProgressedGoal
  <2>2. LetsGo(g, Progressed(s))
    BY <1>2, <2>1 DEF LetsGo
  <2> QED
    BY <1>3, <1>4, <2>1, <2>2
<1>5. CASE ~changes
  BY <1>2, <1>3, <1>5 DEF LetsGo
<1> QED
  BY <1>4, <1>5

LEMMA ExpiredGoal ==
    ASSUME NEW g, GoalSound(g)
    PROVE  /\ GoalSound(Expired(g)) /\ Expired(g).epoch = g.epoch
           /\ Expired(g).revision = g.revision /\ Expired(g).covered = g.covered
           /\ \/ Expired(g) = g
              \/ ~g.attempted /\ LetsGo(g, Expired(g))
           /\ Expired(g).claim # NoOp \/ Pending(Expired(g)) => Expired(g) = g
           /\ Expired(g).attempted <=> g.attempted
<1>1. CASE g.claim # NoOp /\ ~Pending(g)
  <2>1. Expired(g) = Cleared(g) /\ ~g.attempted
    BY <1>1 DEF Expired, Pending
  <2>2. ~Cleared(g).attempted
    BY ClearedGoal DEF Pending
  <2> QED
    BY <2>1, <2>2, ClearedGoal
<1>2. CASE ~(g.claim # NoOp /\ ~Pending(g))
  BY <1>2 DEF Expired
<1> QED
  BY <1>1, <1>2

(* What an operation does to the record. *)
Drops(g, h, c) ==
    /\ g.claim = c /\ h.claim = NoOp
    /\ h.revision = g.revision /\ h.covered = g.covered

Grants(g, h, c, user) ==
    /\ ~g.attempted
    /\ h.claim = c /\ h.claimEpoch = g.epoch
    /\ h.revision = g.revision /\ h.covered = g.covered
    /\ ~user => g.epoch > g.covered

Effect(g, res, do, c, user, accepted) ==
    /\ GoalSound(res.goal) /\ res.answer \in {"yes", "no", "error"}
    /\ \/ LetsGo(g, res.goal) /\ ~(do = "claim" /\ res.answer = "yes")
       \/ Keeps(g, res.goal) /\ ~(do = "claim" /\ res.answer = "yes")
       \/ do = "report" /\ ~accepted /\ Drops(g, res.goal, c)
       \/ do = "claim" /\ res.answer = "yes" /\ Grants(g, res.goal, c, user)
    /\ do = "attempt" /\ res.answer = "yes" =>
         /\ Keeps(g, res.goal)
         /\ res.goal.claim = c /\ res.goal.attempted

LEMMA KeepsSelf == ASSUME NEW g PROVE Keeps(g, g)
BY DEF Keeps

LEMMA ClaimedGoal ==
    ASSUME NEW s, GoalSound(s), NEW c \in Op, NEW user \in BOOLEAN,
           NEW accepted
    PROVE  Effect(s, Claimed(Expired(s), c, user), "claim", c, user, accepted)
<1> DEFINE g == Expired(s)
           may == IF user THEN g.status = "active" /\ ~Pending(g)
                          ELSE ContinuationDue(g)
           h == [g EXCEPT !.claim = c, !.claimEpoch = g.epoch, !.fresh = TRUE]
<1>1. /\ GoalSound(g) /\ g.epoch = s.epoch /\ g.revision = s.revision
      /\ g.covered = s.covered
      /\ g = s \/ (~s.attempted /\ LetsGo(s, g))
      /\ g.attempted <=> s.attempted
  BY ExpiredGoal
<1>2. Claimed(g, c, user) = IF may THEN [goal |-> h, answer |-> "yes"]
                            ELSE [goal |-> g, answer |-> "no"]
  BY DEF Claimed
<1> HIDE DEF g
<1>3. CASE may
  <2>1. /\ g.status = "active" /\ ~g.attempted /\ (~user => g.epoch > g.covered)
    BY <1>3 DEF Pending, ContinuationDue
  <2>2. g \in Goal /\ c # NoOp
    BY <1>1, OpAssumption DEF GoalSound
  <2>3. /\ h.claim = c /\ h.claimEpoch = g.epoch /\ h.revision = g.revision
        /\ h.covered = g.covered /\ h.epoch = g.epoch /\ h.status = "active"
    BY <2>1, <2>2 DEF Goal
  <2>4. h \in Goal
    BY <2>2 DEF Goal
  <2> HIDE DEF h
  <2>5. GoalSound(h)
    BY <1>1, <2>2, <2>3, <2>4 DEF GoalSound, Goal
  <2>6. Grants(s, h, c, user)
    BY <1>1, <2>1, <2>3 DEF Grants
  <2>7. Claimed(g, c, user) = [goal |-> h, answer |-> "yes"]
    BY <1>2, <1>3
  <2> QED
    BY <2>5, <2>6, <2>7 DEF Effect, g
<1>4. CASE ~may
  <2>1. Claimed(g, c, user) = [goal |-> g, answer |-> "no"]
    BY <1>2, <1>4
  <2> QED
    BY <1>1, <2>1, KeepsSelf DEF Effect, g
<1> QED
  BY <1>3, <1>4

LEMMA ValidatedGoal ==
    ASSUME NEW s, GoalSound(s), NEW c \in Op, NEW user, NEW accepted
    PROVE  Effect(s, Validated(Expired(s), c), "validate", c, user, accepted)
<1> DEFINE g == Expired(s)
<1>1. GoalSound(g) /\ (g = s \/ (~s.attempted /\ LetsGo(s, g)))
  BY ExpiredGoal
<1>2. g.claim = c => g.status = "active"
  BY <1>1, OpAssumption DEF GoalSound
<1>3. Validated(g, c).goal = g /\ Validated(g, c).answer \in {"yes", "no"}
  BY <1>2 DEF Validated
<1> QED
  BY <1>1, <1>3, KeepsSelf DEF Effect

LEMMA AttemptedGoal ==
    ASSUME NEW s, GoalSound(s), NEW c \in Op, NEW user, NEW accepted, s.claim = c
    PROVE  Effect(s, Attempted(s, c), "attempt", c, user, accepted)
<1> DEFINE h == [s EXCEPT !.attempted = TRUE]
<1>1. s \in Goal /\ c # NoOp
  BY OpAssumption DEF GoalSound
<1>2. /\ h.claim = c /\ h.claimEpoch = s.claimEpoch /\ h.revision = s.revision
      /\ h.covered = s.covered /\ h.epoch = s.epoch /\ h.status = s.status
      /\ h.attempted = TRUE
  BY <1>1 DEF Goal
<1>3. h \in Goal
  BY <1>1 DEF Goal
<1>4. Attempted(s, c) = [goal |-> h, answer |-> "yes"]
  BY DEF Attempted
<1> HIDE DEF h
<1>5. GoalSound(h) /\ Keeps(s, h)
  BY <1>1, <1>2, <1>3 DEF GoalSound, Keeps
<1> QED
  BY <1>2, <1>4, <1>5 DEF Effect

LEMMA ReportedGoal ==
    ASSUME NEW s, GoalSound(s), NEW c \in Op, NEW user,
           NEW accepted \in BOOLEAN, s.claim = c
    PROVE  Effect(s, Reported(s, c, accepted), "report", c, user, accepted)
<1> DEFINE k == Cleared(s)
<1>1. /\ s \in Goal /\ c # NoOp /\ s.claimEpoch <= s.epoch
      /\ s.claimEpoch >= s.covered
  BY OpAssumption DEF GoalSound
<1>2. /\ k \in Goal /\ ~Pending(k) /\ k.claim = NoOp /\ k.claimEpoch = 0
      /\ k.revision = s.revision /\ k.epoch = s.epoch /\ k.covered = s.covered
      /\ GoalSound(k)
  BY ClearedGoal
<1> HIDE DEF k
<1>3. CASE accepted
  <2> DEFINE m == CoveredTo(k, s.claimEpoch)
             h == [m EXCEPT !.retryReady = TRUE]
  <2>1. Reported(s, c, accepted) = [goal |-> h, answer |-> "yes"]
    BY <1>3 DEF Reported, k
  <2>2. /\ m \in Goal /\ m.claim = NoOp /\ m.claimEpoch = 0
        /\ m.revision = s.revision /\ m.epoch = s.epoch
        /\ m.covered = s.claimEpoch /\ m.fresh = k.fresh
        /\ m.attempted = k.attempted
    BY <1>1, <1>2 DEF CoveredTo, Goal
  <2> HIDE DEF m
  <2>3. /\ h \in Goal /\ h.claim = NoOp /\ h.claimEpoch = 0
        /\ h.revision = s.revision /\ h.epoch = s.epoch
        /\ h.covered = s.claimEpoch /\ h.fresh = k.fresh
        /\ h.attempted = k.attempted
    BY <2>2 DEF Goal
  <2> HIDE DEF h
  <2>4. GoalSound(h) /\ LetsGo(s, h)
    BY <1>1, <1>2, <2>3 DEF GoalSound, Pending, LetsGo, Goal
  <2> QED
    BY <2>1, <2>4 DEF Effect
<1>4. CASE ~accepted
  <2> DEFINE h == [k EXCEPT !.retryReady = FALSE]
  <2>1. Reported(s, c, accepted) = [goal |-> h, answer |-> "yes"]
    BY <1>4 DEF Reported, k
  <2>2. /\ h \in Goal /\ h.claim = NoOp /\ h.claimEpoch = 0
        /\ h.revision = s.revision /\ h.epoch = s.epoch
        /\ h.covered = s.covered /\ h.fresh = k.fresh
        /\ h.attempted = k.attempted
    BY <1>1, <1>2 DEF Goal
  <2> HIDE DEF h
  <2>3. GoalSound(h) /\ Drops(s, h, c)
    BY <1>1, <1>2, <2>2 DEF GoalSound, Pending, Drops, Goal
  <2> QED
    BY <1>4, <2>1, <2>3 DEF Effect
<1> QED
  BY <1>3, <1>4

LEMMA ContinuedGoal ==
    ASSUME NEW g, GoalSound(g), NEW c \in Op, NEW user \in BOOLEAN,
           NEW accepted \in BOOLEAN,
           NEW do \in {"claim", "validate", "attempt", "report", "release"}
    PROVE  Effect(g, Continuation(g, do, c, user, accepted), do, c, user, accepted)
<1> DEFINE h == Expired(g)
           refused == \/ do \in {"attempt", "report", "release"} /\ h.claim # c
                      \/ do = "report" /\ accepted /\ ~h.attempted
                      \/ do = "release" /\ h.attempted
           res == Continuation(g, do, c, user, accepted)
<1>1. c # NoOp
  BY OpAssumption
<1>2. /\ h.claim # NoOp => h = g
      /\ h.attempted <=> g.attempted
  BY ExpiredGoal
<1>3. CASE refused
  <2>1. res = [goal |-> g, answer |-> "error"]
    BY <1>3 DEF Continuation
  <2> QED
    BY <2>1, KeepsSelf DEF Effect
<1>4. CASE ~refused /\ do = "claim"
  <2>1. res = Claimed(h, c, user)
    BY <1>4 DEF Continuation
  <2> QED
    BY <1>4, <2>1, ClaimedGoal
<1>5. CASE ~refused /\ do = "validate"
  <2>1. res = Validated(h, c)
    BY <1>5 DEF Continuation
  <2> QED
    BY <1>5, <2>1, ValidatedGoal
<1>6. CASE ~refused /\ do = "attempt"
  <2>1. res = Attempted(h, c) /\ h = g /\ g.claim = c
    BY <1>1, <1>2, <1>6 DEF Continuation
  <2> QED
    BY <1>6, <2>1, AttemptedGoal
<1>7. CASE ~refused /\ do = "report"
  <2>1. res = Reported(h, c, accepted) /\ h = g /\ g.claim = c
    BY <1>1, <1>2, <1>7 DEF Continuation
  <2> QED
    BY <1>7, <2>1, ReportedGoal
<1>8. CASE ~refused /\ do = "release"
  <2>1. res = Released(h) /\ h = g /\ ~g.attempted
    BY <1>1, <1>2, <1>8 DEF Continuation
  <2>2. res.goal = Cleared(g) /\ res.answer = "yes"
    BY <2>1 DEF Released
  <2> QED
    BY <1>8, <2>1, <2>2, ClearedGoal DEF Effect
<1> QED
  BY <1>3, <1>4, <1>5, <1>6, <1>7, <1>8

-----------------------------------------------------------------------------
(* What a step leaves of each part of the invariant. *)

LEMMA Typing == IInv => TypeOK
BY DEF IInv, GoalInv, HostInv, DirectiveInv, GoalSound, HostsTyped,
       ReceiptsTyped, Receipt, TypeOK

(* What is used up stays used up. *)
LEMMA StaysSpent ==
    ASSUME NEW g \in Goal, NEW h \in Goal, NEW c, NEW at \in Nat \X Nat,
           Spent(g, c, at), LetsGo(g, h) \/ Keeps(g, h),
           g.claim = c => at[2] = g.claimEpoch, c # NoOp
    PROVE  Spent(h, c, at)
<1>1. /\ at[1] \in Nat /\ at[2] \in Nat /\ g.revision \in Nat /\ h.revision \in Nat
      /\ g.covered \in Nat /\ h.covered \in Nat /\ g.claimEpoch \in Nat
  BY DEF Goal
<1> QED
  BY <1>1 DEF Spent, LetsGo, Keeps

LEMMA GoalMoves ==
    ASSUME GoalInv, GoalSound(goal'), LetsGo(goal, goal') \/ Keeps(goal, goal'),
           UNCHANGED <<calls, hosts, grant>>
    PROVE  GoalInv'
<1>1. goal \in Goal /\ goal' \in Goal
  BY DEF GoalInv, GoalSound
<1>2. UNCHANGED <<calls, pc, kind, sent, grant>>
  BY DEF hosts
<1>3. ClaimFits'
  BY <1>2, OpAssumption DEF GoalInv, ClaimFits, LetsGo, Keeps
<1>4. \A c \in Op : MaySend(c)' <=> MaySend(c)
  BY <1>2 DEF MaySend, Granted
<1>5. ASSUME NEW c \in Op, MaySend(c)' PROVE Spent(goal', c, grant[c])
  <2>1. Spent(goal, c, grant[c]) /\ grant[c] \in Nat \X Nat
    BY <1>4, <1>5 DEF GoalInv, SendersFit
  <2>2. kind[c] = Automatic /\ c # NoOp
    BY <1>4, <1>5, OpAssumption DEF MaySend
  <2>3. goal.claim = c => grant[c][2] = goal.claimEpoch
    BY <2>2 DEF GoalInv, ClaimFits
  <2> QED
    BY <1>1, <2>1, <2>2, <2>3, StaysSpent
<1>6. SendersFit'
  BY <1>2, <1>4, <1>5 DEF GoalInv, SendersFit
<1> QED
  BY <1>2, <1>3, <1>6 DEF GoalInv

(* Nobody new may send. *)
LEMMA GoalStays ==
    ASSUME GoalInv, UNCHANGED <<goal, grant>>,
           \A c \in Op : pc[c] # "idle" => pc'[c] # "idle" /\ kind'[c] = kind[c],
           \A c \in Op : MaySend(c)' => MaySend(c)
    PROVE  GoalInv'
<1>1. goal \in Goal
  BY DEF GoalInv, GoalSound
<1>2. goal.claim # NoOp => goal.claim \in Op
  BY <1>1 DEF Goal
<1>3. ClaimFits'
  BY <1>2 DEF GoalInv, ClaimFits
<1>4. SendersFit'
  BY DEF GoalInv, SendersFit
<1> QED
  BY <1>3, <1>4 DEF GoalInv

LEMMA HostsStay ==
    ASSUME HostInv, UNCHANGED <<calls, hosts>>
    PROVE  HostInv'
BY DEF HostInv, hosts, HostsTyped, CallsFit, CallFits, HostsFit, HostFits, Waits

LEMMA DirectivesStay ==
    ASSUME DirectiveInv, UNCHANGED <<calls, hosts, control>>
    PROVE  DirectiveInv'
BY DEF DirectiveInv, hosts, control, ReceiptsTyped, DirectivesFit, DirectiveFits,
       InFlight, MayHaveSent

-----------------------------------------------------------------------------
LEMMA Initially == Init => IInv
<1> SUFFICES ASSUME Init PROVE IInv
  OBVIOUS
<1>1. GoalInv
  <2>1. goal \in Goal /\ ~Pending(goal) /\ goal.claim = NoOp
        /\ goal.covered = 0 /\ goal.epoch = 1 /\ goal.claimEpoch = 0
    BY DEF Init, StartedGoal, Goal, Status, Pending
  <2>2. \A c \in Op : ~MaySend(c)
    BY DEF Init, MaySend
  <2>3. grant \in [Op -> Nat \X Nat]
    BY DEF Init
  <2> QED
    BY <2>1, <2>2, <2>3 DEF GoalInv, GoalSound, ClaimFits, SendersFit
<1>2. HostInv
  BY DEF Init, HostInv, HostsTyped, CallsFit, HostsFit, HostFits
<1>3. DirectiveInv
  <2>1. ReceiptsTyped
    BY DEF Init, ReceiptsTyped, Receipt, ReceiptStatus
  <2>2. DirectivesFit
    BY DEF Init, DirectivesFit, DirectiveFits, MayHaveSent
  <2> QED
    BY <2>1, <2>2 DEF DirectiveInv
<1> QED
  BY <1>1, <1>2, <1>3, DeliveryAssumption DEF IInv, Init

(* The agent, the user and time change the record of the Goal only. *)
LEMMA GoalStep ==
    ASSUME IInv, Touch \/ Manage \/ LeaseEnds \/ ClaimAges \/ RetryDue
    PROVE  IInv'
<1>1. GoalSound(goal) /\ goal \in Goal
  BY DEF IInv, GoalInv, GoalSound
<1>2. UNCHANGED <<calls, hosts, grant, control, faults>>
  BY DEF Touch, Manage, LeaseEnds, ClaimAges, RetryDue
<1>3. GoalSound(goal') /\ (LetsGo(goal, goal') \/ Keeps(goal, goal'))
  <2>1. CASE Touch
    BY <1>1, <2>1, TouchedGoal DEF Touch
  <2>2. CASE Manage
    <3>1. CASE \E to \in {"held", "ended"} : goal' = Revised(goal, to)
      BY <1>1, <3>1, RevisedGoal DEF Status
    <3>2. CASE \E changes \in BOOLEAN : goal' = Updated(goal, changes)
      BY <1>1, <3>2, UpdatedGoal
    <3> QED
      BY <2>2, <3>1, <3>2 DEF Manage
  <2>3. CASE LeaseEnds
    <3> DEFINE h == [goal EXCEPT !.leaseOver = TRUE]
    <3>1. /\ h \in Goal /\ h.claim = goal.claim /\ h.claimEpoch = goal.claimEpoch
          /\ h.revision = goal.revision /\ h.covered = goal.covered
          /\ h.epoch = goal.epoch /\ h.status = goal.status
          /\ h.attempted = goal.attempted /\ h.fresh = goal.fresh
      BY <1>1 DEF Goal
    <3>2. goal' = h
      BY <2>3 DEF LeaseEnds
    <3> HIDE DEF h
    <3> QED
      BY <1>1, <3>1, <3>2 DEF GoalSound, Keeps, Pending
  <2>4. CASE ClaimAges
    <3> DEFINE h == [goal EXCEPT !.fresh = FALSE]
    <3>1. /\ h \in Goal /\ h.claim = goal.claim /\ h.claimEpoch = goal.claimEpoch
          /\ h.revision = goal.revision /\ h.covered = goal.covered
          /\ h.epoch = goal.epoch /\ h.status = goal.status
          /\ h.attempted = goal.attempted /\ h.fresh = FALSE
      BY <1>1 DEF Goal
    <3>2. goal' = h
      BY <2>4 DEF ClaimAges
    <3> HIDE DEF h
    <3> QED
      BY <1>1, <3>1, <3>2 DEF GoalSound, Keeps, Pending
  <2>5. CASE RetryDue
    <3> DEFINE h == [goal EXCEPT !.retryReady = TRUE]
    <3>1. /\ h \in Goal /\ h.claim = goal.claim /\ h.claimEpoch = goal.claimEpoch
          /\ h.revision = goal.revision /\ h.covered = goal.covered
          /\ h.epoch = goal.epoch /\ h.status = goal.status
          /\ h.attempted = goal.attempted /\ h.fresh = goal.fresh
      BY <1>1 DEF Goal
    <3>2. goal' = h
      BY <2>5 DEF RetryDue
    <3> HIDE DEF h
    <3> QED
      BY <1>1, <3>1, <3>2 DEF GoalSound, Keeps, Pending
  <2> QED
    BY <2>1, <2>2, <2>3, <2>4, <2>5
<1> QED
  BY <1>2, <1>3, GoalMoves, HostsStay, DirectivesStay DEF IInv

(* Before anything is asked for it, a receipt is free to change. *)
LEMMA ReceiptUnasked ==
    ASSUME DirectiveInv, UNCHANGED <<calls, hosts>>, ReceiptsTyped',
           NEW d \in Directive, receipt[d].status \in {"none", "prepared"},
           \A e \in Directive \ {d} : receipt'[e] = receipt[e]
    PROVE  DirectiveInv'
<1>1. UNCHANGED <<calls, pc, kind, sent>>
  BY DEF hosts
<1>2. \A e \in Directive : DirectiveFits(e)
  BY DEF DirectiveInv, DirectivesFit
<1>3. ASSUME NEW e \in Directive PROVE DirectiveFits(e)'
  <2>1. CASE e # d
    BY <1>1, <1>2, <2>1 DEF DirectiveFits, InFlight, MayHaveSent
  <2>2. CASE e = d
    BY <1>1, <1>2, <2>2 DEF DirectiveFits, InFlight, MayHaveSent, Expects, Unattempted
  <2> QED
    BY <2>1, <2>2
<1> QED
  BY <1>3 DEF DirectiveInv, DirectivesFit

LEMMA ReceiptStep ==
    ASSUME IInv, NEW d \in Directive,
           UserResume(d) \/ ResumeAnswered(d) \/ LiveClaimAges(d)
    PROVE  IInv'
<1>1. UNCHANGED <<calls, hosts, grant, faults>>
  BY DEF UserResume, ResumeAnswered, LiveClaimAges
<1>2. HostInv'
  BY <1>1, HostsStay DEF IInv
<1>3. GoalInv'
  <2>1. CASE goal' = Revised(goal, "active")
    <3>1. GoalSound(goal') /\ LetsGo(goal, goal')
      BY <2>1, RevisedGoal DEF IInv, GoalInv, Status
    <3> QED
      BY <1>1, <3>1, GoalMoves DEF IInv
  <2>2. CASE goal' = goal
    <3>1. Keeps(goal, goal') /\ GoalSound(goal')
      BY <2>2, KeepsSelf DEF IInv, GoalInv
    <3> QED
      BY <1>1, <3>1, GoalMoves DEF IInv
  <2> QED
    BY <2>1, <2>2 DEF UserResume, ResumeAnswered, LiveClaimAges
<1>4. receipt \in [Directive -> Receipt] /\ live \in [Directive -> Op \cup {NoOp}]
  BY DEF IInv, DirectiveInv, ReceiptsTyped
<1>5. DirectiveInv'
  <2>1. CASE LiveClaimAges(d)
    <3>1. ReceiptsTyped' /\ receipt' = receipt
      BY <1>4, <2>1 DEF LiveClaimAges, ReceiptsTyped
    <3> QED
      BY <1>1, <3>1 DEF IInv, DirectiveInv, hosts, DirectivesFit, DirectiveFits,
                        InFlight, MayHaveSent
  <2>2. CASE UserResume(d) \/ ResumeAnswered(d)
    <3>1. PICK st \in ReceiptStatus : receipt' = [receipt EXCEPT ![d].status = st]
      BY <2>2 DEF UserResume, ResumeAnswered, ReceiptStatus
    <3>2. receipt' \in [Directive -> Receipt]
      BY <1>4, <3>1 DEF Receipt
    <3>3. ReceiptsTyped'
      BY <1>4, <2>2, <3>2 DEF UserResume, ResumeAnswered, ReceiptsTyped
    <3>4. receipt[d].status \in {"none", "prepared"}
      BY <2>2 DEF UserResume, ResumeAnswered
    <3>5. \A e \in Directive \ {d} : receipt'[e] = receipt[e]
      BY <1>4, <3>1
    <3> QED
      BY <1>1, <3>3, <3>4, <3>5, ReceiptUnasked DEF IInv
  <2> QED
    BY <2>1, <2>2
<1> QED
  BY <1>1, <1>2, <1>3, <1>5 DEF IInv

-----------------------------------------------------------------------------
(* What a step does to the Hosts and the calls. *)

Moves == {"send", "done"} \cup Awaiting

(* Host c goes on to its next step, and K is what is left of the calls. *)
GoesOn(c, next, K) ==
    /\ K \subseteq calls
    /\ pc' = [pc EXCEPT ![c] = next]
    /\ calls' = K \cup (IF next \in Awaiting
                       THEN {NewCall(c, next, kind'[c])} ELSE {})
    /\ kind' \in [Op -> Directive \cup {Automatic}]
    /\ sent' \in [Op -> {"none"} \cup Outcome]
    /\ \A b \in Op \ {c} : kind'[b] = kind[b] /\ sent'[b] = sent[b]
    /\ \A k \in K : k.op = c =>
         /\ k.orphan /\ next \in {"report", "release", "done"}
         /\ k.act = "claim" => next = "done"
         /\ kind'[c] = kind[c] /\ sent'[c] = sent[c]
    /\ next \in {"claim", "validate", "attempt", "send"} => sent'[c] = "none"

LEMMA HostMoves ==
    ASSUME HostInv, NEW c \in Op, NEW next \in Moves, NEW K, GoesOn(c, next, K)
    PROVE  HostInv'
<1> USE DEF GoesOn
<1> DEFINE n == NewCall(c, next, kind'[c])
<1>1. /\ pc \in [Op -> {"idle", "send", "done"} \cup Awaiting]
      /\ \A k \in calls : k \in Call /\ CallFits(k)
      /\ \A b \in Op : HostFits(b)
  BY DEF HostInv, HostsTyped, CallsFit, HostsFit
<1>2. pc'[c] = next /\ \A b \in Op \ {c} : pc'[b] = pc[b]
  BY <1>1
<1>3. kind'[c] \in Directive \cup {Automatic}
  OBVIOUS
<1>4. next \in Awaiting =>
        /\ n \in Call /\ n.op = c /\ n.act = next /\ n.orphan = FALSE
        /\ n.stage \in {"new", "asked"}
        /\ n.stage = "new" <=> kind'[c] # Automatic
  <2> SUFFICES ASSUME next \in Awaiting
               PROVE  /\ n \in Call /\ n.op = c /\ n.act = next
                      /\ n.orphan = FALSE /\ n.stage \in {"new", "asked"}
                      /\ n.stage = "new" <=> kind'[c] # Automatic
    OBVIOUS
  <2> QED
    BY <1>3 DEF NewCall, Call
<1>5. \A k \in calls' : k \in K \/ (next \in Awaiting /\ k = n)
  OBVIOUS
<1> HIDE DEF n
<1>6. HostsTyped'
  <2>1. calls' \subseteq Call
    BY <1>1, <1>4, <1>5
  <2>2. pc' \in [Op -> {"idle", "send", "done"} \cup Awaiting]
    BY <1>1 DEF Moves
  <2> QED
    BY <2>1, <2>2 DEF HostsTyped
<1>7. ASSUME NEW k \in calls' PROVE CallFits(k)'
  <2>1. CASE k \in K
    <3>1. k \in Call /\ k.op \in Op /\ CallFits(k)
      BY <1>1, <2>1 DEF Call
    <3>2. CASE k.op # c
      BY <1>2, <3>1, <3>2 DEF CallFits, Waits
    <3>3. CASE k.op = c
      BY <1>2, <2>1, <3>1, <3>3 DEF CallFits
    <3> QED
      BY <3>2, <3>3
  <2>2. CASE next \in Awaiting /\ k = n
    <3>1. next # "cleanup"
      BY <2>2 DEF Moves, Awaiting
    <3> QED
      BY <1>2, <1>3, <1>4, <2>2, <3>1 DEF CallFits, Waits
  <2> QED
    BY <1>5, <2>1, <2>2
<1>8. ASSUME NEW b \in Op PROVE HostFits(b)'
  <2>1. CASE b # c
    BY <1>1, <1>2, <1>4, <1>5, <2>1 DEF HostFits
  <2>2. CASE b = c
    <3>1. next \in {"claim", "validate", "attempt", "send"} => \A k \in K : k.op # c
      OBVIOUS
    <3>2. \A k \in K : k.op = c => k.orphan
      OBVIOUS
    <3>3. pc'[b] \in {"idle", "send"} => \A k \in calls' : k.op # b
      BY <1>2, <1>5, <2>2, <3>1 DEF Moves, Awaiting
    <3>4. \A j, k \in calls' :
            /\ j.op = b /\ k.op = b
            /\ pc'[b] \in {"claim", "validate", "attempt"} \/ (~j.orphan /\ ~k.orphan)
            => j = k
      BY <1>2, <1>5, <2>2, <3>1, <3>2
    <3>5. pc'[b] \in {"idle", "claim", "validate", "attempt", "send"} => sent'[b] = "none"
      BY <1>2, <2>2 DEF Moves, Awaiting
    <3> QED
      BY <3>3, <3>4, <3>5 DEF HostFits
  <2> QED
    BY <2>1, <2>2
<1> QED
  BY <1>6, <1>7, <1>8 DEF HostInv, CallsFit, HostsFit

LEMMA StartStep ==
    ASSUME IInv, NEW c \in Op, Start(c)
    PROVE  IInv'
<1>1. PICK what \in Directive \cup {Automatic} :
        /\ kind' = [kind EXCEPT ![c] = what]
        /\ calls' = calls \cup {NewCall(c, "claim", what)}
  BY DEF Start
<1>2. HostInv /\ HostsTyped /\ HostFits(c) /\ pc[c] = "idle"
  BY DEF IInv, HostInv, HostsFit, Start
<1>3. /\ sent[c] = "none" /\ \A k \in calls : k.op # c
  BY <1>2 DEF HostFits
<1>4. /\ kind \in [Op -> Directive \cup {Automatic}]
      /\ sent \in [Op -> {"none"} \cup Outcome]
      /\ pc \in [Op -> {"idle", "send", "done"} \cup Awaiting]
  BY <1>2 DEF HostsTyped
<1>5. /\ pc' = [pc EXCEPT ![c] = "claim"] /\ sent' = sent
      /\ UNCHANGED <<goal, control, grant, faults>>
  BY DEF Start
<1>6. kind'[c] = what /\ \A b \in Op \ {c} : kind'[b] = kind[b] /\ pc'[b] = pc[b]
  BY <1>1, <1>4, <1>5
<1>7. HostInv'
  <2>1. "claim" \in Awaiting
    BY DEF Awaiting
  <2>2. kind' \in [Op -> Directive \cup {Automatic}]
    BY <1>1, <1>4
  <2>3. calls' = calls \cup (IF "claim" \in Awaiting
                            THEN {NewCall(c, "claim", kind'[c])} ELSE {})
    BY <1>1, <1>6, <2>1
  <2>4. /\ \A b \in Op \ {c} : kind'[b] = kind[b] /\ sent'[b] = sent[b]
        /\ sent'[c] = "none" /\ sent' \in [Op -> {"none"} \cup Outcome]
    BY <1>3, <1>4, <1>5, <1>6
  <2>5. "claim" \in Moves /\ calls \subseteq calls
    BY <2>1 DEF Moves
  <2>6. GoesOn(c, "claim", calls)
    BY <1>3, <1>5, <2>2, <2>3, <2>4, <2>5 DEF GoesOn
  <2> QED
    BY <1>2, <2>5, <2>6, HostMoves
<1> DEFINE n == NewCall(c, "claim", what)
<1>8. /\ n.op = c /\ n.act = "claim" /\ n.orphan = FALSE
      /\ n.stage \in {"new", "asked"} /\ (n.stage = "new" <=> what # Automatic)
  BY DEF NewCall
<1>9. \A k \in calls' : k \in calls \/ k = n
  BY <1>1
<1>10. \A k \in calls : k.op \in Op
  BY <1>2 DEF HostsTyped, Call
<1> HIDE DEF n
<1>11. GoalInv'
  <2>1. \A b \in Op : MaySend(b)' => MaySend(b)
    BY <1>3, <1>4, <1>5, <1>6, <1>8, <1>9 DEF MaySend, Granted
  <2>2. \A b \in Op : pc[b] # "idle" => pc'[b] # "idle" /\ kind'[b] = kind[b]
    BY <1>2, <1>6
  <2> QED
    BY <1>5, <2>1, <2>2, GoalStays DEF IInv
<1>12. ASSUME NEW d \in Directive PROVE DirectiveFits(d)'
  <2>1. DirectiveFits(d) /\ receipt' = receipt
    BY <1>5 DEF IInv, DirectiveInv, DirectivesFit, control
  <2>2. d # Automatic
    BY DeliveryAssumption
  <2>3. \A k \in calls' : InFlight(k, d)' => k \in calls /\ InFlight(k, d)
    BY <1>3, <1>6, <1>8, <1>9, <1>10, <2>2 DEF InFlight
  <2>4. \A b \in Op : kind'[b] = d /\ MayHaveSent(b)' => kind[b] = d /\ MayHaveSent(b)
    BY <1>3, <1>4, <1>5, <1>6 DEF MayHaveSent
  <2> QED
    BY <2>1, <2>3, <2>4 DEF DirectiveFits, Expects
<1> QED
  BY <1>5, <1>7, <1>11, <1>12
  DEF IInv, DirectiveInv, DirectivesFit, ReceiptsTyped, control

(* Call k becomes n: it moves on, its caller does not. *)
Edits(k, n) ==
    /\ k \in calls /\ n \in Call
    /\ n.op = k.op /\ n.orphan = k.orphan
    /\ n.act \in {k.act, "cleanup"} /\ Waits(n) = Waits(k)
    /\ calls' = (calls \ {k}) \cup {n}
    /\ UNCHANGED hosts

LEMMA EditedHosts ==
    ASSUME HostInv, NEW k, NEW n, Edits(k, n), CallFits(n)
    PROVE  HostInv'
<1>1. UNCHANGED <<pc, kind, sent>>
  BY DEF Edits, hosts
<1>2. \A j \in calls' : j = n \/ (j \in calls /\ j # k)
  BY DEF Edits
<1>3. HostsTyped'
  BY <1>1 DEF HostInv, HostsTyped, Edits
<1>4. CallsFit'
  BY <1>1, <1>2 DEF HostInv, CallsFit, CallFits, Waits
<1>5. ASSUME NEW c \in Op PROVE HostFits(c)'
  <2>1. HostFits(c)
    BY DEF HostInv, HostsFit
  <2>2. k \in calls /\ n.op = k.op /\ n.orphan = k.orphan
    BY DEF Edits
  <2>3. pc[c] \in {"idle", "send"} => \A j \in calls' : j.op # c
    BY <1>2, <2>1, <2>2 DEF HostFits
  <2>4. ASSUME NEW i \in calls', NEW j \in calls', i.op = c, j.op = c,
               pc[c] \in {"claim", "validate", "attempt"} \/ (~i.orphan /\ ~j.orphan)
        PROVE  i = j
    BY <1>2, <2>1, <2>2, <2>4 DEF HostFits
  <2>5. pc[c] \in {"idle", "claim", "validate", "attempt", "send"} => sent[c] = "none"
    BY <2>1 DEF HostFits
  <2> QED
    BY <1>1, <2>3, <2>4, <2>5 DEF HostFits
<1> QED
  BY <1>3, <1>4, <1>5 DEF HostInv, HostsFit

LEMMA EditedGoal ==
    ASSUME GoalInv, NEW k, NEW n, Edits(k, n), Granted(n) => Granted(k),
           UNCHANGED <<goal, grant>>
    PROVE  GoalInv'
<1>1. UNCHANGED <<pc, kind, sent>>
  BY DEF Edits, hosts
<1>2. \A j \in calls' : j = n \/ j \in calls
  BY DEF Edits
<1>3. \A c \in Op : MaySend(c)' => MaySend(c)
  BY <1>1, <1>2 DEF Edits, MaySend, Granted
<1> QED
  BY <1>1, <1>3, GoalStays

LEMMA EditedDirectives ==
    ASSUME DirectiveInv, NEW k, NEW n, Edits(k, n), UNCHANGED control,
           \A d \in Directive : InFlight(n, d) => InFlight(k, d)
    PROVE  DirectiveInv'
<1>1. UNCHANGED <<pc, kind, sent, receipt, live>>
  BY DEF Edits, hosts, control
<1>2. \A j \in calls' : j = n \/ (j \in calls /\ j # k)
  BY DEF Edits
<1>3. ASSUME NEW d \in Directive PROVE DirectiveFits(d)'
  <2>1. DirectiveFits(d)
    BY DEF DirectiveInv, DirectivesFit
  <2>2. InFlight(n, d) /\ Expects(k, receipt[d]) => Expects(n, receipt[d])
    BY DEF Edits, Expects
  <2>3. k \in calls
    BY DEF Edits
  <2>4. \A j \in calls' : InFlight(j, d) => Expects(j, receipt[d])
    BY <1>2, <2>1, <2>2, <2>3 DEF DirectiveFits
  <2>5. \A i, j \in calls' : InFlight(i, d) /\ InFlight(j, d) => i = j
    BY <1>2, <2>1, <2>3 DEF DirectiveFits
  <2>6. \A j : InFlight(j, d)' <=> InFlight(j, d)
    BY <1>1 DEF InFlight
  <2> QED
    BY <1>1, <2>1, <2>4, <2>5, <2>6 DEF DirectiveFits, MayHaveSent, Expects
<1> QED
  BY <1>1, <1>3 DEF DirectiveInv, DirectivesFit, ReceiptsTyped

(* The step of a call that only it notices. *)
LEMMA EditedOnly ==
    ASSUME IInv, NEW k, NEW n, Edits(k, n), CallFits(n),
           Granted(n) => Granted(k),
           \A d \in Directive : InFlight(n, d) => InFlight(k, d),
           UNCHANGED <<goal, grant, control>>, faults' \in 0..MaxFaults
    PROVE  IInv'
BY EditedHosts, EditedGoal, EditedDirectives DEF IInv

(* The forms an edited call takes. *)
LEMMA WaitingForm ==
    ASSUME NEW k \in Call
    PROVE  LET n == [k EXCEPT !.stage = "waiting"]
           IN  /\ n \in Call /\ n.op = k.op /\ n.act = k.act
               /\ n.orphan = k.orphan /\ n.stage = "waiting"
<1>1. [k EXCEPT !.stage = "waiting"] \in Call
  BY DEF Call
<1> QED
  BY <1>1 DEF Call

LEMMA ReadingForm ==
    ASSUME NEW k \in Call,
           NEW do \in {"none", "claim", "validate", "attempt", "report", "release"}
    PROVE  LET n == [k EXCEPT !.stage = "reading", !.do = do]
           IN  /\ n \in Call /\ n.op = k.op /\ n.act = k.act
               /\ n.orphan = k.orphan /\ n.stage = "reading" /\ n.do = do
<1>1. [k EXCEPT !.stage = "reading", !.do = do] \in Call
  BY DEF Call
<1> QED
  BY <1>1 DEF Call

LEMMA AnsweredForm ==
    ASSUME NEW k \in Call,
           NEW answer \in {"none", "yes", "no", "duplicate", "error"}
    PROVE  LET n == [k EXCEPT !.stage = "answered", !.answer = answer,
                              !.do = "none"]
           IN  /\ n \in Call /\ n.op = k.op /\ n.act = k.act
               /\ n.orphan = k.orphan /\ n.stage = "answered"
               /\ n.answer = answer
<1>1. [k EXCEPT !.stage = "answered", !.answer = answer, !.do = "none"] \in Call
  BY DEF Call
<1> QED
  BY <1>1 DEF Call

LEMMA QueueStep ==
    ASSUME IInv, NEW k \in calls, Queue(k)
    PROVE  IInv'
<1> DEFINE n == [k EXCEPT !.stage = "waiting"]
<1>1. k \in Call /\ CallFits(k)
  BY DEF IInv, HostInv, HostsTyped, CallsFit
<1>2. /\ n \in Call /\ n.op = k.op /\ n.act = k.act
      /\ n.orphan = k.orphan /\ n.stage = "waiting"
  BY <1>1, WaitingForm
<1>3. calls' = (calls \ {k}) \cup {n} /\ k.stage = "new"
  BY DEF Queue, Move
<1>4. UNCHANGED <<goal, control, hosts, grant, faults>>
  BY DEF Queue
<1> HIDE DEF n
<1>5. Edits(k, n)
  BY <1>2, <1>3, <1>4 DEF Edits, Waits
<1>6. CallFits(n)
  BY <1>1, <1>2, <1>3 DEF CallFits, Waits
<1>7. ~Granted(n) /\ \A d \in Directive : ~InFlight(n, d)
  BY <1>2 DEF Granted, InFlight
<1> QED
  BY <1>4, <1>5, <1>6, <1>7, EditedOnly DEF IInv

LEMMA ReadStep ==
    ASSUME IInv, NEW k \in calls, Read(k)
    PROVE  IInv'
<1>1. k \in Call /\ CallFits(k) /\ k.stage = "asked"
  BY DEF IInv, HostInv, HostsTyped, CallsFit, Read
<1>2. UNCHANGED <<goal, control, hosts, grant, faults>>
  BY DEF Read
<1>3. k.op \in Op /\ sent[k.op] \in {"none"} \cup Outcome
  BY <1>1 DEF IInv, HostInv, HostsTyped, Call
<1>4. \/ \E answer \in {"yes", "no"} : Answer(k, answer)
         /\ (k.act = "attempt" => answer = "no")
      \/ \E do \in Does(k.act) : WillDo(k, do)
         /\ (do = "report" => ~Uncertain(k.op))
  <2>1. CASE k.act = "claim"
    BY <2>1 DEF Read, Does
  <2>2. CASE k.act # "claim" /\ ~Pending(goal)
    BY <2>2 DEF Read
  <2>3. CASE k.act = "attempt" /\ Pending(goal)
    BY <2>3 DEF Read, Does
  <2>4. CASE k.act = "report" /\ Pending(goal)
    BY <2>4 DEF Read, Does
  <2>5. CASE k.act = "validate" /\ Pending(goal)
    BY <2>5 DEF Read, Does
  <2>6. CASE k.act \in {"release", "cleanup"} /\ Pending(goal)
    BY <2>6 DEF Read, Does
  <2> QED
    BY <1>1, <2>1, <2>2, <2>3, <2>4, <2>5, <2>6 DEF Call, Awaiting
<1>5. CASE \E answer \in {"yes", "no"} : Answer(k, answer)
            /\ (k.act = "attempt" => answer = "no")
  <2>1. PICK answer \in {"yes", "no"} :
            Answer(k, answer) /\ (k.act = "attempt" => answer = "no")
    BY <1>5
  <2>7. answer \in {"none", "yes", "no", "duplicate", "error"}
    OBVIOUS
  <2> DEFINE n == [k EXCEPT !.stage = "answered", !.answer = answer, !.do = "none"]
  <2>2. /\ n \in Call /\ n.op = k.op /\ n.act = k.act
        /\ n.orphan = k.orphan /\ n.stage = "answered" /\ n.answer = answer
    BY <1>1, <2>7, AnsweredForm
  <2>3. calls' = (calls \ {k}) \cup {n}
    BY <2>1 DEF Answer
  <2> HIDE DEF n
  <2>4. Edits(k, n)
    BY <1>2, <2>2, <2>3 DEF Edits, Waits
  <2>5. CallFits(n)
    BY <1>1, <2>2 DEF CallFits, Waits
  <2>6. ~Granted(n) /\ \A d \in Directive : InFlight(n, d) => InFlight(k, d)
    BY <1>1, <2>1, <2>2 DEF Granted, InFlight
  <2> QED
    BY <1>2, <2>4, <2>5, <2>6, EditedOnly DEF IInv
<1>6. CASE \E do \in Does(k.act) : WillDo(k, do)
            /\ (do = "report" => ~Uncertain(k.op))
  <2>1. PICK do \in Does(k.act) :
            WillDo(k, do) /\ (do = "report" => ~Uncertain(k.op))
    BY <1>6
  <2>2. do \in {"none", "claim", "validate", "attempt", "report", "release"}
    BY <1>1 DEF Does, Call, Awaiting
  <2> DEFINE n == [k EXCEPT !.stage = "reading", !.do = do]
  <2>3. /\ n \in Call /\ n.op = k.op /\ n.act = k.act
        /\ n.orphan = k.orphan /\ n.stage = "reading" /\ n.do = do
    BY <1>1, <2>2, ReadingForm
  <2>4. calls' = (calls \ {k}) \cup {n}
    BY <2>1 DEF WillDo
  <2> HIDE DEF n
  <2>5. Edits(k, n)
    BY <1>2, <2>3, <2>4 DEF Edits, Waits
  <2>6. CallFits(n)
    BY <1>1, <2>1, <2>3 DEF CallFits, Waits, Uncertain
  <2>7. ~Granted(n) /\ \A d \in Directive : InFlight(n, d) => InFlight(k, d)
    BY <1>1, <2>3 DEF Granted, InFlight
  <2> QED
    BY <1>2, <2>5, <2>6, <2>7, EditedOnly DEF IInv
<1> QED
  BY <1>4, <1>5, <1>6

LEMMA AnswerLostStep ==
    ASSUME IInv, NEW k \in calls, AnswerLost(k)
    PROVE  IInv'
<1> DEFINE n == [k EXCEPT !.stage = "answered", !.answer = "error", !.do = "none"]
<1>1. k \in Call /\ CallFits(k) /\ k.stage = "answered"
  BY DEF IInv, HostInv, HostsTyped, CallsFit, AnswerLost
<1>2. /\ n \in Call /\ n.op = k.op /\ n.act = k.act
      /\ n.orphan = k.orphan /\ n.stage = "answered" /\ n.answer = "error"
  BY <1>1, AnsweredForm
<1>3. calls' = (calls \ {k}) \cup {n} /\ UNCHANGED <<goal, control, hosts, grant>>
  BY DEF AnswerLost, Answer
<1> HIDE DEF n
<1>4. Edits(k, n)
  BY <1>2, <1>3 DEF Edits, Waits
<1>5. CallFits(n)
  BY <1>1, <1>2 DEF CallFits, Waits
<1>6. ~Granted(n) /\ \A d \in Directive : InFlight(n, d) => InFlight(k, d)
  BY <1>1, <1>2 DEF Granted, InFlight
<1>7. faults' \in 0..MaxFaults
  BY DeliveryAssumption DEF AnswerLost, Fault, IInv
<1> QED
  BY <1>3, <1>4, <1>5, <1>6, <1>7, EditedOnly

LEMMA NotSending ==
    ASSUME HostInv, NEW c \in Op, pc[c] \notin {"send", "attempt"},
           sent[c] \notin {"accepted", "unknown"}
    PROVE  ~MaySend(c)
BY DEF HostInv, CallsFit, CallFits, Waits, MaySend, Granted

(* The Instance has the Goal do what call k asks for. *)
LEMMA ActStep ==
    ASSUME IInv, NEW k \in calls, Act(k)
    PROVE  IInv'
<1>1. k \in Call /\ CallFits(k) /\ k.stage = "reading" /\ k.do \in Does(k.act)
  BY DEF IInv, HostInv, HostsTyped, CallsFit, CallFits, Act
<1>2. PICK c \in Op : c = k.op
  BY <1>1 DEF Call
<1>3. PICK do \in {"claim", "validate", "attempt", "report", "release"} : do = k.do
  BY <1>1 DEF Does, Call, Awaiting
<1>4. PICK user \in BOOLEAN : user <=> kind[c] # Automatic
  OBVIOUS
<1>5. PICK accepted \in BOOLEAN : accepted <=> Accepted(c)
  OBVIOUS
<1>6. PICK g : g = goal
  OBVIOUS
<1> DEFINE res == Continuation(g, do, c, user, accepted)
<1>7. Effect(g, res, do, c, user, accepted)
  BY <1>6, ContinuedGoal DEF IInv, GoalInv
<1>8. res = Continuation(goal, k.do, k.op, kind[k.op] # Automatic, Accepted(k.op))
  <2>1. user = (kind[c] # Automatic) /\ accepted = Accepted(c)
    BY <1>4, <1>5 DEF Accepted
  <2> QED
    BY <1>2, <1>3, <1>6, <2>1
<1> HIDE DEF res
<1>9. PICK r : r = res
  OBVIOUS
<1>10. Effect(g, r, do, c, user, accepted)
  BY <1>7, <1>9
<1>11. PICK answer \in {"yes", "no", "error", "duplicate"} :
         /\ Answer(k, answer)
         /\ answer = "duplicate" => k.act = "attempt"
         /\ k.act = "attempt" /\ answer = "yes" => do = "attempt" /\ r.answer = "yes"
  <2> DEFINE a == IF k.act = "attempt" /\ k.do = "validate" /\ r.answer = "yes"
                  THEN "duplicate" ELSE r.answer
  <2>1. Answer(k, a)
    BY <1>8, <1>9 DEF Act
  <2>2. r.answer \in {"yes", "no", "error"}
    BY <1>10 DEF Effect
  <2>3. k.act = "attempt" => do \in {"validate", "attempt"}
    BY <1>1, <1>3 DEF Does
  <2>4. a \in {"yes", "no", "error", "duplicate"} /\ (a = "duplicate" => k.act = "attempt")
    BY <2>2
  <2>5. k.act = "attempt" /\ a = "yes" => do = "attempt" /\ r.answer = "yes"
    BY <1>3, <2>2, <2>3
  <2> QED
    BY <2>1, <2>4, <2>5
<1>12. /\ goal' = r.goal /\ UNCHANGED <<control, hosts, faults>>
       /\ grant' = IF do = "claim" /\ r.answer = "yes" /\ ~user
                   THEN [grant EXCEPT ![c] = <<goal.revision, goal.epoch>>]
                   ELSE grant
  BY <1>2, <1>3, <1>4, <1>8, <1>9 DEF Act
<1> DEFINE n == [k EXCEPT !.stage = "answered", !.answer = answer, !.do = "none"]
<1>13. /\ n \in Call /\ n.op = k.op /\ n.act = k.act
       /\ n.orphan = k.orphan /\ n.stage = "answered" /\ n.answer = answer
  <2>1. answer \in {"none", "yes", "no", "duplicate", "error"}
    OBVIOUS
  <2> QED
    BY <1>1, <2>1, AnsweredForm
<1>14. calls' = (calls \ {k}) \cup {n}
  BY <1>11 DEF Answer
<1> HIDE DEF n
<1>15. Edits(k, n)
  BY <1>12, <1>13, <1>14 DEF Edits, Waits
<1>16. CallFits(n)
  BY <1>1, <1>11, <1>13 DEF CallFits, Waits
<1>17. HostInv'
  BY <1>15, <1>16, EditedHosts DEF IInv
<1>18. DirectiveInv'
  <2>1. \A d \in Directive : InFlight(n, d) => InFlight(k, d)
    BY <1>1, <1>13 DEF InFlight
  <2> QED
    BY <1>12, <1>15, <2>1, EditedDirectives DEF IInv
<1>19. UNCHANGED <<pc, kind, sent>>
  BY <1>12 DEF hosts
<1>20. /\ goal \in Goal /\ goal' \in Goal /\ GoalSound(goal) /\ GoalSound(goal')
       /\ goal' = r.goal /\ grant \in [Op -> Nat \X Nat]
  BY <1>6, <1>10, <1>12 DEF Effect, GoalSound, IInv, GoalInv
<1>21. pc[c] # "idle" /\ c # NoOp
  <2>1. HostFits(c)
    BY DEF IInv, HostInv, HostsFit
  <2> QED
    BY <1>2, <2>1, OpAssumption DEF HostFits
<1>22. \A b \in Op : MaySend(b)' => MaySend(b) \/ (b = c /\ kind[c] = Automatic /\ Granted(n))
  <2>1. \A j \in calls' : j = n \/ j \in calls
    BY <1>14
  <2> QED
    BY <1>2, <1>13, <1>19, <2>1 DEF MaySend, Granted
<1>23. Granted(n) => do = "attempt" /\ r.answer = "yes"
  BY <1>11, <1>13 DEF Granted
<1>24. GoalInv'
  <2>1. CASE do = "claim" /\ r.answer = "yes"
    <3>1. Grants(goal, goal', c, user)
      BY <1>6, <1>10, <1>20, <2>1 DEF Effect
    <3>2. k.act = "claim"
      BY <1>1, <1>3, <2>1 DEF Does, Call, Awaiting
    <3>3. ~MaySend(c)
      BY <1>1, <1>2, <3>2, NotSending DEF IInv, CallFits
    <3>4. \A b \in Op : MaySend(b)' => MaySend(b) /\ b # c
      BY <1>22, <1>23, <2>1, <3>3
    <3>5. \A b \in Op \ {c} : grant'[b] = grant[b]
      BY <1>12, <1>20
    <3>6. goal.revision \in Nat /\ goal.epoch \in Nat /\ goal.covered \in Nat
      BY <1>20 DEF Goal
    <3>7. grant' \in [Op -> Nat \X Nat]
      BY <1>12, <1>20, <3>6
    <3>8. kind[c] = Automatic => grant'[c] = <<goal.revision, goal.epoch>>
      BY <1>4, <1>12, <1>20, <2>1
    <3>9. ClaimFits'
      BY <1>4, <1>19, <1>21, <3>1, <3>6, <3>8 DEF ClaimFits, Grants
    <3>10. ASSUME NEW b \in Op, MaySend(b)' PROVE Spent(goal', b, grant'[b])
      <4>1. Spent(goal, b, grant[b])
        BY <3>4, <3>10 DEF IInv, GoalInv, SendersFit
      <4> QED
        BY <3>1, <3>4, <3>5, <3>10, <4>1 DEF Spent, Grants
    <3>11. SendersFit'
      BY <3>4, <3>5, <3>10 DEF IInv, GoalInv, SendersFit
    <3> QED
      BY <1>20, <3>7, <3>9, <3>11 DEF GoalInv
  <2>2. CASE LetsGo(goal, goal') \/ Keeps(goal, goal')
    <3>1. CASE do = "claim" /\ r.answer = "yes"
      BY <2>1, <3>1
    <3>2. CASE ~(do = "claim" /\ r.answer = "yes")
      <4>1. grant' = grant
        BY <1>12, <3>2
      <4>2. ClaimFits'
        BY <1>19, <2>2, <4>1, OpAssumption DEF IInv, GoalInv, ClaimFits, LetsGo, Keeps
      <4>3. ASSUME NEW b \in Op, MaySend(b) PROVE Spent(goal', b, grant[b])
        <5>1. Spent(goal, b, grant[b]) /\ grant[b] \in Nat \X Nat
          BY <1>20, <4>3 DEF IInv, GoalInv, SendersFit
        <5>2. kind[b] = Automatic /\ b # NoOp
          BY <4>3, OpAssumption DEF MaySend
        <5>3. goal.claim = b => grant[b][2] = goal.claimEpoch
          BY <5>2 DEF IInv, GoalInv, ClaimFits
        <5> QED
          BY <1>20, <2>2, <5>1, <5>2, <5>3, StaysSpent
      <4>4. CASE Granted(n) /\ kind[c] = Automatic
        <5>1. Keeps(goal, goal') /\ goal'.claim = c /\ goal'.attempted
          BY <1>6, <1>10, <1>20, <1>23, <4>4 DEF Effect
        <5>2. /\ goal.claim = c /\ grant[c] = <<goal.revision, goal.claimEpoch>>
              /\ goal.claimEpoch > goal.covered
              /\ goal.covered \in Nat /\ goal.claimEpoch \in Nat /\ goal.revision \in Nat
          BY <1>20, <1>21, <4>4, <5>1 DEF Keeps, IInv, GoalInv, ClaimFits, Goal
        <5>3. Spent(goal', c, grant[c])
          BY <5>1, <5>2 DEF Spent, Keeps
        <5>4. ASSUME NEW b \in Op \ {c}, MaySend(b) PROVE grant[b] # grant[c]
          <6>1. Spent(goal, b, grant[b])
            BY <5>4 DEF IInv, GoalInv, SendersFit
          <6> QED
            BY <5>2, <5>4, <6>1 DEF Spent
        <5>5. SendersFit'
          BY <1>22, <4>1, <4>3, <5>3, <5>4 DEF IInv, GoalInv, SendersFit
        <5> QED
          BY <1>20, <4>1, <4>2, <5>5 DEF GoalInv
      <4>5. CASE ~(Granted(n) /\ kind[c] = Automatic)
        <5>1. SendersFit'
          BY <1>22, <4>1, <4>3, <4>5 DEF IInv, GoalInv, SendersFit
        <5> QED
          BY <1>20, <4>1, <4>2, <5>1 DEF GoalInv
      <4> QED
        BY <4>4, <4>5
    <3> QED
      BY <3>1, <3>2
  <2>3. CASE do = "report" /\ ~accepted /\ Drops(goal, goal', c)
    <3>1. grant' = grant /\ goal'.claim = NoOp
      BY <1>12, <2>3 DEF Drops
    <3>2. sent[c] = "rejected"
      BY <1>1, <1>2, <1>3, <1>5, <2>3 DEF CallFits, Accepted
    <3>3. HostFits(c)
      BY DEF IInv, HostInv, HostsFit
    <3>4. ~MaySend(c)
      BY <3>2, <3>3, NotSending DEF IInv, HostFits
    <3>5. \A b \in Op : MaySend(b)' => MaySend(b) /\ b # c
      BY <1>22, <1>23, <2>3, <3>4
    <3>6. ASSUME NEW b \in Op, MaySend(b)' PROVE Spent(goal', b, grant'[b])
      <4>1. Spent(goal, b, grant[b])
        BY <3>5, <3>6 DEF IInv, GoalInv, SendersFit
      <4> QED
        BY <2>3, <3>1, <3>5, <3>6, <4>1 DEF Spent, Drops
    <3>7. SendersFit' /\ ClaimFits'
      BY <3>1, <3>5, <3>6 DEF IInv, GoalInv, SendersFit, ClaimFits
    <3> QED
      BY <1>20, <3>1, <3>7 DEF GoalInv
  <2> QED
    BY <1>6, <1>10, <1>20, <2>1, <2>2, <2>3 DEF Effect
<1> QED
  BY <1>12, <1>17, <1>18, <1>24 DEF IInv

-----------------------------------------------------------------------------
(* The steps of a Host, and of a call that is over. *)

(* What is in flight afterwards is one of K, and was in flight before. *)
Clears(K) ==
    /\ kind' = kind
    /\ \A d \in Directive : \A j \in calls' :
         InFlight(j, d)' => j \in K /\ InFlight(j, d)

(* Only for c may there now be a message, and only then. *)
SendsOnly(c, may) == \A b \in Op : MayHaveSent(b)' => MayHaveSent(b) \/ (b = c /\ may)

LEMMA MovedOn ==
    ASSUME HostInv, NEW c \in Op, NEW next \in Moves, NEW K,
           GoesOn(c, next, K), kind' = kind
    PROVE  /\ Clears(K)
           /\ UNCHANGED sent => SendsOnly(c, next = "send")
           /\ \A b \in Op : MaySend(b)' => MaySend(b)
                    \/ (b = c /\ kind[c] = Automatic /\ (next = "send" \/ sent' # sent))
           /\ \A b \in Op : pc[b] # "idle" => pc'[b] # "idle"
<1> DEFINE n == NewCall(c, next, kind'[c])
<1>1. pc \in [Op -> {"idle", "send", "done"} \cup Awaiting]
  BY DEF HostInv, HostsTyped
<1>2. pc'[c] = next /\ \A b \in Op \ {c} : pc'[b] = pc[b]
  BY <1>1 DEF GoesOn
<1>3. /\ n.op = c /\ n.stage \in {"new", "asked"}
      /\ n.stage = "asked" => kind[c] = Automatic
  BY DEF NewCall
<1>4. \A j \in calls' : (j \in K /\ j \in calls) \/ j = n
  BY DEF GoesOn
<1> HIDE DEF n
<1>5. Clears(K)
  <2>1. ASSUME NEW d \in Directive, NEW j \in calls', InFlight(j, d)'
        PROVE  j \in K /\ InFlight(j, d)
    <3>1. InFlight(j, d)
      BY <2>1 DEF InFlight
    <3>2. j # n
      BY <1>3, <3>1, DeliveryAssumption DEF InFlight
    <3> QED
      BY <1>4, <3>1, <3>2
  <2> QED
    BY <2>1 DEF Clears
<1>6. UNCHANGED sent => SendsOnly(c, next = "send")
  BY <1>2 DEF SendsOnly, MayHaveSent
<1>7. ASSUME NEW b \in Op, MaySend(b)'
      PROVE  MaySend(b)
                \/ (b = c /\ kind[c] = Automatic /\ (next = "send" \/ sent' # sent))
  <2>1. ASSUME NEW j \in calls', j.op = b, Granted(j)
        PROVE  MaySend(b)
    <3>1. j \in calls
      BY <1>3, <1>4, <2>1 DEF Granted
    <3> QED
      BY <1>7, <2>1, <3>1 DEF MaySend
  <2> QED
    BY <1>2, <1>7, <2>1 DEF MaySend, Granted, GoesOn
<1>8. \A b \in Op : pc[b] # "idle" => pc'[b] # "idle"
  BY <1>2 DEF Moves, Awaiting
<1> QED
  BY <1>5, <1>6, <1>7, <1>8

LEMMA CallsGone ==
    ASSUME HostInv, NEW k, calls' = calls \ {k}, UNCHANGED hosts
    PROVE  /\ HostInv' /\ Clears(calls \ {k})
           /\ \A c : SendsOnly(c, FALSE)
           /\ \A b \in Op : MaySend(b)' => MaySend(b)
<1>1. UNCHANGED <<pc, kind, sent>>
  BY DEF hosts
<1>2. HostInv'
  BY <1>1 DEF HostInv, HostsTyped, CallsFit, CallFits, HostsFit, HostFits, Waits
<1> QED
  BY <1>1, <1>2 DEF Clears, InFlight, SendsOnly, MayHaveSent, MaySend, Granted

(* Of the receipt of one directive: n is all that is in flight for it now. *)
LEMMA ReceiptMoves ==
    ASSUME DirectiveInv, ReceiptsTyped', NEW d \in Directive, NEW n, kind' = kind,
           \A e \in Directive \ {d} : receipt'[e] = receipt[e],
           \A e \in Directive \ {d} : \A j \in calls' :
                InFlight(j, e)' => j \in calls /\ InFlight(j, e),
           \A j \in calls' : InFlight(j, d)' => j = n /\ Expects(n, receipt'[d]),
           \A b \in Op : MayHaveSent(b)' /\ kind[b] # d => MayHaveSent(b),
           \A b \in Op : kind[b] = d /\ MayHaveSent(b)' =>
                /\ receipt'[d].claim = b
                /\ receipt'[d].status \in {"attempted", "reporting", "settled"}
    PROVE  DirectiveInv'
<1>1. ASSUME NEW e \in Directive PROVE DirectiveFits(e)'
  <2>1. DirectiveFits(e)
    BY DEF DirectiveInv, DirectivesFit
  <2>2. CASE e = d
    BY <2>2 DEF DirectiveFits, Expects
  <2>3. CASE e # d
    <3>1. /\ receipt'[e] = receipt[e]
          /\ \A j \in calls' : InFlight(j, e)' => j \in calls /\ InFlight(j, e)
          /\ \A b \in Op : kind[b] = e /\ MayHaveSent(b)' => MayHaveSent(b)
      BY <2>3
    <3> QED
      BY <2>1, <3>1 DEF DirectiveFits, Expects
  <2> QED
    BY <2>2, <2>3
<1> QED
  BY <1>1 DEF DirectiveInv, DirectivesFit

LEMMA ReceiptsRest ==
    ASSUME DirectiveInv, UNCHANGED control, NEW K, K \subseteq calls, Clears(K),
           \A b \in Op : MayHaveSent(b)' /\ kind[b] \in Directive => MayHaveSent(b)
    PROVE  DirectiveInv'
<1>1. receipt' = receipt /\ live' = live /\ kind' = kind
  BY DEF control, Clears
<1>2. ASSUME NEW e \in Directive PROVE DirectiveFits(e)'
  <2>1. DirectiveFits(e)
    BY DEF DirectiveInv, DirectivesFit
  <2>2. \A j \in calls' : InFlight(j, e)' => j \in calls /\ InFlight(j, e)
    BY DEF Clears
  <2> QED
    BY <1>1, <2>1, <2>2 DEF DirectiveFits, Expects
<1> QED
  BY <1>1, <1>2 DEF DirectiveInv, DirectivesFit, ReceiptsTyped

LEMMA SendStep ==
    ASSUME IInv, NEW c \in Op, Send(c)
    PROVE  IInv'
<1>1. PICK o \in Outcome : sent' = [sent EXCEPT ![c] = o]
  BY DEF Send
<1>2. HostInv /\ HostsTyped /\ HostFits(c) /\ pc[c] = "send"
  BY DEF IInv, HostInv, HostsFit, Send
<1>3. \A k \in calls : k.op # c
  BY <1>2 DEF HostFits
<1>4. sent' \in [Op -> {"none"} \cup Outcome] /\ \A b \in Op \ {c} : sent'[b] = sent[b]
  BY <1>1, <1>2 DEF HostsTyped
<1>5. /\ pc' = [pc EXCEPT ![c] = "report"] /\ kind' = kind
      /\ UNCHANGED <<goal, control, grant, faults>>
      /\ calls' = calls \cup (IF "report" \in Awaiting
                             THEN {NewCall(c, "report", kind'[c])} ELSE {})
  BY DEF Send, Requests
<1>6. GoesOn(c, "report", calls)
  BY <1>2, <1>3, <1>4, <1>5 DEF GoesOn, HostsTyped
<1>7. "report" \in Moves
  BY DEF Moves, Awaiting
<1>8. HostInv'
  BY <1>2, <1>6, <1>7, HostMoves
<1>9. /\ Clears(calls)
      /\ \A b \in Op : MaySend(b)' => MaySend(b) \/ (b = c /\ kind[c] = Automatic)
      /\ \A b \in Op : pc[b] # "idle" => pc'[b] # "idle"
  BY <1>2, <1>5, <1>6, <1>7, MovedOn
<1>10. GoalInv'
  <2>1. kind[c] = Automatic => MaySend(c)
    BY <1>2 DEF MaySend
  <2> QED
    BY <1>5, <1>9, <2>1, GoalStays DEF IInv
<1>11. DirectiveInv'
  <2>1. pc' \in [Op -> {"idle", "send", "done"} \cup Awaiting]
    BY <1>8 DEF HostInv, HostsTyped
  <2>2. \A b \in Op : MayHaveSent(b)' => MayHaveSent(b)
    BY <1>2, <1>4, <1>5 DEF MayHaveSent, HostsTyped
  <2> QED
    BY <1>5, <1>9, <2>2, ReceiptsRest DEF IInv
<1> QED
  BY <1>5, <1>8, <1>10, <1>11 DEF IInv

LEMMA HostErrorStep ==
    ASSUME IInv, NEW c \in Op, HostError(c)
    PROVE  IInv'
<1>1. PICK next \in After(pc[c], "error") :
        /\ pc' = [pc EXCEPT ![c] = next]
        /\ calls' = calls \cup Requests(c, next)
  BY DEF HostError
<1>2. HostInv /\ HostsTyped /\ HostFits(c) /\ pc[c] \in Awaiting
  BY DEF IInv, HostInv, HostsFit, HostError
<1>3. /\ next \in {"report", "release", "done"}
      /\ pc[c] = "claim" => next = "done"
  BY <1>1, <1>2 DEF After, Awaiting
<1>4. /\ kind' = kind /\ sent' = sent /\ UNCHANGED <<goal, control, grant, faults>>
      /\ \A k \in calls : k.op = c => k.orphan
  BY DEF HostError
<1>5. \A k \in calls : k.op = c /\ k.act = "claim" => pc[c] = "claim"
  BY <1>2 DEF HostInv, CallsFit, CallFits, Awaiting
<1>6. GoesOn(c, next, calls)
  <2>1. calls' = calls \cup (IF next \in Awaiting
                            THEN {NewCall(c, next, kind'[c])} ELSE {})
    BY <1>1, <1>4 DEF Requests
  <2> QED
    BY <1>1, <1>2, <1>3, <1>4, <1>5, <2>1 DEF GoesOn, HostsTyped
<1>7. next \in Moves
  BY <1>3 DEF Moves, Awaiting
<1>8. HostInv'
  BY <1>2, <1>6, <1>7, HostMoves
<1>9. /\ Clears(calls) /\ SendsOnly(c, next = "send")
      /\ \A b \in Op : MaySend(b)' => MaySend(b)
      /\ \A b \in Op : pc[b] # "idle" => pc'[b] # "idle"
  BY <1>2, <1>3, <1>4, <1>6, <1>7, MovedOn
<1>10. GoalInv'
  <2>1. \A b \in Op : pc[b] # "idle" => pc'[b] # "idle" /\ kind'[b] = kind[b]
    BY <1>4, <1>9
  <2> QED
    BY <1>4, <1>9, <2>1, GoalStays DEF IInv
<1>11. DirectiveInv'
  BY <1>3, <1>4, <1>9, ReceiptsRest DEF IInv, SendsOnly
<1> QED
  BY <1>4, <1>8, <1>10, <1>11 DEF IInv

LEMMA HostVanishesStep ==
    ASSUME IInv, NEW c \in Op, HostVanishes(c)
    PROVE  IInv'
<1>1. HostInv /\ HostsTyped /\ HostFits(c) /\ pc[c] # "idle"
  <2>1. HostInv /\ HostsTyped /\ HostFits(c)
    BY DEF IInv, HostInv, HostsFit
  <2>2. ASSUME NEW k \in calls, k = NewCall(c, pc[c], kind[c]) PROVE pc[c] # "idle"
    BY <2>1, <2>2 DEF NewCall, HostFits
  <2> QED
    BY <2>1, <2>2 DEF HostVanishes
<1>2. /\ pc' = [pc EXCEPT ![c] = "done"] /\ kind' = kind /\ sent' = sent
      /\ UNCHANGED <<goal, control, grant>>
  BY DEF HostVanishes
<1>3. PICK K : /\ K \subseteq calls /\ calls' = K
               /\ \A k \in K : k.op = c => k.orphan
  <2>1. CASE pc[c] = "send" /\ UNCHANGED calls
    BY <1>1, <2>1 DEF HostFits
  <2>2. CASE \E k \in calls : k = NewCall(c, pc[c], kind[c]) /\ calls' = calls \ {k}
    <3>1. PICK k \in calls : k = NewCall(c, pc[c], kind[c]) /\ calls' = calls \ {k}
      BY <2>2
    <3>2. k.op = c /\ k.orphan = FALSE
      BY <3>1 DEF NewCall
    <3>3. \A j \in calls : j \in Call
      BY <1>1 DEF HostsTyped
    <3>4. \A j \in calls \ {k} : j.op = c => j.orphan
      BY <1>1, <3>2, <3>3 DEF HostFits, Call
    <3> QED
      BY <3>1, <3>4
  <2> QED
    BY <2>1, <2>2 DEF HostVanishes
<1>4. GoesOn(c, "done", K)
  BY <1>1, <1>2, <1>3 DEF GoesOn, HostsTyped, Awaiting
<1>5. "done" \in Moves
  BY DEF Moves
<1>6. HostInv'
  BY <1>1, <1>4, <1>5, HostMoves
<1>7. /\ Clears(K) /\ SendsOnly(c, FALSE)
      /\ \A b \in Op : MaySend(b)' => MaySend(b)
      /\ \A b \in Op : pc[b] # "idle" => pc'[b] # "idle"
  BY <1>1, <1>2, <1>4, <1>5, MovedOn DEF SendsOnly
<1>8. GoalInv'
  <2>1. \A b \in Op : pc[b] # "idle" => pc'[b] # "idle" /\ kind'[b] = kind[b]
    BY <1>2, <1>7
  <2> QED
    BY <1>2, <1>7, <2>1, GoalStays DEF IInv
<1>9. DirectiveInv'
  BY <1>2, <1>3, <1>7, ReceiptsRest DEF IInv, SendsOnly
<1>10. faults' \in 0..MaxFaults
  BY DeliveryAssumption DEF HostVanishes, Fault, IInv
<1> QED
  BY <1>6, <1>8, <1>9, <1>10 DEF IInv

(* Call k is over: of the rest of the state only the receipt still moves. *)
LEMMA Replied ==
    ASSUME IInv, NEW k \in calls,
           NEW answer \in {"yes", "no", "duplicate", "error"},
           Reply(k, answer), UNCHANGED <<goal, grant>>,
           k.act = "attempt" /\ answer = "yes" /\ ~k.orphan => Granted(k)
    PROVE  /\ GoalInv' /\ HostInv' /\ Clears(calls \ {k})
           /\ SendsOnly(k.op, k.act = "attempt" /\ answer = "yes" /\ ~k.orphan)
<1>1. HostInv /\ HostsTyped /\ k \in Call /\ CallFits(k)
  BY DEF IInv, HostInv, HostsTyped, CallsFit
<1>2. PICK c \in Op : c = k.op
  BY <1>1 DEF Call
<1>3. HostFits(c)
  BY <1>1 DEF HostInv, HostsFit
<1>4. CASE ~(pc[c] = Waits(k) /\ ~k.orphan)
  <2>1. calls' = calls \ {k} /\ UNCHANGED hosts
    BY <1>2, <1>4 DEF Reply, Waits
  <2>2. /\ HostInv' /\ Clears(calls \ {k}) /\ SendsOnly(c, FALSE)
        /\ \A b \in Op : MaySend(b)' => MaySend(b)
    BY <1>1, <2>1, CallsGone
  <2>3. GoalInv'
    BY <2>1, <2>2, GoalStays DEF IInv, hosts
  <2> QED
    BY <2>2, <2>3 DEF SendsOnly
<1>5. CASE pc[c] = Waits(k) /\ ~k.orphan
  <2>1. PICK next \in After(Waits(k), answer) :
            /\ pc' = [pc EXCEPT ![c] = next]
            /\ calls' = (calls \ {k}) \cup Requests(c, next)
            /\ UNCHANGED <<kind, sent>>
    BY <1>2, <1>5 DEF Reply, Waits
  <2>2. Waits(k) \in {"claim", "validate", "attempt", "report", "release"}
    BY <1>1 DEF Waits, Call, Awaiting
  <2>3. /\ next \in {"validate", "attempt", "send", "report", "release", "done"}
        /\ next = "send" => Waits(k) = "attempt" /\ answer = "yes"
        /\ Waits(k) \in {"report", "release"} => next = "done"
    BY <2>1, <2>2 DEF After
  <2>4. next = "send" => k.act = "attempt" /\ answer = "yes" /\ ~k.orphan
    BY <1>1, <1>5, <2>3 DEF Waits, Call, Awaiting
  <2>5. \A j \in calls \ {k} : j.op = c =>
            j.orphan /\ Waits(k) \in {"report", "release"}
    <3>1. \A j \in calls : j \in Call
      BY <1>1 DEF HostsTyped
    <3> QED
      BY <1>2, <1>3, <1>5, <2>2, <3>1 DEF HostFits, Call
  <2>6. next \in {"validate", "attempt", "send"} => sent[c] = "none"
    BY <1>3, <1>5, <2>2, <2>3 DEF HostFits
  <2>7. PICK K : K = calls \ {k}
    OBVIOUS
  <2>8. GoesOn(c, next, K)
    <3>1. calls' = K \cup (IF next \in Awaiting
                          THEN {NewCall(c, next, kind'[c])} ELSE {})
      BY <2>1, <2>7 DEF Requests
    <3>2. \A j \in K : j.op = c =>
            /\ j.orphan /\ next \in {"report", "release", "done"}
            /\ j.act = "claim" => next = "done"
            /\ kind'[c] = kind[c] /\ sent'[c] = sent[c]
      BY <2>1, <2>3, <2>5, <2>7
    <3> QED
      BY <1>1, <2>1, <2>3, <2>6, <2>7, <3>1, <3>2 DEF GoesOn, HostsTyped
  <2>9. next \in Moves
    BY <2>3 DEF Moves, Awaiting
  <2>10. HostInv'
    BY <1>1, <2>8, <2>9, HostMoves
  <2>11. /\ Clears(K) /\ SendsOnly(c, next = "send")
         /\ \A b \in Op : MaySend(b)' => MaySend(b)
                \/ (b = c /\ kind[c] = Automatic /\ next = "send")
         /\ \A b \in Op : pc[b] # "idle" => pc'[b] # "idle"
    BY <1>1, <2>1, <2>8, <2>9, MovedOn
  <2>12. GoalInv'
    <3>1. next = "send" => Granted(k)
      BY <2>4
    <3>2. next = "send" /\ kind[c] = Automatic => MaySend(c)
      BY <1>2, <3>1 DEF MaySend
    <3>3. \A b \in Op : MaySend(b)' => MaySend(b)
      BY <2>11, <3>2
    <3>4. \A b \in Op : pc[b] # "idle" => pc'[b] # "idle" /\ kind'[b] = kind[b]
      BY <2>1, <2>11
    <3> QED
      BY <3>3, <3>4, GoalStays DEF IInv
  <2>13. SendsOnly(k.op, k.act = "attempt" /\ answer = "yes" /\ ~k.orphan)
    BY <1>2, <2>4, <2>11 DEF SendsOnly
  <2> QED
    BY <2>7, <2>10, <2>11, <2>12, <2>13
<1> QED
  BY <1>4, <1>5

-----------------------------------------------------------------------------
(* The steps of Control. *)

MarkedSent == {"attempted", "reporting", "settled"}

(* The receipt of d moves when the one request in flight for it is over. *)
LEMMA ReceiptClears ==
    ASSUME IInv, NEW k \in calls, NEW d \in Directive, InFlight(k, d),
           NEW may \in BOOLEAN, Clears(calls \ {k}), SendsOnly(k.op, may),
           ReceiptsTyped', \A e \in Directive \ {d} : receipt'[e] = receipt[e],
           receipt[d].status \in MarkedSent =>
                /\ receipt'[d].claim = receipt[d].claim
                /\ receipt'[d].status \in MarkedSent,
           may => receipt'[d].claim = k.op /\ receipt'[d].status \in MarkedSent
    PROVE  DirectiveInv'
<1>1. DirectiveInv /\ DirectiveFits(d) /\ kind' = kind /\ kind[k.op] = d
  BY DEF IInv, DirectiveInv, DirectivesFit, Clears, InFlight
<1>2. \A e \in Directive \ {d} : \A j \in calls' :
        InFlight(j, e)' => j \in calls /\ InFlight(j, e)
  BY DEF Clears
<1>3. \A j \in calls' : ~InFlight(j, d)'
  BY <1>1 DEF Clears, DirectiveFits
<1>4. \A b \in Op : MayHaveSent(b)' /\ kind[b] # d => MayHaveSent(b)
  BY <1>1 DEF SendsOnly
<1>5. ASSUME NEW b \in Op, kind[b] = d, MayHaveSent(b)'
      PROVE  receipt'[d].claim = b /\ receipt'[d].status \in MarkedSent
  <2>1. CASE MayHaveSent(b)
    BY <1>1, <1>5, <2>1 DEF DirectiveFits, MarkedSent
  <2>2. CASE b = k.op /\ may
    BY <2>2
  <2> QED
    BY <1>5, <2>1, <2>2 DEF SendsOnly
<1> QED
  BY <1>1, <1>2, <1>3, <1>4, <1>5, ReceiptMoves DEF MarkedSent

LEMMA RestoredReceipt ==
    ASSUME ReceiptsTyped, NEW d \in Directive, NEW owner, Restored(d, owner)
    PROVE  /\ ReceiptsTyped' /\ \A e \in Directive \ {d} : receipt'[e] = receipt[e]
           /\ receipt[d].status \in MarkedSent => receipt'[d] = receipt[d]
<1>1. CASE receipt[d].claim = owner /\ Unattempted(receipt[d])
  <2>1. /\ receipt' = [receipt EXCEPT ![d].status = "applied", ![d].claim = NoOp]
        /\ live' = [live EXCEPT ![d] = NoOp]
    BY <1>1 DEF Restored
  <2>2. receipt \in [Directive -> Receipt] /\ live \in [Directive -> Op \cup {NoOp}]
    BY DEF ReceiptsTyped
  <2>3. receipt' \in [Directive -> Receipt]
    BY <2>1, <2>2 DEF Receipt, ReceiptStatus
  <2>4. \A e \in Directive \ {d} : receipt'[e] = receipt[e]
    BY <2>1, <2>2
  <2> QED
    BY <1>1, <2>1, <2>2, <2>3, <2>4 DEF ReceiptsTyped, Unattempted, MarkedSent
<1>2. CASE ~(receipt[d].claim = owner /\ Unattempted(receipt[d]))
  BY <1>2 DEF Restored, control, ReceiptsTyped
<1> QED
  BY <1>1, <1>2

(* An answer to anything but a claim. *)
LEMMA ReceiptAfterwards ==
    ASSUME IInv, NEW k \in calls, NEW d \in Directive, InFlight(k, d),
           k.stage = "answered", k.act # "claim", ReceiptAfter(k, d)
    PROVE  /\ ReceiptsTyped' /\ \A e \in Directive \ {d} : receipt'[e] = receipt[e]
           /\ receipt[d].status \in MarkedSent =>
                /\ receipt'[d].claim = receipt[d].claim
                /\ receipt'[d].status \in MarkedSent
           /\ k.act = "attempt" /\ k.answer = "yes" =>
                receipt'[d].claim = k.op /\ receipt'[d].status \in MarkedSent
<1>1. k \in Call /\ CallFits(k) /\ d # Automatic
  BY DeliveryAssumption DEF IInv, HostInv, HostsTyped, CallsFit
<1>2. Expects(k, receipt[d]) /\ ReceiptsTyped
  BY DEF IInv, DirectiveInv, DirectivesFit, DirectiveFits
<1>3. receipt \in [Directive -> Receipt] /\ live \in [Directive -> Op \cup {NoOp}]
  BY <1>2 DEF ReceiptsTyped
<1>4. k.answer \in {"yes", "no", "duplicate", "error"}
  BY <1>1 DEF CallFits, Call
<1>5. CASE UNCHANGED control /\ ~(k.act = "attempt" /\ k.answer = "yes")
  BY <1>2, <1>5 DEF control, ReceiptsTyped
<1>6. CASE k.act # "attempt" /\ \E owner : Restored(d, owner)
  BY <1>2, <1>6, RestoredReceipt
<1>7. CASE k.act = "attempt" /\ k.answer # "error"
  <2>1. receipt[d].claim = k.op /\ receipt[d].status = "attempting"
    BY <1>2, <1>7 DEF Expects
  <2>2. CASE k.answer = "no"
    <3>1. receipt' = [receipt EXCEPT ![d].started = FALSE] /\ live' = live
      BY <1>1, <1>7, <2>2 DEF ReceiptAfter
    <3>2. receipt' \in [Directive -> Receipt]
      BY <1>3, <3>1 DEF Receipt
    <3> QED
      BY <1>3, <2>1, <2>2, <3>1, <3>2 DEF ReceiptsTyped, MarkedSent
  <2>3. CASE k.answer # "no"
    <3>1. /\ receipt' = [receipt EXCEPT ![d].status = "attempted"]
          /\ live' = [live EXCEPT ![d] = NoOp]
      BY <1>1, <1>7, <2>3 DEF ReceiptAfter
    <3>2. receipt' \in [Directive -> Receipt] /\ live' \in [Directive -> Op \cup {NoOp}]
      BY <1>3, <3>1 DEF Receipt, ReceiptStatus
    <3>3. receipt'[d].claim = receipt[d].claim /\ receipt'[d].status = "attempted"
      BY <1>3, <3>1 DEF Receipt
    <3> QED
      BY <1>3, <2>1, <3>1, <3>2, <3>3 DEF ReceiptsTyped, MarkedSent
  <2> QED
    BY <2>2, <2>3
<1>8. CASE k.act = "report" /\ k.answer = "yes"
  <2>1. receipt[d].claim = k.op /\ receipt[d].status = "reporting"
    BY <1>2, <1>8 DEF Expects
  <2>2. /\ receipt' = [receipt EXCEPT ![d].status = "settled"]
        /\ live' = [live EXCEPT ![d] = NoOp]
    BY <1>1, <1>8 DEF ReceiptAfter
  <2>3. receipt' \in [Directive -> Receipt] /\ live' \in [Directive -> Op \cup {NoOp}]
    BY <1>3, <2>2 DEF Receipt, ReceiptStatus
  <2>4. receipt'[d].claim = receipt[d].claim /\ receipt'[d].status = "settled"
    BY <1>3, <2>2 DEF Receipt
  <2> QED
    BY <1>3, <1>8, <2>1, <2>2, <2>3, <2>4 DEF ReceiptsTyped, MarkedSent
<1>9. \/ UNCHANGED control /\ ~(k.act = "attempt" /\ k.answer = "yes")
      \/ k.act # "attempt" /\ \E owner : Restored(d, owner)
      \/ k.act = "attempt" /\ k.answer # "error"
      \/ k.act = "report" /\ k.answer = "yes"
  <2>1. CASE k.answer = "error"
    BY <2>1 DEF ReceiptAfter
  <2>2. CASE k.answer # "error" /\ k.act = "validate"
    BY <1>1, <2>2 DEF ReceiptAfter
  <2>3. CASE k.answer # "error" /\ k.act \in {"release", "cleanup"}
    BY <1>1, <2>3 DEF ReceiptAfter
  <2>4. CASE k.answer # "error" /\ k.act = "report"
    BY <1>1, <2>4 DEF ReceiptAfter
  <2> QED
    BY <1>1, <2>1, <2>2, <2>3, <2>4 DEF Call, Awaiting
<1> QED
  BY <1>5, <1>6, <1>7, <1>8, <1>9

LEMMA ReplyLostStep ==
    ASSUME IInv, NEW k \in calls, ReplyLost(k)
    PROVE  IInv'
<1>1. k \in Call /\ HostInv /\ kind \in [Op -> Directive \cup {Automatic}]
  BY DEF IInv, HostInv, HostsTyped
<1>2. PICK d \in Directive : d = kind[k.op]
  BY <1>1 DEF ReplyLost, Call
<1>3. InFlight(k, d) /\ k.stage = "answered" /\ k.act # "claim" /\ ReceiptAfter(k, d)
  BY <1>2 DEF ReplyLost, InFlight
<1>4. calls' = calls \ {k} /\ UNCHANGED <<goal, hosts, grant>>
  BY DEF ReplyLost
<1>5. /\ HostInv' /\ Clears(calls \ {k}) /\ SendsOnly(k.op, FALSE)
      /\ \A b \in Op : MaySend(b)' => MaySend(b)
  BY <1>1, <1>4, CallsGone
<1>6. GoalInv'
  BY <1>4, <1>5, GoalStays DEF IInv, hosts
<1>7. DirectiveInv'
  BY <1>3, <1>5, ReceiptAfterwards, ReceiptClears
<1>8. faults' \in 0..MaxFaults
  BY DeliveryAssumption DEF ReplyLost, Fault, IInv
<1> QED
  BY <1>5, <1>6, <1>7, <1>8 DEF IInv

LEMMA RestartStep ==
    ASSUME IInv, Restart
    PROVE  IInv'
<1>1. /\ UNCHANGED <<goal, pc, kind, sent, grant>>
      /\ live' = [d \in Directive |-> NoOp]
      /\ calls' = {[k EXCEPT !.orphan = TRUE] :
                     k \in {j \in calls : j.stage \in {"asked", "reading"}}}
      /\ receipt' = [d \in Directive |->
                       IF receipt[d].status = "prepared"
                       THEN [receipt[d] EXCEPT !.status = "conflicted"]
                       ELSE receipt[d]]
  BY DEF Restart, hosts
<1>2. HostsTyped /\ calls \subseteq Call /\ receipt \in [Directive -> Receipt]
  BY DEF IInv, HostInv, HostsTyped, DirectiveInv, ReceiptsTyped
<1>3. ASSUME NEW j \in calls'
      PROVE  \E k \in calls :
                /\ j = [k EXCEPT !.orphan = TRUE] /\ k.stage \in {"asked", "reading"}
                /\ j \in Call /\ j.op = k.op /\ j.act = k.act /\ j.orphan = TRUE
                /\ j.stage = k.stage /\ j.do = k.do
  <2>1. PICK k \in calls : j = [k EXCEPT !.orphan = TRUE] /\ k.stage \in {"asked", "reading"}
    BY <1>1
  <2>2. k \in Call
    BY <1>2
  <2>3. j \in Call
    BY <2>1, <2>2 DEF Call
  <2>4. /\ j.op = k.op /\ j.act = k.act /\ j.orphan = TRUE
        /\ j.stage = k.stage /\ j.do = k.do
    BY <2>1, <2>2 DEF Call
  <2> QED
    BY <2>1, <2>3, <2>4
<1>4. HostInv'
  <2>1. HostsTyped'
    BY <1>1, <1>2, <1>3 DEF HostsTyped
  <2>2. ASSUME NEW j \in calls' PROVE CallFits(j)'
    <3>1. PICK k \in calls :
                /\ k.stage \in {"asked", "reading"}
                /\ j \in Call /\ j.op = k.op /\ j.act = k.act /\ j.orphan = TRUE
                /\ j.stage = k.stage /\ j.do = k.do
      BY <1>3
    <3>2. CallFits(k)
      BY DEF IInv, HostInv, CallsFit
    <3> QED
      BY <1>1, <3>1, <3>2 DEF CallFits
  <2>3. ASSUME NEW c \in Op PROVE HostFits(c)'
    <3>1. HostFits(c)
      BY DEF IInv, HostInv, HostsFit
    <3>2. ASSUME NEW j \in calls', pc[c] \in {"idle", "send"} PROVE j.op # c
      <4>1. PICK k \in calls : j.op = k.op
        BY <1>3
      <4> QED
        BY <3>1, <3>2, <4>1 DEF HostFits
    <3>3. ASSUME NEW i \in calls', NEW j \in calls', i.op = c, j.op = c,
                 pc[c] \in {"claim", "validate", "attempt"}
          PROVE  i = j
      <4>1. PICK h \in calls : i = [h EXCEPT !.orphan = TRUE] /\ i.op = h.op
        BY <1>3
      <4>2. PICK k \in calls : j = [k EXCEPT !.orphan = TRUE] /\ j.op = k.op
        BY <1>3
      <4>3. h = k
        BY <3>1, <3>3, <4>1, <4>2 DEF HostFits
      <4> QED
        BY <4>1, <4>2, <4>3
    <3>4. \A j \in calls' : j.orphan
      BY <1>3
    <3> QED
      BY <1>1, <3>1, <3>2, <3>3, <3>4 DEF HostFits
  <2> QED
    BY <2>1, <2>2, <2>3 DEF HostInv, CallsFit, HostsFit
<1>5. \A j \in calls' : j.orphan
  BY <1>3
<1>6. GoalInv'
  <2>1. \A b \in Op : MaySend(b)' => MaySend(b)
    BY <1>1, <1>5 DEF MaySend, Granted
  <2> QED
    BY <1>1, <2>1, GoalStays DEF IInv
<1>7. DirectiveInv'
  <2>1. ASSUME NEW d \in Directive
        PROVE  receipt'[d] \in Receipt
                /\ (receipt[d].status # "prepared" => receipt'[d] = receipt[d])
    BY <1>1, <1>2 DEF Receipt, ReceiptStatus
  <2>2. ReceiptsTyped'
    BY <1>1, <2>1 DEF ReceiptsTyped
  <2>3. ASSUME NEW d \in Directive PROVE DirectiveFits(d)'
    <3>1. DirectiveFits(d)
      BY DEF IInv, DirectiveInv, DirectivesFit
    <3>2. \A b \in Op : kind[b] = d /\ MayHaveSent(b)' => MayHaveSent(b)
      BY <1>1 DEF MayHaveSent
    <3> QED
      BY <1>1, <1>5, <2>1, <3>1, <3>2 DEF DirectiveFits, InFlight
  <2> QED
    BY <2>2, <2>3 DEF DirectiveInv, DirectivesFit
<1>8. faults' \in 0..MaxFaults
  BY DeliveryAssumption DEF Restart, Fault, IInv
<1> QED
  BY <1>4, <1>6, <1>7, <1>8 DEF IInv

(* Control asks the Instance: k is now all that is in flight for d. *)
LEMMA Asked ==
    ASSUME IInv, NEW k \in calls, k.stage \in {"new", "waiting"},
           NEW d \in Directive, d = kind[k.op], ~Delivering(d),
           NEW owner, owner \in Op \cup {NoOp}, Ask(k, owner),
           UNCHANGED <<goal, grant, faults>>, ReceiptsTyped',
           \A e \in Directive \ {d} : receipt'[e] = receipt[e],
           Expects(k, receipt'[d]),
           receipt[d].status \in MarkedSent =>
                /\ receipt'[d].claim = receipt[d].claim
                /\ receipt'[d].status \in MarkedSent
    PROVE  IInv'
<1> DEFINE n == [k EXCEPT !.stage = "asked", !.from = owner]
<1>1. k \in Call /\ CallFits(k)
  BY DEF IInv, HostInv, HostsTyped, CallsFit
<1>2. n \in Call
  BY <1>1 DEF Call
<1>3. /\ n.op = k.op /\ n.act = k.act /\ n.orphan = k.orphan /\ n.stage = "asked"
  BY <1>1 DEF Call
<1>4. calls' = (calls \ {k}) \cup {n} /\ UNCHANGED hosts
  BY DEF Ask
<1> HIDE DEF n
<1>5. Edits(k, n)
  BY <1>2, <1>3, <1>4 DEF Edits, Waits
<1>6. CallFits(n)
  BY <1>1, <1>3 DEF CallFits, Waits
<1>7. HostInv'
  BY <1>5, <1>6, EditedHosts DEF IInv
<1>8. GoalInv'
  BY <1>3, <1>5, EditedGoal DEF IInv, Granted
<1>9. DirectiveInv'
  <2>1. UNCHANGED <<pc, kind, sent>> /\ \A j \in calls' : j = n \/ j \in calls \ {k}
    BY <1>4 DEF hosts
  <2>2. \A e \in Directive \ {d} : \A j \in calls' :
            InFlight(j, e)' => j \in calls /\ InFlight(j, e)
    BY <1>3, <2>1 DEF InFlight
  <2>3. \A j \in calls' : InFlight(j, d)' => j = n /\ Expects(n, receipt'[d])
    <3>1. Expects(n, receipt'[d])
      BY <1>3 DEF Expects, Waits
    <3>2. \A j \in calls : ~InFlight(j, d)
      BY DEF Delivering, InFlight
    <3>3. \A j \in calls' : InFlight(j, d)' => j = n
      BY <2>1, <3>2 DEF InFlight
    <3> QED
      BY <3>1, <3>3
  <2>4. \A b \in Op : MayHaveSent(b)' => MayHaveSent(b)
    BY <2>1 DEF MayHaveSent
  <2>5. DirectiveFits(d) /\ DirectiveInv
    BY DEF IInv, DirectiveInv, DirectivesFit
  <2>6. \A b \in Op : kind[b] = d /\ MayHaveSent(b)' =>
            /\ receipt'[d].claim = b
            /\ receipt'[d].status \in {"attempted", "reporting", "settled"}
    BY <2>4, <2>5 DEF DirectiveFits, MarkedSent
  <2> QED
    BY <2>1, <2>2, <2>3, <2>4, <2>5, <2>6, ReceiptMoves
<1> QED
  BY <1>7, <1>8, <1>9 DEF IInv

(* Control refuses without asking. *)
LEMMA Refused ==
    ASSUME IInv, NEW k \in calls, NEW answer \in {"no", "duplicate"},
           Reply(k, answer), UNCHANGED <<goal, grant, control, faults>>
    PROVE  IInv'
<1>1. answer \in {"yes", "no", "duplicate", "error"}
  OBVIOUS
<1>2. /\ GoalInv' /\ HostInv' /\ Clears(calls \ {k})
      /\ SendsOnly(k.op, k.act = "attempt" /\ answer = "yes" /\ ~k.orphan)
  BY <1>1, Replied
<1>3. DirectiveInv'
  BY <1>2, ReceiptsRest DEF IInv, SendsOnly
<1> QED
  BY <1>2, <1>3 DEF IInv

LEMMA AskForStep ==
    ASSUME IInv, NEW k \in calls, AskFor(k)
    PROVE  IInv'
<1>1. k \in Call /\ CallFits(k) /\ k.stage \in {"new", "waiting"}
  BY DEF IInv, HostInv, HostsTyped, CallsFit, AskFor
<1>2. PICK d \in Directive : d = kind[k.op]
  BY <1>1 DEF CallFits
<1>3. PICK c \in Op : c = k.op
  BY <1>1 DEF Call
<1>4. ~Delivering(d) /\ UNCHANGED <<goal, grant, faults>>
  BY <1>2 DEF AskFor
<1>5. /\ receipt \in [Directive -> Receipt] /\ live \in [Directive -> Op \cup {NoOp}]
      /\ ReceiptsTyped
  BY DEF IInv, DirectiveInv, ReceiptsTyped
<1>6. PICK r \in Receipt : r = receipt[d]
  BY <1>5
<1>7. ASSUME NEW owner \in Op \cup {NoOp}, Ask(k, owner), UNCHANGED control,
             Expects(k, r)
      PROVE  IInv'
  BY <1>1, <1>2, <1>4, <1>5, <1>6, <1>7, Asked DEF control, ReceiptsTyped
<1>8. ASSUME NEW answer \in {"no", "duplicate"}, Reply(k, answer), UNCHANGED control
      PROVE  IInv'
  BY <1>4, <1>8, Refused
<1>9. CASE k.act = "claim" /\ AskClaim(k, d)
  <2>1. CASE /\ r.status = "applied" /\ ~r.started
             /\ receipt' = [receipt EXCEPT ![d].status = "claiming", ![d].claim = c]
             /\ live' = [live EXCEPT ![d] = c]
             /\ Ask(k, c)
    <3>1. receipt' \in [Directive -> Receipt] /\ live' \in [Directive -> Op \cup {NoOp}]
      BY <1>5, <2>1 DEF Receipt, ReceiptStatus
    <3>2. /\ receipt'[d].status = "claiming" /\ ~receipt'[d].started
          /\ \A e \in Directive \ {d} : receipt'[e] = receipt[e]
      BY <1>5, <1>6, <2>1 DEF Receipt
    <3>3. Expects(k, receipt'[d])
      BY <1>9, <3>2 DEF Expects, Waits, Unattempted
    <3> QED
      BY <1>1, <1>2, <1>4, <1>6, <2>1, <3>1, <3>2, <3>3, Asked
      DEF ReceiptsTyped, MarkedSent
  <2>2. CASE Unattempted(r) /\ Ask(k, r.claim) /\ UNCHANGED control
    <3>1. r.claim \in Op \cup {NoOp}
      BY DEF Receipt
    <3>2. Expects(k, r)
      BY <1>9, <2>2 DEF Expects
    <3> QED
      BY <1>7, <2>2, <3>1, <3>2
  <2>3. CASE Reply(k, "no") /\ UNCHANGED control
    BY <1>8, <2>3
  <2> QED
    BY <1>3, <1>6, <1>9, <2>1, <2>2, <2>3 DEF AskClaim
<1>10. CASE k.act = "attempt" /\ AskAttempt(k, d)
  <2>1. CASE /\ r.claim = c /\ r.status = "attempting"
             /\ receipt' = [receipt EXCEPT ![d].started = TRUE]
             /\ Ask(k, c) /\ UNCHANGED live
    <3>1. receipt' \in [Directive -> Receipt] /\ live' \in [Directive -> Op \cup {NoOp}]
      BY <1>5, <2>1 DEF Receipt, ReceiptStatus
    <3>2. /\ receipt'[d].status = "attempting" /\ receipt'[d].started
          /\ receipt'[d].claim = c
          /\ \A e \in Directive \ {d} : receipt'[e] = receipt[e]
      BY <1>5, <1>6, <2>1 DEF Receipt
    <3>3. Expects(k, receipt'[d])
      BY <1>3, <1>10, <3>2 DEF Expects, Waits
    <3> QED
      BY <1>1, <1>2, <1>4, <1>6, <2>1, <3>1, <3>2, <3>3, Asked
      DEF ReceiptsTyped, MarkedSent
  <2>2. CASE UNCHANGED control /\ \E answer \in {"no", "duplicate"} : Reply(k, answer)
    BY <1>8, <2>2
  <2> QED
    BY <1>3, <1>6, <1>10, <2>1, <2>2 DEF AskAttempt
<1>11. CASE k.act = "report" /\ AskReport(k, d)
  <2>1. CASE /\ r.claim = c /\ r.status \in {"attempted", "reporting"}
             /\ receipt' = [receipt EXCEPT ![d].status = "reporting"]
             /\ Ask(k, c) /\ UNCHANGED live
    <3>1. receipt' \in [Directive -> Receipt] /\ live' \in [Directive -> Op \cup {NoOp}]
      BY <1>5, <2>1 DEF Receipt, ReceiptStatus
    <3>2. /\ receipt'[d].status = "reporting" /\ receipt'[d].claim = c
          /\ \A e \in Directive \ {d} : receipt'[e] = receipt[e]
      BY <1>5, <1>6, <2>1 DEF Receipt
    <3>3. Expects(k, receipt'[d])
      BY <1>3, <1>11, <3>2 DEF Expects, Waits
    <3> QED
      BY <1>1, <1>2, <1>4, <1>6, <2>1, <3>1, <3>2, <3>3, Asked
      DEF ReceiptsTyped, MarkedSent
  <2>2. CASE UNCHANGED control /\ Reply(k, "no")
    BY <1>8, <2>2
  <2> QED
    BY <1>3, <1>6, <1>11, <2>1, <2>2 DEF AskReport
<1>12. CASE k.act \in {"validate", "release"} /\ AskOther(k, d)
  <2>1. CASE Ask(k, c) /\ UNCHANGED control
    <3>1. Expects(k, r)
      BY <1>12 DEF Expects, Waits
    <3> QED
      BY <1>7, <2>1, <3>1
  <2>2. CASE Reply(k, "no") /\ UNCHANGED control
    BY <1>8, <2>2
  <2> QED
    BY <1>3, <1>12, <2>1, <2>2 DEF AskOther
<1>13. k.act \in {"claim", "attempt", "report", "validate", "release"}
  BY <1>1 DEF CallFits, Call, Awaiting
<1> QED
  BY <1>2, <1>9, <1>10, <1>11, <1>12, <1>13 DEF AskFor

(* Control takes the claim back that it could not pass on. *)
LEMMA CleanedUp ==
    ASSUME IInv, NEW k \in calls, k.act = "claim", k.stage = "answered",
           ~k.orphan, NEW owner, owner \in Op \cup {NoOp}, CleanUp(k, owner),
           UNCHANGED <<goal, grant, hosts>>
    PROVE  /\ GoalInv' /\ HostInv'
           /\ \E n : Edits(k, n) /\ n.act = "cleanup" /\ n.orphan = k.orphan
<1> DEFINE n == [k EXCEPT !.act = "cleanup", !.stage = "asked",
                          !.answer = "none", !.from = owner]
<1>1. k \in Call /\ CallFits(k)
  BY DEF IInv, HostInv, HostsTyped, CallsFit
<1>2. n \in Call
  BY <1>1 DEF Call
<1>3. /\ n.op = k.op /\ n.act = "cleanup" /\ n.orphan = k.orphan /\ n.stage = "asked"
  BY <1>1 DEF Call
<1>4. calls' = (calls \ {k}) \cup {n}
  BY DEF CleanUp
<1> HIDE DEF n
<1>5. Edits(k, n)
  BY <1>2, <1>3, <1>4 DEF Edits, Waits
<1>6. CallFits(n)
  BY <1>1, <1>3 DEF CallFits, Waits
<1>7. HostInv' /\ GoalInv'
  BY <1>3, <1>5, <1>6, EditedHosts, EditedGoal DEF IInv, Granted
<1> QED
  BY <1>3, <1>5, <1>7

LEMMA ClaimAnsweredStep ==
    ASSUME IInv, NEW k \in calls, k.stage = "answered", ~k.orphan,
           k.act = "claim", ClaimAnswered(k, kind[k.op]), UNCHANGED <<goal, grant>>
    PROVE  IInv'
<1>1. k \in Call /\ CallFits(k) /\ HostsTyped
  BY DEF IInv, HostInv, HostsTyped, CallsFit
<1>2. PICK c \in Op : c = k.op
  BY <1>1 DEF Call
<1>3. PICK d : d = kind[c]
  OBVIOUS
<1>4. d \in Directive \/ d = Automatic
  BY <1>1, <1>3 DEF HostsTyped
<1>5. /\ receipt \in [Directive -> Receipt] /\ live \in [Directive -> Op \cup {NoOp}]
      /\ ReceiptsTyped
  BY DEF IInv, DirectiveInv, ReceiptsTyped
<1>6. d \in Directive => InFlight(k, d) /\ Unattempted(receipt[d])
  <2>1. d \in Directive => InFlight(k, d)
    BY <1>2, <1>3 DEF InFlight
  <2>2. d \in Directive => DirectiveFits(d)
    BY DEF IInv, DirectiveInv, DirectivesFit
  <2> QED
    BY <2>1, <2>2 DEF DirectiveFits, Expects, Waits
<1>7. ASSUME UNCHANGED control, NEW answer \in {"yes", "no"}, Reply(k, answer),
             UNCHANGED faults
      PROVE  IInv'
  <2>1. answer \in {"yes", "no", "duplicate", "error"}
    OBVIOUS
  <2>2. /\ GoalInv' /\ HostInv' /\ Clears(calls \ {k})
        /\ SendsOnly(k.op, k.act = "attempt" /\ answer = "yes" /\ ~k.orphan)
    BY <1>7, <2>1, Replied
  <2>3. DirectiveInv'
    BY <1>7, <2>2, ReceiptsRest DEF IInv, SendsOnly
  <2> QED
    BY <1>7, <2>2, <2>3 DEF IInv
<1>8. ASSUME NEW owner \in Op \cup {NoOp}, CleanUp(k, owner), UNCHANGED <<hosts, control>>,
             faults' \in 0..MaxFaults
      PROVE  IInv'
  <2>1. PICK n : Edits(k, n) /\ n.act = "cleanup" /\ n.orphan = k.orphan
    BY <1>8, CleanedUp
  <2>2. GoalInv' /\ HostInv'
    BY <1>8, CleanedUp
  <2>3. \A e \in Directive : InFlight(n, e) => InFlight(k, e)
    BY <2>1 DEF Edits, InFlight
  <2>4. DirectiveInv'
    BY <1>8, <2>1, <2>3, EditedDirectives DEF IInv
  <2> QED
    BY <1>8, <2>2, <2>4 DEF IInv
<1>9. faults < MaxFaults => faults + 1 \in 0..MaxFaults
  BY DeliveryAssumption DEF IInv
<1>10. CASE k.answer = "error"
  <2>1. CleanUp(k, k.from) /\ UNCHANGED <<control, hosts, faults>>
    BY <1>10 DEF ClaimAnswered
  <2>2. k.from \in Op \cup {NoOp}
    BY <1>1 DEF Call
  <2> QED
    BY <1>8, <2>1, <2>2 DEF IInv
<1>11. CASE k.answer = "yes" /\ d = Automatic
  <2>1. /\ \/ Reply(k, "yes") /\ UNCHANGED faults
           \/ CleanUp(k, c) /\ Fault /\ UNCHANGED hosts
        /\ UNCHANGED control
    BY <1>2, <1>3, <1>11 DEF ClaimAnswered
  <2>2. CASE Reply(k, "yes") /\ UNCHANGED faults
    BY <1>7, <2>1, <2>2
  <2>3. CASE CleanUp(k, c) /\ Fault /\ UNCHANGED hosts
    BY <1>8, <1>9, <2>1, <2>3 DEF Fault
  <2> QED
    BY <2>1, <2>2, <2>3
<1>12. CASE k.answer = "yes" /\ d # Automatic
  <2>1. Confirmed(k, d) /\ d \in Directive
    BY <1>2, <1>3, <1>4, <1>12 DEF ClaimAnswered
  <2>2. /\ receipt' = [receipt EXCEPT ![d].status = "attempting", ![d].claim = c]
        /\ live' = [live EXCEPT ![d] = c]
    BY <1>2, <2>1 DEF Confirmed
  <2>3. ReceiptsTyped'
    <3>1. receipt' \in [Directive -> Receipt]
      BY <1>5, <2>2 DEF Receipt, ReceiptStatus
    <3>2. live' \in [Directive -> Op \cup {NoOp}]
      BY <1>5, <2>2
    <3> QED
      BY <3>1, <3>2 DEF ReceiptsTyped
  <2>4. \A e \in Directive \ {d} : receipt'[e] = receipt[e]
    BY <1>5, <2>2
  <2>5. Unattempted(receipt'[d]) /\ receipt[d].status \notin MarkedSent
    BY <1>5, <1>6, <2>1, <2>2 DEF Unattempted, MarkedSent, Receipt
  <2>6. CASE Reply(k, "yes") /\ UNCHANGED faults
    <3>1. /\ GoalInv' /\ HostInv' /\ Clears(calls \ {k}) /\ SendsOnly(k.op, FALSE)
      BY <2>6, Replied DEF SendsOnly
    <3>2. DirectiveInv'
      BY <1>6, <2>1, <2>3, <2>4, <2>5, <3>1, ReceiptClears
    <3> QED
      BY <2>6, <3>1, <3>2 DEF IInv
  <2>7. CASE CleanUp(k, k.op) /\ Fault /\ UNCHANGED hosts
    <3>1. CleanUp(k, c)
      BY <1>2, <2>7
    <3>2. PICK n : Edits(k, n) /\ n.act = "cleanup" /\ n.orphan = k.orphan
      BY <2>7, <3>1, CleanedUp
    <3>3. GoalInv' /\ HostInv'
      BY <2>7, <3>1, CleanedUp
    <3>4. DirectiveInv'
      <4>1. UNCHANGED <<pc, kind, sent>> /\ \A j \in calls' : j = n \/ (j \in calls /\ j # k)
        BY <2>7, <3>2 DEF hosts, Edits
      <4>2. DirectiveInv /\ DirectiveFits(d)
        BY <2>1 DEF IInv, DirectiveInv, DirectivesFit
      <4>3. \A e \in Directive \ {d} : \A j \in calls' :
                InFlight(j, e)' => j \in calls /\ InFlight(j, e)
        BY <1>2, <1>3, <3>2, <4>1 DEF InFlight, Edits
      <4>4. \A j \in calls' : InFlight(j, d)' => j = n /\ Expects(n, receipt'[d])
        <5>1. Expects(n, receipt'[d])
          BY <2>5, <3>2 DEF Expects, Waits
        <5>2. \A j \in calls : InFlight(j, d) => j = k
          BY <1>6, <2>1, <4>2 DEF DirectiveFits
        <5>3. \A j \in calls' : InFlight(j, d)' => j = n
          BY <4>1, <5>2 DEF InFlight
        <5> QED
          BY <5>1, <5>3
      <4>5. \A b \in Op : MayHaveSent(b)' => MayHaveSent(b)
        BY <4>1 DEF MayHaveSent
      <4>6. \A b \in Op : ~(kind[b] = d /\ MayHaveSent(b)')
        BY <2>5, <4>2, <4>5 DEF DirectiveFits, MarkedSent
      <4> QED
        BY <2>1, <2>3, <2>4, <4>1, <4>2, <4>3, <4>4, <4>5, <4>6, ReceiptMoves
    <3>5. faults' \in 0..MaxFaults
      BY <1>9, <2>7 DEF Fault
    <3> QED
      BY <3>3, <3>4, <3>5 DEF IInv
  <2> QED
    BY <2>1, <2>6, <2>7 DEF Confirmed
<1>13. CASE k.answer = "no"
  <2>1. /\ IF d # Automatic /\ k.from = k.op THEN Restored(d, k.op)
           ELSE UNCHANGED control
        /\ Reply(k, "no") /\ UNCHANGED faults
    BY <1>2, <1>3, <1>13 DEF ClaimAnswered
  <2>2. CASE UNCHANGED control
    BY <1>7, <2>1, <2>2
  <2>3. CASE d \in Directive /\ Restored(d, k.op)
    <3>1. /\ GoalInv' /\ HostInv' /\ Clears(calls \ {k}) /\ SendsOnly(k.op, FALSE)
      BY <2>1, Replied DEF SendsOnly
    <3>2. /\ ReceiptsTyped' /\ \A e \in Directive \ {d} : receipt'[e] = receipt[e]
          /\ receipt[d].status \in MarkedSent => receipt'[d] = receipt[d]
      BY <1>5, <2>3, RestoredReceipt
    <3>3. DirectiveInv'
      BY <1>6, <2>3, <3>1, <3>2, ReceiptClears
    <3> QED
      BY <2>1, <3>1, <3>3 DEF IInv
  <2> QED
    BY <1>4, <2>1, <2>2, <2>3
<1>14. k.answer \in {"yes", "no", "error"}
  BY <1>1 DEF CallFits, Call
<1> QED
  BY <1>10, <1>11, <1>12, <1>13, <1>14

LEMMA AnsweredStep ==
    ASSUME IInv, NEW k \in calls, Answered(k)
    PROVE  IInv'
<1>1. k \in Call /\ CallFits(k) /\ HostsTyped /\ k.stage = "answered"
  BY DEF IInv, HostInv, HostsTyped, CallsFit, Answered
<1>2. k.answer \in {"yes", "no", "duplicate", "error"}
  BY <1>1 DEF CallFits, Call
<1>3. UNCHANGED <<goal, grant>>
  BY DEF Answered
<1>4. CASE k.orphan /\ Reply(k, k.answer) /\ UNCHANGED <<control, faults>>
  <2>1. /\ GoalInv' /\ HostInv' /\ Clears(calls \ {k})
        /\ SendsOnly(k.op, k.act = "attempt" /\ k.answer = "yes" /\ ~k.orphan)
    BY <1>2, <1>3, <1>4, Replied
  <2>2. DirectiveInv'
    BY <1>4, <2>1, ReceiptsRest DEF IInv, SendsOnly
  <2> QED
    BY <1>4, <2>1, <2>2 DEF IInv
<1>5. CASE ~k.orphan /\ k.act = "claim" /\ ClaimAnswered(k, kind[k.op])
  BY <1>1, <1>3, <1>5, ClaimAnsweredStep
<1>6. CASE /\ ~k.orphan /\ k.act # "claim"
           /\ ReceiptAfter(k, kind[k.op])
           /\ Reply(k, IF k.act = "cleanup" THEN "error" ELSE k.answer)
           /\ UNCHANGED faults
  <2>1. PICK answer \in {"yes", "no", "duplicate", "error"} :
            /\ Reply(k, answer)
            /\ answer = IF k.act = "cleanup" THEN "error" ELSE k.answer
    BY <1>2, <1>6
  <2>2. k.act = "attempt" /\ answer = "yes" => Granted(k) /\ k.answer = "yes"
    BY <1>1, <1>6, <2>1 DEF Granted
  <2>3. PICK may \in BOOLEAN :
            may <=> (k.act = "attempt" /\ answer = "yes" /\ ~k.orphan)
    OBVIOUS
  <2>4. GoalInv' /\ HostInv' /\ Clears(calls \ {k}) /\ SendsOnly(k.op, may)
    <3>1. /\ GoalInv' /\ HostInv' /\ Clears(calls \ {k})
          /\ SendsOnly(k.op, k.act = "attempt" /\ answer = "yes" /\ ~k.orphan)
      BY <1>3, <2>1, <2>2, Replied
    <3> QED
      BY <2>3, <3>1 DEF SendsOnly
  <2>5. kind[k.op] \in Directive \cup {Automatic}
    BY <1>1 DEF HostsTyped, Call
  <2>6. CASE kind[k.op] = Automatic
    <3>1. UNCHANGED control
      BY <1>6, <2>6 DEF ReceiptAfter
    <3>2. \A b \in Op : MayHaveSent(b)' /\ kind[b] \in Directive => MayHaveSent(b)
      BY <2>4, <2>6, DeliveryAssumption DEF SendsOnly
    <3>3. DirectiveInv'
      BY <2>4, <3>1, <3>2, ReceiptsRest DEF IInv
    <3> QED
      BY <1>6, <2>4, <3>3 DEF IInv
  <2>7. CASE kind[k.op] \in Directive
    <3>1. PICK d \in Directive : d = kind[k.op]
      BY <2>7
    <3>2. InFlight(k, d) /\ ReceiptAfter(k, d)
      BY <1>1, <1>6, <3>1 DEF InFlight
    <3>3. /\ ReceiptsTyped' /\ \A e \in Directive \ {d} : receipt'[e] = receipt[e]
          /\ receipt[d].status \in MarkedSent =>
               /\ receipt'[d].claim = receipt[d].claim
               /\ receipt'[d].status \in MarkedSent
          /\ k.act = "attempt" /\ k.answer = "yes" =>
               receipt'[d].claim = k.op /\ receipt'[d].status \in MarkedSent
      BY <1>1, <1>6, <3>2, ReceiptAfterwards
    <3>4. may => receipt'[d].claim = k.op /\ receipt'[d].status \in MarkedSent
      BY <2>2, <2>3, <3>3
    <3>5. DirectiveInv'
      BY <2>4, <3>2, <3>3, <3>4, ReceiptClears
    <3> QED
      BY <1>6, <2>4, <3>5 DEF IInv
  <2> QED
    BY <2>5, <2>6, <2>7
<1> QED
  BY <1>4, <1>5, <1>6 DEF Answered

-----------------------------------------------------------------------------
LEMMA Steps ==
    ASSUME IInv, Next
    PROVE  IInv'
<1>1. CASE Touch \/ Manage \/ LeaseEnds \/ ClaimAges \/ RetryDue
  BY <1>1, GoalStep
<1>2. CASE \E d \in Directive : UserResume(d) \/ ResumeAnswered(d) \/ LiveClaimAges(d)
  BY <1>2, ReceiptStep
<1>3. CASE \E c \in Op : Start(c) \/ HostStep(c) \/ HostVanishes(c)
  BY <1>3, StartStep, SendStep, HostErrorStep, HostVanishesStep DEF HostStep
<1>4. CASE \E k \in calls : Handle(k) \/ AnswerLost(k) \/ ReplyLost(k)
  <2>1. PICK k \in calls : Handle(k) \/ AnswerLost(k) \/ ReplyLost(k)
    BY <1>4
  <2> QED
    BY <2>1, QueueStep, AskForStep, ReadStep, ActStep, AnsweredStep,
       AnswerLostStep, ReplyLostStep DEF Handle
<1>5. CASE Restart
  BY <1>5, RestartStep
<1> QED
  BY <1>1, <1>2, <1>3, <1>4, <1>5 DEF Next

LEMMA Stuttering ==
    ASSUME IInv, UNCHANGED vars
    PROVE  IInv'
<1>1. UNCHANGED <<calls, hosts, control, goal, grant, faults>>
  BY DEF vars
<1>2. Keeps(goal, goal') /\ GoalSound(goal')
  BY <1>1, KeepsSelf DEF IInv, GoalInv
<1>3. GoalInv' /\ HostInv' /\ DirectiveInv'
  BY <1>1, <1>2, GoalMoves, HostsStay, DirectivesStay DEF IInv
<1> QED
  BY <1>1, <1>3 DEF IInv

(* The Goal remembers which claim may have been used, the receipt who may  *)
(* have sent what the user asked for, and no call on its way says that its *)
(* caller stands anywhere but where it does.                               *)
THEOREM Inductive == Spec => []IInv
BY Initially, Steps, Stuttering, PTL DEF Spec

(* The records Control and the Instance keep, and the calls between them,  *)
(* have the form the code gives them: a claim is there while it is         *)
(* pending, and no epoch is covered or claimed that is still to come.      *)
THEOREM TypeCorrect == Spec => []TypeOK
BY Inductive, Typing, PTL

(* A Host that the timer woke sends at most one message while the Goal     *)
(* stands at one revision and one progress epoch, whichever replies are    *)
(* lost and however late a request of an expired claim comes.              *)
THEOREM SentOncePerEpoch == Spec => []OncePerEpoch
<1>1. IInv => OncePerEpoch
  BY DEF IInv, GoalInv, SendersFit, MaySend, OncePerEpoch
<1> QED
  BY <1>1, Inductive, PTL

(* What the user asked for is sent by one Host at most, also when a Host   *)
(* vanishes, another takes over and Control is restarted meanwhile.        *)
THEOREM SentOncePerDirective == Spec => []DirectiveSentOnce
<1>1. ASSUME IInv, NEW a \in Op, NEW b \in Op, a # b, kind[a] = kind[b],
             kind[a] \in Directive
      PROVE  "none" \in {sent[a], sent[b]}
  <2>1. PICK d \in Directive : d = kind[a] /\ d = kind[b]
    BY <1>1
  <2>2. DirectiveFits(d)
    BY <1>1 DEF IInv, DirectiveInv, DirectivesFit
  <2> QED
    BY <1>1, <2>1, <2>2 DEF DirectiveFits, MayHaveSent
<1>2. IInv => DirectiveSentOnce
  BY <1>1 DEF DirectiveSentOnce
<1> QED
  BY <1>2, Inductive, PTL
=============================================================================
