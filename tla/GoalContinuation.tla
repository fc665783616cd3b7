--------------------------- MODULE GoalContinuation ---------------------------
(***************************************************************************)
(* The record of a Workspace Goal and what may be done to it               *)
(* (packages/core/src/task/goal/storage/State.ts).  A Goal whose agent has *)
(* gone quiet is continued by a message to the conversation.  A sender     *)
(* first claims the Goal, then marks the claim attempted, sends, and       *)
(* reports.  A claim that is not attempted expires; one that is attempted  *)
(* does not, because its message may have been delivered.                  *)
(*                                                                         *)
(* Each operator maps a record to the record GoalService writes next: it   *)
(* runs one operation at a time and writes the document as a whole, so a   *)
(* step of the state machine is one step here.  Times are kept as what     *)
(* they decide: whether the claim is younger than its lifetime, whether    *)
(* the execution lease has run out, whether a retry is due.  The progress  *)
(* epochs of the code are shifted by one: epoch 0 stands for "never".      *)
(* Streaks and counts are left out: no decision of this code reads them.   *)
(* So is the activity time a claim carries: whatever moves the activity of *)
(* a Goal also clears its claim, so validate never finds them different.   *)
(***************************************************************************)
EXTENDS Naturals

CONSTANTS
    Op,         (* recovery operations; each has a claim id of its own     *)
    NoOp

ASSUME OpAssumption == NoOp \notin Op

(* A Goal on hold is blocked by the agent or paused by the user, which     *)
(* decides who may resume or update it; an ended one is completed or       *)
(* stopped.                                                                *)
Status == {"active", "held", "ended"}
Goal ==
    [status : Status, revision : Nat \ {0},
     epoch : Nat \ {0},         (* progressEpoch                            *)
     covered : Nat,             (* reentryProgressEpoch, 0 when undefined   *)
     claim : Op \cup {NoOp},    (* continuationClaimId                      *)
     claimEpoch : Nat,          (* continuationClaimProgressEpoch           *)
     fresh : BOOLEAN,           (* the claim is younger than its lifetime   *)
     attempted : BOOLEAN,       (* continuationAttemptedAt                  *)
     leaseOver : BOOLEAN,       (* continuationDueAt has passed             *)
     retryReady : BOOLEAN]      (* continuationRetryAfter has passed        *)

StartedGoal ==
    [status |-> "active", revision |-> 1, epoch |-> 1, covered |-> 0,
     claim |-> NoOp, claimEpoch |-> 0, fresh |-> FALSE, attempted |-> FALSE,
     leaseOver |-> FALSE, retryReady |-> TRUE]

-----------------------------------------------------------------------------
(* What a reader of the Goal is shown. *)

Pending(g) == g.attempted \/ g.fresh

ContinuationDue(g) ==
    /\ g.status = "active" /\ g.epoch > g.covered
    /\ ~Pending(g) /\ g.retryReady /\ g.leaseOver

-----------------------------------------------------------------------------
(* Mutation: the attempt is not cleared with the claim. *)
ClearedButAttempted(g) ==
    [g EXCEPT !.claim = NoOp, !.claimEpoch = 0, !.fresh = FALSE]

Cleared(g) ==
    [g EXCEPT !.claim = NoOp, !.claimEpoch = 0, !.fresh = FALSE,
              !.attempted = FALSE]

Expired(g) ==
    IF g.claim # NoOp /\ ~Pending(g) THEN Cleared(g) ELSE g

(* The epoch a message was sent for is not continued again. *)
CoveredTo(g, e) == [g EXCEPT !.covered = e, !.leaseOver = FALSE]

(* Mutation: an attempt nobody reported is dropped, not counted. *)
SettledUncounted(g) == Cleared(g)

(* The agent is at work: an attempt whose outcome is unknown got through. *)
Settled(g) ==
    IF g.attempted /\ g.claimEpoch > g.covered
    THEN CoveredTo(Cleared(g), g.claimEpoch) ELSE Cleared(g)

Progressed(g) ==
    [g EXCEPT !.epoch = @ + 1, !.leaseOver = FALSE, !.retryReady = TRUE]

-----------------------------------------------------------------------------
(* Activity of the agent, and what the agent or the user does to the Goal. *)

Touched(g, kind) ==
    IF kind = "mutation" THEN Progressed(Settled(g))
    ELSE [Settled(g) EXCEPT !.leaseOver = FALSE]

Revised(g, status) ==
    [Cleared(g) EXCEPT !.status = status, !.revision = @ + 1,
                       !.leaseOver = FALSE, !.retryReady = TRUE]

(* finish and stop leave the retry time alone; a Goal that ended has no    *)
(* use for it.                                                             *)
CanMove(g, to) ==
    CASE to = "held"   -> g.status = "active"
      [] to = "active" -> g.status = "held"
      [] to = "ended"  -> g.status # "ended"

Updated(g, changes) ==
    LET s == [Settled(g) EXCEPT !.revision = @ + 1]
    IN  IF changes THEN Progressed(s) ELSE s

-----------------------------------------------------------------------------
(* The continuation actions: the record they leave and the answer.  An     *)
(* error is thrown before anything is written.                             *)

Claimed(g, c, userInitiated) ==
    IF IF userInitiated THEN g.status = "active" /\ ~Pending(g)
                        ELSE ContinuationDue(g)
    THEN [goal |-> [g EXCEPT !.claim = c, !.claimEpoch = g.epoch,
                             !.fresh = TRUE],
          answer |-> "yes"]
    ELSE [goal |-> g, answer |-> "no"]

Validated(g, c) ==
    IF g.claim = c /\ g.status = "active" THEN [goal |-> g, answer |-> "yes"]
    ELSE [goal |-> IF g.claim = c THEN Cleared(g) ELSE g, answer |-> "no"]

Attempted(g, c) == [goal |-> [g EXCEPT !.attempted = TRUE], answer |-> "yes"]

Reported(g, c, accepted) ==
    [goal |-> IF accepted
              THEN [CoveredTo(Cleared(g), g.claimEpoch)
                        EXCEPT !.retryReady = TRUE]
              ELSE [Cleared(g) EXCEPT !.retryReady = FALSE],
     answer |-> "yes"]

Released(g) == [goal |-> Cleared(g), answer |-> "yes"]

Continuation(stored, do, c, userInitiated, accepted) ==
    LET g == Expired(stored)
        refused == \/ do \in {"attempt", "report", "release"} /\ g.claim # c
                   \/ do = "report" /\ accepted /\ ~g.attempted
                   \/ do = "release" /\ g.attempted
    IN  CASE refused         -> [goal |-> stored, answer |-> "error"]
          [] do = "claim"    -> Claimed(g, c, userInitiated)
          [] do = "validate" -> Validated(g, c)
          [] do = "attempt" /\ ~refused -> Attempted(g, c)
          [] do = "report" /\ ~refused  -> Reported(g, c, accepted)
          [] do = "release" /\ ~refused -> Released(g)
=============================================================================
