------------------------ MODULE ToolScheduler_proofs ------------------------
(***************************************************************************)
(* Proofs about ToolScheduler for every set of requests and every limit:   *)
(* types, the capacity limits, the call id map, and that a retryable error *)
(* is never given for work that began.                                     *)
(***************************************************************************)
EXTENDS ToolScheduler, FiniteSetTheorems, WellFoundedInduction, TLAPS

-----------------------------------------------------------------------------
(* The drain.                                                              *)

(* Every finite, non-empty set of naturals-valued entries has a greatest. *)
LEMMA GreatestTicket ==
    ASSUME NEW X, X # {}, NEW n \in Nat,
           NEW tk \in [X -> 0..n]
    PROVE  \E e \in X : \A d \in X : tk[d] <= tk[e]
<1> DEFINE T == {n - tk[x] : x \in X}
<1>1. T \subseteq Nat /\ T # {}
    OBVIOUS
<1>2. IsWellFoundedOn(OpToRel(<, Nat), Nat)
    BY NatLessThanWellFounded
<1>3. PICK m \in T : \A k \in T : ~ (<<k, m>> \in OpToRel(<, Nat))
    BY <1>1, <1>2, WFMin
<1>4. \A k \in T : ~ (k < m)
    BY <1>1, <1>3 DEF OpToRel
<1>5. PICK e \in X : m = n - tk[e]
    BY <1>3
<1>6. \A d \in X : ~ (n - tk[d] < n - tk[e])
    BY <1>4, <1>5
<1>7. \A d \in X : tk[d] \in 0..n /\ tk[e] \in 0..n
    OBVIOUS
<1>8. \A d \in X : tk[d] <= tk[e]
    BY <1>6, <1>7
<1> QED
    BY <1>8

(* A non-empty set of waiting entries has one that every other is ahead of. *)
LEMMA LastInOrder ==
    ASSUME NEW X \in SUBSET Entry, X # {}, NEW n \in Nat,
           NEW tk \in [Entry -> Nat],
           \A d \in X : tk[d] \in 0..n,
           \A d, e \in X : tk[d] = tk[e] => d = e
    PROVE  \E e \in X : \A d \in X : d # e => Ahead(tk, d, e)
<1> DEFINE routine == {e \in X : ~Urgent(e)}
           last(Y) == \E e \in Y : \A d \in Y : d # e => tk[d] < tk[e]
<1>1. ASSUME NEW Y \in SUBSET X, Y # {}
      PROVE  last(Y)
    <2> DEFINE t == [e \in Y |-> tk[e]]
    <2>1. t \in [Y -> 0..n]
        OBVIOUS
    <2>2. PICK e \in Y : \A d \in Y : t[d] <= t[e]
        BY <1>1, <2>1, GreatestTicket
    <2>3. \A d \in Y : d # e => tk[d] < tk[e]
        BY <2>2
    <2> QED
        BY <2>3
<1>2. CASE routine # {}
    <2>1. PICK e \in routine : \A d \in routine : d # e => tk[d] < tk[e]
        BY <1>1, <1>2
    <2>2. \A d \in X : d # e => Ahead(tk, d, e)
        BY <2>1 DEF Ahead, Urgent
    <2> QED
        BY <2>2
<1>3. CASE routine = {}
    <2>1. PICK e \in X : \A d \in X : d # e => tk[d] < tk[e]
        BY <1>1
    <2>2. \A d \in X : Urgent(d)
        BY <1>3
    <2>3. \A d \in X : d # e => Ahead(tk, d, e)
        BY <2>1, <2>2 DEF Ahead, Urgent
    <2> QED
        BY <2>3
<1> QED
    BY <1>2, <1>3
-----------------------------------------------------------------------------
(* Capacity.                                                               *)

(* If every started entry of a class F found fewer than n of the class     *)
(* running or started ahead of it, no more than n of the class run.        *)
LEMMA ClassStaysWithin ==
    ASSUME NEW R \in SUBSET Entry, NEW S \in SUBSET Entry,
           NEW F \in SUBSET Entry, NEW n \in Nat, NEW m \in Nat,
           NEW tk \in [Entry -> Nat],
           \A d \in S : tk[d] \in 0..m,
           \A d, e \in S : tk[d] = tk[e] => d = e,
           Cardinality(R \cap F) <= n,
           \A e \in S \cap F :
                Cardinality((R \cup {d \in S : Ahead(tk, d, e)}) \cap F) < n
    PROVE  Cardinality((R \cup S) \cap F) <= n
<1> DEFINE before(e) == (R \cup {d \in S : Ahead(tk, d, e)}) \cap F
           all == (R \cup S) \cap F
<1> IsFiniteSet(Entry)
    BY RequestAssumption
<1>1. CASE S \cap F = {}
    <2>1. all = R \cap F
        BY <1>1
    <2> QED
        BY <2>1
<1>2. CASE S \cap F # {}
    <2>1. PICK e \in S \cap F : \A d \in S \cap F : d # e => Ahead(tk, d, e)
        BY <1>2, LastInOrder
    <2>2. before(e) \subseteq Entry /\ IsFiniteSet(before(e))
        BY FS_Subset
    <2>3. all \subseteq before(e) \cup {e}
        BY <2>1
    <2>4. /\ IsFiniteSet(before(e) \cup {e})
          /\ Cardinality(before(e) \cup {e}) <= Cardinality(before(e)) + 1
          /\ Cardinality(before(e)) \in Nat
        <3>1. Cardinality(before(e)) \in Nat
            BY <2>2, FS_CardinalityType
        <3>2. /\ IsFiniteSet(before(e) \cup {e})
              /\ Cardinality(before(e) \cup {e}) =
                    IF e \in before(e) THEN Cardinality(before(e))
                    ELSE Cardinality(before(e)) + 1
            <4> HIDE DEF before
            <4> QED
                BY <2>2, FS_AddElement
        <3> QED
            BY <3>1, <3>2
    <2>5. Cardinality(all) <= Cardinality(before(e) \cup {e})
        BY <2>3, <2>4, FS_Subset
    <2>6. Cardinality(all) \in Nat
        BY <2>3, <2>4, FS_Subset, FS_CardinalityType
    <2>7. Cardinality(before(e)) < n
        BY <2>1
    <2>8. Cardinality(before(e) \cup {e}) \in Nat
        BY <2>4, FS_CardinalityType
    <2> QED
        BY <2>4, <2>5, <2>6, <2>7, <2>8
<1> QED
    BY <1>1, <1>2

(* Fewer running calls stay within the limits. *)
LEMMA FewerWithinLimits ==
    ASSUME NEW R \in SUBSET Entry, NEW Q \in SUBSET R, WithinLimits(R)
    PROVE  WithinLimits(Q)
<1> DEFINE routine(X) == {e \in X : ~Urgent(e)}
<1> IsFiniteSet(R)
    BY RequestAssumption, FS_Subset
<1>1. \A X \in SUBSET R : \A Y \in SUBSET X :
        /\ Cardinality(X) \in Nat /\ Cardinality(Y) \in Nat
        /\ Cardinality(Y) <= Cardinality(X)
    BY FS_Subset, FS_CardinalityType
<1>2. Cardinality(Q) <= MaxRunning + 1
    BY <1>1, LimitAssumption DEF WithinLimits
<1>3. Cardinality(routine(Q)) <= MaxRunning
    <2>1. Cardinality(routine(Q)) <= Cardinality(routine(R))
        BY <1>1
    <2>2. Cardinality(routine(Q)) \in Nat /\ Cardinality(routine(R)) \in Nat
        BY <1>1
    <2> QED
        BY <2>1, <2>2, LimitAssumption DEF WithinLimits
<1>4. ASSUME NEW e \in Entry
      PROVE  Cardinality(SameTool(e, Q)) <= ToolMaxRunning[ToolOf[e]]
    <2>1. /\ Cardinality(SameTool(e, Q)) <= Cardinality(SameTool(e, R))
          /\ Cardinality(SameTool(e, Q)) \in Nat
          /\ Cardinality(SameTool(e, R)) \in Nat
        BY <1>1 DEF SameTool
    <2>2. ToolMaxRunning[ToolOf[e]] \in Nat
        BY RequestAssumption, LimitAssumption
    <2> QED
        BY <2>1, <2>2 DEF WithinLimits
<1>5. ASSUME NEW e \in Entry, CtxOf[e] # NoCtx
      PROVE  /\ Cardinality(SameCtx(e, Q)) <= MaxRunningPerSession + 1
             /\ Cardinality(SameCtx(e, routine(Q))) <= MaxRunningPerSession
    <2>1. /\ Cardinality(SameCtx(e, Q)) <= Cardinality(SameCtx(e, R))
          /\ Cardinality(SameCtx(e, Q)) \in Nat
          /\ Cardinality(SameCtx(e, R)) \in Nat
        BY <1>1 DEF SameCtx
    <2>2. SameCtx(e, routine(R)) \subseteq R
          /\ SameCtx(e, routine(Q)) \subseteq SameCtx(e, routine(R))
        BY DEF SameCtx
    <2>3. /\ Cardinality(SameCtx(e, routine(Q)))
                <= Cardinality(SameCtx(e, routine(R)))
          /\ Cardinality(SameCtx(e, routine(Q))) \in Nat
          /\ Cardinality(SameCtx(e, routine(R))) \in Nat
        BY <1>1, <2>2
    <2> QED
        BY <1>5, <2>1, <2>3, LimitAssumption DEF WithinLimits
<1> QED
    BY <1>2, <1>3, <1>4, <1>5 DEF WithinLimits

(* The drain keeps what runs within the limits of the instance, of every   *)
(* tool and of every context.                                              *)
LEMMA DrainWithinLimits ==
    ASSUME NEW R \in SUBSET Entry, NEW Q \in SUBSET Entry,
           NEW S \in SUBSET Q, NEW m \in Nat,
           NEW tk \in [Entry -> Nat],
           \A d \in Q : tk[d] \in 0..m,
           \A d, e \in Q : tk[d] = tk[e] => d = e,
           IsDrained(S, Q, R, tk), WithinLimits(R)
    PROVE  WithinLimits(R \cup S)
<1> DEFINE before(e) == R \cup {d \in S : Ahead(tk, d, e)}
           routine(X) == {e \in X : ~Urgent(e)}
<1> IsFiniteSet(Entry)
    BY RequestAssumption
<1>0. \A X \in SUBSET Entry : \A Y \in SUBSET X :
        /\ Cardinality(X) \in Nat /\ Cardinality(Y) \in Nat
        /\ Cardinality(Y) <= Cardinality(X)
    BY FS_Subset, FS_CardinalityType
<1>1. \A e \in S : CanRun(e, before(e))
    BY DEF IsDrained
<1>S. /\ S \in SUBSET Entry
      /\ \A d \in S : tk[d] \in 0..m
      /\ \A d, e \in S : tk[d] = tk[e] => d = e
    OBVIOUS
<1>2. \A e \in S : before(e) \in SUBSET Entry
    OBVIOUS
<1>3. Cardinality(R \cup S) <= MaxRunning + 1
    <2>1. Cardinality(R \cap Entry) <= MaxRunning + 1
        <3>1. R \cap Entry = R
            OBVIOUS
        <3> QED
            BY <3>1 DEF WithinLimits
    <2>2. \A e \in S \cap Entry :
            Cardinality(before(e) \cap Entry) < MaxRunning + 1
        <3> SUFFICES ASSUME NEW e \in S
                     PROVE  Cardinality(before(e) \cap Entry) < MaxRunning + 1
            OBVIOUS
        <3>1. before(e) \cap Entry = before(e)
            BY <1>2
        <3>2. Cardinality(before(e)) < MaxRunning + UrgentAllowance(e)
            BY <1>1 DEF CanRun
        <3>3. Cardinality(before(e)) \in Nat
            BY <1>0, <1>2
        <3> HIDE DEF before
        <3> QED
            BY <3>1, <3>2, <3>3, LimitAssumption DEF UrgentAllowance
    <2>3. Cardinality((R \cup S) \cap Entry) <= MaxRunning + 1
        <3>1. MaxRunning + 1 \in Nat
            BY LimitAssumption
        <3> QED
            BY <1>S, <2>1, <2>2, <3>1, ClassStaysWithin
    <2>4. (R \cup S) \cap Entry = R \cup S
        OBVIOUS
    <2> QED
        BY <2>3, <2>4
<1>4. Cardinality(routine(R \cup S)) <= MaxRunning
    <2> DEFINE F == routine(Entry)
    <2>1. Cardinality(R \cap F) <= MaxRunning
        <3>1. R \cap F = routine(R)
            OBVIOUS
        <3> QED
            BY <3>1 DEF WithinLimits
    <2>2. \A e \in S \cap F : Cardinality(before(e) \cap F) < MaxRunning
        <3> SUFFICES ASSUME NEW e \in S \cap F
                     PROVE  Cardinality(before(e) \cap F) < MaxRunning
            OBVIOUS
        <3>1. Cardinality(before(e)) < MaxRunning + 0
            BY <1>1 DEF CanRun, UrgentAllowance
        <3>2. /\ Cardinality(before(e) \cap F) <= Cardinality(before(e))
              /\ Cardinality(before(e)) \in Nat
              /\ Cardinality(before(e) \cap F) \in Nat
            BY <1>0, <1>2
        <3> HIDE DEF before, F
        <3> QED
            BY <3>1, <3>2, LimitAssumption
    <2>3. Cardinality((R \cup S) \cap F) <= MaxRunning
        <3> HIDE DEF F
        <3> F \in SUBSET Entry
            BY DEF F
        <3> QED
            BY <1>S, <2>1, <2>2, LimitAssumption, ClassStaysWithin
    <2>4. (R \cup S) \cap F = routine(R \cup S)
        OBVIOUS
    <2> QED
        BY <2>3, <2>4
<1>5. ASSUME NEW c \in Entry
      PROVE  Cardinality(SameTool(c, R \cup S)) <= ToolMaxRunning[ToolOf[c]]
    <2> DEFINE F == SameTool(c, Entry)
               n == ToolMaxRunning[ToolOf[c]]
    <2>0. n \in Nat
        BY RequestAssumption, LimitAssumption
    <2>1. Cardinality(R \cap F) <= n
        <3>1. R \cap F = SameTool(c, R)
            BY DEF SameTool
        <3> QED
            BY <3>1 DEF WithinLimits
    <2>2. \A e \in S \cap F : Cardinality(before(e) \cap F) < n
        <3> SUFFICES ASSUME NEW e \in S \cap F
                     PROVE  Cardinality(before(e) \cap F) < n
            OBVIOUS
        <3>1. before(e) \cap F = SameTool(e, before(e)) /\ ToolOf[e] = ToolOf[c]
            BY <1>2 DEF SameTool
        <3>2. Cardinality(SameTool(e, before(e))) < ToolMaxRunning[ToolOf[e]]
            BY <1>1 DEF CanRun
        <3> QED
            BY <3>1, <3>2
    <2>3. Cardinality((R \cup S) \cap F) <= n
        <3> HIDE DEF F, n
        <3> F \in SUBSET Entry
            BY DEF F, SameTool
        <3> QED
            BY <1>S, <2>0, <2>1, <2>2, ClassStaysWithin
    <2>4. (R \cup S) \cap F = SameTool(c, R \cup S)
        BY DEF SameTool
    <2> QED
        BY <2>3, <2>4
<1>6. ASSUME NEW c \in Entry, CtxOf[c] # NoCtx
      PROVE  Cardinality(SameCtx(c, R \cup S)) <= MaxRunningPerSession + 1
    <2> DEFINE F == SameCtx(c, Entry)
               n == MaxRunningPerSession + 1
    <2>0. n \in Nat
        BY LimitAssumption
    <2>1. Cardinality(R \cap F) <= n
        <3>1. R \cap F = SameCtx(c, R)
            BY DEF SameCtx
        <3> QED
            BY <1>6, <3>1 DEF WithinLimits
    <2>2. \A e \in S \cap F : Cardinality(before(e) \cap F) < n
        <3> SUFFICES ASSUME NEW e \in S \cap F
                     PROVE  Cardinality(before(e) \cap F) < n
            OBVIOUS
        <3>1. before(e) \cap F = SameCtx(e, before(e)) /\ CtxOf[e] = CtxOf[c]
            BY <1>2 DEF SameCtx
        <3>2. Cardinality(SameCtx(e, before(e)))
                < MaxRunningPerSession + UrgentAllowance(e)
            BY <1>1, <1>6, <3>1 DEF CanRun
        <3>3. Cardinality(before(e) \cap F) \in Nat
            BY <1>0, <1>2
        <3>4. Cardinality(before(e) \cap F)
                < MaxRunningPerSession + UrgentAllowance(e)
            BY <3>1, <3>2
        <3>5. UrgentAllowance(e) \in {0, 1}
            BY DEF UrgentAllowance
        <3> HIDE DEF before, F
        <3> QED
            BY <3>3, <3>4, <3>5, LimitAssumption
    <2>3. Cardinality((R \cup S) \cap F) <= n
        <3> HIDE DEF F, n
        <3> F \in SUBSET Entry
            BY DEF F, SameCtx
        <3> QED
            BY <1>S, <2>0, <2>1, <2>2, ClassStaysWithin
    <2>4. (R \cup S) \cap F = SameCtx(c, R \cup S)
        BY DEF SameCtx
    <2> QED
        BY <2>3, <2>4
<1>7. ASSUME NEW c \in Entry, CtxOf[c] # NoCtx
      PROVE  Cardinality(SameCtx(c, routine(R \cup S))) <= MaxRunningPerSession
    <2> DEFINE F == SameCtx(c, routine(Entry))
               n == MaxRunningPerSession
    <2>0. n \in Nat
        BY LimitAssumption
    <2>1. Cardinality(R \cap F) <= n
        <3>1. R \cap F = SameCtx(c, routine(R))
            BY DEF SameCtx
        <3> QED
            BY <1>7, <3>1 DEF WithinLimits
    <2>2. \A e \in S \cap F : Cardinality(before(e) \cap F) < n
        <3> SUFFICES ASSUME NEW e \in S \cap F
                     PROVE  Cardinality(before(e) \cap F) < n
            OBVIOUS
        <3>1. /\ before(e) \cap F \subseteq SameCtx(e, before(e))
              /\ CtxOf[e] = CtxOf[c]
              /\ ~Urgent(e)
            BY <1>2 DEF SameCtx
        <3>2. Cardinality(SameCtx(e, before(e))) < MaxRunningPerSession + 0
            BY <1>1, <1>7, <3>1 DEF CanRun, UrgentAllowance
        <3>3. SameCtx(e, before(e)) \in SUBSET Entry
            BY <1>2 DEF SameCtx
        <3>4. /\ Cardinality(before(e) \cap F) \in Nat
              /\ Cardinality(SameCtx(e, before(e))) \in Nat
              /\ Cardinality(before(e) \cap F)
                    <= Cardinality(SameCtx(e, before(e)))
            BY <1>0, <3>1, <3>3
        <3> HIDE DEF before, F
        <3> QED
            BY <3>2, <3>4, LimitAssumption
    <2>3. Cardinality((R \cup S) \cap F) <= n
        <3> HIDE DEF F, n
        <3> F \in SUBSET Entry
            BY DEF F, SameCtx
        <3> QED
            BY <1>S, <2>0, <2>1, <2>2, ClassStaysWithin
    <2>4. (R \cup S) \cap F = SameCtx(c, routine(R \cup S))
        BY DEF SameCtx
    <2> QED
        BY <2>3, <2>4
<1> QED
    BY <1>3, <1>4, <1>5, <1>6, <1>7 DEF WithinLimits

(* Fewer accepted calls stay within the depths. *)
LEMMA FewerWithinDepths ==
    ASSUME NEW A \in SUBSET Entry, NEW B \in SUBSET A, WithinDepths(A)
    PROVE  WithinDepths(B)
<1> IsFiniteSet(A)
    BY RequestAssumption, FS_Subset
<1>1. \A X \in SUBSET A : \A Y \in SUBSET X :
        /\ Cardinality(X) \in Nat /\ Cardinality(Y) \in Nat
        /\ Cardinality(Y) <= Cardinality(X)
    BY FS_Subset, FS_CardinalityType
<1>2. Cardinality(B) <= MaxRunning + QueueDepth + 1
    BY <1>1, LimitAssumption DEF WithinDepths
<1>3. ASSUME NEW e \in Entry
      PROVE  Cardinality(SameTool(e, B))
                <= ToolMaxRunning[ToolOf[e]] + ToolQueueDepth[ToolOf[e]]
    <2>1. /\ Cardinality(SameTool(e, B)) <= Cardinality(SameTool(e, A))
          /\ Cardinality(SameTool(e, B)) \in Nat
          /\ Cardinality(SameTool(e, A)) \in Nat
        BY <1>1 DEF SameTool
    <2>2. ToolMaxRunning[ToolOf[e]] \in Nat /\ ToolQueueDepth[ToolOf[e]] \in Nat
        BY RequestAssumption, LimitAssumption
    <2> QED
        BY <2>1, <2>2 DEF WithinDepths
<1>4. ASSUME NEW e \in Entry, CtxOf[e] # NoCtx
      PROVE  Cardinality(SameCtx(e, B))
                <= MaxRunningPerSession + QueueDepthPerSession + 1
    <2>1. /\ Cardinality(SameCtx(e, B)) <= Cardinality(SameCtx(e, A))
          /\ Cardinality(SameCtx(e, B)) \in Nat
          /\ Cardinality(SameCtx(e, A)) \in Nat
        BY <1>1 DEF SameCtx
    <2> QED
        BY <1>4, <2>1, LimitAssumption DEF WithinDepths
<1> QED
    BY <1>2, <1>3, <1>4 DEF WithinDepths

(* Adding an element makes a set at most one larger. *)
LEMMA OneMore ==
    ASSUME NEW X, IsFiniteSet(X), NEW e, NEW n \in Nat, Cardinality(X) < n
    PROVE  Cardinality(X \cup {e}) <= n
<1>1. Cardinality(X) \in Nat
    BY FS_CardinalityType
<1>2. Cardinality(X \cup {e}) =
        IF e \in X THEN Cardinality(X) ELSE Cardinality(X) + 1
    BY FS_AddElement
<1> QED
    BY <1>1, <1>2

(* The capacity check of reserve() leaves room for the reservation. *)
LEMMA ReserveWithinDepths ==
    ASSUME WithinDepths(Accepted), NEW e \in Entry, HasCapacity(e)
    PROVE  WithinDepths(Accepted \cup {e})
<1> DEFINE A == Accepted
           B == Accepted \cup {e}
<1> A \in SUBSET Entry
    BY DEF Accepted
<1> HIDE DEF A
<1>0. \A X \in SUBSET A : IsFiniteSet(X) /\ Cardinality(X) \in Nat
    BY RequestAssumption, FS_Subset, FS_CardinalityType
<1>1. Cardinality(A \cup {e}) <= MaxRunning + QueueDepth + 1
    <2>1. Cardinality(A) < MaxRunning + QueueDepth + UrgentAllowance(e)
        BY DEF HasCapacity, A
    <2>2. UrgentAllowance(e) \in {0, 1}
        BY DEF UrgentAllowance
    <2>3. Cardinality(A) < MaxRunning + QueueDepth + 1
        BY <1>0, <2>1, <2>2, LimitAssumption
    <2>4. MaxRunning + QueueDepth + 1 \in Nat
        BY LimitAssumption
    <2> QED
        BY <1>0, <2>3, <2>4, OneMore
<1>2. ASSUME NEW c \in Entry
      PROVE  Cardinality(SameTool(c, A \cup {e}))
                <= ToolMaxRunning[ToolOf[c]] + ToolQueueDepth[ToolOf[c]]
    <2> DEFINE n == ToolMaxRunning[ToolOf[c]] + ToolQueueDepth[ToolOf[c]]
    <2>1. CASE ToolOf[c] = ToolOf[e]
        <3>1. SameTool(c, A \cup {e}) = SameTool(e, A) \cup {e}
            BY <2>1 DEF SameTool
        <3>2. Cardinality(SameTool(e, A)) < n
            BY <2>1 DEF HasCapacity, A
        <3>3. n \in Nat
            BY RequestAssumption, LimitAssumption
        <3>4. IsFiniteSet(SameTool(e, A))
            BY <1>0 DEF SameTool
        <3> HIDE DEF n
        <3>5. Cardinality(SameTool(e, A) \cup {e}) <= n
            BY <3>2, <3>3, <3>4, OneMore
        <3> QED
            BY <3>1, <3>5 DEF n
    <2>2. CASE ToolOf[c] # ToolOf[e]
        <3>1. SameTool(c, A \cup {e}) = SameTool(c, A)
            BY <2>2 DEF SameTool
        <3> QED
            BY <3>1 DEF WithinDepths, A
    <2> QED
        BY <2>1, <2>2
<1>3. ASSUME NEW c \in Entry, CtxOf[c] # NoCtx
      PROVE  Cardinality(SameCtx(c, A \cup {e}))
                <= MaxRunningPerSession + QueueDepthPerSession + 1
    <2> DEFINE n == MaxRunningPerSession + QueueDepthPerSession + 1
    <2>1. CASE CtxOf[c] = CtxOf[e]
        <3>1. SameCtx(c, A \cup {e}) = SameCtx(e, A) \cup {e}
            BY <2>1 DEF SameCtx
        <3>2. Cardinality(SameCtx(e, A))
                < MaxRunningPerSession + QueueDepthPerSession + UrgentAllowance(e)
            BY <1>3, <2>1 DEF HasCapacity, A
        <3>3. UrgentAllowance(e) \in {0, 1}
            BY DEF UrgentAllowance
        <3>4. IsFiniteSet(SameCtx(e, A)) /\ Cardinality(SameCtx(e, A)) \in Nat
            BY <1>0 DEF SameCtx
        <3>5. n \in Nat /\ Cardinality(SameCtx(e, A)) < n
            BY <3>2, <3>3, <3>4, LimitAssumption
        <3> HIDE DEF n
        <3>6. Cardinality(SameCtx(e, A) \cup {e}) <= n
            BY <3>4, <3>5, OneMore
        <3> QED
            BY <3>1, <3>6 DEF n
    <2>2. CASE CtxOf[c] # CtxOf[e]
        <3>1. SameCtx(c, A \cup {e}) = SameCtx(c, A)
            BY <2>2 DEF SameCtx
        <3> QED
            BY <1>3, <3>1 DEF WithinDepths, A
    <2> QED
        BY <2>1, <2>2
<1> QED
    BY <1>1, <1>2, <1>3 DEF WithinDepths, A

-----------------------------------------------------------------------------
(* The parts the steps are made of.                                        *)

(* What the Drain that ends a step preserves of the states its caller left. *)
LEMMA DrainStep ==
    ASSUME NEW st \in [Entry -> EntryState], NEW tk \in [Entry -> Nat],
           NEW last \in Nat, NEW ans \in [Entry -> Answer],
           began \subseteq Entry,
           QueueOrder(st, tk, last), AnswerOf(st, ans, began),
           WithinLimits(Running(st)), Drain(st, tk)
    PROVE  /\ state' \in [Entry -> EntryState]
           /\ ticket' \in [Entry -> Nat]
           /\ began' \subseteq Entry
           /\ QueueOrder(state', ticket', last)
           /\ AnswerOf(state', ans, began')
           /\ WithinLimits(Running(state'))
           /\ \A e \in Entry : state'[e] \in Live <=> st[e] \in Live
<1>0. PICK S \in SUBSET Queued(st) :
        /\ IF closed THEN S = {}
           ELSE IsDrained(S, Queued(st), Running(st), tk)
        /\ state' = [e \in Entry |-> IF e \in S THEN "running" ELSE st[e]]
        /\ began' = began \cup S
        /\ ticket' = StillWaiting(state', tk)
    BY DEF Drain
<1>1. \A e \in S : e \in Entry /\ st[e] = "queued"
    BY DEF Queued
<1>2. state' \in [Entry -> EntryState]
    BY <1>0, <1>1 DEF EntryState, Live
<1>3. ticket' \in [Entry -> Nat] /\ began' \subseteq Entry
    BY <1>0, <1>1 DEF StillWaiting
<1>4. QueueOrder(state', ticket', last)
    <2>1. \A e \in Queued(state') : e \in Queued(st) /\ ticket'[e] = tk[e]
        BY <1>0, <1>1 DEF Queued, StillWaiting
    <2> QED
        BY <2>1 DEF QueueOrder
<1>5. AnswerOf(state', ans, began')
    BY <1>0, <1>1 DEF AnswerOf, Retryable
<1>6. WithinLimits(Running(state'))
    <2>1. Running(state') = Running(st) \cup S
        BY <1>0, <1>1 DEF Running
    <2>2. CASE S = {}
        <3>1. Running(state') = Running(st)
            BY <2>1, <2>2
        <3> QED
            BY <3>1
    <2>3. CASE S # {}
        <3>1. /\ Running(st) \in SUBSET Entry
              /\ Queued(st) \in SUBSET Entry
              /\ \A d \in Queued(st) : tk[d] \in 0..last
              /\ \A d, e \in Queued(st) : tk[d] = tk[e] => d = e
            BY DEF Running, Queued, QueueOrder
        <3>2. IsDrained(S, Queued(st), Running(st), tk)
            BY <1>0, <2>3
        <3>3. WithinLimits(Running(st) \cup S)
            BY <3>1, <3>2, DrainWithinLimits
        <3> QED
            BY <2>1, <3>3
    <2> QED
        BY <2>2, <2>3
<1>7. \A e \in Entry : state'[e] \in Live <=> st[e] \in Live
    BY <1>0, <1>1 DEF Live, Waiting
<1> QED
    BY <1>2, <1>3, <1>4, <1>5, <1>6, <1>7

(* What settling one live entry does to the map and to the answers. *)
LEMMA FinishStep ==
    ASSUME TypeOK, MapHoldsLiveCalls, CountedWithinLimits,
           NEW e \in Entry, state[e] \in Live,
           NEW outcome \in Answer, Finish({e}, outcome)
    PROVE  /\ entries' \in [CallId -> Entry \cup {NoEntry}]
           /\ answer' \in [Entry -> Answer]
           /\ closeResolved' \in BOOLEAN
           /\ \A d \in Entry : answer'[d] =
                IF d = e /\ answer[d] = "pending" THEN outcome ELSE answer[d]
           /\ \A d \in Entry :
                entries'[CallOf[d]] = d <=> d # e /\ state[d] \in Live
           /\ CountedWithinLimits'
<1>1. entries' = [c \in CallId |-> IF CallOf[e] = c THEN NoEntry
                                   ELSE entries[c]]
    BY DEF Finish
<1>2. entries' \in [CallId -> Entry \cup {NoEntry}]
    BY <1>1 DEF TypeOK
<1>3. answer' = [d \in Entry |-> IF d = e /\ answer[d] = "pending"
                                 THEN outcome ELSE answer[d]]
    BY DEF Finish
<1>4. answer' \in [Entry -> Answer]
    BY <1>3 DEF TypeOK
<1>5. closeResolved' \in BOOLEAN
    BY DEF Finish, TypeOK
<1>6. \A d \in Entry : entries'[CallOf[d]] = d <=> d # e /\ state[d] \in Live
    <2>1. entries[CallOf[e]] = e
        BY DEF MapHoldsLiveCalls
    <2>2. \A d \in Entry : CallOf[d] \in CallId /\ d # NoEntry
        BY RequestAssumption
    <2> QED
        BY <1>1, <2>1, <2>2 DEF MapHoldsLiveCalls
<1>7. CountedWithinLimits'
    <2>1. Accepted' \subseteq Accepted /\ Accepted \subseteq Entry
        BY <1>6 DEF Accepted, MapHoldsLiveCalls
    <2>2. WithinDepths(Accepted')
        BY <2>1, FewerWithinDepths DEF CountedWithinLimits
    <2> QED
        BY <2>2 DEF CountedWithinLimits
<1> QED
    BY <1>2, <1>3, <1>4, <1>5, <1>6, <1>7

(* cancel and timeout: a waiting entry is withdrawn. *)
LEMMA WithdrawStep ==
    ASSUME IInv, NEW e \in Entry, state[e] \in Waiting,
           NEW how \in Retryable, Finish({e}, how),
           Drain([state EXCEPT ![e] = how], ticket),
           UNCHANGED <<pushed, finishing, closed>>
    PROVE  IInv'
<1> DEFINE st == [state EXCEPT ![e] = how]
<1>1. /\ state \in [Entry -> EntryState] /\ ticket \in [Entry -> Nat]
      /\ pushed \in Nat /\ began \subseteq Entry
      /\ how \in Answer /\ how \in Terminal /\ how \notin Live
      /\ state[e] \in Live /\ state[e] # "running"
    BY DEF IInv, TypeOK, Retryable, Answer, Terminal, Live, Waiting
<1>2. /\ entries' \in [CallId -> Entry \cup {NoEntry}]
      /\ answer' \in [Entry -> Answer]
      /\ closeResolved' \in BOOLEAN
      /\ \A d \in Entry : answer'[d] =
            IF d = e /\ answer[d] = "pending" THEN how ELSE answer[d]
      /\ \A d \in Entry :
            entries'[CallOf[d]] = d <=> d # e /\ state[d] \in Live
      /\ CountedWithinLimits'
    BY <1>1, FinishStep DEF IInv
<1>3. st \in [Entry -> EntryState]
    BY <1>1 DEF EntryState
<1>4. \A d \in Entry : st[d] = IF d = e THEN how ELSE state[d]
    BY <1>1
<1>5. QueueOrder(st, ticket, pushed)
    <2>1. Queued(st) \subseteq Queued(state)
        BY <1>1, <1>4 DEF Queued, Terminal
    <2> QED
        BY <2>1 DEF IInv, QueueOrder
<1>6. AnswerOf(st, answer', began)
    <2>1. AnswerOf(state, answer, began)
        BY DEF IInv
    <2>2. answer[e] \in {"none", "pending"} /\ e \notin began
        BY <2>1 DEF AnswerOf, Waiting
    <2>3. \A d \in Entry : d # e => st[d] = state[d] /\ answer'[d] = answer[d]
        BY <1>2, <1>4
    <2>4. st[e] = how /\ answer'[e] \in {"none", how} /\ how \in Retryable
        BY <1>2, <1>4, <2>2
    <2> HIDE DEF st
    <2> QED
        BY <2>1, <2>2, <2>3, <2>4 DEF AnswerOf, Retryable
<1>7. WithinLimits(Running(st))
    <2>1. Running(st) \subseteq Running(state) /\ Running(state) \subseteq Entry
        BY <1>1, <1>4 DEF Running, Terminal
    <2>2. WithinLimits(Running(state))
        BY DEF IInv, RunningWithinLimits
    <2> HIDE DEF st
    <2> QED
        BY <2>1, <2>2, FewerWithinLimits
<1>8. Drain(st, ticket)
    OBVIOUS
<1>9. /\ state' \in [Entry -> EntryState]
      /\ ticket' \in [Entry -> Nat]
      /\ began' \subseteq Entry
      /\ QueueOrder(state', ticket', pushed)
      /\ AnswerOf(state', answer', began')
      /\ WithinLimits(Running(state'))
      /\ \A d \in Entry : state'[d] \in Live <=> st[d] \in Live
    <2> HIDE DEF st
    <2> QED
        BY <1>1, <1>2, <1>3, <1>5, <1>6, <1>7, <1>8, DrainStep
<1>10. TypeOK'
    BY <1>2, <1>9 DEF IInv, TypeOK
<1>11. MapHoldsLiveCalls'
    BY <1>1, <1>2, <1>4, <1>9 DEF MapHoldsLiveCalls
<1>12. /\ RunningWithinLimits'
       /\ QueueOrder(state, ticket, pushed)'
       /\ AnswerOf(state, answer, began)'
    BY <1>9 DEF RunningWithinLimits
<1> QED
    BY <1>2, <1>10, <1>11, <1>12 DEF IInv

(* Work that settles: the entry leaves the running set, nothing starts. *)
LEMMA EndStep ==
    ASSUME IInv, NEW e \in Entry,
           NEW st \in {"completed", "failed"}, NEW outcome \in {"value", "error"},
           End(e, st, outcome)
    PROVE  IInv'
<1>1. /\ state \in [Entry -> EntryState] /\ finishing \subseteq Entry
      /\ st \in EntryState /\ outcome \in Answer
      /\ st \notin Live /\ st \notin Retryable
      /\ state[e] \in Live
    BY DEF IInv, TypeOK, EntryState, Answer, Terminal, Live, Waiting, Retryable,
           End
<1>2. /\ state' \in [Entry -> EntryState]
      /\ \A d \in Entry : state'[d] = IF d = e THEN st ELSE state[d]
    BY <1>1 DEF End
<1>3. /\ entries' \in [CallId -> Entry \cup {NoEntry}]
      /\ answer' \in [Entry -> Answer]
      /\ closeResolved' \in BOOLEAN
      /\ \A d \in Entry : answer'[d] =
            IF d = e /\ answer[d] = "pending" THEN outcome ELSE answer[d]
      /\ \A d \in Entry :
            entries'[CallOf[d]] = d <=> d # e /\ state[d] \in Live
      /\ CountedWithinLimits'
    BY <1>1, FinishStep DEF IInv, End
<1>4. TypeOK'
    BY <1>1, <1>2, <1>3 DEF IInv, TypeOK, End
<1>5. MapHoldsLiveCalls'
    BY <1>1, <1>2, <1>3 DEF MapHoldsLiveCalls
<1>6. RunningWithinLimits'
    <2>1. Running(state') \subseteq Running(state) /\ Running(state) \subseteq Entry
        BY <1>2 DEF Running
    <2> QED
        BY <2>1, FewerWithinLimits DEF IInv, RunningWithinLimits
<1>7. QueueOrder(state, ticket, pushed)'
    <2>1. Queued(state') \subseteq Queued(state)
        BY <1>2 DEF Queued
    <2> QED
        BY <2>1 DEF IInv, QueueOrder, End
<1>8. AnswerOf(state, answer, began)'
    <2>1. AnswerOf(state, answer, began) /\ answer[e] = "pending"
        BY DEF IInv, AnswerOf, End
    <2>2. \A d \in Entry : d # e => state'[d] = state[d] /\ answer'[d] = answer[d]
        BY <1>2, <1>3
    <2>3. state'[e] = st /\ answer'[e] = outcome /\ began' = began
        BY <1>2, <1>3, <2>1 DEF End
    <2> QED
        BY <2>1, <2>2, <2>3 DEF AnswerOf, Retryable
<1> QED
    BY <1>3, <1>4, <1>5, <1>6, <1>7, <1>8 DEF IInv

-----------------------------------------------------------------------------
(* The invariant.                                                          *)

(* Nothing is running and nothing is accepted at first. *)
THEOREM InitInv == Init => IInv
<1> SUFFICES ASSUME Init PROVE IInv
    OBVIOUS
<1>1. /\ Running(state) = {} /\ Queued(state) = {} /\ Accepted = {}
    BY RequestAssumption DEF Init, Running, Queued, Accepted
<1>2. TypeOK
    BY DEF Init, TypeOK, EntryState, Answer
<1>3. MapHoldsLiveCalls
    BY RequestAssumption DEF Init, MapHoldsLiveCalls, Live, Waiting
<1>4. RunningWithinLimits
    <2>1. \A X \in SUBSET {} : Cardinality(X) = 0
        BY FS_EmptySet
    <2>2. /\ {e \in {} : ~Urgent(e)} = {}
          /\ \A e \in Entry : SameTool(e, {}) = {} /\ SameCtx(e, {}) = {}
        BY DEF SameTool, SameCtx
    <2>3. \A e \in Entry : ToolMaxRunning[ToolOf[e]] \in Nat
        BY RequestAssumption, LimitAssumption
    <2> QED
        BY <1>1, <2>1, <2>2, <2>3, LimitAssumption
        DEF RunningWithinLimits, WithinLimits
<1>5. CountedWithinLimits
    <2>1. Cardinality({}) = 0
        BY FS_EmptySet
    <2>2. \A e \in Entry : SameTool(e, {}) = {} /\ SameCtx(e, {}) = {}
        BY DEF SameTool, SameCtx
    <2>3. \A e \in Entry : ToolMaxRunning[ToolOf[e]] \in Nat
                          /\ ToolQueueDepth[ToolOf[e]] \in Nat
        BY RequestAssumption, LimitAssumption
    <2> QED
        BY <1>1, <2>1, <2>2, <2>3, LimitAssumption
        DEF CountedWithinLimits, WithinDepths
<1>6. QueueOrder(state, ticket, pushed)
    BY <1>1 DEF QueueOrder
<1>7. AnswerOf(state, answer, began)
    BY DEF Init, AnswerOf, Retryable
<1> QED
    BY <1>2, <1>3, <1>4, <1>5, <1>6, <1>7 DEF IInv

(* Every operation, timer and microtask preserves the invariant. *)
THEOREM StepInv == IInv /\ [Next]_vars => IInv'
<1> SUFFICES ASSUME IInv, [Next]_vars PROVE IInv'
    OBVIOUS
<1>0. /\ state \in [Entry -> EntryState] /\ ticket \in [Entry -> Nat]
      /\ entries \in [CallId -> Entry \cup {NoEntry}]
      /\ answer \in [Entry -> Answer]
      /\ pushed \in Nat /\ began \subseteq Entry /\ finishing \subseteq Entry
      /\ closed \in BOOLEAN /\ closeResolved \in BOOLEAN
      /\ QueueOrder(state, ticket, pushed)
      /\ AnswerOf(state, answer, began)
      /\ WithinLimits(Running(state))
    BY DEF IInv, TypeOK, RunningWithinLimits
<1>1. ASSUME NEW e \in Entry, Reserve(e) PROVE IInv'
    <2>1. /\ state' = [state EXCEPT ![e] = "reserved"]
          /\ entries' = [entries EXCEPT ![CallOf[e]] = e]
          /\ state[e] = "new" /\ entries[CallOf[e]] = NoEntry
          /\ UNCHANGED <<ticket, pushed, finishing, answer, began, closed,
                         closeResolved>>
        BY <1>1 DEF Reserve
    <2>2. \A d \in Entry : CallOf[d] \in CallId /\ d # NoEntry
        BY RequestAssumption
    <2>3. TypeOK'
        BY <1>0, <2>1, <2>2 DEF TypeOK, EntryState, Live, Waiting
    <2>4. \A d \in Entry : state'[d] = IF d = e THEN "reserved" ELSE state[d]
        BY <1>0, <2>1
    <2>5. \A d \in Entry :
            entries'[CallOf[d]] = d <=> d = e \/ entries[CallOf[d]] = d
        BY <1>0, <2>1, <2>2
    <2>6. MapHoldsLiveCalls'
        BY <2>4, <2>5 DEF IInv, MapHoldsLiveCalls, Live, Waiting
    <2>7. Running(state') = Running(state) /\ Queued(state') = Queued(state)
        BY <2>1, <2>4 DEF Running, Queued
    <2>8. CountedWithinLimits'
        <3>1. Accepted' = Accepted \cup {e}
            BY <2>5 DEF Accepted
        <3>2. WithinDepths(Accepted \cup {e})
            BY <1>1, ReserveWithinDepths DEF IInv, CountedWithinLimits, Reserve
        <3> QED
            BY <3>1, <3>2 DEF CountedWithinLimits
    <2>9. /\ RunningWithinLimits'
          /\ QueueOrder(state, ticket, pushed)'
        BY <1>0, <2>1, <2>7 DEF RunningWithinLimits, QueueOrder
    <2>10. AnswerOf(state, answer, began)'
        BY <1>0, <2>1, <2>4 DEF AnswerOf, Retryable
    <2> QED
        BY <2>3, <2>6, <2>8, <2>9, <2>10 DEF IInv
<1>2. ASSUME NEW e \in Entry, Queue(e) PROVE IInv'
    <2> DEFINE st == [state EXCEPT ![e] = "queued"]
               tk == [ticket EXCEPT ![e] = pushed']
    <2>1. /\ state[e] = "reserved"
          /\ pushed' = pushed + 1 /\ pushed' \in Nat
          /\ answer' = [answer EXCEPT ![e] = "pending"]
          /\ Drain(st, tk)
          /\ UNCHANGED <<entries, finishing, closed, closeResolved>>
        BY <1>0, <1>2 DEF Queue
    <2>2. st \in [Entry -> EntryState] /\ tk \in [Entry -> Nat]
          /\ answer' \in [Entry -> Answer]
        BY <1>0, <2>1 DEF EntryState, Live, Waiting, Answer
    <2>3. \A d \in Entry : /\ st[d] = IF d = e THEN "queued" ELSE state[d]
                           /\ tk[d] = IF d = e THEN pushed + 1 ELSE ticket[d]
                           /\ answer'[d] = IF d = e THEN "pending" ELSE answer[d]
        BY <1>0, <2>1
    <2> HIDE DEF st, tk
    <2>4. QueueOrder(st, tk, pushed')
        <3>1. \A d \in Queued(st) : d # e =>
                d \in Queued(state) /\ tk[d] = ticket[d] /\ tk[d] \in 1..pushed
            BY <1>0, <2>3 DEF Queued, QueueOrder
        <3>2. \A d \in Queued(st) : d = e => tk[d] = pushed + 1
            BY <2>3 DEF Queued
        <3>3. \A d \in Queued(st) : tk[d] \in 1..pushed'
            BY <1>0, <2>1, <3>1, <3>2
        <3>4. ASSUME NEW c \in Queued(st), NEW d \in Queued(st), tk[c] = tk[d]
              PROVE  c = d
            BY <1>0, <3>1, <3>2, <3>4 DEF QueueOrder
        <3> QED
            BY <3>3, <3>4 DEF QueueOrder
    <2>5. AnswerOf(st, answer', began)
        BY <1>0, <2>1, <2>3 DEF AnswerOf, Retryable
    <2>6. WithinLimits(Running(st))
        <3>1. Running(st) = Running(state)
            BY <2>1, <2>3 DEF Running
        <3> QED
            BY <1>0, <3>1
    <2>7. /\ state' \in [Entry -> EntryState]
          /\ ticket' \in [Entry -> Nat]
          /\ began' \subseteq Entry
          /\ QueueOrder(state', ticket', pushed')
          /\ AnswerOf(state', answer', began')
          /\ WithinLimits(Running(state'))
          /\ \A d \in Entry : state'[d] \in Live <=> st[d] \in Live
        BY <1>0, <2>1, <2>2, <2>4, <2>5, <2>6, DrainStep
    <2>8. TypeOK'
        BY <1>0, <2>1, <2>2, <2>7 DEF TypeOK
    <2>9. MapHoldsLiveCalls'
        BY <2>1, <2>3, <2>7 DEF IInv, MapHoldsLiveCalls, Live, Waiting
    <2>10. CountedWithinLimits'
        <3>1. Accepted' = Accepted
            BY <2>1 DEF Accepted
        <3> QED
            BY <3>1 DEF IInv, CountedWithinLimits
    <2>11. /\ RunningWithinLimits'
           /\ QueueOrder(state, ticket, pushed)'
           /\ AnswerOf(state, answer, began)'
        BY <2>7 DEF RunningWithinLimits
    <2> QED
        BY <2>8, <2>9, <2>10, <2>11 DEF IInv
<1>3. ASSUME NEW e \in Entry, QueueSettled(e) PROVE IInv'
    <2>1. /\ answer' = [answer EXCEPT ![e] = "cancelled"]
          /\ state[e] \in Terminal /\ answer[e] = "none"
          /\ UNCHANGED <<state, entries, ticket, pushed, finishing, began, closed,
                         closeResolved>>
        BY <1>3 DEF QueueSettled
    <2>2. TypeOK'
        BY <1>0, <2>1 DEF TypeOK, Answer
    <2>3. \A d \in Entry : answer'[d] = IF d = e THEN "cancelled" ELSE answer[d]
        BY <1>0, <2>1
    <2>4. AnswerOf(state, answer, began)'
        BY <1>0, <2>1, <2>3 DEF AnswerOf, Terminal, Retryable
    <2>5. /\ MapHoldsLiveCalls' /\ RunningWithinLimits'
          /\ CountedWithinLimits' /\ QueueOrder(state, ticket, pushed)'
        <3>1. Accepted' = Accepted
            BY <2>1 DEF Accepted
        <3> QED
            BY <2>1, <3>1 DEF IInv, MapHoldsLiveCalls, RunningWithinLimits,
                              CountedWithinLimits
    <2> QED
        BY <2>2, <2>4, <2>5 DEF IInv
<1>4. ASSUME NEW e \in Entry, Cancel(e) \/ Timeout(e) PROVE IInv'
    <2>1. CASE Cancel(e)
        BY <2>1, WithdrawStep DEF Cancel, Retryable
    <2>2. CASE Timeout(e)
        BY <2>2, WithdrawStep DEF Timeout, Retryable, Waiting
    <2> QED
        BY <1>4, <2>1, <2>2
<1>5. ASSUME NEW e \in Entry, Complete(e) \/ Fail(e) PROVE IInv'
    BY <1>5, EndStep DEF Complete, Fail
<1>6. ASSUME NEW e \in Entry, Finally(e) PROVE IInv'
    <2>1. /\ Drain(state, ticket) /\ finishing' \subseteq Entry
          /\ UNCHANGED <<entries, pushed, answer, closed, closeResolved>>
        BY <1>0, <1>6 DEF Finally
    <2>2. /\ state' \in [Entry -> EntryState]
          /\ ticket' \in [Entry -> Nat]
          /\ began' \subseteq Entry
          /\ QueueOrder(state', ticket', pushed)
          /\ AnswerOf(state', answer, began')
          /\ WithinLimits(Running(state'))
          /\ \A d \in Entry : state'[d] \in Live <=> state[d] \in Live
        BY <1>0, <2>1, DrainStep
    <2>3. TypeOK'
        BY <1>0, <2>1, <2>2 DEF TypeOK
    <2>4. MapHoldsLiveCalls' /\ CountedWithinLimits'
        <3>1. Accepted' = Accepted
            BY <2>1 DEF Accepted
        <3> QED
            BY <2>1, <2>2, <3>1 DEF IInv, MapHoldsLiveCalls, CountedWithinLimits
    <2>5. /\ RunningWithinLimits'
          /\ QueueOrder(state, ticket, pushed)'
          /\ AnswerOf(state, answer, began)'
        BY <2>1, <2>2 DEF RunningWithinLimits
    <2> QED
        BY <2>3, <2>4, <2>5 DEF IInv
<1>7. CASE Close
    <2> DEFINE waiting == {e \in Accepted : state[e] # "running"}
    <2>1. /\ closed' = TRUE
          /\ state' = [e \in Entry |-> IF e \in waiting THEN "cancelled"
                                       ELSE state[e]]
          /\ entries' = [c \in CallId |-> IF entries[c] \in waiting THEN NoEntry
                                          ELSE entries[c]]
          /\ answer' = [e \in Entry |->
                            IF e \in waiting /\ answer[e] = "pending"
                            THEN "cancelled" ELSE answer[e]]
          /\ closeResolved' \in BOOLEAN
          /\ ticket' = StillWaiting(state', ticket)
          /\ UNCHANGED <<pushed, finishing, began>>
        BY <1>7 DEF Close
    <2>2. \A e \in waiting : e \in Entry /\ state[e] \in Waiting
        BY DEF IInv, MapHoldsLiveCalls, Accepted, Live
    <2>3. \A e \in Entry : state[e] \in Waiting => e \in waiting
        BY DEF IInv, MapHoldsLiveCalls, Accepted, Live, Waiting
    <2> HIDE DEF waiting
    <2>4. TypeOK'
        BY <1>0, <2>1
        DEF TypeOK, EntryState, Terminal, Answer, StillWaiting
    <2>5. MapHoldsLiveCalls'
        <3>1. \A e \in Entry : CallOf[e] \in CallId /\ e # NoEntry
            BY RequestAssumption
        <3>2. \A e \in Entry :
                entries'[CallOf[e]] = e <=> entries[CallOf[e]] = e /\ e \notin waiting
            BY <2>1, <3>1
        <3>3. \A e \in Entry :
                state'[e] \in Live <=> state[e] \in Live /\ e \notin waiting
            BY <2>1, <2>2 DEF Live, Waiting
        <3> QED
            BY <3>2, <3>3 DEF IInv, MapHoldsLiveCalls
    <2>6. RunningWithinLimits'
        <3>1. Running(state') = Running(state)
            BY <2>1, <2>2 DEF Running, Waiting
        <3> QED
            BY <1>0, <3>1 DEF RunningWithinLimits
    <2>7. CountedWithinLimits'
        <3>1. Accepted' \subseteq Accepted /\ Accepted \subseteq Entry
            BY <2>1, RequestAssumption DEF Accepted
        <3>2. WithinDepths(Accepted')
            BY <3>1, FewerWithinDepths DEF IInv, CountedWithinLimits
        <3> QED
            BY <3>2 DEF CountedWithinLimits
    <2>8. QueueOrder(state, ticket, pushed)'
        <3>1. Queued(state') = {}
            BY <2>1, <2>3 DEF Queued, Waiting
        <3> QED
            BY <3>1 DEF QueueOrder
    <2>9. AnswerOf(state, answer, began)'
        BY <1>0, <2>1, <2>2 DEF AnswerOf, Waiting, Retryable
    <2> QED
        BY <2>4, <2>5, <2>6, <2>7, <2>8, <2>9 DEF IInv
<1>8. CASE UNCHANGED vars
    <2>1. Accepted' = Accepted
        BY <1>8 DEF vars, Accepted
    <2> QED
        BY <1>8, <2>1 DEF vars, IInv, TypeOK, MapHoldsLiveCalls,
                          RunningWithinLimits, CountedWithinLimits
<1> QED
    BY <1>1, <1>2, <1>3, <1>4, <1>5, <1>6, <1>7, <1>8 DEF Next
-----------------------------------------------------------------------------
(* The properties.                                                         *)

(* The invariant holds in every reachable state. *)
THEOREM Invariant == Spec => []IInv
<1> QED
    BY InitInv, StepInv, PTL DEF Spec

(* Every variable has its type. *)
THEOREM TypeCorrect == Spec => []TypeOK
<1>1. IInv => TypeOK
    BY DEF IInv
<1> QED
    BY <1>1, Invariant, PTL

(* #entries holds exactly the live reservations, however call ids are used *)
(* again.                                                                  *)
THEOREM MapCorrect == Spec => []MapHoldsLiveCalls
<1>1. IInv => MapHoldsLiveCalls
    BY DEF IInv
<1> QED
    BY <1>1, Invariant, PTL

(* What runs stays within the instance, tool and context limits. *)
THEOREM RunningBounded == Spec => []RunningWithinLimits
<1>1. IInv => RunningWithinLimits
    BY DEF IInv
<1> QED
    BY <1>1, Invariant, PTL

(* What is reserved, queued or running stays within the queue depths: it   *)
(* is what #entries holds and the code counts.                             *)
THEOREM AcceptedBounded == Spec => []AcceptedWithinLimits
<1>1. IInv => AcceptedWithinLimits
    <2>1. IInv => Accepted = {e \in Entry : state[e] \in Live}
        BY DEF IInv, MapHoldsLiveCalls, Accepted
    <2> QED
        BY <2>1 DEF IInv, CountedWithinLimits, AcceptedWithinLimits
<1> QED
    BY <1>1, Invariant, PTL

(* A caller given a retryable error may retry: its work never began. *)
THEOREM RetryIsSafe == Spec => []RetryableNeverBegan
<1>1. IInv => RetryableNeverBegan
    BY DEF IInv, TypeOK, AnswerOf, RetryableNeverBegan, EntryState, Live,
           Waiting, Terminal, Retryable
<1> QED
    BY <1>1, Invariant, PTL
=============================================================================
