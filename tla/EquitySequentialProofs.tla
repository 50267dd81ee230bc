----------------------- MODULE EquitySequentialProofs -----------------------
(***************************************************************************)
(* Proofs about EquitySystem when its handlers run one at a time: what the *)
(* checks of the two services are worth, which a race can break. Time may  *)
(* pass between any two awaits of a handler. Everything rests on SeqInv:   *)
(* the tables fit together, and the handler in flight is ready to write,   *)
(* that is, what it has checked still holds of the tables it will change.  *)
(***************************************************************************)
EXTENDS EquitySystemProofs, SumTheorems

-----------------------------------------------------------------------------
(* Sums of quantities *)

\* The community fold over the quantities of a table is their total.
LEMMA QuantityTotal ==
  ASSUME NEW T, NEW S, IsFiniteSet(S)
  PROVE  QuantitySum(T, S) = Total([k \in S |-> T[k].qty], S)
<1> DEFINE f == [k \in S |-> T[k].qty]
           FoldQty(F) ==
             F = [s \in SUBSET S |-> IF s = {} THEN 0 ELSE T[Pick(s)].qty + F[s \ {Pick(s)}]]
           iter == CHOOSE F : FoldQty(F)
<1>1. \A s \in SUBSET S : s # {} => f[Pick(s)] = T[Pick(s)].qty
  BY PickIn
<1>2. \A F : FoldQty(F) <=> FoldOf(F, f, S)
  BY <1>1 DEF FoldOf
<1>3. FoldOf(iter, f, S)
  <2>1. \E F : FoldQty(F)
    BY <1>2, FoldExists
  <2> QED
    BY <1>2, <2>1
<1>4. QuantitySum(T, S) = iter[S]
  BY DEF QuantitySum, MapThenSumSet, MapThenFoldSet, Pick
<1>5. PICK F : FoldOf(F, f, S) /\ Total(f, S) = F[S]
  BY TotalFolds
<1> QED
  BY <1>3, <1>4, <1>5, FoldUnique

\* No rows hold no quantity.
LEMMA QuantityEmpty ==
  ASSUME NEW T
  PROVE  QuantitySum(T, {}) = 0
<1>1. QuantitySum(T, {}) = Total([k \in {} |-> T[k].qty], {})
  BY FS_EmptySet, QuantityTotal
<1> QED
  BY <1>1, TotalEmpty

\* Two tables with the same quantities on a set of rows have the same sum there.
LEMMA QuantitySame ==
  ASSUME NEW T, NEW U, NEW S, IsFiniteSet(S), \A k \in S : T[k].qty = U[k].qty
  PROVE  QuantitySum(T, S) = QuantitySum(U, S)
<1>1. [k \in S |-> T[k].qty] = [k \in S |-> U[k].qty]
  OBVIOUS
<1> QED
  BY <1>1, QuantityTotal

\* Quantities that are naturals add up to one.
LEMMA QuantityNat ==
  ASSUME NEW T, NEW S, IsFiniteSet(S), \A k \in S : T[k].qty \in Nat
  PROVE  QuantitySum(T, S) \in Nat
<1> DEFINE f == [k \in S |-> T[k].qty]
<1>1. QuantitySum(T, S) = Total(f, S)
  BY QuantityTotal
<1>2. \A k \in S : f[k] \in Nat
  OBVIOUS
<1> HIDE DEF f
<1> QED
  BY <1>1, <1>2, TotalNat

\* A row that joins a set of rows adds its quantity.
LEMMA QuantityAdd ==
  ASSUME NEW T, NEW S, IsFiniteSet(S), NEW x, x \notin S,
         \A k \in S \cup {x} : T[k].qty \in Nat
  PROVE  /\ QuantitySum(T, S) \in Nat
         /\ QuantitySum(T, S \cup {x}) = QuantitySum(T, S) + T[x].qty
<1> DEFINE f == [k \in S \cup {x} |-> T[k].qty]
           g == [k \in S |-> T[k].qty]
<1>1. IsFiniteSet(S \cup {x})
  BY FS_AddElement
<1>2. QuantitySum(T, S \cup {x}) = Total(f, S \cup {x})
  BY <1>1, QuantityTotal
<1>3. QuantitySum(T, S) = Total(g, S)
  BY QuantityTotal
<1>4. /\ \A k \in S : g[k] = f[k]
      /\ \A k \in S \cup {x} : f[k] \in Int
      /\ f[x] = T[x].qty
  OBVIOUS
<1> HIDE DEF f, g
<1>5. Total(g, S) = Total(f, S)
  BY <1>4, TotalSame
<1>6. Total(f, S \cup {x}) = Total(f, S) + f[x]
  <2>1. \A k \in S \cup {x} : f[k] \in Int
    BY <1>4
  <2> QED
    BY <2>1, TotalAdd
<1> QED
  BY <1>2, <1>3, <1>4, <1>5, <1>6, QuantityNat

\* Part of a sum of quantities.
LEMMA QuantityPart ==
  ASSUME NEW T, NEW R, IsFiniteSet(R), NEW S \in SUBSET R, \A k \in R : T[k].qty \in Nat
  PROVE  QuantitySum(T, S) <= QuantitySum(T, R)
<1> DEFINE f == [k \in R |-> T[k].qty]
           g == [k \in S |-> T[k].qty]
<1>1. IsFiniteSet(S) /\ IsFiniteSet(R \ S) /\ S \cap (R \ S) = {} /\ S \cup (R \ S) = R
  BY FS_Subset, FS_Difference
<1>2. QuantitySum(T, R) = Total(f, R) /\ QuantitySum(T, S) = Total(g, S)
  BY <1>1, QuantityTotal
<1>3. /\ \A k \in S : g[k] = f[k]
      /\ \A k \in R : f[k] \in Int /\ f[k] >= 0
  OBVIOUS
<1> DEFINE zero == [k \in R |-> 0]
<1>4. \A k \in R \ S : zero[k] \in Int /\ zero[k] <= f[k] /\ zero[k] = zero[k] + zero[k]
  BY <1>3
<1> HIDE DEF f, g, zero
<1>5. Total(g, S) = Total(f, S)
  BY <1>1, <1>3, TotalSame
<1>6. Total(f, R) = Total(f, S) + Total(f, R \ S)
  <2>1. \A k \in S \cup (R \ S) : f[k] \in Int
    BY <1>3
  <2> QED
    BY <1>1, <2>1, TotalUnion
<1>7. Total(f, S) \in Int /\ Total(f, R \ S) \in Int /\ Total(zero, R \ S) \in Int
  <2>1. /\ \A k \in S : f[k] \in Int
        /\ \A k \in R \ S : f[k] \in Int /\ zero[k] \in Int
    BY <1>3, <1>4
  <2> QED
    BY <1>1, <2>1, TotalInt
<1>8. Total(zero, R \ S) = Total(zero, R \ S) + Total(zero, R \ S)
  BY <1>1, <1>4, TotalPlus
<1>9. Total(zero, R \ S) <= Total(f, R \ S)
  BY <1>1, <1>3, <1>4, TotalMonotone
<1> QED
  BY <1>2, <1>5, <1>6, <1>7, <1>8, <1>9

-----------------------------------------------------------------------------
(* The vesting calculation *)

\* Max of a bounded set of naturals is in it and above its members.
LEMMA MaxOfNaturals ==
  ASSUME NEW T \in SUBSET Nat, T # {}, NEW b \in Nat, \A n \in T : n <= b
  PROVE  Max(T) \in T /\ \A n \in T : n <= Max(T)
<1> DEFINE D == {b - n : n \in T}
<1>1. D \in SUBSET Nat /\ D # {}
  <2>1. PICK n \in T : TRUE
    OBVIOUS
  <2>2. b - n \in D
    OBVIOUS
  <2>3. \A m \in T : b - m \in Nat
    OBVIOUS
  <2> QED
    BY <2>2, <2>3
<1>2. PICK d \in D : \A e \in D : d <= e
  <2> HIDE DEF D
  <2> QED BY <1>1, NatLeast
<1>3. PICK m \in T : d = b - m
  OBVIOUS
<1>4. \A n \in T : m >= n
  <2> SUFFICES ASSUME NEW n \in T PROVE m >= n
    OBVIOUS
  <2>1. d <= b - n
    BY <1>2
  <2> QED
    BY <1>3, <2>1
<1>5. Max(T) \in T /\ \A n \in T : Max(T) >= n
  BY <1>3, <1>4 DEF Max
<1> QED
  BY <1>5

\* Min of two integers is the lesser one.
LEMMA MinOfTwo ==
  ASSUME NEW a \in Int, NEW b \in Int
  PROVE  Min({a, b}) = IF a <= b THEN a ELSE b
BY DEF Min

\* NonNegative keeps a natural.
LEMMA NonNegativeIs ==
  ASSUME NEW a \in Int
  PROVE  Max({0, a}) = IF a <= 0 THEN 0 ELSE a
BY DEF Max

\* The grid of toFixed(6) keeps the order.
LEMMA QuotientMonotone ==
  ASSUME NEW a \in Int, NEW b \in Int, a <= b, NEW d \in Nat \ {0}
  PROVE  a \div d <= b \div d
<1>1. PICK p \in Int : p = a \div d /\ d * p <= a /\ a < d * p + d
  OBVIOUS
<1>2. PICK q \in Int : q = b \div d /\ d * q <= b /\ b < d * q + d
  OBVIOUS
<1>3. ASSUME p >= q + 1 PROVE FALSE
  <2>1. d * p >= d * (q + 1)
    BY <1>3
  <2>2. d * (q + 1) = d * q + d
    OBVIOUS
  <2> QED
    BY <1>1, <1>2, <2>1, <2>2
<1> QED
  BY <1>1, <1>2, <1>3

\* The quotient of naturals is a natural, positive from the divisor on.
LEMMA QuotientNatural ==
  ASSUME NEW a \in Nat, NEW d \in Nat \ {0}
  PROVE  a \div d \in Nat /\ (a >= d => a \div d >= 1)
<1>1. PICK p \in Int : p = a \div d /\ d * p <= a /\ a < d * p + d
  OBVIOUS
<1>2. ASSUME p <= -1 PROVE FALSE
  <2>1. d * p <= d * (-1)
    BY <1>2
  <2> QED
    BY <1>1, <2>1
<1>3. ASSUME p = 0 PROVE a < d
  BY <1>1, <1>3
<1> QED
  BY <1>1, <1>2, <1>3

\* A schedule has at least one interval.
LEMMA IntervalsPositive ==
  ASSUME NEW s \in Schedule
  PROVE  TotalIntervals(s) \in Nat \ {0}
<1>1. s.duration \in Nat \ {0} /\ s.interval \in Nat \ {0}
  BY DEF Schedule
<1>2. s.duration + s.interval - 1 \in Nat /\ s.duration + s.interval - 1 >= s.interval
  BY <1>1
<1> QED
  BY <1>1, <1>2, QuotientNatural DEF TotalIntervals

ElapsedAt(s, asOf) ==
  {0} \cup {i \in 1..TotalIntervals(s) :
              \/ s.start + i * s.interval <= asOf
              \/ asOf >= s.start + s.duration}

\* Time never takes an elapsed interval back.
LEMMA ElapsedMonotone ==
  ASSUME NEW s \in Schedule, NEW d \in Int, NEW e \in Int, d <= e
  PROVE  /\ ElapsedIntervals(s, d) \in Nat /\ ElapsedIntervals(s, e) \in Nat
         /\ ElapsedIntervals(s, d) <= ElapsedIntervals(s, e)
<1>1. /\ s.start \in Int /\ s.duration \in Nat /\ s.interval \in Nat
      /\ TotalIntervals(s) \in Nat
  BY IntervalsPositive DEF Schedule
<1> DEFINE D == ElapsedAt(s, d)
           E == ElapsedAt(s, e)
<1>2. /\ D \in SUBSET Nat /\ D # {} /\ \A i \in D : i <= TotalIntervals(s)
      /\ E \in SUBSET Nat /\ E # {} /\ \A i \in E : i <= TotalIntervals(s)
  BY <1>1 DEF ElapsedAt
<1>3. D \subseteq E
  <2> SUFFICES ASSUME NEW i \in D, i # 0 PROVE i \in E
    BY DEF ElapsedAt
  <2>1. i \in 1..TotalIntervals(s) /\ i * s.interval \in Int
    BY <1>1 DEF ElapsedAt
  <2>2. \/ s.start + i * s.interval <= d
        \/ d >= s.start + s.duration
    BY DEF ElapsedAt
  <2>3. \/ s.start + i * s.interval <= e
        \/ e >= s.start + s.duration
    BY <1>1, <2>1, <2>2
  <2> QED
    BY <2>1, <2>3 DEF ElapsedAt
<1>4. ElapsedIntervals(s, d) = Max(D) /\ ElapsedIntervals(s, e) = Max(E)
  BY DEF ElapsedIntervals, ElapsedAt
<1> HIDE DEF D, E
<1>5. Max(D) \in D /\ Max(E) \in E /\ \A i \in E : i <= Max(E)
  BY <1>1, <1>2, MaxOfNaturals
<1> QED
  BY <1>2, <1>3, <1>4, <1>5

\* The rounded share grows with the intervals elapsed.
LEMMA ShareMonotone ==
  ASSUME NEW total \in Nat, NEW n \in Nat \ {0}, NEW a \in Nat, NEW b \in Nat, a <= b
  PROVE  /\ RoundedShare(total, a, n) \in Nat
         /\ RoundedShare(total, a, n) <= RoundedShare(total, b, n)
<1>1. 2 * n \in Nat \ {0}
  OBVIOUS
<1>2. total * a \in Nat /\ total * b \in Nat /\ total * a <= total * b
  OBVIOUS
<1>3. /\ 2 * total * a = 2 * (total * a) /\ 2 * total * b = 2 * (total * b)
  BY <1>2
<1>4. /\ 2 * total * a + n \in Nat /\ 2 * total * b + n \in Nat
      /\ 2 * total * a + n <= 2 * total * b + n
  BY <1>2, <1>3
<1> QED
  BY <1>1, <1>4, QuotientMonotone, QuotientNatural DEF RoundedShare

\* Time takes no vested share back, and never vests more than the grant.
LEMMA VestingMonotone ==
  ASSUME NEW total \in Nat, NEW s \in Schedule, NEW d \in Int, NEW e \in Int, d <= e
  PROVE  /\ VestedQuantity(total, s, 0, d) \in 0..total
         /\ VestedQuantity(total, s, 0, e) \in 0..total
         /\ VestedQuantity(total, s, 0, d) <= VestedQuantity(total, s, 0, e)
<1>1. s.start \in Int /\ s.cliff \in Nat
  BY DEF Schedule
<1> DEFINE x == RoundedShare(total, ElapsedIntervals(s, d), TotalIntervals(s))
           y == RoundedShare(total, ElapsedIntervals(s, e), TotalIntervals(s))
<1>2. x \in Nat /\ y \in Nat /\ x <= y
  BY IntervalsPositive, ElapsedMonotone, ShareMonotone
<1>3. /\ VestedQuantity(total, s, 0, d) =
           IF total <= 0 \/ s.paused \/ d < s.start + s.cliff THEN 0 ELSE Min({total, 0 + x})
      /\ VestedQuantity(total, s, 0, e) =
           IF total <= 0 \/ s.paused \/ e < s.start + s.cliff THEN 0 ELSE Min({total, 0 + y})
  BY DEF VestedQuantity, BeforeVesting
<1> HIDE DEF x, y
<1>4. /\ Min({total, 0 + x}) = IF total <= x THEN total ELSE x
      /\ Min({total, 0 + y}) = IF total <= y THEN total ELSE y
  BY <1>2, MinOfTwo
<1> QED
  BY <1>1, <1>2, <1>3, <1>4

-----------------------------------------------------------------------------
(* The sums of the tables *)

\* ExercisedQuantity, ExercisedFrom and PlanAllocated as functions of the tables.
Exercises(L, g) == {s \in DOMAIN L : L[s].request # None /\ L[s].grant = g}
Exercised(L, g) == QuantitySum(L, Exercises(L, g))

Completions(R, g) ==
  {r \in {q \in DOMAIN R : R[q].grant = g} : R[r].status \in {"COMPLETED"}}
Completed(R, g) == QuantitySum(R, Completions(R, g))

Awards(G, p, x) == {g \in DOMAIN G : G[g].plan = p} \ {x}
Allocated(G, p, x) == QuantitySum(G, Awards(G, p, x))

\* The sums of EquityStore, with the table they read made explicit.
LEMMA SumsAreNamed ==
  /\ \A g : ExercisedQuantity(g) = Exercised(ledger, g)
  /\ \A g : ExercisedFrom(g) = Completed(requests, g)
  /\ \A p, x : PlanAllocated(p, x) = Allocated(grants, p, x)
BY DEF ExercisedQuantity, EntrySum, Exercised, Exercises, ExercisedFrom, RequestedQuantity,
       RequestSum, RequestsOf, Completed, Completions, PlanAllocated, GrantSum, GrantsOf,
       Allocated, Awards

\* Rows without a request, added or changed, exercise nothing.
LEMMA ExercisedSame ==
  ASSUME NEW L, NEW M, IsFiniteSet(DOMAIN L), NEW g,
         \A s \in Exercises(L, g) : s \in DOMAIN M /\ M[s] = L[s],
         \A s \in Exercises(M, g) : s \in DOMAIN L /\ M[s] = L[s]
  PROVE  Exercised(M, g) = Exercised(L, g)
<1>1. Exercises(M, g) = Exercises(L, g)
  BY DEF Exercises
<1>2. IsFiniteSet(Exercises(L, g))
  BY FS_Subset DEF Exercises
<1>3. \A s \in Exercises(L, g) : M[s].qty = L[s].qty
  OBVIOUS
<1> QED
  BY <1>1, <1>2, <1>3, QuantitySame DEF Exercised

\* The requests of a grant that are completed stay the same.
LEMMA CompletedSame ==
  ASSUME NEW Q, NEW R, IsFiniteSet(DOMAIN Q), NEW g,
         \A r \in Completions(Q, g) : r \in Completions(R, g) /\ R[r].qty = Q[r].qty,
         \A r \in Completions(R, g) : r \in Completions(Q, g)
  PROVE  Completed(R, g) = Completed(Q, g)
<1>1. Completions(R, g) = Completions(Q, g)
  OBVIOUS
<1>2. IsFiniteSet(Completions(Q, g))
  BY FS_Subset DEF Completions
<1> QED
  BY <1>1, <1>2, QuantitySame DEF Completed

\* The allocation of a plan is a natural.
LEMMA AllocatedNat ==
  ASSUME NEW G, IsFiniteSet(DOMAIN G), \A g \in DOMAIN G : G[g].qty \in Nat, NEW p, NEW x
  PROVE  /\ IsFiniteSet(Awards(G, p, x))
         /\ Allocated(G, p, x) \in Nat
<1>1. IsFiniteSet(Awards(G, p, x)) /\ \A g \in Awards(G, p, x) : G[g].qty \in Nat
  BY FS_Subset DEF Awards
<1> QED
  BY <1>1, QuantityNat DEF Allocated

\* The grants of G but g fit in what the grants of H but g sum up to.
LEMMA AllocatedWithin ==
  ASSUME NEW G, NEW H, IsFiniteSet(DOMAIN G), \A g \in DOMAIN G : G[g].qty \in Nat,
         NEW p, NEW x, NEW y,
         \A g \in Awards(H, p, y) : g \in Awards(G, p, x) /\ H[g].qty = G[g].qty
  PROVE  Allocated(H, p, y) <= Allocated(G, p, x)
<1>1. IsFiniteSet(Awards(G, p, x)) /\ \A g \in Awards(G, p, x) : G[g].qty \in Nat
  BY FS_Subset DEF Awards
<1>2. Awards(H, p, y) \in SUBSET Awards(G, p, x)
  OBVIOUS
<1>3. IsFiniteSet(Awards(H, p, y))
  BY <1>1, <1>2, FS_Subset
<1>4. QuantitySum(H, Awards(H, p, y)) = QuantitySum(G, Awards(H, p, y))
  BY <1>3, QuantitySame
<1>5. QuantitySum(G, Awards(H, p, y)) <= QuantitySum(G, Awards(G, p, x))
  BY <1>1, <1>2, QuantityPart
<1> QED
  BY <1>4, <1>5 DEF Allocated

\* A grant that comes to a plan adds its quantity.
LEMMA AllocatedWith ==
  ASSUME NEW G, NEW H, IsFiniteSet(DOMAIN G), \A g \in DOMAIN G : G[g].qty \in Nat,
         NEW p, NEW x, NEW g, g \notin Awards(G, p, x), H[g].qty \in Nat,
         NEW y, Awards(H, p, y) = Awards(G, p, x) \cup {g},
         \A h \in Awards(G, p, x) : H[h].qty = G[h].qty
  PROVE  Allocated(H, p, y) = Allocated(G, p, x) + H[g].qty
<1> DEFINE S == Awards(G, p, x)
<1>1. IsFiniteSet(S) /\ \A h \in S : G[h].qty \in Nat
  BY FS_Subset DEF Awards
<1> HIDE DEF S
<1>2. \A h \in S \cup {g} : H[h].qty \in Nat
  BY <1>1 DEF S
<1>3. QuantitySum(H, S \cup {g}) = QuantitySum(H, S) + H[g].qty
  BY <1>1, <1>2, QuantityAdd DEF S
<1>4. QuantitySum(H, S) = QuantitySum(G, S)
  BY <1>1, QuantitySame DEF S
<1> QED
  BY <1>3, <1>4 DEF Allocated, S

-----------------------------------------------------------------------------
(* The invariant of a server that runs one handler at a time *)

OneAtATime == \A v, w \in Workers : v = w

\* A grant without requests and terminations.
NoEvents(g) ==
  /\ \A r \in DOMAIN requests : requests[r].grant # g
  /\ \A t \in terminations : t.grant # g

\* What the checks of a handler are worth when it writes.
RequestReady(j) ==
  /\ j.step \in {"approve", "decline"} => requests[j.request].status = "SUBMITTED"
  /\ j.step = "cancel" => requests[j.request].status \in {"SUBMITTED", "APPROVED"}
  /\ j.step \in CompletionSteps =>
       /\ requests[j.request].status = "APPROVED"
       /\ j.grant = requests[j.request].grant
       /\ j.row = grants[j.grant]
  /\ j.step \in CompletionSteps \ {"completeWindow"} => j.asOf <= now
  /\ j.step \in {"completeSequence", "commitCompletion"} =>
       Vested(j.row, j.asOf) - Completed(requests, j.grant) >= requests[j.request].qty

GrantReady(j) ==
  /\ j.step \in UpdateSteps \cup {"commitDelete"} =>
       j.grant \in DOMAIN grants /\ NoEvents(j.grant)
  /\ j.step = "updatePlan" =>
       j.plan \in DOMAIN plans /\ Allocated(grants, j.plan, None) <= j.qty
  /\ j.step \in {"grantCapacity", "grantSequence", "commitGrant",
                 "regrantCapacity", "commitRegrant"} =>
       j.row.plan \in DOMAIN plans /\ j.qty = plans[j.row.plan]
  /\ j.step \in {"grantSequence", "commitGrant"} =>
       j.qty - Allocated(grants, j.row.plan, None) >= j.row.qty
  /\ j.step = "commitRegrant" =>
       j.qty - Allocated(grants, j.row.plan, j.grant) >= j.row.qty

Ready(j) == RequestReady(j) /\ GrantReady(j)

FiniteTables == IsFiniteSet(DOMAIN grants) /\ IsFiniteSet(DOMAIN requests)

PlansKnown == \A g \in DOMAIN grants : grants[g].plan \in DOMAIN plans

CompletedByStatus ==
  \A r \in DOMAIN requests : requests[r].completedAt <=> requests[r].status = "COMPLETED"

ReserveHolds == \A p \in DOMAIN plans : Allocated(grants, p, None) <= plans[p]

ExercisesVested ==
  \A g \in DOMAIN grants :
    /\ Exercised(ledger, g) = Completed(requests, g)
    /\ Exercised(ledger, g) <= Vested(grants[g], now)

TablesFit ==
  /\ FiniteTables
  /\ PlansKnown
  /\ CompletedByStatus
  /\ ExercisedOnce
  /\ ReserveHolds
  /\ ExercisesVested

SeqInv == TablesFit /\ \A w \in Workers : Ready(job[w])

\* A worker without a job has nothing to be ready for.
LEMMA NoJobReady == Ready(NoJob)
BY DEF NoJob, Ready, RequestReady, GrantReady, CompletionSteps, UpdateSteps

\* The only handler in flight goes on to remember j.
LEMMA OnlyJob ==
  ASSUME OneAtATime, TypeOK, NEW w \in Workers, NEW j, Ready(j)',
         job' = [job EXCEPT ![w] = j]
  PROVE  \A v \in Workers : Ready(job[v])'
<1> SUFFICES ASSUME NEW v \in Workers PROVE Ready(job[v])'
  OBVIOUS
<1>1. v = w
  BY DEF OneAtATime
<1>2. job'[v] = j
  BY <1>1 DEF TypeOK
<1> QED
  BY <1>2 DEF Ready, RequestReady, GrantReady, NoEvents

\* The tables fit as long as nothing changes them or the date.
LEMMA TablesFitKept ==
  ASSUME TablesFit, UNCHANGED <<tables, now>>
  PROVE  TablesFit'
BY DEF TablesFit, FiniteTables, PlansKnown, CompletedByStatus, ExercisedOnce, ReserveHolds,
       ExercisesVested, tables

\* A read, or a check that passes.
LEMMA SeqRead ==
  ASSUME OneAtATime, TypeOK, SeqInv, NEW w \in Workers, NEW j, Ready(j),
         job' = [job EXCEPT ![w] = j], UNCHANGED <<tables, now>>
  PROVE  SeqInv'
<1>1. Ready(j)'
  BY DEF Ready, RequestReady, GrantReady, NoEvents, tables
<1> QED
  BY <1>1, OnlyJob, TablesFitKept DEF SeqInv

\* A check passes, and its handler may write, or the handler answers with an error.
LEMMA SeqCheck ==
  ASSUME OneAtATime, TypeOK, SeqInv, NEW w \in Workers, NEW j, NEW passes, passes => Ready(j),
         Check(w, passes, j), UNCHANGED <<tables, now>>
  PROVE  SeqInv'
<1>1. CASE passes /\ Continue(w, j)
  BY <1>1, SeqRead DEF Continue
<1>2. CASE Finish(w)
  BY <1>2, NoJobReady, SeqRead DEF Finish, Continue
<1> QED
  BY <1>1, <1>2 DEF Check

\* A handler that writes and returns leaves none in flight.
LEMMA SeqWrite ==
  ASSUME OneAtATime, TypeOK, NEW w \in Workers, Finish(w), TablesFit'
  PROVE  SeqInv'
<1>1. Ready(NoJob)'
  BY DEF NoJob, Ready, RequestReady, GrantReady, CompletionSteps, UpdateSteps
<1> QED
  BY <1>1, OnlyJob DEF Finish, Continue, SeqInv

\* Every read and check of the equity lifecycle leaves its handler ready.
LEMMA ExerciseReadsSeq ==
  ASSUME OneAtATime, IInv, SeqInv, NEW w \in Workers
  PROVE  /\ \A g \in Grants, at \in 0..LastMonth : StartTermination(w, g, at) => SeqInv'
         /\ \A g \in Grants, q \in Quantities : StartExerciseRequest(w, g, q) => SeqInv'
         /\ CheckExerciseWindow(w) => SeqInv'
         /\ CheckExercisable(w) => SeqInv'
         /\ \A r \in Requests :
              StartApprove(w, r) \/ StartDecline(w, r) \/ StartCancel(w, r) => SeqInv'
         /\ \A r \in Requests : StartCompletion(w, r) => SeqInv'
         /\ CheckCompletionWindow(w) => SeqInv'
         /\ CheckAvailable(w) => SeqInv'
         /\ ReadCompletionSequence(w) => SeqInv'
<1> USE DEF ExerciseSteps, CompletionSteps, UpdateSteps
<1>1. TypeOK /\ job[w] \in Job /\ Ready(job[w])
  BY SoundWorker DEF IInv, SeqInv
<1>2. ASSUME NEW g \in Grants, NEW at \in 0..LastMonth, StartTermination(w, g, at)
      PROVE  SeqInv'
  <2> DEFINE j == [NoJob EXCEPT !.step = "insertTermination", !.grant = g,
                                !.row = grants[g], !.asOf = at]
  <2>1. Ready(j)
    BY DEF NoJob, Ready, RequestReady, GrantReady
  <2> QED
    BY <1>1, <1>2, <2>1, SeqRead DEF StartTermination, Begin, tables
<1>3. ASSUME NEW g \in Grants, NEW q \in Quantities, StartExerciseRequest(w, g, q)
      PROVE  SeqInv'
  <2> DEFINE j == [NoJob EXCEPT !.step = "exerciseWindow", !.grant = g,
                                !.row = grants[g], !.qty = q]
  <2>1. Ready(j)
    BY DEF NoJob, Ready, RequestReady, GrantReady
  <2> QED
    BY <1>1, <1>3, <2>1, SeqRead DEF StartExerciseRequest, Begin, tables
<1>4. ASSUME CheckExerciseWindow(w) PROVE SeqInv'
  <2> DEFINE j == [job[w] EXCEPT !.step = "exerciseQuantity", !.asOf = now]
  <2>1. Ready(j)
    BY <1>1 DEF Job, Ready, RequestReady, GrantReady
  <2> QED
    BY <1>1, <1>4, <2>1, SeqCheck DEF CheckExerciseWindow, tables
<1>5. ASSUME CheckExercisable(w) PROVE SeqInv'
  <2> DEFINE j == [job[w] EXCEPT !.step = "insertRequest"]
  <2>1. Ready(j)
    BY <1>1 DEF Job, Ready, RequestReady, GrantReady
  <2> QED
    BY <1>1, <1>5, <2>1, SeqCheck DEF CheckExercisable, tables
<1>6. ASSUME NEW r \in Requests, NEW h, NEW allowed, StartDecision(w, r, h, allowed),
             \/ h \in {"approve", "decline"} /\ allowed = {"SUBMITTED"}
             \/ h = "cancel" /\ allowed = {"SUBMITTED", "APPROVED"}
      PROVE  SeqInv'
  <2> DEFINE j == [NoJob EXCEPT !.step = h, !.request = r]
  <2>1. Ready(j)
    BY <1>6 DEF StartDecision, NoJob, Ready, RequestReady, GrantReady
  <2> QED
    BY <1>1, <1>6, <2>1, SeqRead DEF StartDecision, Begin, tables
<1>7. ASSUME NEW r \in Requests, StartCompletion(w, r) PROVE SeqInv'
  <2> DEFINE j == [NoJob EXCEPT !.step = "completeWindow", !.request = r,
                                !.grant = requests[r].grant,
                                !.row = grants[requests[r].grant]]
  <2>1. Ready(j)
    BY <1>7 DEF StartCompletion, Completable, NoJob, Ready, RequestReady, GrantReady
  <2> QED
    BY <1>1, <1>7, <2>1, SeqRead DEF StartCompletion, Begin, tables
<1>8. ASSUME CheckCompletionWindow(w) PROVE SeqInv'
  <2> DEFINE j == [job[w] EXCEPT !.step = "completeQuantity", !.asOf = now]
  <2>1. Ready(j)
    BY <1>1, <1>8 DEF CheckCompletionWindow, At, Job, TypeOK, Ready, RequestReady, GrantReady
  <2> QED
    BY <1>1, <1>8, <2>1, SeqCheck DEF CheckCompletionWindow, tables
<1>9. ASSUME CheckAvailable(w) PROVE SeqInv'
  <2> DEFINE j == [job[w] EXCEPT !.step = "completeSequence"]
             passes == Available(job[w]) >= requests[job[w].request].qty
  <2>1. Available(job[w]) =
          Vested(job[w].row, job[w].asOf) - Completed(requests, job[w].grant)
    BY SumsAreNamed DEF Available, ExercisedFrom
  <2>2. ASSUME passes PROVE Ready(j)
    BY <1>1, <1>9, <2>1, <2>2 DEF CheckAvailable, At, Job, Ready, RequestReady, GrantReady
  <2> QED
    BY <1>1, <1>9, <2>2, SeqCheck DEF CheckAvailable, tables
<1>10. ASSUME ReadCompletionSequence(w) PROVE SeqInv'
  <2> DEFINE j == [job[w] EXCEPT !.step = "commitCompletion", !.seq = NextSequence]
  <2>1. Ready(j)
    BY <1>1, <1>10 DEF ReadCompletionSequence, At, Job, Ready, RequestReady, GrantReady
  <2> QED
    BY <1>1, <1>10, <2>1, SeqRead DEF ReadCompletionSequence, Continue, tables
<1> QED
  BY <1>2, <1>3, <1>4, <1>5, <1>6, <1>7, <1>8, <1>9, <1>10
     DEF StartApprove, StartDecline, StartCancel

\* Every read and check of the equity service leaves its handler ready.
LEMMA AdminReadsSeq ==
  ASSUME OneAtATime, IInv, SeqInv, NEW w \in Workers
  PROVE  /\ \A p \in Plans, q \in Quantities : StartUpdatePlan(w, p, q) => SeqInv'
         /\ \A row \in GrantRow : StartCreateGrant(w, row) => SeqInv'
         /\ ReadGrantPlan(w) => SeqInv'
         /\ CheckGrantCapacity(w) => SeqInv'
         /\ ReadGrantSequence(w) => SeqInv'
         /\ \A g \in Grants, row \in GrantRow : StartUpdateGrant(w, g, row) => SeqInv'
         /\ ReadUpdatePlan(w) => SeqInv'
         /\ CheckUpdateCapacity(w) => SeqInv'
         /\ \A g \in Grants : StartDeleteGrant(w, g) => SeqInv'
         /\ \A e : StartTransaction(w, e) => SeqInv'
         /\ CheckBalance(w) => SeqInv'
         /\ ReadEntrySequence(w) => SeqInv'
<1> USE DEF CompletionSteps, UpdateSteps
<1>1. TypeOK /\ job[w] \in Job /\ Ready(job[w])
  BY SoundWorker DEF IInv, SeqInv
<1>2. \A g : ~HasLifecycle(g) => NoEvents(g)
  BY DEF HasLifecycle, NoEvents, RequestsOf
<1>3. ASSUME NEW p \in Plans, NEW q \in Quantities, StartUpdatePlan(w, p, q) PROVE SeqInv'
  <2> DEFINE j == [NoJob EXCEPT !.step = "updatePlan", !.plan = p, !.qty = q]
  <2>1. p \in DOMAIN plans /\ Allocated(grants, p, None) <= q
    BY <1>3, SumsAreNamed DEF StartUpdatePlan
  <2>2. Ready(j)
    BY <2>1 DEF NoJob, Ready, RequestReady, GrantReady
  <2> QED
    BY <1>1, <1>3, <2>2, SeqRead DEF StartUpdatePlan, Begin, tables
<1>4. ASSUME NEW row \in GrantRow, StartCreateGrant(w, row) PROVE SeqInv'
  <2> DEFINE j == [NoJob EXCEPT !.step = "grantPlan", !.row = row]
  <2>1. Ready(j)
    BY DEF NoJob, Ready, RequestReady, GrantReady
  <2> QED
    BY <1>1, <1>4, <2>1, SeqRead DEF StartCreateGrant, Begin, tables
<1>5. ASSUME ReadGrantPlan(w) PROVE SeqInv'
  <2> DEFINE j == [job[w] EXCEPT !.step = "grantCapacity", !.qty = plans[job[w].row.plan]]
             known == job[w].row.plan \in DOMAIN plans
  <2>1. ASSUME known PROVE Ready(j)
    BY <1>1, <2>1 DEF Job, Ready, RequestReady, GrantReady
  <2>2. Check(w, known, j) /\ UNCHANGED <<tables, now>>
    BY <1>5 DEF ReadGrantPlan, Check
  <2> HIDE DEF j, known
  <2> QED
    BY <1>1, <2>1, <2>2, SeqCheck
<1>6. ASSUME CheckGrantCapacity(w) PROVE SeqInv'
  <2> DEFINE j == [job[w] EXCEPT !.step = "grantSequence"]
             fits == HasCapacity(job[w].qty, job[w].row, None)
  <2>1. fits => job[w].qty - Allocated(grants, job[w].row.plan, None) >= job[w].row.qty
    BY SumsAreNamed DEF HasCapacity
  <2>2. ASSUME fits PROVE Ready(j)
    BY <1>1, <1>6, <2>1, <2>2 DEF CheckGrantCapacity, At, Job, Ready, RequestReady, GrantReady
  <2> QED
    BY <1>1, <1>6, <2>2, SeqCheck DEF CheckGrantCapacity, tables
<1>7. ASSUME ReadGrantSequence(w) PROVE SeqInv'
  <2> DEFINE j == [job[w] EXCEPT !.step = "commitGrant", !.seq = NextSequence]
  <2>1. Ready(j)
    BY <1>1, <1>7 DEF ReadGrantSequence, At, Job, Ready, RequestReady, GrantReady
  <2> QED
    BY <1>1, <1>7, <2>1, SeqRead DEF ReadGrantSequence, Continue, tables
<1>8. ASSUME NEW g \in Grants, NEW row \in GrantRow, StartUpdateGrant(w, g, row)
      PROVE  SeqInv'
  <2> DEFINE j == [NoJob EXCEPT !.step = "regrantPlan", !.grant = g, !.row = row]
  <2>1. g \in DOMAIN grants /\ NoEvents(g)
    BY <1>2, <1>8 DEF StartUpdateGrant
  <2>2. Ready(j)
    BY <2>1 DEF NoJob, Ready, RequestReady, GrantReady
  <2> QED
    BY <1>1, <1>8, <2>2, SeqRead DEF StartUpdateGrant, Begin, tables
<1>9. ASSUME ReadUpdatePlan(w) PROVE SeqInv'
  <2> DEFINE j == [job[w] EXCEPT !.step = "regrantCapacity", !.qty = plans[job[w].row.plan]]
             known == PoolAllows(job[w].row.plan) /\ job[w].row.plan \in DOMAIN plans
  <2>1. ASSUME known PROVE Ready(j)
    BY <1>1, <1>9, <2>1 DEF ReadUpdatePlan, At, Job, Ready, RequestReady, GrantReady
  <2>2. Check(w, known, j) /\ UNCHANGED <<tables, now>>
    BY <1>9 DEF ReadUpdatePlan, Check
  <2> HIDE DEF j, known
  <2> QED
    BY <1>1, <2>1, <2>2, SeqCheck
<1>10. ASSUME CheckUpdateCapacity(w) PROVE SeqInv'
  <2> DEFINE j == [job[w] EXCEPT !.step = "commitRegrant"]
             fits == HasCapacity(job[w].qty, job[w].row, job[w].grant)
  <2>1. fits => job[w].qty - Allocated(grants, job[w].row.plan, job[w].grant)
                  >= job[w].row.qty
    BY SumsAreNamed DEF HasCapacity
  <2>2. ASSUME fits PROVE Ready(j)
    BY <1>1, <1>10, <2>1, <2>2 DEF CheckUpdateCapacity, At, Job, Ready, RequestReady, GrantReady
  <2> QED
    BY <1>1, <1>10, <2>2, SeqCheck DEF CheckUpdateCapacity, tables
<1>11. ASSUME NEW g \in Grants, StartDeleteGrant(w, g) PROVE SeqInv'
  <2> DEFINE j == [NoJob EXCEPT !.step = "commitDelete", !.grant = g]
  <2>1. g \in DOMAIN grants /\ NoEvents(g)
    BY <1>2, <1>11 DEF StartDeleteGrant
  <2>2. Ready(j)
    BY <2>1 DEF NoJob, Ready, RequestReady, GrantReady
  <2> QED
    BY <1>1, <1>11, <2>2, SeqRead DEF StartDeleteGrant, Begin, tables
<1>12. ASSUME NEW e, StartTransaction(w, e) PROVE SeqInv'
  <2>1. ASSUME NEW step \in {"received", "entrySequence"},
               job' = [job EXCEPT ![w] = [NoJob EXCEPT !.step = step, !.entry = e]]
        PROVE  SeqInv'
    <3> DEFINE j == [NoJob EXCEPT !.step = step, !.entry = e]
    <3>1. Ready(j)
      BY DEF NoJob, Ready, RequestReady, GrantReady
    <3> QED
      BY <1>1, <1>12, <2>1, <3>1, SeqRead DEF StartTransaction, tables
  <2> QED
    BY <1>12, <2>1 DEF StartTransaction, Begin
<1>13. ASSUME CheckBalance(w) PROVE SeqInv'
  <2> DEFINE j == [job[w] EXCEPT !.step = "entrySequence"]
  <2>1. Ready(j)
    BY <1>1 DEF Job, Ready, RequestReady, GrantReady
  <2> QED
    BY <1>1, <1>13, <2>1, SeqCheck DEF CheckBalance, tables
<1>14. ASSUME ReadEntrySequence(w) PROVE SeqInv'
  <2> DEFINE j == [job[w] EXCEPT !.step = "insertEntry", !.seq = NextSequence]
  <2>1. Ready(j)
    BY <1>1 DEF Job, Ready, RequestReady, GrantReady
  <2> QED
    BY <1>1, <1>14, <2>1, SeqRead DEF ReadEntrySequence, Continue, tables
<1> QED
  BY <1>3, <1>4, <1>5, <1>6, <1>7, <1>8, <1>9, <1>10, <1>11, <1>12, <1>13, <1>14

-----------------------------------------------------------------------------
(* Steps that write *)

\* The rows of the tables, and how many there are.
LEMMA Rows ==
  ASSUME IInv
  PROVE  /\ \A g \in DOMAIN grants : grants[g].qty \in Nat /\ grants[g].schedule \in Schedule
         /\ \A r \in DOMAIN requests : requests[r].qty \in Nat
         /\ \A s \in DOMAIN ledger : ledger[s].qty \in Nat
         /\ IsFiniteSet(DOMAIN ledger)
<1>1. TypeOK /\ Quantities \subseteq Nat /\ Schedules \subseteq Schedule
  BY ConstantsAssumption DEF IInv
<1>2. PICK n \in Nat : DOMAIN ledger = 1..n
  BY DEF IInv, TablesSound, Numbered
<1>3. IsFiniteSet(DOMAIN ledger)
  BY <1>2, FS_Interval
<1> QED
  BY <1>1, <1>3 DEF TypeOK, GrantRow, RequestRow, Entry

\* The row a completion wrote.
LEMMA ExerciseRow ==
  ASSUME IInv, NEW s \in DOMAIN ledger, ledger[s].request # None
  PROVE  LET r == ledger[s].request IN
         /\ r \in DOMAIN requests /\ requests[r].completedAt
         /\ ledger[s].grant = requests[r].grant /\ ledger[s].grant \in DOMAIN grants
         /\ ledger[s].type = "EXERCISE" /\ ledger[s].from = None
         /\ ledger[s].to = requests[r].person
BY DEF IInv, TablesSound, CompletionsAreLedgered, RequestsKeepGrant, ExerciseEntry

\* Vesting of a row, at two dates.
LEMMA VestedMonotone ==
  ASSUME NEW row, row.qty \in Nat, row.schedule \in Schedule,
         NEW d \in Int, NEW e \in Int, d <= e
  PROVE  /\ Vested(row, d) \in 0..row.qty /\ Vested(row, e) \in 0..row.qty
         /\ Vested(row, d) <= Vested(row, e)
BY VestingMonotone DEF Vested

\* A termination changes no row the tables must fit.
LEMMA TerminationWriteSeq ==
  ASSUME OneAtATime, IInv, SeqInv, NEW w \in Workers, InsertTermination(w)
  PROVE  SeqInv'
<1>1. TablesFit'
  BY DEF InsertTermination, SeqInv, TablesFit, FiniteTables, PlansKnown, CompletedByStatus,
         ExercisedOnce, ReserveHolds, ExercisesVested
<1> QED
  BY <1>1, SeqWrite DEF InsertTermination, IInv

\* Requests change, and which of them are completed does not.
LEMMA RequestsFit ==
  ASSUME IInv, TablesFit, UNCHANGED <<plans, grants, ledger, now>>,
         IsFiniteSet(DOMAIN requests'),
         \A r \in DOMAIN requests' : requests'[r].completedAt <=> requests'[r].status = "COMPLETED",
         \A r \in DOMAIN requests : requests[r].status = "COMPLETED" =>
           r \in DOMAIN requests' /\ requests'[r] = requests[r],
         \A r \in DOMAIN requests' : requests'[r].status = "COMPLETED" =>
           r \in DOMAIN requests /\ requests[r].status = "COMPLETED"
  PROVE  TablesFit'
<1>1. \A g : Completed(requests', g) = Completed(requests, g)
  <2> SUFFICES ASSUME NEW g PROVE Completed(requests', g) = Completed(requests, g)
    OBVIOUS
  <2>1. \A r \in Completions(requests, g) :
          r \in Completions(requests', g) /\ requests'[r].qty = requests[r].qty
    BY DEF Completions
  <2>2. \A r \in Completions(requests', g) : r \in Completions(requests, g)
    BY DEF Completions
  <2> QED
    BY <2>1, <2>2, CompletedSame DEF TablesFit, FiniteTables
<1>2. ExercisesVested'
  BY <1>1 DEF TablesFit, ExercisesVested
<1> QED
  BY <1>2 DEF TablesFit, FiniteTables, PlansKnown, CompletedByStatus, ExercisedOnce, ReserveHolds

\* A request starts as one that nothing completed.
LEMMA RequestWriteSeq ==
  ASSUME OneAtATime, IInv, SeqInv, NEW w \in Workers, InsertRequest(w)
  PROVE  SeqInv'
<1> DEFINE j == job[w]
           row == NewRequest(j.grant, j.row, j.qty)
<1>1. TypeOK /\ TablesFit /\ UNCHANGED <<plans, grants, ledger, now, terminations>>
  BY DEF InsertRequest, OtherThanRequests, IInv, SeqInv
<1>2. CASE UNCHANGED requests
  BY <1>1, <1>2, TablesFitKept, SeqWrite DEF InsertRequest, OtherThanRequests, tables
<1>3. ASSUME NEW r \in Requests \ DOMAIN requests, requests' = Put(requests, r, row)
      PROVE  SeqInv'
  <2>1. /\ DOMAIN requests' = DOMAIN requests \cup {r} /\ requests'[r] = row
        /\ \A x \in DOMAIN requests : requests'[x] = requests[x]
    BY <1>3 DEF Put
  <2>2. row.status = "SUBMITTED" /\ row.completedAt = FALSE
    BY DEF NewRequest
  <2> HIDE DEF row
  <2>3. IsFiniteSet(DOMAIN requests')
    BY <1>1, <2>1, FS_AddElement DEF TablesFit, FiniteTables
  <2>4. TablesFit'
    BY <1>1, <1>3, <2>1, <2>2, <2>3, RequestsFit DEF TablesFit, CompletedByStatus
  <2> QED
    BY <1>1, <2>4, SeqWrite DEF InsertRequest
<1> QED
  BY <1>2, <1>3 DEF InsertRequest

\* A decision finds the status it checked, and completes nothing.
LEMMA DecisionWriteSeq ==
  ASSUME OneAtATime, IInv, SeqInv, NEW w \in Workers, NEW h \in DecisionSteps,
         NEW row, WriteDecision(w, h, row),
         row.status # "COMPLETED", row.completedAt = requests[job[w].request].completedAt
  PROVE  SeqInv'
<1> DEFINE r == job[w].request
<1>1. TypeOK /\ TablesFit /\ UNCHANGED <<plans, grants, ledger, now>>
  BY DEF WriteDecision, OtherThanRequests, IInv, SeqInv
<1>2. r \in DOMAIN requests /\ requests[r].status \in {"SUBMITTED", "APPROVED"}
  BY SoundWorker DEF WriteDecision, At, Sound, DecisionSteps, SeqInv, Ready, RequestReady
<1>3. /\ DOMAIN requests' = DOMAIN requests /\ requests'[r] = row
      /\ \A x \in DOMAIN requests : x # r => requests'[x] = requests[x]
  BY <1>1, <1>2 DEF WriteDecision, TypeOK
<1>4. requests[r].status # "COMPLETED" /\ requests[r].completedAt = FALSE
  BY <1>1, <1>2 DEF TablesFit, CompletedByStatus, TypeOK, RequestRow
<1> HIDE DEF r
<1>5. IsFiniteSet(DOMAIN requests')
  BY <1>1, <1>3 DEF TablesFit, FiniteTables
<1>6. \A x \in DOMAIN requests' :
        requests'[x].completedAt <=> requests'[x].status = "COMPLETED"
  BY <1>1, <1>3, <1>4 DEF TablesFit, CompletedByStatus, r
<1>7. /\ \A x \in DOMAIN requests : requests[x].status = "COMPLETED" =>
           x \in DOMAIN requests' /\ requests'[x] = requests[x]
      /\ \A x \in DOMAIN requests' : requests'[x].status = "COMPLETED" =>
           x \in DOMAIN requests /\ requests[x].status = "COMPLETED"
  BY <1>3, <1>4
<1>8. TablesFit'
  BY <1>1, <1>5, <1>6, <1>7, RequestsFit
<1> QED
  BY <1>1, <1>8, SeqWrite DEF WriteDecision

\* approve, decline and cancel are decisions of that kind.
LEMMA DecisionWritesSeq ==
  ASSUME OneAtATime, IInv, SeqInv, NEW w \in Workers
  PROVE  Approve(w) \/ Decline(w) \/ Cancel(w) => SeqInv'
<1> DEFINE r == job[w].request
<1>1. ASSUME NEW h \in DecisionSteps, At(w, h)
      PROVE  requests[r] \in RequestRow
  BY <1>1, SoundWorker DEF At, Sound, IInv, TypeOK
<1>2. ASSUME Approve(w) PROVE SeqInv'
  <2> DEFINE row == [requests[r] EXCEPT !.status = "APPROVED", !.approvedAt = TRUE]
  <2>1. requests[r] \in RequestRow /\ WriteDecision(w, "approve", row)
    BY <1>1, <1>2 DEF Approve, WriteDecision, DecisionSteps
  <2>2. row.status # "COMPLETED" /\ row.completedAt = requests[r].completedAt
    BY <2>1 DEF RequestRow
  <2> HIDE DEF row
  <2> QED
    BY <2>1, <2>2, DecisionWriteSeq DEF DecisionSteps
<1>3. ASSUME NEW h \in {"decline", "cancel"}, NEW status \in {"DECLINED", "CANCELED"},
             WriteDecision(w, h, [requests[r] EXCEPT !.status = status])
      PROVE  SeqInv'
  <2> DEFINE row == [requests[r] EXCEPT !.status = status]
  <2>1. requests[r] \in RequestRow /\ WriteDecision(w, h, row)
    BY <1>1, <1>3 DEF WriteDecision, DecisionSteps
  <2>2. row.status # "COMPLETED" /\ row.completedAt = requests[r].completedAt
    BY <2>1 DEF RequestRow
  <2> HIDE DEF row
  <2> QED
    BY <2>1, <2>2, DecisionWriteSeq DEF DecisionSteps
<1> QED
  BY <1>2, <1>3 DEF Decline, Cancel

\* A completion adds its quantity to both sums of its grant, and to no other.
LEMMA CompletionWriteSeq ==
  ASSUME OneAtATime, IInv, SeqInv, NEW w \in Workers, CommitCompletion(w)
  PROVE  SeqInv'
<1> DEFINE j == job[w]
           r == j.request
           e == ExerciseEntry(r)
<1>1. TypeOK /\ TablesFit /\ UNCHANGED <<plans, grants, terminations, now>>
  BY DEF CommitCompletion, IInv, SeqInv
<1>2. CASE UNCHANGED <<requests, ledger>>
  BY <1>1, <1>2, TablesFitKept, SeqWrite DEF CommitCompletion, tables
<1>3. CASE SequenceFree(j.seq) /\ CompletionWrites(j)
  <2> DEFINE g == requests[r].grant
  <2>1. /\ r \in DOMAIN requests /\ requests[r] \in RequestRow /\ g \in DOMAIN grants
        /\ requests[r].status = "APPROVED" /\ requests[r].completedAt = FALSE
        /\ j.grant = g /\ j.row = grants[g] /\ j.asOf <= now /\ j.asOf \in Nat
        /\ Vested(j.row, j.asOf) - Completed(requests, g) >= requests[r].qty
    <3>1. r \in DOMAIN requests /\ requests[r] \in RequestRow /\ j \in Job
      BY <1>1, SoundWorker DEF CommitCompletion, At, Sound, CompletionSteps, TypeOK
    <3>2. /\ requests[r].status = "APPROVED" /\ j.grant = g /\ j.row = grants[g]
          /\ j.asOf <= now
          /\ Vested(j.row, j.asOf) - Completed(requests, g) >= requests[r].qty
      BY DEF CommitCompletion, At, SeqInv, Ready, RequestReady, CompletionSteps
    <3>3. requests[r].completedAt = FALSE
      BY <1>1, <3>1, <3>2 DEF TablesFit, CompletedByStatus, RequestRow
    <3>4. g \in DOMAIN grants
      BY <3>1 DEF IInv, TablesSound, RequestsKeepGrant
    <3> QED
      BY <3>1, <3>2, <3>3, <3>4 DEF Job
  <2>2. \E m \in {0} \cup DOMAIN ledger : j.seq = m + 1
    BY SoundWorker DEF CommitCompletion, At, Sound
  <2>3. /\ DOMAIN requests' = DOMAIN requests
        /\ requests'[r].status = "COMPLETED" /\ requests'[r].completedAt = TRUE
        /\ requests'[r].grant = g /\ requests'[r].qty = requests[r].qty
        /\ \A x \in DOMAIN requests : x # r => requests'[x] = requests[x]
    BY <1>1, <1>3, <2>1 DEF CompletionWrites, TypeOK, RequestRow
  <2>4. e \in Entry /\ e.request = r /\ e.grant = g /\ e.qty = requests[r].qty /\ r # None
    BY <1>1, <2>1, ConstantsAssumption
       DEF TypeOK, ExerciseEntry, Entry, RequestRow, TransactionType
  <2> HIDE DEF e
  <2>5. PICK n \in Nat :
          /\ DOMAIN ledger = 1..n /\ DOMAIN ledger' = 1..(n + 1)
          /\ ledger'[n + 1] = e
          /\ \A i \in 1..n : ledger'[i] = ledger[i]
    BY <1>3, <2>2, <2>4, LedgerAppend DEF CompletionWrites, e
  <2>6. n + 1 \notin DOMAIN ledger /\ DOMAIN ledger' = DOMAIN ledger \cup {n + 1}
    BY <2>5
  <2>7. \A s \in DOMAIN ledger : ledger[s].request # r
    BY <2>1, <2>4, ExerciseRow
  <2> HIDE DEF g, r, j
  <2>8. \A s \in DOMAIN ledger : ledger'[s] = ledger[s]
    BY <2>5
  <2>9. /\ Exercised(ledger', g) = Exercised(ledger, g) + requests[r].qty
        /\ \A h : h # g => Exercised(ledger', h) = Exercised(ledger, h)
    <3>1. Exercises(ledger', g) = Exercises(ledger, g) \cup {n + 1}
      BY <2>4, <2>5, <2>6, <2>8 DEF Exercises
    <3>2. /\ IsFiniteSet(Exercises(ledger, g)) /\ n + 1 \notin Exercises(ledger, g)
          /\ \A s \in Exercises(ledger, g) : ledger'[s].qty = ledger[s].qty
          /\ \A s \in Exercises(ledger, g) : ledger[s].qty \in Nat
      BY <2>6, <2>8, Rows, FS_Subset DEF Exercises
    <3>3. ledger'[n + 1].qty = requests[r].qty /\ requests[r].qty \in Nat
      BY <2>1, <2>4, <2>5, Rows
    <3>4. \A s \in Exercises(ledger, g) \cup {n + 1} : ledger'[s].qty \in Nat
      BY <3>2, <3>3
    <3>5. QuantitySum(ledger', Exercises(ledger, g) \cup {n + 1}) =
            QuantitySum(ledger', Exercises(ledger, g)) + ledger'[n + 1].qty
      BY <3>2, <3>4, QuantityAdd
    <3>6. QuantitySum(ledger', Exercises(ledger, g)) = Exercised(ledger, g)
      BY <3>2, QuantitySame DEF Exercised
    <3>7. ASSUME NEW h, h # g PROVE Exercised(ledger', h) = Exercised(ledger, h)
      <4>1. /\ \A s \in Exercises(ledger, h) : s \in DOMAIN ledger' /\ ledger'[s] = ledger[s]
            /\ \A s \in Exercises(ledger', h) : s \in DOMAIN ledger /\ ledger'[s] = ledger[s]
        BY <2>4, <2>5, <2>6, <2>8, <3>7 DEF Exercises
      <4> QED
        BY <4>1, Rows, ExercisedSame
    <3> QED
      BY <3>1, <3>3, <3>5, <3>6, <3>7 DEF Exercised
  <2>10. /\ Completed(requests', g) = Completed(requests, g) + requests[r].qty
         /\ Completed(requests, g) \in Nat
         /\ \A h : h # g => Completed(requests', h) = Completed(requests, h)
    <3>1. Completions(requests', g) = Completions(requests, g) \cup {r}
      BY <2>1, <2>3 DEF Completions, g
    <3>2. /\ IsFiniteSet(Completions(requests, g)) /\ r \notin Completions(requests, g)
          /\ \A x \in Completions(requests, g) : requests'[x].qty = requests[x].qty
          /\ \A x \in Completions(requests, g) : requests[x].qty \in Nat
      BY <1>1, <2>1, <2>3, Rows, FS_Subset DEF Completions, TablesFit, FiniteTables
    <3>3. requests'[r].qty = requests[r].qty /\ requests[r].qty \in Nat
      BY <2>1, <2>3, Rows
    <3>4. \A x \in Completions(requests, g) \cup {r} : requests'[x].qty \in Nat
      BY <3>2, <3>3
    <3>5. QuantitySum(requests', Completions(requests, g) \cup {r}) =
            QuantitySum(requests', Completions(requests, g)) + requests'[r].qty
      BY <3>2, <3>4, QuantityAdd
    <3>6. QuantitySum(requests', Completions(requests, g)) = Completed(requests, g)
      BY <3>2, QuantitySame DEF Completed
    <3>7. ASSUME NEW h, h # g PROVE Completed(requests', h) = Completed(requests, h)
      <4>1. /\ \A x \in Completions(requests, h) :
                 x \in Completions(requests', h) /\ requests'[x].qty = requests[x].qty
            /\ \A x \in Completions(requests', h) : x \in Completions(requests, h)
        BY <2>1, <2>3, <3>7 DEF Completions, g
      <4> QED
        BY <1>1, <4>1, CompletedSame DEF TablesFit, FiniteTables
    <3>8. Completed(requests, g) \in Nat
      BY <3>2, QuantityNat DEF Completed
    <3> QED
      BY <3>1, <3>3, <3>5, <3>6, <3>7, <3>8 DEF Completed
  <2>11. ExercisesVested'
    <3>1. /\ Vested(grants[g], j.asOf) <= Vested(grants[g], now)
          /\ Vested(grants[g], j.asOf) \in Nat /\ Vested(grants[g], now) \in Nat
      BY <1>1, <2>1, Rows, VestedMonotone DEF TypeOK
    <3>2. Completed(requests, g) + requests[r].qty <= Vested(grants[g], now)
      BY <2>1, <2>10, <3>1, Rows
    <3> QED
      BY <1>1, <2>9, <2>10, <3>2 DEF TablesFit, ExercisesVested
  <2>12. ExercisedOnce'
    BY <1>1, <2>4, <2>5, <2>6, <2>7, <2>8 DEF TablesFit, ExercisedOnce
  <2>13. CompletedByStatus' /\ FiniteTables'
    BY <1>1, <2>1, <2>3 DEF TablesFit, CompletedByStatus, FiniteTables
  <2>14. TablesFit'
    BY <1>1, <2>11, <2>12, <2>13 DEF TablesFit, PlansKnown, ReserveHolds
  <2> QED
    BY <1>1, <2>14, SeqWrite DEF CommitCompletion
<1> QED
  BY <1>2, <1>3 DEF CommitCompletion, CompletionRolledBack

\* A plan is made empty, or its reserve lowered to no less than its grants.
LEMMA PlanWritesSeq ==
  ASSUME OneAtATime, IInv, SeqInv, NEW w \in Workers
  PROVE  /\ \A p \in Plans, q \in Quantities : CreatePlan(w, p, q) => SeqInv'
         /\ UpdatePlan(w) => SeqInv'
         /\ \A S \in SUBSET Plans : UpdateCapTablePools(w, S) => SeqInv'
<1>1. TypeOK /\ TablesFit /\ Quantities \subseteq Nat
  BY ConstantsAssumption DEF IInv, SeqInv
<1>2. ASSUME job[w].step = "idle", UNCHANGED job, TablesFit' PROVE SeqInv'
  <2>1. ASSUME NEW v \in Workers PROVE Ready(job[v])'
    <3>1. job'[v].step = "idle"
      BY <1>2 DEF OneAtATime
    <3> QED
      BY <3>1 DEF Ready, RequestReady, GrantReady, CompletionSteps, UpdateSteps
  <2> QED
    BY <1>2, <2>1 DEF SeqInv
<1>3. ASSUME NEW p \in Plans, NEW q \in Quantities, CreatePlan(w, p, q) PROVE SeqInv'
  <2>1. /\ p \notin DOMAIN plans /\ DOMAIN plans' = DOMAIN plans \cup {p} /\ plans'[p] = q
        /\ \A x \in DOMAIN plans : plans'[x] = plans[x]
    BY <1>3 DEF CreatePlan, Put
  <2>2. UNCHANGED <<grants, requests, ledger, now>>
    BY <1>3 DEF CreatePlan
  <2>3. Allocated(grants, p, None) = 0
    <3>1. Awards(grants, p, None) = {}
      BY <1>1, <2>1 DEF Awards, TablesFit, PlansKnown
    <3> QED
      BY <3>1, QuantityEmpty DEF Allocated
  <2>4. PlansKnown'
    BY <1>1, <2>1, <2>2 DEF TablesFit, PlansKnown
  <2>5. ReserveHolds'
    <3> SUFFICES ASSUME NEW x \in DOMAIN plans' PROVE Allocated(grants, x, None) <= plans'[x]
      BY <2>2 DEF ReserveHolds
    <3>1. CASE x = p
      BY <1>1, <2>1, <2>3, <3>1
    <3>2. CASE x # p
      BY <1>1, <2>1, <3>2 DEF TablesFit, ReserveHolds
    <3> QED
      BY <3>1, <3>2
  <2>6. TablesFit'
    BY <1>1, <2>2, <2>4, <2>5 DEF TablesFit, FiniteTables, CompletedByStatus, ExercisedOnce,
                                  ExercisesVested
  <2> QED
    BY <1>2, <1>3, <2>6 DEF CreatePlan
<1>4. ASSUME UpdatePlan(w) PROVE SeqInv'
  <2>1. /\ job[w].plan \in DOMAIN plans
        /\ Allocated(grants, job[w].plan, None) <= job[w].qty
    BY <1>4 DEF UpdatePlan, At, SeqInv, Ready, GrantReady
  <2>2. UNCHANGED <<grants, requests, ledger, now>>
    BY <1>4 DEF UpdatePlan
  <2>3. /\ DOMAIN plans' = DOMAIN plans /\ plans'[job[w].plan] = job[w].qty
        /\ \A x \in DOMAIN plans : x # job[w].plan => plans'[x] = plans[x]
    BY <1>4, <2>1 DEF UpdatePlan
  <2>4. PlansKnown' /\ ReserveHolds'
    BY <1>1, <2>1, <2>2, <2>3 DEF TablesFit, PlansKnown, ReserveHolds
  <2>5. TablesFit'
    BY <1>1, <2>2, <2>4 DEF TablesFit, FiniteTables, CompletedByStatus, ExercisedOnce,
                            ExercisesVested
  <2> QED
    BY <1>1, <1>4, <2>5, SeqWrite DEF UpdatePlan
<1>5. ASSUME NEW S \in SUBSET Plans, UpdateCapTablePools(w, S) PROVE SeqInv'
  <2>1. TablesFit'
    BY <1>1, <1>5 DEF UpdateCapTablePools, TablesFit, FiniteTables, PlansKnown,
         CompletedByStatus, ExercisedOnce, ReserveHolds, ExercisesVested
  <2> QED
    BY <1>2, <1>5, <2>1 DEF UpdateCapTablePools
<1> QED
  BY <1>3, <1>4, <1>5

\* Rows that no completion wrote come and change.
LEMMA LedgerFits ==
  ASSUME IInv, TablesFit, DOMAIN ledger \subseteq DOMAIN ledger',
         \A s \in DOMAIN ledger : ledger[s].request # None => ledger'[s] = ledger[s],
         \A s \in DOMAIN ledger' : ledger'[s].request # None =>
           s \in DOMAIN ledger /\ ledger[s].request # None
  PROVE  ExercisedOnce' /\ \A g : Exercised(ledger', g) = Exercised(ledger, g)
<1>1. ExercisedOnce'
  BY DEF TablesFit, ExercisedOnce
<1>2. ASSUME NEW g PROVE Exercised(ledger', g) = Exercised(ledger, g)
  <2>1. /\ \A s \in Exercises(ledger, g) : s \in DOMAIN ledger' /\ ledger'[s] = ledger[s]
        /\ \A s \in Exercises(ledger', g) : s \in DOMAIN ledger /\ ledger'[s] = ledger[s]
    BY DEF Exercises
  <2> QED
    BY <2>1, Rows, ExercisedSame
<1> QED
  BY <1>1, <1>2

\* A row made by hand answers no request.
LEMMA EntryWriteSeq ==
  ASSUME OneAtATime, IInv, SeqInv, NEW w \in Workers, InsertEntry(w)
  PROVE  SeqInv'
<1> DEFINE e == job[w].entry
<1>1. TypeOK /\ TablesFit /\ UNCHANGED <<plans, grants, requests, terminations, now>>
  BY DEF InsertEntry, IInv, SeqInv
<1>2. CASE UNCHANGED ledger
  BY <1>1, <1>2, TablesFitKept, SeqWrite DEF InsertEntry, tables
<1>3. CASE SequenceFree(job[w].seq) /\ ledger' = Put(ledger, job[w].seq, e)
  <2>1. /\ e \in Entry /\ e.request = None
        /\ \E m \in {0} \cup DOMAIN ledger : job[w].seq = m + 1
    BY SoundWorker DEF InsertEntry, At, Sound, Remembers, EntrySteps
  <2> HIDE DEF e
  <2>2. PICK n \in Nat :
          /\ DOMAIN ledger = 1..n /\ DOMAIN ledger' = 1..(n + 1)
          /\ ledger'[n + 1] = e
          /\ \A i \in 1..n : ledger'[i] = ledger[i]
    BY <1>3, <2>1, LedgerAppend
  <2>3. ExercisedOnce' /\ \A g : Exercised(ledger', g) = Exercised(ledger, g)
    <3>1. /\ DOMAIN ledger \subseteq DOMAIN ledger'
          /\ \A s \in DOMAIN ledger : ledger'[s] = ledger[s]
          /\ \A s \in DOMAIN ledger' : s \in DOMAIN ledger \/ ledger'[s] = e
      BY <2>2
    <3> QED
      BY <1>1, <2>1, <3>1, LedgerFits
  <2>4. ExercisesVested'
    BY <1>1, <2>3 DEF TablesFit, ExercisesVested
  <2>5. TablesFit'
    BY <1>1, <2>3, <2>4 DEF TablesFit, FiniteTables, PlansKnown, CompletedByStatus,
                            ReserveHolds
  <2> QED
    BY <1>1, <2>5, SeqWrite DEF InsertEntry
<1> QED
  BY <1>2, <1>3 DEF InsertEntry

\* A grant is created within the capacity that was read.
LEMMA GrantWriteSeq ==
  ASSUME OneAtATime, IInv, SeqInv, NEW w \in Workers, CommitGrant(w)
  PROVE  SeqInv'
<1> DEFINE row == job[w].row
<1>1. TypeOK /\ TablesFit /\ UNCHANGED <<plans, requests, terminations, now>>
  BY DEF CommitGrant, IInv, SeqInv
<1>2. CASE UNCHANGED <<grants, ledger>>
  BY <1>1, <1>2, TablesFitKept, SeqWrite DEF CommitGrant, tables
<1>3. ASSUME SequenceFree(job[w].seq), NEW g \in Grants \ (DOMAIN grants \cup deletedGrants),
             grants' = Put(grants, g, row),
             ledger' = Put(ledger, job[w].seq, GrantEntry(g, row))
      PROVE  SeqInv'
  <2> DEFINE e == GrantEntry(g, row)
             p == row.plan
  <2>1. /\ row \in GrantRow /\ row.qty \in Nat /\ row.schedule \in Schedule
        /\ \E m \in {0} \cup DOMAIN ledger : job[w].seq = m + 1
    BY SoundWorker, ConstantsAssumption
       DEF CommitGrant, At, Sound, Remembers, GrantSteps, GrantRow
  <2>2. p \in DOMAIN plans /\ plans[p] - Allocated(grants, p, None) >= row.qty
    BY DEF CommitGrant, At, SeqInv, Ready, GrantReady
  <2>3. e \in Entry /\ e.request = None
    BY <2>1 DEF GrantEntry, Entry, GrantRow, TransactionType
  <2>4. /\ DOMAIN grants' = DOMAIN grants \cup {g} /\ grants'[g] = row
        /\ \A x \in DOMAIN grants : grants'[x] = grants[x]
    BY <1>3 DEF Put
  <2> HIDE DEF row, e
  <2>5. PICK n \in Nat :
          /\ DOMAIN ledger = 1..n /\ DOMAIN ledger' = 1..(n + 1)
          /\ ledger'[n + 1] = e
          /\ \A i \in 1..n : ledger'[i] = ledger[i]
    BY <1>3, <2>1, <2>3, LedgerAppend DEF e
  <2>6. ExercisedOnce' /\ \A h : Exercised(ledger', h) = Exercised(ledger, h)
    <3>1. /\ DOMAIN ledger \subseteq DOMAIN ledger'
          /\ \A s \in DOMAIN ledger : ledger'[s] = ledger[s]
          /\ \A s \in DOMAIN ledger' : s \in DOMAIN ledger \/ ledger'[s] = e
      BY <2>5
    <3> QED
      BY <1>1, <2>3, <3>1, LedgerFits
  <2>7. Exercised(ledger, g) = 0 /\ Completed(requests, g) = 0
    <3>1. Exercises(ledger, g) = {}
      BY <1>3, ExerciseRow DEF Exercises
    <3>2. Completions(requests, g) = {}
      BY <1>3 DEF Completions, IInv, TablesSound, RequestsKeepGrant
    <3> QED
      BY <3>1, <3>2, QuantityEmpty DEF Exercised, Completed
  <2>8. Vested(row, now) \in 0..row.qty
    BY <1>1, <2>1, VestedMonotone DEF TypeOK
  <2>9. ExercisesVested'
    BY <1>1, <2>1, <2>4, <2>6, <2>7, <2>8 DEF TablesFit, ExercisesVested
  <2>10. ReserveHolds'
    <3> SUFFICES ASSUME NEW x \in DOMAIN plans
                 PROVE  Allocated(grants', x, None) <= plans[x]
      BY <1>1 DEF ReserveHolds
    <3>0. /\ \A h \in DOMAIN grants : grants[h].qty \in Nat
          /\ IsFiniteSet(DOMAIN grants) /\ plans[x] \in Nat
      BY <1>1, Rows, ConstantsAssumption DEF TypeOK, TablesFit, FiniteTables
    <3>1. CASE x = p
      <4>1. /\ Awards(grants', x, None) = Awards(grants, x, None) \cup {g}
            /\ g \notin Awards(grants, x, None)
            /\ \A h \in Awards(grants, x, None) : grants'[h].qty = grants[h].qty
        BY <1>3, <2>4, <3>1, ConstantsAssumption DEF Awards
      <4>2. Allocated(grants', x, None) = Allocated(grants, x, None) + grants'[g].qty
        BY <2>1, <2>4, <3>0, <4>1, AllocatedWith
      <4>3. Allocated(grants, x, None) \in Nat
        BY <3>0, AllocatedNat
      <4> QED
        BY <2>1, <2>2, <2>4, <3>0, <3>1, <4>2, <4>3
    <3>2. CASE x # p
      <4>1. /\ Awards(grants', x, None) = Awards(grants, x, None)
            /\ \A h \in Awards(grants, x, None) : grants'[h].qty = grants[h].qty
        BY <1>3, <2>4, <3>2 DEF Awards
      <4>2. IsFiniteSet(Awards(grants, x, None))
        BY <3>0, AllocatedNat
      <4>3. Allocated(grants', x, None) = Allocated(grants, x, None)
        BY <4>1, <4>2, QuantitySame DEF Allocated
      <4> QED
        BY <1>1, <4>3 DEF TablesFit, ReserveHolds
    <3> QED
      BY <3>1, <3>2
  <2>11. PlansKnown' /\ FiniteTables'
    BY <1>1, <2>2, <2>4, FS_AddElement DEF TablesFit, PlansKnown, FiniteTables
  <2>12. TablesFit'
    BY <1>1, <2>6, <2>9, <2>10, <2>11 DEF TablesFit, CompletedByStatus
  <2> QED
    BY <1>1, <2>12, SeqWrite DEF CommitGrant
<1> QED
  BY <1>2, <1>3 DEF CommitGrant

\* A grant without events moves within the capacity that was read.
LEMMA UpdateWriteSeq ==
  ASSUME OneAtATime, IInv, SeqInv, NEW w \in Workers, CommitUpdate(w)
  PROVE  SeqInv'
<1> DEFINE g == job[w].grant
           row == job[w].row
           p == row.plan
<1>1. TypeOK /\ TablesFit /\ UNCHANGED <<plans, requests, terminations, now>>
  BY DEF CommitUpdate, IInv, SeqInv
<1>2. CASE UNCHANGED <<grants, ledger>>
  BY <1>1, <1>2, TablesFitKept, SeqWrite DEF CommitUpdate, tables
<1>3. ASSUME g \in DOMAIN grants, grants' = [grants EXCEPT ![g] = row],
             ledger' = [s \in DOMAIN ledger |-> Regranted(ledger[s], g, row)]
      PROVE  SeqInv'
  <2>1. row \in GrantRow /\ row.qty \in Nat /\ row.schedule \in Schedule
    BY SoundWorker, ConstantsAssumption
       DEF CommitUpdate, At, Sound, Remembers, UpdateSteps, GrantRow
  <2>2. /\ p \in DOMAIN plans /\ plans[p] - Allocated(grants, p, g) >= row.qty
        /\ NoEvents(g)
    BY DEF CommitUpdate, At, SeqInv, Ready, GrantReady, UpdateSteps
  <2> HIDE DEF g, row
  <2>3. /\ DOMAIN grants' = DOMAIN grants /\ grants'[g] = row
        /\ \A x \in DOMAIN grants : x # g => grants'[x] = grants[x]
    BY <1>3
  <2>4. /\ DOMAIN ledger' = DOMAIN ledger
        /\ \A s \in DOMAIN ledger :
             /\ ledger[s].request # None => ledger'[s] = ledger[s]
             /\ ledger'[s].request = ledger[s].request
    <3>1. DOMAIN ledger' = DOMAIN ledger
      BY <1>3
    <3>2. ASSUME NEW s \in DOMAIN ledger
          PROVE  /\ ledger[s].request # None => ledger'[s] = ledger[s]
                 /\ ledger'[s].request = ledger[s].request
      <4>1. ledger'[s] = Regranted(ledger[s], g, row) /\ ledger[s] \in Entry
        BY <1>1, <1>3 DEF TypeOK
      <4>2. ledger[s].request # None => ledger[s].type = "EXERCISE"
        BY ExerciseRow
      <4> QED
        BY <4>1, <4>2 DEF Regranted, Entry
    <3> QED
      BY <3>1, <3>2
  <2>5. ExercisedOnce' /\ \A h : Exercised(ledger', h) = Exercised(ledger, h)
    BY <1>1, <2>4, LedgerFits
  <2>6. Exercised(ledger, g) = 0
    <3>1. Exercised(ledger, g) = Completed(requests, g)
      BY <1>1, <1>3 DEF TablesFit, ExercisesVested
    <3>2. Completions(requests, g) = {}
      BY <2>2 DEF Completions, NoEvents
    <3> QED
      BY <3>1, <3>2, QuantityEmpty DEF Completed
  <2>7. Vested(row, now) \in 0..row.qty
    BY <1>1, <2>1, VestedMonotone DEF TypeOK
  <2>8. ExercisesVested'
    <3> SUFFICES ASSUME NEW h \in DOMAIN grants
                 PROVE  /\ Exercised(ledger, h) = Completed(requests, h)
                        /\ Exercised(ledger, h) <= Vested(grants'[h], now)
      BY <1>1, <2>3, <2>5 DEF ExercisesVested
    <3>1. CASE h = g
      BY <1>1, <2>1, <2>3, <2>6, <2>7, <3>1 DEF TablesFit, ExercisesVested
    <3>2. CASE h # g
      BY <1>1, <2>3, <3>2 DEF TablesFit, ExercisesVested
    <3> QED
      BY <3>1, <3>2
  <2>9. ReserveHolds'
    <3> SUFFICES ASSUME NEW x \in DOMAIN plans
                 PROVE  Allocated(grants', x, None) <= plans[x]
      BY <1>1 DEF ReserveHolds
    <3>0. /\ \A h \in DOMAIN grants : grants[h].qty \in Nat
          /\ IsFiniteSet(DOMAIN grants) /\ plans[x] \in Nat
      BY <1>1, Rows, ConstantsAssumption DEF TypeOK, TablesFit, FiniteTables
    <3>1. CASE x = p
      <4>1. /\ Awards(grants', x, None) = Awards(grants, x, g) \cup {g}
            /\ g \notin Awards(grants, x, g)
            /\ \A h \in Awards(grants, x, g) : grants'[h].qty = grants[h].qty
        BY <1>1, <1>3, <2>3, <3>1, ConstantsAssumption DEF Awards, TypeOK
      <4>2. Allocated(grants', x, None) = Allocated(grants, x, g) + grants'[g].qty
        BY <2>1, <2>3, <3>0, <4>1, AllocatedWith
      <4>3. Allocated(grants, x, g) \in Nat
        BY <3>0, AllocatedNat
      <4> QED
        BY <2>1, <2>2, <2>3, <3>0, <3>1, <4>2, <4>3
    <3>2. CASE x # p
      <4>1. \A h \in Awards(grants', x, None) :
              h \in Awards(grants, x, None) /\ grants'[h].qty = grants[h].qty
        BY <1>3, <2>3, <3>2 DEF Awards
      <4>2. Allocated(grants', x, None) <= Allocated(grants, x, None)
        BY <3>0, <4>1, AllocatedWithin
      <4>3. Allocated(grants, x, None) \in Nat /\ Allocated(grants, x, None) <= plans[x]
        BY <1>1, <3>0, AllocatedNat DEF TablesFit, ReserveHolds
      <4>4. Allocated(grants', x, None) \in Nat
        <5>1. \A h \in DOMAIN grants' : grants'[h].qty \in Nat
          BY <2>1, <2>3, <3>0
        <5> QED
          BY <2>3, <3>0, <5>1, AllocatedNat
      <4> QED
        BY <3>0, <4>2, <4>3, <4>4
    <3> QED
      BY <3>1, <3>2
  <2>10. PlansKnown' /\ FiniteTables'
    BY <1>1, <2>2, <2>3 DEF TablesFit, PlansKnown, FiniteTables
  <2>11. TablesFit'
    BY <1>1, <2>5, <2>8, <2>9, <2>10 DEF TablesFit, CompletedByStatus
  <2> QED
    BY <1>1, <2>11, SeqWrite DEF CommitUpdate
<1> QED
  BY <1>2, <1>3 DEF CommitUpdate

\* A grant without events leaves only rows that exercise nothing.
LEMMA DeleteWriteSeq ==
  ASSUME OneAtATime, IInv, SeqInv, NEW w \in Workers, CommitDelete(w)
  PROVE  SeqInv'
<1> DEFINE g == job[w].grant
<1>1. TypeOK /\ TablesFit /\ UNCHANGED <<plans, requests, now>>
  BY DEF CommitDelete, IInv, SeqInv
<1>2. CASE UNCHANGED <<grants, deletedGrants, ledger, terminations>>
  <2>1. UNCHANGED <<tables, now>>
    BY <1>2 DEF CommitDelete, tables
  <2> QED
    BY <1>1, <2>1, TablesFitKept, SeqWrite DEF CommitDelete
<1>3. ASSUME DeleteAllowed(g), grants' = Restrict(grants, DOMAIN grants \ {g}),
             ledger' = UnlinkedLedger(g)
      PROVE  SeqInv'
  <2> HIDE DEF g
  <2>1. /\ DOMAIN grants' = DOMAIN grants \ {g}
        /\ \A x \in DOMAIN grants' : grants'[x] = grants[x]
    BY <1>3 DEF Restrict
  <2>2. \A r \in DOMAIN requests : requests[r].grant # g
    BY <1>3 DEF DeleteAllowed, RequestsOf
  <2>3. /\ DOMAIN ledger' = DOMAIN ledger
        /\ \A s \in DOMAIN ledger :
             /\ ledger[s].request # None => ledger'[s] = ledger[s]
             /\ ledger'[s].request = ledger[s].request
    <3>1. DOMAIN ledger' = DOMAIN ledger
      BY <1>3 DEF UnlinkedLedger
    <3>2. ASSUME NEW s \in DOMAIN ledger
          PROVE  /\ ledger[s].request # None => ledger'[s] = ledger[s]
                 /\ ledger'[s].request = ledger[s].request
      <4>1. ledger'[s] = Unlinked(ledger[s], g) /\ ledger[s] \in Entry
        BY <1>1, <1>3 DEF TypeOK, UnlinkedLedger
      <4>2. ledger[s].request # None => ledger[s].grant # g
        BY <2>2, ExerciseRow
      <4> QED
        BY <4>1, <4>2 DEF Unlinked, Entry
    <3> QED
      BY <3>1, <3>2
  <2>4. ExercisedOnce' /\ \A h : Exercised(ledger', h) = Exercised(ledger, h)
    BY <1>1, <2>3, LedgerFits
  <2>5. ExercisesVested'
    BY <1>1, <2>1, <2>4 DEF TablesFit, ExercisesVested
  <2>6. ReserveHolds'
    <3> SUFFICES ASSUME NEW x \in DOMAIN plans
                 PROVE  Allocated(grants', x, None) <= plans[x]
      BY <1>1 DEF ReserveHolds
    <3>0. /\ \A h \in DOMAIN grants : grants[h].qty \in Nat
          /\ IsFiniteSet(DOMAIN grants) /\ plans[x] \in Nat
      BY <1>1, Rows, ConstantsAssumption DEF TypeOK, TablesFit, FiniteTables
    <3>1. \A h \in Awards(grants', x, None) :
            h \in Awards(grants, x, None) /\ grants'[h].qty = grants[h].qty
      BY <2>1 DEF Awards
    <3>2. Allocated(grants', x, None) <= Allocated(grants, x, None)
      BY <3>0, <3>1, AllocatedWithin
    <3>3. Allocated(grants, x, None) \in Nat /\ Allocated(grants, x, None) <= plans[x]
      BY <1>1, <3>0, AllocatedNat DEF TablesFit, ReserveHolds
    <3>4. Allocated(grants', x, None) \in Nat
      <4>1. IsFiniteSet(DOMAIN grants') /\ \A h \in DOMAIN grants' : grants'[h].qty \in Nat
        BY <2>1, <3>0, FS_RemoveElement
      <4> QED
        BY <4>1, AllocatedNat
    <3> QED
      BY <3>0, <3>2, <3>3, <3>4
  <2>7. PlansKnown' /\ FiniteTables'
    BY <1>1, <2>1, FS_RemoveElement DEF TablesFit, PlansKnown, FiniteTables
  <2>8. TablesFit'
    BY <1>1, <2>4, <2>5, <2>6, <2>7 DEF TablesFit, CompletedByStatus
  <2> QED
    BY <1>1, <2>8, SeqWrite DEF CommitDelete
<1> QED
  BY <1>2, <1>3 DEF CommitDelete

-----------------------------------------------------------------------------
(* The invariant, and the safety properties *)

\* The empty store fits.
LEMMA SeqInit == Init => SeqInv
<1> SUFFICES ASSUME Init PROVE SeqInv
  OBVIOUS
<1>1. DOMAIN ledger = {} /\ DOMAIN grants = {} /\ DOMAIN requests = {} /\ DOMAIN plans = {}
  BY DEF Init
<1>2. TablesFit
  BY <1>1, FS_EmptySet DEF TablesFit, FiniteTables, PlansKnown, CompletedByStatus,
       ExercisedOnce, ReserveHolds, ExercisesVested
<1> QED
  BY <1>2, NoJobReady DEF Init, SeqInv

\* Time passes: what has vested stays vested.
LEMMA SeqTick ==
  ASSUME IInv, SeqInv, Tick
  PROVE  SeqInv'
<1>1. /\ UNCHANGED <<tables, job>> /\ now \in Nat /\ now' = now + 1
      /\ \A w \in Workers : job[w] \in Job
  BY DEF Tick, IInv, TypeOK
<1>2. ExercisesVested'
  <2> SUFFICES ASSUME NEW g \in DOMAIN grants
               PROVE  /\ Exercised(ledger, g) = Completed(requests, g)
                      /\ Exercised(ledger, g) <= Vested(grants[g], now + 1)
    BY <1>1 DEF ExercisesVested, tables
  <2>1. /\ Exercised(ledger, g) = Completed(requests, g)
        /\ Exercised(ledger, g) <= Vested(grants[g], now)
    BY DEF SeqInv, TablesFit, ExercisesVested
  <2>2. /\ Vested(grants[g], now) \in Nat /\ Vested(grants[g], now + 1) \in Nat
        /\ Vested(grants[g], now) <= Vested(grants[g], now + 1)
    <3>1. now \in Int /\ now + 1 \in Int /\ now <= now + 1
      BY <1>1
    <3>2. grants[g].qty \in Nat /\ grants[g].schedule \in Schedule
      BY Rows
    <3>3. /\ Vested(grants[g], now) \in 0..grants[g].qty
          /\ Vested(grants[g], now + 1) \in 0..grants[g].qty
          /\ Vested(grants[g], now) <= Vested(grants[g], now + 1)
      BY <3>1, <3>2, VestedMonotone
    <3> QED
      BY <3>2, <3>3
  <2>3. Exercised(ledger, g) \in Nat
    <3>1. IsFiniteSet(Exercises(ledger, g)) /\ \A s \in Exercises(ledger, g) : ledger[s].qty \in Nat
      BY Rows, FS_Subset DEF Exercises
    <3> QED
      BY <3>1, QuantityNat DEF Exercised
  <2> QED
    BY <2>1, <2>2, <2>3
<1>3. TablesFit'
  BY <1>1, <1>2 DEF SeqInv, TablesFit, FiniteTables, PlansKnown, CompletedByStatus,
       ExercisedOnce, ReserveHolds, tables
<1>4. ASSUME NEW w \in Workers PROVE Ready(job[w])'
  <2>1. job[w].asOf <= now => job[w].asOf <= now'
    BY <1>1 DEF Job
  <2>2. Ready(job[w])
    BY DEF SeqInv
  <2> QED
    BY <1>1, <2>1, <2>2 DEF Ready, RequestReady, GrantReady, NoEvents, tables
<1> QED
  BY <1>3, <1>4 DEF SeqInv

\* Every step of a server that runs one handler at a time keeps SeqInv.
LEMMA SeqNext ==
  ASSUME OneAtATime
  PROVE  IInv /\ SeqInv /\ [Next]_vars => SeqInv'
<1> SUFFICES ASSUME IInv, SeqInv, [Next]_vars PROVE SeqInv'
  OBVIOUS
<1>1. ASSUME NEW w \in Workers, ExerciseStep(w) PROVE SeqInv'
  BY <1>1, ExerciseReadsSeq, TerminationWriteSeq, RequestWriteSeq, DecisionWritesSeq,
     CompletionWriteSeq DEF ExerciseStep
<1>2. ASSUME NEW w \in Workers, AdminStep(w) PROVE SeqInv'
  BY <1>2, AdminReadsSeq, PlanWritesSeq, GrantWriteSeq, UpdateWriteSeq, DeleteWriteSeq,
     EntryWriteSeq DEF AdminStep
<1>3. CASE UNCHANGED vars
  BY <1>3, TablesFitKept
     DEF vars, tables, SeqInv, Ready, RequestReady, GrantReady, NoEvents
<1> QED
  BY <1>1, <1>2, <1>3, SeqTick DEF Next, Quiescent

\* One handler at a time: what each check established still holds when its
\* handler writes, so the tables fit together in every reachable state.
THEOREM SequentialInvariant ==
  ASSUME OneAtATime
  PROVE  Spec => [](IInv /\ SeqInv)
<1>1. Init => IInv /\ SeqInv
  BY InitInv, SeqInit
<1>2. IInv /\ SeqInv /\ [Next]_vars => (IInv /\ SeqInv)'
  BY NextInv, SeqNext
<1> QED
  BY <1>1, <1>2, PTL DEF Spec

\* completeExerciseRequest writes the EXERCISE row of a request at most once.
THEOREM SequentialOnce ==
  ASSUME OneAtATime
  PROVE  Spec => []ExercisedOnce
<1>1. SeqInv => ExercisedOnce
  BY DEF SeqInv, TablesFit
<1> QED
  BY <1>1, SequentialInvariant, PTL

\* assertPlanCapacity and updatePlan keep the grants of a plan within its
\* reserve, for any number of plans and grants of any size.
THEOREM SequentialReserve ==
  ASSUME OneAtATime
  PROVE  Spec => []GrantsFitReserve
<1>1. SeqInv => GrantsFitReserve
  BY SumsAreNamed DEF SeqInv, TablesFit, ReserveHolds, GrantsFitReserve
<1> QED
  BY <1>1, SequentialInvariant, PTL

\* The options of a grant exercised through requests have vested, whatever its
\* schedule, though each check compares with a date that lies in the past by
\* the time the completion commits.
THEOREM SequentialVested ==
  ASSUME OneAtATime
  PROVE  Spec => []ExercisedHasVested
<1>1. SeqInv => ExercisedHasVested
  BY SumsAreNamed DEF SeqInv, TablesFit, ExercisesVested, ExercisedHasVested
<1> QED
  BY <1>1, SequentialInvariant, PTL

\* The handlers that write requests.
LEMMA RequestWriters ==
  ASSUME NEW w \in Workers
  PROVE  /\ ExerciseStep(w) =>
              UNCHANGED requests \/ InsertRequest(w) \/ Approve(w) \/ Decline(w) \/ Cancel(w)
                \/ CommitCompletion(w)
         /\ AdminStep(w) => UNCHANGED requests
<1>1. ASSUME ExerciseStep(w)
      PROVE  UNCHANGED requests \/ InsertRequest(w) \/ Approve(w) \/ Decline(w) \/ Cancel(w)
               \/ CommitCompletion(w)
  BY <1>1 DEF ExerciseStep, StartTermination, InsertTermination, StartExerciseRequest,
     CheckExerciseWindow, CheckExercisable, StartApprove, StartDecline, StartCancel,
     StartDecision, StartCompletion, CheckCompletionWindow, CheckAvailable,
     ReadCompletionSequence, tables
<1>2. ASSUME AdminStep(w) PROVE UNCHANGED requests
  <2>1. /\ \A p, q : CreatePlan(w, p, q) \/ StartUpdatePlan(w, p, q) => UNCHANGED requests
        /\ UpdatePlan(w) => UNCHANGED requests
        /\ \A S : UpdateCapTablePools(w, S) => UNCHANGED requests
    BY DEF CreatePlan, StartUpdatePlan, UpdatePlan, UpdateCapTablePools, tables
  <2>2. /\ \A row : StartCreateGrant(w, row) => UNCHANGED requests
        /\ ReadGrantPlan(w) \/ CheckGrantCapacity(w) \/ ReadGrantSequence(w) \/ CommitGrant(w)
             => UNCHANGED requests
    BY DEF StartCreateGrant, ReadGrantPlan, CheckGrantCapacity, ReadGrantSequence,
           CommitGrant, tables
  <2>3. /\ \A g, row : StartUpdateGrant(w, g, row) => UNCHANGED requests
        /\ ReadUpdatePlan(w) \/ CheckUpdateCapacity(w) \/ CommitUpdate(w) => UNCHANGED requests
        /\ \A g : StartDeleteGrant(w, g) => UNCHANGED requests
        /\ CommitDelete(w) => UNCHANGED requests
    BY DEF StartUpdateGrant, ReadUpdatePlan, CheckUpdateCapacity, CommitUpdate,
           StartDeleteGrant, CommitDelete, tables
  <2>4. /\ \A e : StartTransaction(w, e) => UNCHANGED requests
        /\ CheckBalance(w) \/ ReadEntrySequence(w) \/ InsertEntry(w) => UNCHANGED requests
    BY DEF StartTransaction, CheckBalance, ReadEntrySequence, InsertEntry, tables
  <2> QED
    BY <1>2, <2>1, <2>2, <2>3, <2>4 DEF AdminStep
<1> QED
  BY <1>1, <1>2

\* A decision or a completion finds its request in a state it may leave.
LEMMA TerminalStep ==
  IInv /\ SeqInv /\ [Next]_vars =>
    [\A r \in DOMAIN requests : requests[r].status \in Terminal =>
       requests'[r].status = requests[r].status]_vars
<1> SUFFICES ASSUME IInv, SeqInv, [Next]_vars, NEW r \in DOMAIN requests,
                    requests[r].status \in Terminal
             PROVE  requests'[r].status = requests[r].status
  OBVIOUS
<1>1. CASE UNCHANGED requests
  BY <1>1
<1>2. ASSUME NEW w \in Workers, InsertRequest(w)
      PROVE  requests'[r].status = requests[r].status
  BY <1>2 DEF InsertRequest, Put
<1>3. ASSUME NEW w \in Workers, NEW h \in DecisionSteps, NEW row, WriteDecision(w, h, row)
      PROVE  requests'[r].status = requests[r].status
  <2>1. requests[job[w].request].status \in {"SUBMITTED", "APPROVED"}
    BY <1>3 DEF WriteDecision, At, DecisionSteps, SeqInv, Ready, RequestReady
  <2> QED
    BY <1>3, <2>1 DEF WriteDecision, Terminal
<1>4. ASSUME NEW w \in Workers, CommitCompletion(w)
      PROVE  requests'[r].status = requests[r].status
  <2>1. requests[job[w].request].status = "APPROVED"
    BY <1>4 DEF CommitCompletion, At, SeqInv, Ready, RequestReady, CompletionSteps
  <2>2. r # job[w].request
    BY <2>1 DEF Terminal
  <2>3. UNCHANGED requests \/ CompletionWrites(job[w])
    BY <1>4 DEF CommitCompletion, CompletionRolledBack
  <2> QED
    BY <2>2, <2>3 DEF CompletionWrites
<1>5. Tick \/ UNCHANGED vars => UNCHANGED requests
  BY DEF Tick, tables, vars
<1> QED
  BY <1>1, <1>2, <1>3, <1>4, <1>5, RequestWriters
     DEF Next, Quiescent, Approve, Decline, Cancel, DecisionSteps

\* approve, decline, cancel and completeExerciseRequest update a request by its
\* id alone, and one handler at a time never take it out of a terminal state.
THEOREM SequentialTerminal ==
  ASSUME OneAtATime
  PROVE  Spec => TerminalIsFinal
BY SequentialInvariant, TerminalStep, PTL DEF Spec, TerminalIsFinal

\* The handlers that write grants.
LEMMA GrantWriters ==
  ASSUME NEW w \in Workers
  PROVE  /\ ExerciseStep(w) => UNCHANGED grants
         /\ AdminStep(w) =>
              UNCHANGED grants \/ CommitGrant(w) \/ CommitUpdate(w) \/ CommitDelete(w)
<1>1. ASSUME ExerciseStep(w) PROVE UNCHANGED grants
  BY <1>1 DEF ExerciseStep, StartTermination, InsertTermination, StartExerciseRequest,
     CheckExerciseWindow, CheckExercisable, InsertRequest, StartApprove, StartDecline,
     StartCancel, StartDecision, Approve, Decline, Cancel, WriteDecision, StartCompletion,
     CheckCompletionWindow, CheckAvailable, ReadCompletionSequence, CommitCompletion,
     OtherThanRequests, tables
<1>2. ASSUME AdminStep(w)
      PROVE  UNCHANGED grants \/ CommitGrant(w) \/ CommitUpdate(w) \/ CommitDelete(w)
  <2>1. /\ \A p, q : CreatePlan(w, p, q) \/ StartUpdatePlan(w, p, q) => UNCHANGED grants
        /\ UpdatePlan(w) => UNCHANGED grants
        /\ \A S : UpdateCapTablePools(w, S) => UNCHANGED grants
    BY DEF CreatePlan, StartUpdatePlan, UpdatePlan, UpdateCapTablePools, tables
  <2>2. /\ \A row : StartCreateGrant(w, row) => UNCHANGED grants
        /\ ReadGrantPlan(w) \/ CheckGrantCapacity(w) \/ ReadGrantSequence(w)
             => UNCHANGED grants
    BY DEF StartCreateGrant, ReadGrantPlan, CheckGrantCapacity, ReadGrantSequence, tables
  <2>3. /\ \A g, row : StartUpdateGrant(w, g, row) => UNCHANGED grants
        /\ ReadUpdatePlan(w) \/ CheckUpdateCapacity(w) => UNCHANGED grants
        /\ \A g : StartDeleteGrant(w, g) => UNCHANGED grants
    BY DEF StartUpdateGrant, ReadUpdatePlan, CheckUpdateCapacity, StartDeleteGrant, tables
  <2>4. /\ \A e : StartTransaction(w, e) => UNCHANGED grants
        /\ CheckBalance(w) \/ ReadEntrySequence(w) \/ InsertEntry(w) => UNCHANGED grants
    BY DEF StartTransaction, CheckBalance, ReadEntrySequence, InsertEntry, tables
  <2> QED
    BY <1>2, <2>1, <2>2, <2>3, <2>4 DEF AdminStep
<1> QED
  BY <1>1, <1>2

\* A step leaves a grant with requests or a termination as it is.
LEMMA FrozenStep ==
  IInv /\ SeqInv /\ [Next]_vars =>
    [\A g \in DOMAIN grants :
       (RequestsOf(g) # {} \/ \E t \in terminations : t.grant = g) =>
         g \in DOMAIN grants' /\ grants'[g] = grants[g]]_vars
<1> SUFFICES ASSUME IInv, SeqInv, [Next]_vars, NEW g \in DOMAIN grants,
                    RequestsOf(g) # {} \/ \E t \in terminations : t.grant = g
             PROVE  g \in DOMAIN grants' /\ grants'[g] = grants[g]
  OBVIOUS
<1>1. ~NoEvents(g)
  BY DEF RequestsOf, NoEvents
<1>2. ASSUME NEW w \in Workers, CommitGrant(w)
      PROVE  g \in DOMAIN grants' /\ grants'[g] = grants[g]
  BY <1>2 DEF CommitGrant, Put
<1>3. ASSUME NEW w \in Workers, CommitUpdate(w)
      PROVE  g \in DOMAIN grants' /\ grants'[g] = grants[g]
  <2>1. job[w].grant # g
    BY <1>1, <1>3 DEF CommitUpdate, At, SeqInv, Ready, GrantReady, UpdateSteps
  <2> QED
    BY <1>3, <2>1 DEF CommitUpdate
<1>4. ASSUME NEW w \in Workers, CommitDelete(w)
      PROVE  g \in DOMAIN grants' /\ grants'[g] = grants[g]
  <2>1. job[w].grant # g
    BY <1>1, <1>4 DEF CommitDelete, At, SeqInv, Ready, GrantReady
  <2> QED
    BY <1>4, <2>1 DEF CommitDelete, Restrict
<1>5. Tick \/ UNCHANGED vars => UNCHANGED grants
  BY DEF Tick, tables, vars
<1> QED
  BY <1>2, <1>3, <1>4, <1>5, GrantWriters DEF Next, Quiescent

\* updateGrant and deleteGrant count the lifecycle events of a grant before they
\* write, and one handler at a time leave a grant that has some as it is.
THEOREM SequentialFreeze ==
  ASSUME OneAtATime
  PROVE  Spec => LifecycleFreezesGrant
BY SequentialInvariant, FrozenStep, PTL DEF Spec, LifecycleFreezesGrant

-----------------------------------------------------------------------------
(* The pages *)

\* The sums over the grants, as totals of functions.
LEMMA OutstandingTotal ==
  ASSUME IsFiniteSet(DOMAIN grants)
  PROVE  OutstandingOptions = Total([g \in DOMAIN grants |-> OutstandingFrom(g)], DOMAIN grants)
<1> DEFINE S == DOMAIN grants
           f == [g \in S |-> OutstandingFrom(g)]
           FoldAll(F) ==
             F = [s \in SUBSET S |->
                    IF s = {} THEN 0 ELSE OutstandingFrom(Pick(s)) + F[s \ {Pick(s)}]]
           iter == CHOOSE F : FoldAll(F)
<1>1. \A s \in SUBSET S : s # {} => f[Pick(s)] = OutstandingFrom(Pick(s))
  BY PickIn
<1>2. \A F : FoldAll(F) <=> FoldOf(F, f, S)
  BY <1>1 DEF FoldOf
<1>3. FoldOf(iter, f, S)
  <2>1. \E F : FoldAll(F)
    BY <1>2, FoldExists
  <2> QED
    BY <1>2, <2>1
<1>4. OutstandingOptions = iter[S]
  BY DEF OutstandingOptions, MapThenSumSet, MapThenFoldSet, Pick
<1>5. PICK F : FoldOf(F, f, S) /\ Total(f, S) = F[S]
  BY TotalFolds
<1> QED
  BY <1>3, <1>4, <1>5, FoldUnique

\* Nobody left: nothing is forfeited.
LEMMA NothingForfeited == MapThenSumSet(ForfeitedBy, {}) = 0
<1> DEFINE f == [t \in {} |-> 0]
           FoldAll(F) ==
             F = [s \in SUBSET {} |-> IF s = {} THEN 0 ELSE ForfeitedBy(Pick(s)) + F[s \ {Pick(s)}]]
           iter == CHOOSE F : FoldAll(F)
<1>1. \A s \in SUBSET {} : s = {}
  OBVIOUS
<1>2. \A F : FoldAll(F) <=> FoldOf(F, f, {})
  BY <1>1 DEF FoldOf
<1>3. FoldOf(iter, f, {})
  <2>1. \E F : FoldAll(F)
    BY <1>2, FoldExists, FS_EmptySet
  <2> QED
    BY <1>2, <2>1
<1>4. MapThenSumSet(ForfeitedBy, {}) = iter[{}]
  BY DEF MapThenSumSet, MapThenFoldSet, Pick
<1> QED
  BY <1>3, <1>4 DEF FoldOf

\* What is left of a grant and what was exercised of it is its quantity.
LEMMA RemainingOf ==
  ASSUME IInv, SeqInv, NEW g \in DOMAIN grants
  PROVE  /\ ExercisedFrom(g) \in Nat /\ RemainingQuantity(g) \in Nat
         /\ RemainingQuantity(g) + ExercisedFrom(g) = grants[g].qty
<1>1. /\ ExercisedFrom(g) = Completed(requests, g)
      /\ Completed(requests, g) <= Vested(grants[g], now)
  BY SumsAreNamed DEF SeqInv, TablesFit, ExercisesVested
<1>2. Vested(grants[g], now) \in 0..grants[g].qty /\ grants[g].qty \in Nat
  BY Rows, VestedMonotone DEF IInv, TypeOK
<1>3. Completed(requests, g) \in Nat
  <2>1. /\ IsFiniteSet(Completions(requests, g))
        /\ \A r \in Completions(requests, g) : requests[r].qty \in Nat
    BY Rows, FS_Subset DEF Completions, SeqInv, TablesFit, FiniteTables
  <2> QED
    BY <2>1, QuantityNat DEF Completed
<1>4. grants[g].qty - ExercisedFrom(g) \in Nat
  BY <1>1, <1>2, <1>3
<1>5. RemainingQuantity(g) = grants[g].qty - ExercisedFrom(g)
  BY <1>4, NonNegativeIs DEF RemainingQuantity, NonNegative
<1> QED
  BY <1>1, <1>2, <1>3, <1>4, <1>5

\* The completed requests are those of the grants.
LEMMA DashboardTotal ==
  ASSUME IInv, SeqInv
  PROVE  DashboardExercised(DOMAIN requests) =
           Total([g \in DOMAIN grants |-> ExercisedFrom(g)], DOMAIN grants)
<1> DEFINE S == DOMAIN grants
           C == {r \in DOMAIN requests : requests[r].status = "COMPLETED"}
           f == [r \in C |-> requests[r].qty]
           h == [g \in S |-> ExercisedFrom(g)]
           key == [r \in C |-> requests[r].grant]
           class == [g \in S |-> {r \in C : key[r] = g}]
<1>1. /\ IsFiniteSet(S) /\ IsFiniteSet(C)
      /\ \A r \in C : f[r] \in Int /\ f[r] \in Nat /\ requests[r].qty \in Nat /\ f[r] = requests[r].qty
  BY Rows, FS_Subset DEF SeqInv, TablesFit, FiniteTables
<1>2. \A r \in C : key[r] \in S
  BY DEF IInv, TablesSound, RequestsKeepGrant
<1>3. \A g \in S : class[g] = {r \in C : key[r] = g}
  OBVIOUS
<1>4. ASSUME NEW g \in S PROVE h[g] = Total(f, class[g])
  <2> DEFINE K == Completions(requests, g)
  <2>1. K = class[g] /\ K \subseteq C
    BY DEF Completions
  <2>2. h[g] = QuantitySum(requests, K)
    BY SumsAreNamed DEF Completed
  <2> DEFINE k == [r \in K |-> requests[r].qty]
  <2>3. IsFiniteSet(K) /\ \A r \in K : k[r] = f[r]
    BY <1>1, <2>1, FS_Subset
  <2> HIDE DEF K
  <2>4. QuantitySum(requests, K) = Total(k, K)
    BY <2>3, QuantityTotal
  <2> HIDE DEF k, f
  <2>5. Total(k, K) = Total(f, K)
    BY <2>3, TotalSame
  <2> QED
    BY <2>1, <2>2, <2>4, <2>5
<1>5. DashboardExercised(DOMAIN requests) = Total(f, C)
  BY <1>1, QuantityTotal DEF DashboardExercised, RequestSum
<1> HIDE DEF S, C, f, h, key, class
<1>6. Total(h, S) = Total(f, C)
  <2>1. \A r \in C : f[r] \in Int
    BY <1>1
  <2>2. \A g \in S : h[g] = Total(f, class[g])
    BY <1>4
  <2> QED
    BY <1>1, <1>2, <1>3, <2>1, <2>2, TotalByClass
<1> QED
  BY <1>5, <1>6 DEF S, h

\* The tables that fit make the two pages agree.
LEMMA PagesStep == IInv /\ SeqInv => PagesAgree
<1> SUFFICES ASSUME IInv, SeqInv PROVE PagesAgree
  OBVIOUS
<1>1. /\ IsFiniteSet(DOMAIN grants) /\ \A g \in DOMAIN grants : grants[g].qty \in Nat
  BY Rows DEF SeqInv, TablesFit, FiniteTables
<1>2. ASSUME terminations = {}
      PROVE  DashboardOutstanding(DOMAIN grants, DOMAIN requests, terminations)
               = OutstandingOptions
  <2> DEFINE S == DOMAIN grants
             all == [g \in S |-> grants[g].qty]
             left == [g \in S |-> OutstandingFrom(g)]
             gone == [g \in S |-> ExercisedFrom(g)]
  <2>1. /\ GrantSum(S) = Total(all, S) /\ OutstandingOptions = Total(left, S)
        /\ DashboardExercised(DOMAIN requests) = Total(gone, S)
    BY <1>1, QuantityTotal, OutstandingTotal, DashboardTotal DEF GrantSum
  <2>2. ASSUME NEW g \in S
        PROVE  /\ left[g] \in Nat /\ gone[g] \in Int /\ all[g] = left[g] + gone[g]
    BY <1>2, RemainingOf DEF OutstandingFrom, Terminated
  <2> HIDE DEF S, all, left, gone
  <2>3. \A g \in S : left[g] \in Int /\ gone[g] \in Int /\ all[g] = left[g] + gone[g]
    BY <2>2
  <2>4. Total(all, S) = Total(left, S) + Total(gone, S)
    BY <1>1, <2>3, TotalPlus DEF S
  <2>5. Total(left, S) \in Nat /\ Total(gone, S) \in Int
    <3>1. IsFiniteSet(S) /\ \A g \in S : left[g] \in Nat
      BY <1>1, <2>2 DEF S
    <3>2. \A g \in S : gone[g] \in Int
      BY <2>2
    <3> QED
      BY <3>1, <3>2, TotalInt, TotalNat
  <2>6. {t \in terminations : t.grant # None} = {}
    BY <1>2
  <2>7. DashboardOutstanding(S, DOMAIN requests, terminations)
          = NonNegative(Total(all, S) - Total(gone, S) - 0)
    BY <2>1, <2>6, NothingForfeited DEF DashboardOutstanding
  <2>8. Total(all, S) - Total(gone, S) - 0 = Total(left, S)
    BY <2>4, <2>5
  <2>9. NonNegative(Total(left, S)) = Total(left, S)
    BY <2>5, NonNegativeIs DEF NonNegative
  <2> QED
    BY <2>1, <2>7, <2>8, <2>9 DEF S
<1> QED
  BY <1>2, RemainingOf DEF PagesAgree

\* The dashboard, which sums the requests, and the page of a grant, which cuts
\* off at zero, agree with the cap table while the dashboard's queries return
\* all rows and nobody has left.
THEOREM SequentialPages ==
  ASSUME OneAtATime
  PROVE  Spec => []PagesAgree
BY PagesStep, SequentialInvariant, PTL

-----------------------------------------------------------------------------
(* The balance of a holder *)

Sent(L, p) == QuantitySum(L, {s \in DOMAIN L : L[s].from = p})
Received(L, p) == QuantitySum(L, {s \in DOMAIN L : L[s].to = p})

\* A row added to the ledger adds to what its sender sent and its receiver received.
LEMMA FlowAppend ==
  ASSUME NEW L, NEW M, IsFiniteSet(DOMAIN L), \A s \in DOMAIN L : L[s].qty \in Nat,
         NEW k, k \notin DOMAIN L, DOMAIN M = DOMAIN L \cup {k}, M[k].qty \in Nat,
         \A s \in DOMAIN L : M[s] = L[s], NEW p
  PROVE  /\ Sent(L, p) \in Nat /\ Received(L, p) \in Nat
         /\ Sent(M, p) = Sent(L, p) + (IF M[k].from = p THEN M[k].qty ELSE 0)
         /\ Received(M, p) = Received(L, p) + (IF M[k].to = p THEN M[k].qty ELSE 0)
<1>1. ASSUME NEW S \in SUBSET DOMAIN L
      PROVE  /\ QuantitySum(L, S) \in Nat /\ QuantitySum(M, S) = QuantitySum(L, S)
             /\ QuantitySum(M, S \cup {k}) = QuantitySum(L, S) + M[k].qty
  <2>1. /\ IsFiniteSet(S) /\ k \notin S /\ \A s \in S : L[s].qty \in Nat
        /\ \A s \in S : M[s].qty = L[s].qty
    BY FS_Subset
  <2>2. \A s \in S \cup {k} : M[s].qty \in Nat
    BY <2>1
  <2>3. QuantitySum(M, S) = QuantitySum(L, S) /\ QuantitySum(L, S) \in Nat
    BY <2>1, QuantitySame, QuantityNat
  <2>4. QuantitySum(M, S \cup {k}) = QuantitySum(M, S) + M[k].qty
    BY <2>1, <2>2, QuantityAdd
  <2> QED
    BY <2>3, <2>4
<1>2. /\ Sent(L, p) \in Nat
      /\ Sent(M, p) = Sent(L, p) + (IF M[k].from = p THEN M[k].qty ELSE 0)
  <2> DEFINE S == {s \in DOMAIN L : L[s].from = p}
             T == {s \in DOMAIN M : M[s].from = p}
  <2>1. S \in SUBSET DOMAIN L /\ T = IF M[k].from = p THEN S \cup {k} ELSE S
    OBVIOUS
  <2>2. Sent(L, p) = QuantitySum(L, S) /\ Sent(M, p) = QuantitySum(M, T)
    BY DEF Sent
  <2> HIDE DEF S, T
  <2> QED
    BY <1>1, <2>1, <2>2
<1>3. /\ Received(L, p) \in Nat
      /\ Received(M, p) = Received(L, p) + (IF M[k].to = p THEN M[k].qty ELSE 0)
  <2> DEFINE S == {s \in DOMAIN L : L[s].to = p}
             T == {s \in DOMAIN M : M[s].to = p}
  <2>1. S \in SUBSET DOMAIN L /\ T = IF M[k].to = p THEN S \cup {k} ELSE S
    OBVIOUS
  <2>2. Received(L, p) = QuantitySum(L, S) /\ Received(M, p) = QuantitySum(M, T)
    BY DEF Received
  <2> HIDE DEF S, T
  <2> QED
    BY <1>1, <2>1, <2>2
<1> QED
  BY <1>2, <1>3

\* What createTransaction knows of its sender, who is checked.
BalanceReady(j, out) ==
  /\ j.step \in EntrySteps => j.entry.from \in Persons \cup {None}
  /\ j.step = "received" => j.entry.from # None /\ out = Sent(ledger, j.entry.from)
  /\ j.step \in {"entrySequence", "insertEntry"} /\ j.entry.from # None =>
       Received(ledger, j.entry.from) - Sent(ledger, j.entry.from) >= j.entry.qty

Solvent == \A p \in Persons : Sent(ledger, p) <= Received(ledger, p)

HolderInv ==
  /\ Solvent
  /\ DOMAIN sent = Workers
  /\ \A w \in Workers : job[w].step \notin UpdateSteps /\ BalanceReady(job[w], sent[w])

OnlyCheckedTypes == ManualTypes \subseteq CheckedTypes

NoGrantEdited == "updateGrant" \notin Handlers

\* Only createTransaction goes to its steps, and only updateGrant to those that edit.
LEMMA HandlerSteps ==
  ASSUME IInv, NEW w \in Workers, ExerciseStep(w) \/ AdminStep(w)
  PROVE  /\ job'[w].step \in EntrySteps =>
              \/ \E type \in ManualTypes, from \in Persons \cup {None},
                    to \in Persons \cup {None}, q \in Quantities :
                   StartTransaction(w, ManualEntry(type, from, to, q))
              \/ CheckBalance(w) \/ ReadEntrySequence(w)
         /\ job'[w].step \in UpdateSteps =>
              "updateGrant" \in Handlers \/ job[w].step \in UpdateSteps
<1> USE DEF EntrySteps, UpdateSteps
<1>1. job \in [Workers -> Job] /\ job[w] \in Job
  BY DEF IInv, TypeOK
<1>2. ASSUME NEW j, job' = [job EXCEPT ![w] = j] PROVE job'[w] = j
  BY <1>1, <1>2
<1>3. Finish(w) => job'[w].step = "idle"
  <2>1. Finish(w) => job'[w] = NoJob
    BY <1>2 DEF Finish, Continue
  <2>2. NoJob.step = "idle"
    BY DEF NoJob
  <2> QED
    BY <2>1, <2>2
<1>4. ASSUME NEW s, NEW passes, Check(w, passes, [job[w] EXCEPT !.step = s])
      PROVE  job'[w].step \in {s, "idle"}
  <2>1. [job[w] EXCEPT !.step = s].step = s
    BY <1>1 DEF Job
  <2> QED
    BY <1>2, <1>4, <1>3, <2>1 DEF Check, Continue
<1>5. ASSUME NEW s, NEW n, NEW passes, Check(w, passes, [job[w] EXCEPT !.step = s, !.asOf = n])
      PROVE  job'[w].step \in {s, "idle"}
  <2>1. [job[w] EXCEPT !.step = s, !.asOf = n].step = s
    BY <1>1 DEF Job
  <2> QED
    BY <1>2, <1>5, <1>3, <2>1 DEF Check, Continue
<1>6. ASSUME NEW s, NEW n,
             \/ Continue(w, [job[w] EXCEPT !.step = s, !.seq = n])
             \/ Continue(w, [job[w] EXCEPT !.step = s, !.qty = n])
      PROVE  job'[w].step = s
  <2>1. /\ [job[w] EXCEPT !.step = s, !.seq = n].step = s
        /\ [job[w] EXCEPT !.step = s, !.qty = n].step = s
    BY <1>1 DEF Job
  <2> QED
    BY <1>2, <1>6, <2>1 DEF Continue
<1>7. ASSUME ExerciseStep(w) PROVE job'[w].step \notin EntrySteps \cup UpdateSteps
  <2>1. /\ \A g, at : StartTermination(w, g, at) => job'[w].step = "insertTermination"
        /\ \A g, q : StartExerciseRequest(w, g, q) => job'[w].step = "exerciseWindow"
        /\ \A r : StartCompletion(w, r) => job'[w].step = "completeWindow"
    BY <1>2 DEF StartTermination, StartExerciseRequest, StartCompletion, Begin, NoJob
  <2>2. /\ CheckExerciseWindow(w) => job'[w].step \in {"exerciseQuantity", "idle"}
        /\ CheckExercisable(w) => job'[w].step \in {"insertRequest", "idle"}
        /\ CheckCompletionWindow(w) => job'[w].step \in {"completeQuantity", "idle"}
        /\ CheckAvailable(w) => job'[w].step \in {"completeSequence", "idle"}
        /\ ReadCompletionSequence(w) => job'[w].step = "commitCompletion"
    <3>1. CheckExerciseWindow(w) => job'[w].step \in {"exerciseQuantity", "idle"}
      BY <1>5 DEF CheckExerciseWindow
    <3>2. CheckExercisable(w) => job'[w].step \in {"insertRequest", "idle"}
      BY <1>4 DEF CheckExercisable
    <3>3. CheckCompletionWindow(w) => job'[w].step \in {"completeQuantity", "idle"}
      BY <1>5 DEF CheckCompletionWindow
    <3>4. CheckAvailable(w) => job'[w].step \in {"completeSequence", "idle"}
      BY <1>4 DEF CheckAvailable
    <3>5. ReadCompletionSequence(w) => job'[w].step = "commitCompletion"
      BY <1>6 DEF ReadCompletionSequence
    <3> QED
      BY <3>1, <3>2, <3>3, <3>4, <3>5
  <2>3. \A r : StartApprove(w, r) \/ StartDecline(w, r) \/ StartCancel(w, r) =>
          job'[w].step \in {"approve", "decline", "cancel"}
    BY <1>2 DEF StartApprove, StartDecline, StartCancel, StartDecision, Begin, NoJob
  <2>4. InsertTermination(w) \/ InsertRequest(w) \/ Approve(w) \/ Decline(w) \/ Cancel(w)
          \/ CommitCompletion(w) => job'[w].step = "idle"
    BY <1>3 DEF InsertTermination, InsertRequest, Approve, Decline, Cancel, WriteDecision,
       CommitCompletion
  <2> QED
    BY <1>7, <2>1, <2>2, <2>3, <2>4 DEF ExerciseStep
<1>8. /\ \A p, q : CreatePlan(w, p, q) => job'[w].step = "idle"
      /\ \A S : UpdateCapTablePools(w, S) => job'[w].step = "idle"
  BY DEF CreatePlan, UpdateCapTablePools
<1>9. /\ \A p, q : StartUpdatePlan(w, p, q) => job'[w].step = "updatePlan"
      /\ \A row : StartCreateGrant(w, row) => job'[w].step = "grantPlan"
      /\ \A g : StartDeleteGrant(w, g) => job'[w].step = "commitDelete"
      /\ \A g, row : StartUpdateGrant(w, g, row) =>
           job'[w].step = "regrantPlan" /\ "updateGrant" \in Handlers
      /\ \A e : StartTransaction(w, e) => job'[w].step \in {"received", "entrySequence"}
  <2>1. ASSUME NEW e, StartTransaction(w, e)
        PROVE  job'[w].step \in {"received", "entrySequence"}
    <3>1. PICK s \in {"received", "entrySequence"} :
            job' = [job EXCEPT ![w] = [NoJob EXCEPT !.step = s, !.entry = e]]
      BY <2>1 DEF StartTransaction, Begin
    <3>2. job'[w] = [NoJob EXCEPT !.step = s, !.entry = e]
      BY <1>2, <3>1
    <3> QED
      BY <3>2 DEF NoJob
  <2> QED
    BY <1>2, <2>1 DEF StartUpdatePlan, StartCreateGrant, StartDeleteGrant, StartUpdateGrant,
       Begin, NoJob
<1>10. /\ ReadGrantPlan(w) => job'[w].step \in {"grantCapacity", "idle"}
       /\ ReadGrantSequence(w) => job'[w].step = "commitGrant"
       /\ ReadEntrySequence(w) => job'[w].step = "insertEntry"
  BY <1>3, <1>6 DEF ReadGrantPlan, ReadGrantSequence, ReadEntrySequence
<1>11. /\ CheckGrantCapacity(w) => job'[w].step \in {"grantSequence", "idle"}
       /\ CheckBalance(w) => job'[w].step \in {"entrySequence", "idle"}
  BY <1>4 DEF CheckGrantCapacity, CheckBalance
<1>12. /\ ReadUpdatePlan(w) =>
            job[w].step \in UpdateSteps /\ job'[w].step \in {"regrantCapacity", "idle"}
       /\ CheckUpdateCapacity(w) =>
            job[w].step \in UpdateSteps /\ job'[w].step \in {"commitRegrant", "idle"}
  BY <1>3, <1>4, <1>6 DEF ReadUpdatePlan, CheckUpdateCapacity, At
<1>13. UpdatePlan(w) \/ CommitGrant(w) \/ CommitUpdate(w) \/ CommitDelete(w) \/ InsertEntry(w)
         => job'[w].step = "idle"
  BY <1>3 DEF UpdatePlan, CommitGrant, CommitUpdate, CommitDelete, InsertEntry
<1> QED
  BY <1>7, <1>8, <1>9, <1>10, <1>11, <1>12, <1>13 DEF AdminStep

\* Rows come after those whose sender was checked, or cost their sender nothing.
LEMMA SolventAppend ==
  ASSUME IInv, Solvent, NEW s, SequenceFree(s), \E m \in {0} \cup DOMAIN ledger : s = m + 1,
         NEW e \in Entry, ledger' = Put(ledger, s, e),
         e.from \in Persons =>
           Received(ledger, e.from) - Sent(ledger, e.from) >= e.qty
  PROVE  Solvent'
<1>1. PICK n \in Nat :
        /\ DOMAIN ledger = 1..n /\ DOMAIN ledger' = 1..(n + 1)
        /\ ledger'[n + 1] = e
        /\ \A i \in 1..n : ledger'[i] = ledger[i]
  BY LedgerAppend
<1>2. /\ n + 1 \notin DOMAIN ledger /\ DOMAIN ledger' = DOMAIN ledger \cup {n + 1}
      /\ \A i \in DOMAIN ledger : ledger'[i] = ledger[i]
      /\ e.qty \in Nat
  <2>1. e.qty \in Nat
    BY ConstantsAssumption DEF Entry
  <2>2. n + 1 \notin 1..n /\ 1..(n + 1) = (1..n) \cup {n + 1}
    OBVIOUS
  <2> QED
    BY <1>1, <2>1, <2>2
<1>3. ASSUME NEW p \in Persons PROVE Sent(ledger', p) <= Received(ledger', p)
  <2>1. /\ Sent(ledger, p) \in Nat /\ Received(ledger, p) \in Nat
        /\ Sent(ledger', p) = Sent(ledger, p) + (IF e.from = p THEN e.qty ELSE 0)
        /\ Received(ledger', p) = Received(ledger, p) + (IF e.to = p THEN e.qty ELSE 0)
    BY <1>1, <1>2, Rows, FlowAppend
  <2>2. Sent(ledger, p) <= Received(ledger, p)
    BY DEF Solvent
  <2> QED
    BY <1>2, <2>1, <2>2
<1> QED
  BY <1>3 DEF Solvent

\* Deleting a grant unlinks its rows and leaves what they say was moved.
LEMMA SolventUnlinked ==
  ASSUME IInv, Solvent, NEW g, ledger' = UnlinkedLedger(g)
  PROVE  Solvent'
<1>1. /\ DOMAIN ledger' = DOMAIN ledger
      /\ \A s \in DOMAIN ledger :
           /\ ledger'[s].from = ledger[s].from /\ ledger'[s].to = ledger[s].to
           /\ ledger'[s].qty = ledger[s].qty
  <2>1. DOMAIN ledger' = DOMAIN ledger
    BY DEF UnlinkedLedger
  <2>2. ASSUME NEW s \in DOMAIN ledger
        PROVE  /\ ledger'[s].from = ledger[s].from /\ ledger'[s].to = ledger[s].to
               /\ ledger'[s].qty = ledger[s].qty
    <3>1. ledger'[s] = Unlinked(ledger[s], g) /\ ledger[s] \in Entry
      BY DEF IInv, TypeOK, UnlinkedLedger
    <3> QED
      BY <3>1 DEF Unlinked, Entry
  <2> QED
    BY <2>1, <2>2
<1>2. ASSUME NEW p
      PROVE  Sent(ledger', p) = Sent(ledger, p) /\ Received(ledger', p) = Received(ledger, p)
  <2> DEFINE S == {s \in DOMAIN ledger : ledger[s].from = p}
             R == {s \in DOMAIN ledger : ledger[s].to = p}
  <2>1. /\ S = {s \in DOMAIN ledger' : ledger'[s].from = p}
        /\ R = {s \in DOMAIN ledger' : ledger'[s].to = p}
    BY <1>1
  <2>2. /\ IsFiniteSet(S) /\ \A s \in S : ledger'[s].qty = ledger[s].qty
        /\ IsFiniteSet(R) /\ \A s \in R : ledger'[s].qty = ledger[s].qty
    BY <1>1, Rows, FS_Subset
  <2> HIDE DEF S, R
  <2>3. QuantitySum(ledger', S) = QuantitySum(ledger, S)
    BY <2>2, QuantitySame
  <2>4. QuantitySum(ledger', R) = QuantitySum(ledger, R)
    BY <2>2, QuantitySame
  <2> QED
    BY <2>1, <2>3, <2>4 DEF Sent, Received, S, R
<1> QED
  BY <1>2 DEF Solvent

\* The ledger of a step: rows whose sender is nobody, or has been checked.
LEMMA SolventStep ==
  ASSUME IInv, HolderInv, NEW w \in Workers, ExerciseStep(w) \/ AdminStep(w)
  PROVE  Solvent'
<1>1. Solvent /\ job[w].step \notin UpdateSteps /\ BalanceReady(job[w], sent[w])
  BY DEF HolderInv
<1>2. CASE UNCHANGED ledger
  BY <1>1, <1>2 DEF Solvent
<1>3. CASE CommitCompletion(w)
  <2>1. /\ job[w].request \in DOMAIN requests
        /\ \E m \in {0} \cup DOMAIN ledger : job[w].seq = m + 1
    BY <1>3, SoundWorker DEF CommitCompletion, At, Sound, CompletionSteps
  <2>2. ExerciseEntry(job[w].request) \in Entry /\ ExerciseEntry(job[w].request).from = None
    BY <2>1 DEF IInv, TypeOK, ExerciseEntry, Entry, RequestRow, TransactionType
  <2>3. ExerciseEntry(job[w].request).from \notin Persons
    BY <2>2, ConstantsAssumption
  <2> QED
    BY <1>1, <1>2, <1>3, <2>1, <2>2, <2>3, SolventAppend
       DEF CommitCompletion, CompletionRolledBack, CompletionWrites
<1>4. CASE CommitGrant(w)
  <2>1. job[w].row \in GrantRow /\ \E m \in {0} \cup DOMAIN ledger : job[w].seq = m + 1
    BY <1>4, SoundWorker DEF CommitGrant, At, Sound, Remembers, GrantSteps
  <2>2. \A g \in Grants : GrantEntry(g, job[w].row) \in Entry
    BY <2>1 DEF GrantEntry, Entry, GrantRow, TransactionType
  <2>3. \A g \in Grants : GrantEntry(g, job[w].row).from \notin Persons
    BY ConstantsAssumption DEF GrantEntry
  <2> QED
    BY <1>1, <1>2, <1>4, <2>1, <2>2, <2>3, SolventAppend DEF CommitGrant
<1>5. ~CommitUpdate(w)
  BY <1>1 DEF CommitUpdate, At, UpdateSteps
<1>6. CASE CommitDelete(w)
  BY <1>1, <1>2, <1>6, SolventUnlinked DEF CommitDelete
<1>7. CASE InsertEntry(w)
  <2>1. /\ job[w].entry \in Entry /\ \E m \in {0} \cup DOMAIN ledger : job[w].seq = m + 1
    BY <1>7, SoundWorker DEF InsertEntry, At, Sound, Remembers, EntrySteps
  <2>2. job[w].entry.from \in Persons =>
          Received(ledger, job[w].entry.from) - Sent(ledger, job[w].entry.from)
            >= job[w].entry.qty
    BY <1>1, <1>7, ConstantsAssumption DEF InsertEntry, At, BalanceReady
  <2> QED
    BY <1>1, <1>2, <1>7, <2>1, <2>2, SolventAppend DEF InsertEntry
<1> QED
  BY <1>2, <1>3, <1>4, <1>5, <1>6, <1>7, NoLedgerWrite

\* createTransaction alone has a sent of its own.
LEMMA SentKept ==
  ASSUME NEW w \in Workers, ExerciseStep(w) \/ AdminStep(w)
  PROVE  DOMAIN sent' = DOMAIN sent
<1>1. ASSUME ExerciseStep(w) PROVE UNCHANGED sent
  BY <1>1 DEF ExerciseStep, StartTermination, InsertTermination, StartExerciseRequest,
     CheckExerciseWindow, CheckExercisable, InsertRequest, StartApprove, StartDecline,
     StartCancel, StartDecision, Approve, Decline, Cancel, WriteDecision, StartCompletion,
     CheckCompletionWindow, CheckAvailable, ReadCompletionSequence, CommitCompletion,
     OtherThanRequests
<1>2. ASSUME AdminStep(w) PROVE DOMAIN sent' = DOMAIN sent
  <2>1. /\ \A p, q : CreatePlan(w, p, q) \/ StartUpdatePlan(w, p, q) => UNCHANGED sent
        /\ UpdatePlan(w) => UNCHANGED sent
        /\ \A S : UpdateCapTablePools(w, S) => UNCHANGED sent
    BY DEF CreatePlan, StartUpdatePlan, UpdatePlan, UpdateCapTablePools
  <2>2. /\ \A row : StartCreateGrant(w, row) => UNCHANGED sent
        /\ ReadGrantPlan(w) \/ CheckGrantCapacity(w) \/ ReadGrantSequence(w) \/ CommitGrant(w)
             => UNCHANGED sent
    BY DEF StartCreateGrant, ReadGrantPlan, CheckGrantCapacity, ReadGrantSequence, CommitGrant
  <2>3. /\ \A g, row : StartUpdateGrant(w, g, row) => UNCHANGED sent
        /\ ReadUpdatePlan(w) \/ CheckUpdateCapacity(w) \/ CommitUpdate(w) => UNCHANGED sent
        /\ \A g : StartDeleteGrant(w, g) => UNCHANGED sent
        /\ CommitDelete(w) => UNCHANGED sent
    BY DEF StartUpdateGrant, ReadUpdatePlan, CheckUpdateCapacity, CommitUpdate,
           StartDeleteGrant, CommitDelete
  <2>4. /\ \A e : StartTransaction(w, e) => DOMAIN sent' = DOMAIN sent
        /\ CheckBalance(w) => DOMAIN sent' = DOMAIN sent
        /\ ReadEntrySequence(w) \/ InsertEntry(w) => UNCHANGED sent
    BY DEF StartTransaction, CheckBalance, ReadEntrySequence, InsertEntry
  <2> QED
    BY <1>2, <2>1, <2>2, <2>3, <2>4 DEF AdminStep
<1> QED
  BY <1>1, <1>2

\* What createTransaction read of its sender is what the ledger says when it inserts.
LEMMA BalanceStep ==
  ASSUME OneAtATime, OnlyCheckedTypes, NoGrantEdited, IInv, HolderInv,
         NEW w \in Workers, ExerciseStep(w) \/ AdminStep(w)
  PROVE  job'[w].step \notin UpdateSteps /\ BalanceReady(job[w], sent[w])'
<1>1. /\ job[w].step \notin UpdateSteps /\ BalanceReady(job[w], sent[w])
      /\ job \in [Workers -> Job] /\ job[w] \in Job /\ DOMAIN sent = Workers
  BY DEF HolderInv, IInv, TypeOK
<1>2. CASE job'[w].step \notin EntrySteps \cup UpdateSteps
  BY <1>2 DEF BalanceReady, EntrySteps
<1>3. ASSUME NEW type \in ManualTypes, NEW from \in Persons \cup {None},
             NEW to \in Persons \cup {None}, NEW q \in Quantities,
             StartTransaction(w, ManualEntry(type, from, to, q))
      PROVE  job'[w].step \notin UpdateSteps /\ BalanceReady(job[w], sent[w])'
  <2> DEFINE e == ManualEntry(type, from, to, q)
             step == IF from # None THEN "received" ELSE "entrySequence"
             j == [NoJob EXCEPT !.step = step, !.entry = e]
  <2>1. e.from = from /\ e.type \in CheckedTypes
    BY DEF ManualEntry, OnlyCheckedTypes
  <2> HIDE DEF e
  <2>2. job' = [job EXCEPT ![w] = j] /\ (from # None => sent' = [sent EXCEPT ![w] = SentBy(from)])
        /\ UNCHANGED ledger
    BY <1>3, <2>1 DEF StartTransaction, Begin, tables, e
  <2>3. job'[w] = j
    BY <1>1, <2>2
  <2>4. j.step = step /\ j.entry = e
    BY DEF NoJob
  <2>5. from # None => sent'[w] = Sent(ledger, from)
    BY <1>1, <2>2 DEF SentBy, EntrySum, Sent
  <2> HIDE DEF j
  <2> QED
    BY <2>1, <2>2, <2>3, <2>4, <2>5 DEF BalanceReady, EntrySteps, UpdateSteps
<1>4. CASE CheckBalance(w)
  <2> DEFINE j == [job[w] EXCEPT !.step = "entrySequence"]
  <2>1. j.step = "entrySequence" /\ j.entry = job[w].entry
    BY <1>1 DEF Job
  <2>2. UNCHANGED ledger
    BY <1>4 DEF CheckBalance, tables
  <2>3. CASE job' = [job EXCEPT ![w] = NoJob]
    <3>1. job'[w] = NoJob
      BY <1>1, <2>3
    <3> QED
      BY <3>1 DEF NoJob, BalanceReady, EntrySteps, UpdateSteps
  <2>4. CASE /\ job' = [job EXCEPT ![w] = j]
             /\ HasBalance(job[w].entry.from, sent[w], job[w].entry.qty)
    <3>1. job'[w] = j
      BY <1>1, <2>4
    <3>2. /\ Received(ledger, job[w].entry.from) - Sent(ledger, job[w].entry.from)
               >= job[w].entry.qty
          /\ job[w].entry.from \in Persons \cup {None}
      BY <1>1, <1>4, <2>4 DEF CheckBalance, At, HasBalance, BalanceReady, ReceivedBy, EntrySum,
         Received, EntrySteps
    <3> HIDE DEF j
    <3> QED
      BY <2>1, <2>2, <3>1, <3>2 DEF BalanceReady, EntrySteps, UpdateSteps
  <2> QED
    BY <1>4, <2>3, <2>4 DEF CheckBalance, Check, Continue, Finish
<1>5. CASE ReadEntrySequence(w)
  <2> DEFINE j == [job[w] EXCEPT !.step = "insertEntry", !.seq = NextSequence]
  <2>1. j.step = "insertEntry" /\ j.entry = job[w].entry
    BY <1>1 DEF Job
  <2>2. job' = [job EXCEPT ![w] = j] /\ job[w].step = "entrySequence" /\ UNCHANGED ledger
    BY <1>5 DEF ReadEntrySequence, Continue, At, tables
  <2>3. job'[w] = j
    BY <1>1, <2>2
  <2> HIDE DEF j
  <2> QED
    BY <1>1, <2>1, <2>2, <2>3 DEF BalanceReady, EntrySteps, UpdateSteps
<1> QED
  <2>1. job'[w].step \notin UpdateSteps
    BY <1>1, HandlerSteps DEF NoGrantEdited
  <2> QED
    BY <1>2, <1>3, <1>4, <1>5, <2>1, HandlerSteps

\* An empty ledger is solvent.
LEMMA HolderInit == Init => HolderInv
<1> SUFFICES ASSUME Init PROVE HolderInv
  OBVIOUS
<1>1. Solvent
  <2> SUFFICES ASSUME NEW p \in Persons PROVE Sent(ledger, p) <= Received(ledger, p)
    BY DEF Solvent
  <2>1. DOMAIN ledger = {}
    BY DEF Init
  <2>2. /\ {s \in DOMAIN ledger : ledger[s].from = p} = {}
        /\ {s \in DOMAIN ledger : ledger[s].to = p} = {}
    BY <2>1
  <2>3. Sent(ledger, p) = 0 /\ Received(ledger, p) = 0
    BY <2>2, QuantityEmpty DEF Sent, Received
  <2> QED
    BY <2>3
<1> QED
  BY <1>1 DEF Init, HolderInv, BalanceReady, EntrySteps, UpdateSteps, NoJob

\* Every step keeps the holders solvent.
LEMMA HolderNext ==
  ASSUME OneAtATime, OnlyCheckedTypes, NoGrantEdited
  PROVE  IInv /\ HolderInv /\ [Next]_vars => HolderInv'
<1> SUFFICES ASSUME IInv, HolderInv, [Next]_vars PROVE HolderInv'
  OBVIOUS
<1>1. ASSUME NEW w \in Workers, ExerciseStep(w) \/ AdminStep(w) PROVE HolderInv'
  <2>1. Solvent' /\ DOMAIN sent' = Workers
    BY <1>1, SolventStep, SentKept DEF HolderInv
  <2>2. job'[w].step \notin UpdateSteps /\ BalanceReady(job[w], sent[w])'
    BY <1>1, BalanceStep
  <2>3. \A v \in Workers : v = w
    BY DEF OneAtATime
  <2> QED
    BY <2>1, <2>2, <2>3 DEF HolderInv
<1>2. CASE Tick \/ UNCHANGED vars
  BY <1>2 DEF Tick, vars, tables, HolderInv, Solvent, BalanceReady
<1> QED
  BY <1>1, <1>2 DEF Next, Quiescent

\* One handler at a time, and while every type of entry made by hand is one
\* whose sender createTransaction checks and no grant is edited, no one has sent
\* more shares than they received: the balance is that of the whole ledger.
THEOREM SequentialHolders ==
  ASSUME OneAtATime, OnlyCheckedTypes, NoGrantEdited
  PROVE  Spec => []HoldersSolvent
<1>1. Init => IInv /\ HolderInv
  BY InitInv, HolderInit
<1>2. IInv /\ HolderInv /\ [Next]_vars => (IInv /\ HolderInv)'
  BY NextInv, HolderNext
<1>3. HolderInv => HoldersSolvent
  BY DEF HolderInv, Solvent, Sent, Received, HoldersSolvent, SentBy, ReceivedBy, EntrySum
<1> QED
  BY <1>1, <1>2, <1>3, PTL DEF Spec

-----------------------------------------------------------------------------
(* The cap table *)

NoManualEntries == "createTransaction" \notin Handlers

\* The ledger holds GRANT rows and exercises, which come from no one.
GrantsAndExercises ==
  \A s \in DOMAIN ledger :
    /\ ledger[s].from = None
    /\ ledger[s].request = None => ledger[s].type = "GRANT"

IssueInv ==
  /\ GrantsAndExercises
  /\ \A w \in Workers : job[w].step \notin EntrySteps

\* A row from no one, a GRANT unless it answers a request, may be appended.
LEMMA IssueAppend ==
  ASSUME IInv, GrantsAndExercises, NEW s, SequenceFree(s),
         \E m \in {0} \cup DOMAIN ledger : s = m + 1,
         NEW e \in Entry, ledger' = Put(ledger, s, e),
         e.from = None, e.request = None => e.type = "GRANT"
  PROVE  GrantsAndExercises'
<1>1. PICK n \in Nat :
        /\ DOMAIN ledger = 1..n /\ DOMAIN ledger' = 1..(n + 1)
        /\ ledger'[n + 1] = e
        /\ \A i \in 1..n : ledger'[i] = ledger[i]
  BY LedgerAppend
<1>2. 1..(n + 1) = (1..n) \cup {n + 1}
  OBVIOUS
<1> QED
  BY <1>1, <1>2 DEF GrantsAndExercises

\* No handler but createTransaction writes any other row.
LEMMA IssueStep ==
  ASSUME IInv, IssueInv, NEW w \in Workers, ExerciseStep(w) \/ AdminStep(w)
  PROVE  GrantsAndExercises'
<1>1. GrantsAndExercises /\ job[w].step \notin EntrySteps
  BY DEF IssueInv
<1>2. CASE UNCHANGED ledger
  BY <1>1, <1>2 DEF GrantsAndExercises
<1>3. CASE CommitCompletion(w)
  <2> DEFINE e == ExerciseEntry(job[w].request)
  <2>1. /\ job[w].request \in DOMAIN requests
        /\ \E m \in {0} \cup DOMAIN ledger : job[w].seq = m + 1
    BY <1>3, SoundWorker DEF CommitCompletion, At, Sound, CompletionSteps
  <2>2. e \in Entry /\ e.from = None /\ e.request # None
    BY <2>1, ConstantsAssumption
       DEF IInv, TypeOK, ExerciseEntry, Entry, RequestRow, TransactionType
  <2> QED
    BY <1>1, <1>2, <1>3, <2>1, <2>2, IssueAppend
       DEF CommitCompletion, CompletionRolledBack, CompletionWrites
<1>4. CASE CommitGrant(w)
  <2>1. job[w].row \in GrantRow /\ \E m \in {0} \cup DOMAIN ledger : job[w].seq = m + 1
    BY <1>4, SoundWorker DEF CommitGrant, At, Sound, Remembers, GrantSteps
  <2>2. ASSUME NEW g \in Grants
        PROVE  LET e == GrantEntry(g, job[w].row) IN
               e \in Entry /\ e.from = None /\ e.type = "GRANT"
    BY <2>1 DEF GrantEntry, Entry, GrantRow, TransactionType
  <2> QED
    BY <1>1, <1>2, <1>4, <2>1, <2>2, IssueAppend DEF CommitGrant
<1>5. CASE CommitUpdate(w) \/ CommitDelete(w)
  <2>1. DOMAIN ledger' = DOMAIN ledger
    BY <1>2, <1>5 DEF CommitUpdate, CommitDelete, UnlinkedLedger
  <2>2. ASSUME NEW s \in DOMAIN ledger
        PROVE  /\ ledger'[s].from = ledger[s].from /\ ledger'[s].type = ledger[s].type
               /\ ledger'[s].request = ledger[s].request
    <3>1. ledger[s] \in Entry
      BY DEF IInv, TypeOK
    <3>2. \/ ledger'[s] = ledger[s]
          \/ ledger'[s] = Regranted(ledger[s], job[w].grant, job[w].row)
          \/ ledger'[s] = Unlinked(ledger[s], job[w].grant)
      BY <1>2, <1>5 DEF CommitUpdate, CommitDelete, UnlinkedLedger
    <3> QED
      BY <3>1, <3>2 DEF Regranted, Unlinked, Entry
  <2> QED
    BY <1>1, <2>1, <2>2 DEF GrantsAndExercises
<1>6. ~InsertEntry(w)
  BY <1>1 DEF InsertEntry, At, EntrySteps
<1> QED
  BY <1>2, <1>3, <1>4, <1>5, <1>6, NoLedgerWrite

\* Without createTransaction every row is a GRANT or an exercise.
LEMMA IssueNext ==
  ASSUME OneAtATime, NoManualEntries
  PROVE  IInv /\ IssueInv /\ [Next]_vars => IssueInv'
<1> SUFFICES ASSUME IInv, IssueInv, [Next]_vars PROVE IssueInv'
  OBVIOUS
<1>1. ASSUME NEW w \in Workers, ExerciseStep(w) \/ AdminStep(w) PROVE IssueInv'
  <2>1. \A e : ~StartTransaction(w, e)
    BY DEF StartTransaction, Begin, NoManualEntries
  <2>2. ~CheckBalance(w) /\ ~ReadEntrySequence(w)
    BY DEF CheckBalance, ReadEntrySequence, At, IssueInv, EntrySteps
  <2>3. job'[w].step \notin EntrySteps
    BY <1>1, <2>1, <2>2, HandlerSteps
  <2>4. \A v \in Workers : v = w
    BY DEF OneAtATime
  <2> QED
    BY <1>1, <2>3, <2>4, IssueStep DEF IssueInv
<1>2. CASE Tick \/ UNCHANGED vars
  BY <1>2 DEF Tick, vars, tables, IssueInv, GrantsAndExercises
<1> QED
  BY <1>1, <1>2 DEF Next, Quiescent

\* The sums of the cap table, as totals of functions.
LEMMA IssuedTotal ==
  ASSUME IsFiniteSet(Persons \X ShareTypes), NEW rows
  PROVE  CommonIssuedShares(rows) =
           Total([x \in Persons \X ShareTypes |-> NonNegative(Position(rows, x[1], x[2]))],
                 Persons \X ShareTypes)
<1> DEFINE S == Persons \X ShareTypes
           f == [x \in S |-> NonNegative(Position(rows, x[1], x[2]))]
           FoldAll(F) ==
             F = [s \in SUBSET S |->
                    IF s = {} THEN 0
                    ELSE NonNegative(Position(rows, Pick(s)[1], Pick(s)[2])) + F[s \ {Pick(s)}]]
           iter == CHOOSE F : FoldAll(F)
<1>1. \A s \in SUBSET S : s # {} => f[Pick(s)] = NonNegative(Position(rows, Pick(s)[1], Pick(s)[2]))
  BY PickIn
<1>2. \A F : FoldAll(F) <=> FoldOf(F, f, S)
  BY <1>1 DEF FoldOf
<1>3. FoldOf(iter, f, S)
  <2>1. \E F : FoldAll(F)
    BY <1>2, FoldExists
  <2> QED
    BY <1>2, <2>1
<1>4. CommonIssuedShares(rows) = iter[S]
  BY DEF CommonIssuedShares, MapThenSumSet, MapThenFoldSet, Pick
<1>5. PICK F : FoldOf(F, f, S) /\ Total(f, S) = F[S]
  BY TotalFolds
<1> QED
  BY <1>3, <1>4, <1>5, FoldUnique

\* The same of the shares that terminations returned.
LEMMA ReturnedTotal ==
  ASSUME IsFiniteSet(DOMAIN grants)
  PROVE  ReturnedShares = Total([g \in DOMAIN grants |-> ReturnedFrom(g)], DOMAIN grants)
<1> DEFINE S == DOMAIN grants
           f == [g \in S |-> ReturnedFrom(g)]
           FoldAll(F) ==
             F = [s \in SUBSET S |-> IF s = {} THEN 0 ELSE ReturnedFrom(Pick(s)) + F[s \ {Pick(s)}]]
           iter == CHOOSE F : FoldAll(F)
<1>1. \A s \in SUBSET S : s # {} => f[Pick(s)] = ReturnedFrom(Pick(s))
  BY PickIn
<1>2. \A F : FoldAll(F) <=> FoldOf(F, f, S)
  BY <1>1 DEF FoldOf
<1>3. FoldOf(iter, f, S)
  <2>1. \E F : FoldAll(F)
    BY <1>2, FoldExists
  <2> QED
    BY <1>2, <2>1
<1>4. ReturnedShares = iter[S]
  BY DEF ReturnedShares, MapThenSumSet, MapThenFoldSet, Pick
<1>5. PICK F : FoldOf(F, f, S) /\ Total(f, S) = F[S]
  BY TotalFolds
<1> QED
  BY <1>3, <1>4, <1>5, FoldUnique

\* There are finitely many share types.
LEMMA ShareTypesFinite == IsFiniteSet(ShareTypes)
<1> DEFINE T == {"COMMON_EXERCISED"} \cup {"COMMON_SAFE"} \cup {"COMMON_FOUNDER"}
                  \cup {"COMMON_OTHER"}
<1>1. /\ IsFiniteSet({"COMMON_EXERCISED"}) /\ IsFiniteSet({"COMMON_SAFE"})
      /\ IsFiniteSet({"COMMON_FOUNDER"}) /\ IsFiniteSet({"COMMON_OTHER"})
  <2>1. \A x : IsFiniteSet({x})
    BY FS_Singleton
  <2> QED
    BY <2>1
<1>2. IsFiniteSet({"COMMON_EXERCISED"} \cup {"COMMON_SAFE"})
  BY <1>1, FS_Union
<1>3. IsFiniteSet({"COMMON_EXERCISED"} \cup {"COMMON_SAFE"} \cup {"COMMON_FOUNDER"})
  BY <1>1, <1>2, FS_Union
<1>4. IsFiniteSet(T)
  BY <1>1, <1>3, FS_Union
<1>5. ShareTypes \subseteq T
  BY DEF ShareTypes, InstrumentType
<1> QED
  BY <1>4, <1>5, FS_Subset

\* The rows that a completion wrote, and what they issue.
ExerciseRows == {s \in DOMAIN ledger : ledger[s].request # None}
Issued == [s \in DOMAIN ledger |-> ledger[s].qty]

\* What a set of exercise rows issues is a total of naturals.
LEMMA IssuedRows ==
  ASSUME IInv
  PROVE  /\ IsFiniteSet(ExerciseRows) /\ \A s \in ExerciseRows : Issued[s] \in Nat
         /\ \A S \in SUBSET ExerciseRows : EntrySum(S) = Total(Issued, S)
<1>1. IsFiniteSet(ExerciseRows) /\ \A s \in ExerciseRows : Issued[s] \in Nat
  BY Rows, FS_Subset DEF ExerciseRows, Issued
<1>2. ASSUME NEW S \in SUBSET ExerciseRows PROVE EntrySum(S) = Total(Issued, S)
  <2> DEFINE f == [s \in S |-> ledger[s].qty]
  <2>1. IsFiniteSet(S) /\ \A s \in S : f[s] = Issued[s]
    BY <1>1, FS_Subset DEF ExerciseRows, Issued
  <2>2. QuantitySum(ledger, S) = Total(f, S)
    BY <2>1, QuantityTotal
  <2> HIDE DEF f
  <2>3. Total(f, S) = Total(Issued, S)
    BY <2>1, TotalSame
  <2> QED
    BY <2>2, <2>3 DEF EntrySum
<1> QED
  BY <1>1, <1>2

\* Positions are never negative, and are what the exercises among the rows read
\* issued to each holder.
LEMMA IssuedIsExercised ==
  ASSUME IInv, GrantsAndExercises, IsFiniteSet(Persons), NEW rows \in SUBSET DOMAIN ledger
  PROVE  CommonIssuedShares(rows) = Total(Issued, ExerciseRows \cap rows)
<1> DEFINE R == ExerciseRows \cap rows
           Y == Persons \X ShareTypes
           h == [x \in Y |-> NonNegative(Position(rows, x[1], x[2]))]
           key == [s \in R |-> <<ledger[s].to, InstrumentType(ledger[s].type)>>]
<1>1. IsFiniteSet(Y)
  BY ShareTypesFinite, FS_Product
<1>2. CommonIssuedShares(rows) = Total(h, Y)
  BY <1>1, IssuedTotal
<1>3. ASSUME NEW s \in R PROVE key[s] \in Y
  <2>1. ledger[s].request \in DOMAIN requests /\ ledger[s].to = requests[ledger[s].request].person
    BY ExerciseRow DEF ExerciseRows
  <2>2. ledger[s].to \in Persons /\ ledger[s].type \in TransactionType
    BY <2>1 DEF IInv, TypeOK, RequestRow, Entry, ExerciseRows
  <2> QED
    BY <2>2 DEF ShareTypes
<1>4. ASSUME NEW x \in Y PROVE h[x] = Total(Issued, {s \in R : key[s] = x})
  <2> DEFINE to == {s \in PositionRows(rows, x[2]) : ledger[s].to = x[1]}
             from == {s \in PositionRows(rows, x[2]) : ledger[s].from = x[1]}
             K == {s \in R : key[s] = x}
  <2>1. x[1] \in Persons /\ x = <<x[1], x[2]>>
    OBVIOUS
  <2>2. \A s \in DOMAIN ledger : ledger[s].type # "GRANT" <=> s \in ExerciseRows
    BY ExerciseRow DEF GrantsAndExercises, ExerciseRows
  <2>3. to = K
    BY <2>1, <2>2 DEF PositionRows, ExerciseRows
  <2>4. from = {}
    BY <2>1, ConstantsAssumption DEF PositionRows, GrantsAndExercises
  <2>5. Position(rows, x[1], x[2]) = EntrySum(to) - EntrySum(from)
    BY DEF Position
  <2> HIDE DEF to, from, K, key
  <2>6. EntrySum(from) = 0
    BY <2>4, QuantityEmpty DEF EntrySum
  <2>7. EntrySum(to) = Total(Issued, K) /\ IsFiniteSet(K) /\ \A s \in K : Issued[s] \in Nat
    BY <2>3, IssuedRows, FS_Subset DEF K
  <2>8. Total(Issued, K) \in Nat
    BY <2>7, TotalNat
  <2>9. Position(rows, x[1], x[2]) = Total(Issued, K)
    BY <2>5, <2>6, <2>7, <2>8
  <2>10. NonNegative(Total(Issued, K)) = Total(Issued, K)
    BY <2>8, NonNegativeIs DEF NonNegative
  <2> QED
    BY <2>9, <2>10 DEF K
<1> HIDE DEF Y, h, key, R
<1>5. IsFiniteSet(R) /\ \A s \in R : Issued[s] \in Int
  BY IssuedRows, FS_Subset DEF R
<1>6. Total(h, Y) = Total(Issued, R)
  <2>1. \A s \in R : Issued[s] \in Int
    BY <1>5
  <2>2. \A s \in R : key[s] \in Y
    BY <1>3
  <2> DEFINE K == [x \in Y |-> {s \in R : key[s] = x}]
  <2>3. \A x \in Y : K[x] = {s \in R : key[s] = x}
    OBVIOUS
  <2>4. \A x \in Y : h[x] = Total(Issued, K[x])
    BY <1>4
  <2>5. IsFiniteSet(R)
    BY <1>5
  <2> HIDE DEF K
  <2> QED
    BY <1>1, <2>1, <2>2, <2>3, <2>4, <2>5, TotalByClass
<1> QED
  BY <1>2, <1>6 DEF R

\* Every exercise is of a grant that exists.
LEMMA ExercisedIsExercised ==
  ASSUME IInv, SeqInv
  PROVE  Total([g \in DOMAIN grants |-> ExercisedFrom(g)], DOMAIN grants)
           = Total(Issued, ExerciseRows)
<1> DEFINE S == DOMAIN grants
           h == [g \in S |-> ExercisedFrom(g)]
           key == [s \in ExerciseRows |-> ledger[s].grant]
<1>1. IsFiniteSet(S)
  BY DEF SeqInv, TablesFit, FiniteTables
<1>2. \A s \in ExerciseRows : key[s] \in S
  BY ExerciseRow DEF ExerciseRows
<1>3. ASSUME NEW g \in S PROVE h[g] = Total(Issued, {s \in ExerciseRows : key[s] = g})
  <2> DEFINE K == {s \in ExerciseRows : key[s] = g}
  <2>1. h[g] = Exercised(ledger, g)
    BY SumsAreNamed DEF SeqInv, TablesFit, ExercisesVested
  <2>2. Exercises(ledger, g) = K
    BY DEF Exercises, ExerciseRows
  <2> HIDE DEF K
  <2>3. EntrySum(K) = Total(Issued, K)
    BY IssuedRows DEF K
  <2> QED
    BY <2>1, <2>2, <2>3 DEF Exercised, EntrySum, K
<1> HIDE DEF S, h, key
<1>4. IsFiniteSet(ExerciseRows) /\ \A s \in ExerciseRows : Issued[s] \in Int
  BY IssuedRows
<1>5. Total(h, S) = Total(Issued, ExerciseRows)
  <2>1. \A s \in ExerciseRows : Issued[s] \in Int
    BY <1>4
  <2> DEFINE K == [g \in S |-> {s \in ExerciseRows : key[s] = g}]
  <2>2. \A g \in S : K[g] = {s \in ExerciseRows : key[s] = g}
    OBVIOUS
  <2>3. \A g \in S : h[g] = Total(Issued, K[g])
    BY <1>3
  <2>4. IsFiniteSet(ExerciseRows)
    BY <1>4
  <2> HIDE DEF K
  <2> QED
    BY <1>1, <1>2, <2>1, <2>2, <2>3, <2>4, TotalByClass
<1> QED
  BY <1>5 DEF S, h

\* A ledger within the limit is read whole: every exercise is among the rows.
LEMMA ShortLedgerIsRead ==
  ASSUME IInv, Cardinality(DOMAIN ledger) <= CapTableTake, NEW rows \in CapTableReads
  PROVE  ExerciseRows \cap rows = ExerciseRows
<1> DEFINE L == {s \in DOMAIN ledger : ledger[s].to # None \/ ledger[s].from # None}
<1>1. /\ IsFiniteSet(L) /\ Cardinality(L) \in Nat /\ Cardinality(DOMAIN ledger) \in Nat
      /\ Cardinality(L) <= Cardinality(DOMAIN ledger) /\ CapTableTake \in Nat
  BY Rows, FS_Subset, FS_CardinalityType, TakeAssumption
<1>2. rows \in SUBSET L /\ Cardinality(rows) = Min({CapTableTake, Cardinality(L)})
  BY DEF CapTableReads, FindMany
<1>3. ExerciseRows \subseteq L
  <2>1. ASSUME NEW s \in ExerciseRows PROVE ledger[s].to # None
    <3>1. ledger[s].request \in DOMAIN requests /\ ledger[s].to = requests[ledger[s].request].person
      BY ExerciseRow DEF ExerciseRows
    <3> QED
      BY <3>1, ConstantsAssumption DEF IInv, TypeOK, RequestRow
  <2> QED
    BY <2>1 DEF ExerciseRows
<1> HIDE DEF L
<1>4. Cardinality(rows) = Cardinality(L)
  BY <1>1, <1>2, MinOfTwo
<1>5. L = rows
  BY <1>1, <1>2, <1>4, FS_Subset
<1> QED
  BY <1>3, <1>5

\* The four totals of the cap table balance in a store that fits.
LEMMA CapTableStep ==
  ASSUME IsFiniteSet(Persons)
  PROVE  IInv /\ SeqInv /\ IssueInv => CapTableConserves
<1> SUFFICES ASSUME IInv, SeqInv, IssueInv PROVE CapTableConserves
  OBVIOUS
<1> DEFINE S == DOMAIN grants
           all == [g \in S |-> grants[g].qty]
           left == [g \in S |-> OutstandingFrom(g)]
           back == [g \in S |-> ReturnedFrom(g)]
           rest == [g \in S |-> RemainingQuantity(g)]
           gone == [g \in S |-> ExercisedFrom(g)]
<1>1. IsFiniteSet(S)
  BY DEF SeqInv, TablesFit, FiniteTables
<1>2. /\ AssignedShares = Total(all, S) /\ OutstandingOptions = Total(left, S)
      /\ ReturnedShares = Total(back, S)
  BY <1>1, QuantityTotal, OutstandingTotal, ReturnedTotal DEF AssignedShares, GrantSum
<1>3. /\ Total(Issued, ExerciseRows) = Total(gone, S)
      /\ \A rows \in SUBSET DOMAIN ledger :
           CommonIssuedShares(rows) = Total(Issued, ExerciseRows \cap rows)
  BY IssuedIsExercised, ExercisedIsExercised DEF IssueInv
<1>4. ASSUME NEW g \in S
      PROVE  /\ left[g] \in Int /\ back[g] \in Int /\ rest[g] = left[g] + back[g]
             /\ rest[g] \in Int /\ gone[g] \in Int /\ all[g] = rest[g] + gone[g]
  BY RemainingOf DEF OutstandingFrom, ReturnedFrom
<1> HIDE DEF S, all, left, back, rest, gone
<1>5. Total(rest, S) = Total(left, S) + Total(back, S)
  <2>1. \A g \in S : left[g] \in Int /\ back[g] \in Int /\ rest[g] = left[g] + back[g]
    BY <1>4
  <2> QED
    BY <1>1, <2>1, TotalPlus
<1>6. Total(all, S) = Total(rest, S) + Total(gone, S)
  <2>1. \A g \in S : rest[g] \in Int /\ gone[g] \in Int /\ all[g] = rest[g] + gone[g]
    BY <1>4
  <2> QED
    BY <1>1, <2>1, TotalPlus
<1>7. Total(left, S) \in Int /\ Total(back, S) \in Int /\ Total(gone, S) \in Int
  <2>1. \A g \in S : left[g] \in Int
    BY <1>4
  <2>2. \A g \in S : back[g] \in Int
    BY <1>4
  <2>3. \A g \in S : gone[g] \in Int
    BY <1>4
  <2> QED
    BY <1>1, <2>1, <2>2, <2>3, TotalInt
<1>8. Total(gone, S) + Total(left, S) + Total(back, S) = Total(all, S)
  BY <1>5, <1>6, <1>7
<1>9. ASSUME NEW rows \in CapTableReads
      PROVE  /\ CommonIssuedShares(rows) \in Int /\ CommonIssuedShares(rows) <= Total(gone, S)
             /\ Cardinality(DOMAIN ledger) <= CapTableTake =>
                  CommonIssuedShares(rows) = Total(gone, S)
  <2> DEFINE R == ExerciseRows \cap rows
             cut == ExerciseRows \ rows
  <2>1. rows \in SUBSET DOMAIN ledger
    BY DEF CapTableReads, FindMany
  <2>2. CommonIssuedShares(rows) = Total(Issued, R)
    BY <1>3, <2>1
  <2>3. /\ IsFiniteSet(R) /\ IsFiniteSet(cut)
        /\ \A s \in R \cup cut : Issued[s] \in Int
        /\ \A s \in R : Issued[s] \in Int
        /\ \A s \in cut : Issued[s] \in Nat
    BY IssuedRows, FS_Subset
  <2>4. R \cap cut = {} /\ R \cup cut = ExerciseRows
    OBVIOUS
  <2>5. ASSUME Cardinality(DOMAIN ledger) <= CapTableTake PROVE R = ExerciseRows
    BY <2>5, ShortLedgerIsRead
  <2> HIDE DEF R, cut
  <2>6. Total(Issued, ExerciseRows) = Total(Issued, R) + Total(Issued, cut)
    BY <2>3, <2>4, TotalUnion
  <2>7. Total(Issued, R) \in Int /\ Total(Issued, cut) \in Nat
    BY <2>3, TotalInt, TotalNat
  <2> QED
    BY <1>3, <2>2, <2>5, <2>6, <2>7
<1> QED
  BY <1>2, <1>7, <1>8, <1>9 DEF CapTableConserves

\* One handler at a time, and while completions are all that issues shares, the
\* cap table accounts for every granted share once, over any number of holders,
\* grants, requests and terminations, as long as its query returns all of the
\* ledger, and never shows more than was granted when rows are cut off.
THEOREM SequentialCapTable ==
  ASSUME OneAtATime, NoManualEntries, IsFiniteSet(Persons)
  PROVE  Spec => []CapTableConserves
<1>1. Init => IInv /\ SeqInv /\ IssueInv
  <2>1. Init => IssueInv
    BY DEF Init, IssueInv, GrantsAndExercises, EntrySteps, NoJob
  <2> QED
    BY <2>1, InitInv, SeqInit
<1>2. IInv /\ SeqInv /\ IssueInv /\ [Next]_vars => (IInv /\ SeqInv /\ IssueInv)'
  BY NextInv, SeqNext, IssueNext
<1>3. IInv /\ SeqInv /\ IssueInv => CapTableConserves
  BY CapTableStep
<1> QED
  BY <1>1, <1>2, <1>3, PTL DEF Spec
=============================================================================
