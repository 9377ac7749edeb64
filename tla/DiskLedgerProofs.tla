-------------------------- MODULE DiskLedgerProofs --------------------------
(* Proofs about DiskLedger, for any finite set of jobs, any needs and any disk:  *)
(* the counter is the sum of the reservations, and until a cancellation, or the  *)
(* recovery of a live run, what is still to be written fits above the floor.     *)
EXTENDS DiskLedger, FiniteSetTheorems, WellFoundedInduction, TLAPS

-----------------------------------------------------------------------------
(* Sums over a finite set.  MapThenSumSet unfolds to the choice of a function on *)
(* the subsets, and choosing one means nothing until it is known to exist.       *)

Pick(S) == CHOOSE x \in S : TRUE

SumOver(f, S) == MapThenSumSet(LAMBDA j : f[j], S)

\* h adds f up, one picked element at a time, over every subset of S.
SumsUp(h, f, S) ==
  h = [s \in SUBSET S |-> IF s = {} THEN 0 ELSE f[Pick(s)] + h[s \ {Pick(s)}]]

\* A set of subsets of S that contains a subset whenever it contains every smaller
\* one contains them all.
LEMMA SubsetInduction ==
  ASSUME NEW S, IsFiniteSet(S), NEW T, T \subseteq SUBSET S,
         \A s \in SUBSET S : (\A t \in SUBSET s : t # s => t \in T) => s \in T
  PROVE  T = SUBSET S
  <1> DEFINE Rest == (SUBSET S) \ T
  <1>1. IsWellFoundedOn(StrictSubsetOrdering(S), SUBSET S)
    BY FS_StrictSubsetOrderingWellFounded, FS_FiniteSubsetsOfFinite
  <1>2. SUFFICES ASSUME Rest # {}
                 PROVE  FALSE
    OBVIOUS
  <1>3. PICK s \in Rest : \A t \in Rest : ~ (<<t, s>> \in StrictSubsetOrdering(S))
    <2>1. Rest \subseteq SUBSET S
      OBVIOUS
    <2> HIDE DEF Rest
    <2> QED
      BY <1>1, <1>2, <2>1, WFMin
  <1>4. \A t \in SUBSET s : t # s => t \in T
    <2> SUFFICES ASSUME NEW t \in SUBSET s, t # s, t \notin T
                 PROVE  FALSE
      OBVIOUS
    <2>1. t \in Rest
      BY <1>3
    <2>2. <<t, s>> \in StrictSubsetOrdering(S)
      BY <1>3 DEF StrictSubsetOrdering
    <2> QED
      BY <1>3, <2>1, <2>2
  <1> QED
    BY <1>3, <1>4

LEMMA SumOverChosen ==
  ASSUME NEW f, NEW S
  PROVE  SumOver(f, S) = (CHOOSE h : SumsUp(h, f, S))[S]
  BY DEF SumOver, MapThenSumSet, MapThenFoldSet, SumsUp, Pick

\* The function that adds f up over the subsets of S exists and is unique, for
\* it adds f up over the smaller ones.
LEMMA SumsUpUnique ==
  ASSUME NEW f, NEW S, IsFiniteSet(S)
  PROVE  \A s \in SUBSET S : \A h : SumsUp(h, f, s) <=> h = [t \in SUBSET s |-> SumOver(f, t)]
  <1> DEFINE Next1(s) == IF s = {} THEN 0 ELSE f[Pick(s)] + SumOver(f, s \ {Pick(s)})
             H(s) == [t \in SUBSET s |-> SumOver(f, t)]
             K(s) == [t \in SUBSET s |-> Next1(t)]
             T == {s \in SUBSET S : \A h : SumsUp(h, f, s) <=> h = H(s)}
  <1>1. ASSUME NEW s \in SUBSET S, \A t \in SUBSET s : t # s => t \in T
        PROVE  s \in T
    <2>1. \A t \in SUBSET s : t # {} => Pick(t) \in t /\ t \ {Pick(t)} \in SUBSET s
                                        /\ t \ {Pick(t)} # s
      BY DEF Pick
    <2>2. ASSUME NEW t \in SUBSET s, t # s
          PROVE  SumOver(f, t) = Next1(t)
      <3>1. SumsUp(H(t), f, t)
        BY <1>1, <2>2
      <3>2. H(t)[t] = IF t = {} THEN 0 ELSE f[Pick(t)] + H(t)[t \ {Pick(t)}]
        BY <3>1, t \in SUBSET t DEF SumsUp
      <3>3. t # {} => H(t)[t \ {Pick(t)}] = SumOver(f, t \ {Pick(t)})
        BY <2>1
      <3> QED
        BY <3>2, <3>3
    <2>3. SumsUp(K(s), f, s)
      <3>1. ASSUME NEW t \in SUBSET s
            PROVE  K(s)[t] = IF t = {} THEN 0 ELSE f[Pick(t)] + K(s)[t \ {Pick(t)}]
        <4>1. CASE t = {}
          BY <4>1
        <4>2. CASE t # {}
          <5>1. K(s)[t \ {Pick(t)}] = Next1(t \ {Pick(t)})
            BY <2>1, <4>2
          <5>2. SumOver(f, t \ {Pick(t)}) = Next1(t \ {Pick(t)})
            BY <2>1, <2>2, <4>2
          <5> QED
            BY <5>1, <5>2, <4>2
        <4> QED
          BY <4>1, <4>2
      <3> QED
        BY <3>1 DEF SumsUp
    <2>4. ASSUME NEW h, SumsUp(h, f, s)
          PROVE  h = K(s)
      <3>0. h = [t \in SUBSET s |-> IF t = {} THEN 0 ELSE f[Pick(t)] + h[t \ {Pick(t)}]]
        BY <2>4 DEF SumsUp
      <3>1. ASSUME NEW t \in SUBSET s, t # s
            PROVE  h[t] = SumOver(f, t)
        <4> DEFINE g == [u \in SUBSET t |-> h[u]]
        <4>1. \A u \in SUBSET t :
                 g[u] = IF u = {} THEN 0 ELSE f[Pick(u)] + g[u \ {Pick(u)}]
          BY <3>0 DEF Pick
        <4>2. SumsUp(g, f, t)
          BY <4>1 DEF SumsUp
        <4>3. g = H(t)
          BY <4>2, <3>1, <1>1
        <4>4. g[t] = h[t] /\ H(t)[t] = SumOver(f, t)
          OBVIOUS
        <4> QED
          BY <4>3, <4>4
      <3>2. ASSUME NEW t \in SUBSET s
            PROVE  h[t] = Next1(t)
        <4>1. h[t] = IF t = {} THEN 0 ELSE f[Pick(t)] + h[t \ {Pick(t)}]
          BY <3>0
        <4>2. t # {} => h[t \ {Pick(t)}] = SumOver(f, t \ {Pick(t)})
          BY <2>1, <3>1
        <4> QED
          BY <4>1, <4>2
      <3> QED
        BY <3>0, <3>2
    <2>5. SumsUp(CHOOSE h : SumsUp(h, f, s), f, s)
      BY <2>3
    <2>6. SumOver(f, s) = K(s)[s]
      <3>1. (CHOOSE h : SumsUp(h, f, s)) = K(s)
        BY <2>4, <2>5
      <3> QED
        BY <3>1, SumOverChosen
    <2>7. H(s) = K(s)
      <3>1. \A t \in SUBSET s : SumOver(f, t) = Next1(t)
        BY <2>2, <2>6
      <3> QED
        BY <3>1
    <2> QED
      BY <2>3, <2>4, <2>7
  <1>2. T = SUBSET S
    <2>1. T \subseteq SUBSET S
      OBVIOUS
    <2>2. \A s \in SUBSET S : (\A t \in SUBSET s : t # s => t \in T) => s \in T
      BY <1>1
    <2> HIDE DEF T
    <2> QED
      BY <2>1, <2>2, SubsetInduction
  <1> QED
    BY <1>2

\* What MapThenSumSet computes: nothing over the empty set, else what is picked
\* and the sum over the rest.
LEMMA SumOverStep ==
  ASSUME NEW f, NEW S, IsFiniteSet(S)
  PROVE  SumOver(f, S) = IF S = {} THEN 0 ELSE f[Pick(S)] + SumOver(f, S \ {Pick(S)})
  <1> DEFINE H == [t \in SUBSET S |-> SumOver(f, t)]
  <1>1. SumsUp(H, f, S)
    BY SumsUpUnique
  <1>2. H[S] = IF S = {} THEN 0 ELSE f[Pick(S)] + H[S \ {Pick(S)}]
    BY <1>1, S \in SUBSET S DEF SumsUp
  <1>3. H[S] = SumOver(f, S) /\ H[S \ {Pick(S)}] = SumOver(f, S \ {Pick(S)})
    OBVIOUS
  <1> QED
    BY <1>2, <1>3

LEMMA SumOverEmpty == \A f : SumOver(f, {}) = 0
  <1> SUFFICES ASSUME NEW f PROVE SumOver(f, {}) = 0
    OBVIOUS
  <1>1. IsFiniteSet({})
    BY FS_EmptySet
  <1> QED
    BY <1>1, SumOverStep

\* Induction along what SumOver picks.
LEMMA PickInduction ==
  ASSUME NEW S, IsFiniteSet(S), NEW T, T \subseteq SUBSET S, {} \in T,
         \A s \in SUBSET S : s # {} /\ s \ {Pick(s)} \in T => s \in T
  PROVE  T = SUBSET S
  <1>1. \A s \in SUBSET S : (\A t \in SUBSET s : t # s => t \in T) => s \in T
    <2> SUFFICES ASSUME NEW s \in SUBSET S, s # {}, \A t \in SUBSET s : t # s => t \in T
                 PROVE  s \in T
      OBVIOUS
    <2>1. Pick(s) \in s
      BY DEF Pick
    <2>2. s \ {Pick(s)} \in T
      BY <2>1
    <2> QED
      BY <2>2
  <1> QED
    BY <1>1, SubsetInduction

\* A sum of naturals is a natural, and none of its terms exceeds it.
LEMMA SumOverNat ==
  ASSUME NEW S, IsFiniteSet(S), NEW f, \A j \in S : f[j] \in Nat
  PROVE  SumOver(f, S) \in Nat /\ \A j \in S : f[j] <= SumOver(f, S)
  <1> DEFINE T == {s \in SUBSET S : SumOver(f, s) \in Nat /\ \A j \in s : f[j] <= SumOver(f, s)}
  <1>1. {} \in T
    BY SumOverEmpty
  <1>2. ASSUME NEW s \in SUBSET S, s # {}, s \ {Pick(s)} \in T
        PROVE  s \in T
    <2> DEFINE x == Pick(s)
               rest == SumOver(f, s \ {x})
    <2>1. x \in s /\ IsFiniteSet(s)
      BY <1>2, FS_Subset DEF Pick
    <2>2. SumOver(f, s) = f[x] + rest
      BY <1>2, <2>1, SumOverStep
    <2>3. f[x] \in Nat /\ rest \in Nat /\ \A j \in s \ {x} : f[j] \in Nat /\ f[j] <= rest
      BY <1>2, <2>1
    <2> HIDE DEF x, rest
    <2>4. \A j \in s : f[j] <= f[x] + rest
      BY <2>3
    <2> QED
      BY <2>2, <2>3, <2>4
  <1>3. T = SUBSET S
    <2> HIDE DEF T
    <2> SUFFICES T \subseteq SUBSET S
      BY <1>1, <1>2, PickInduction
    <2> QED
      BY DEF T
  <1> QED
    BY <1>3

\* Terms that are nowhere larger give no larger sum.
LEMMA SumOverMonotone ==
  ASSUME NEW S, IsFiniteSet(S), NEW f, NEW g,
         \A j \in S : f[j] \in Nat /\ g[j] \in Nat /\ f[j] <= g[j]
  PROVE  SumOver(f, S) <= SumOver(g, S)
  <1> DEFINE T == {s \in SUBSET S : SumOver(f, s) <= SumOver(g, s)}
  <1>1. {} \in T
    BY SumOverEmpty
  <1>2. ASSUME NEW s \in SUBSET S, s # {}, s \ {Pick(s)} \in T
        PROVE  s \in T
    <2> DEFINE x == Pick(s)
               f1 == SumOver(f, s \ {x})
               g1 == SumOver(g, s \ {x})
    <2>1. x \in s /\ IsFiniteSet(s) /\ IsFiniteSet(s \ {x})
      BY <1>2, FS_Subset DEF Pick
    <2>2. SumOver(f, s) = f[x] + f1 /\ SumOver(g, s) = g[x] + g1
      BY <1>2, <2>1, SumOverStep
    <2>3. f1 \in Nat /\ g1 \in Nat
      BY <2>1, SumOverNat
    <2>4. f1 <= g1
      BY <1>2
    <2>5. f[x] \in Nat /\ g[x] \in Nat /\ f[x] <= g[x]
      BY <2>1
    <2> HIDE DEF x, f1, g1
    <2> QED
      BY <2>2, <2>3, <2>4, <2>5
  <1>3. T = SUBSET S
    <2> HIDE DEF T
    <2> SUFFICES T \subseteq SUBSET S
      BY <1>1, <1>2, PickInduction
    <2> QED
      BY DEF T
  <1> QED
    BY <1>3

\* Where one term changes, the sum changes by as much.
LEMMA SumOverUpdate ==
  ASSUME NEW S, IsFiniteSet(S), NEW f, NEW g, NEW j,
         \A i \in S : f[i] \in Nat /\ g[i] \in Nat,
         \A i \in S : i # j => f[i] = g[i]
  PROVE  SumOver(g, S) = SumOver(f, S) + (IF j \in S THEN g[j] - f[j] ELSE 0)
  <1> DEFINE Change(s) == IF j \in s THEN g[j] - f[j] ELSE 0
             T == {s \in SUBSET S : SumOver(g, s) = SumOver(f, s) + Change(s)}
  <1>1. {} \in T
    BY SumOverEmpty
  <1>2. ASSUME NEW s \in SUBSET S, s # {}, s \ {Pick(s)} \in T
        PROVE  s \in T
    <2> DEFINE x == Pick(s)
               f1 == SumOver(f, s \ {x})
               g1 == SumOver(g, s \ {x})
    <2>1. x \in s /\ IsFiniteSet(s) /\ IsFiniteSet(s \ {x})
      BY <1>2, FS_Subset DEF Pick
    <2>2. SumOver(f, s) = f[x] + f1 /\ SumOver(g, s) = g[x] + g1
      BY <1>2, <2>1, SumOverStep
    <2>3. f1 \in Nat /\ g1 \in Nat
      BY <2>1, SumOverNat
    <2>4. g1 = f1 + Change(s \ {x})
      BY <1>2
    <2>5. f[x] \in Nat /\ g[x] \in Nat /\ (x # j => f[x] = g[x])
      BY <2>1
    <2>6. j \in s => f[j] \in Nat /\ g[j] \in Nat
      OBVIOUS
    <2> HIDE DEF x, f1, g1
    <2> QED
      BY <2>1, <2>2, <2>3, <2>4, <2>5, <2>6
  <1>3. T = SUBSET S
    <2> HIDE DEF T
    <2> SUFFICES T \subseteq SUBSET S
      BY <1>1, <1>2, PickInduction
    <2> QED
      BY DEF T
  <1> QED
    BY <1>3

-----------------------------------------------------------------------------
(* The ledger. *)

LEMMA SumIsSumOver == \A f : Sum(f) = SumOver(f, Jobs)
  BY DEF Sum, SumOver

\* Releasing takes exactly the reservation off: the script's lower bound of zero
\* never has to be used.
LEMMA Clamped ==
  ASSUME NEW a \in Nat, NEW b \in Nat, b <= a
  PROVE  Max({0, a - b}) = a - b
  <1>1. \A x \in {0, a - b} : a - b >= x
    OBVIOUS
  <1>2. ASSUME NEW m \in {0, a - b}, \A x \in {0, a - b} : m >= x
        PROVE  m = a - b
    BY <1>2
  <1> QED
    BY <1>1, <1>2 DEF Max

\* What a job that holds a reservation may still write, at work or not.
Owed(j) == IF reservation[j] > 0 THEN Need[j] - used[j] ELSE 0

owed == [j \in Jobs |-> Owed(j)]

\* No job occupies more than its estimate, and none reserves less or more than that.
Sized == \A j \in Jobs : used[j] <= Need[j] /\ reservation[j] \in {0, Need[j]}

\* Who writes holds a reservation, and all that is owed fits above the floor: at
\* work or not, for a reservation outlives the crash of its handler.
Covered ==
  Undisturbed =>
    /\ \A j \in Jobs : pc[j] = "writing" => reservation[j] = Need[j]
    /\ Free - Sum(owed) >= MinFree

LedgerInv == TypeOK /\ LedgerExact /\ Sized /\ Covered

\* The sums that the invariant speaks of are natural numbers, and a release finds
\* in the counter what it takes off.
LEMMA SumsTyped ==
  ASSUME TypeOK, Sized
  PROVE  /\ \A j \in Jobs : Owed(j) \in Nat /\ Owed(j) <= reservation[j]
         /\ Sum(used) \in Nat /\ Sum(reservation) \in Nat /\ Sum(owed) \in Nat
         /\ \A j \in Jobs : reservation[j] <= Sum(reservation)
         /\ Sum(owed) <= Sum(reservation)
  <1> USE LedgerAssumption
  <1>1. \A j \in Jobs : Owed(j) \in Nat /\ Owed(j) <= reservation[j]
    BY DEF TypeOK, Sized, Owed
  <1>2. \A j \in Jobs : owed[j] \in Nat /\ owed[j] <= reservation[j]
    BY <1>1 DEF owed
  <1>3. \A j \in Jobs : used[j] \in Nat /\ reservation[j] \in Nat
    BY DEF TypeOK
  <1>4. Sum(used) \in Nat
    BY <1>3, SumOverNat, SumIsSumOver
  <1>5. Sum(reservation) \in Nat /\ \A j \in Jobs : reservation[j] <= Sum(reservation)
    BY <1>3, SumOverNat, SumIsSumOver
  <1>6. Sum(owed) \in Nat
    BY <1>2, SumOverNat, SumIsSumOver
  <1>7. Sum(owed) <= Sum(reservation)
    BY <1>2, <1>3, SumOverMonotone, SumIsSumOver
  <1> QED
    BY <1>1, <1>4, <1>5, <1>6, <1>7

\* A sum over the jobs when what one of them contributes changes.
LEMMA SumUpdate ==
  ASSUME NEW f, NEW g, NEW j \in Jobs,
         \A i \in Jobs : f[i] \in Nat /\ g[i] \in Nat,
         \A i \in Jobs : i # j => f[i] = g[i]
  PROVE  Sum(g) = Sum(f) + (g[j] - f[j])
  <1>1. Sum(g) = Sum(f) + (IF j \in Jobs THEN g[j] - f[j] ELSE 0)
    BY LedgerAssumption, SumOverUpdate, SumIsSumOver
  <1> QED
    BY <1>1

\* A step of job j changes the two sums by what it changes of job j's part.
LEMMA SumsAfterStep ==
  ASSUME TypeOK, Sized, TypeOK', Sized', NEW j \in Jobs,
         \A i \in Jobs : i # j => used'[i] = used[i] /\ reservation'[i] = reservation[i]
  PROVE  /\ Sum(used)' = Sum(used) + (used'[j] - used[j])
         /\ Sum(owed)' = Sum(owed) + (Owed(j)' - Owed(j))
         /\ Sum(reservation)' = Sum(reservation) + (reservation'[j] - reservation[j])
  <1>1. \A i \in Jobs : used[i] \in Nat /\ used'[i] \in Nat
                        /\ reservation[i] \in Nat /\ reservation'[i] \in Nat
    BY DEF TypeOK
  <1>2. \A i \in Jobs : Owed(i) \in Nat
    BY SumsTyped
  <1>3. \A i \in Jobs : Owed(i)' \in Nat
    BY LedgerAssumption DEF TypeOK, Sized, Owed
  <1>4. \A i \in Jobs : i # j => Owed(i) = Owed(i)'
    BY DEF Owed
  <1>5. \A i \in Jobs : owed[i] = Owed(i) /\ owed'[i] = Owed(i)'
    BY DEF owed
  <1>6. Sum(used') = Sum(used) + (used'[j] - used[j])
    BY <1>1, SumUpdate
  <1>7. Sum(owed') = Sum(owed) + (owed'[j] - owed[j])
    <2>1. \A i \in Jobs : owed[i] \in Nat /\ owed'[i] \in Nat /\ (i # j => owed[i] = owed'[i])
      BY <1>2, <1>3, <1>4, <1>5
    <2> QED
      BY <2>1, SumUpdate
  <1>8. Sum(reservation') = Sum(reservation) + (reservation'[j] - reservation[j])
    BY <1>1, SumUpdate
  <1> QED
    BY <1>5, <1>6, <1>7, <1>8

\* What RELEASE_DISK_LUA does, to a reservation or to none.
LEMMA ReleaseTakesItOff ==
  ASSUME TypeOK, LedgerExact, Sized, NEW j \in Jobs, Released(j)
  PROVE  /\ reservation' = [reservation EXCEPT ![j] = 0]
         /\ total' = total - reservation[j] /\ total' \in Nat
  <1>1. reservation[j] \in Nat /\ reservation[j] <= total /\ total \in Nat
    BY SumsTyped DEF TypeOK, LedgerExact
  <1>2. Max({0, total - reservation[j]}) = total - reservation[j]
    BY <1>1, Clamped
  <1>3. CASE reservation[j] = 0
    BY <1>1, <1>3 DEF Released, TypeOK
  <1>4. CASE reservation[j] # 0
    BY <1>1, <1>2, <1>4 DEF Released
  <1> QED
    BY <1>3, <1>4

LEMMA ReserveKeepsInv ==
  ASSUME LedgerInv, NEW j \in Jobs, Reserve(j)
  PROVE  LedgerInv'
  <1> USE LedgerAssumption DEF LedgerInv
  <1>1. Need[j] \in Nat /\ Need[j] > 0 /\ reservation[j] \in {0, Need[j]} /\ used[j] \in Nat
        /\ total \in Nat
    BY DEF TypeOK, Sized
  <1>2. reservation' = [reservation EXCEPT ![j] = Need[j]]
        /\ total' = total + (Need[j] - reservation[j])
    BY <1>1 DEF Reserve, Reserved, TypeOK
  <1>3. TypeOK'
    BY <1>1, <1>2 DEF Reserve, TypeOK, HandlerStates, boundVars
  <1>4. Sized'
    BY <1>1, <1>2 DEF Reserve, Sized, TypeOK
  <1>5. \A i \in Jobs : i # j => used'[i] = used[i] /\ reservation'[i] = reservation[i]
    BY <1>2 DEF Reserve, TypeOK
  <1>6. reservation'[j] = Need[j] /\ used' = used
    BY <1>2 DEF Reserve, TypeOK
  <1>7. LedgerExact'
    BY <1>1, <1>2, <1>3, <1>4, <1>5, <1>6, SumsAfterStep, SumsTyped DEF LedgerExact
  <1>8. Covered'
    <2> SUFFICES ASSUME Undisturbed'
                 PROVE  /\ \A i \in Jobs : pc'[i] = "writing" => reservation'[i] = Need[i]
                        /\ Free' - Sum(owed)' >= MinFree
      BY DEF Covered
    <2>1. Undisturbed
      BY DEF Reserve, boundVars, Undisturbed
    <2>2. \A i \in Jobs : pc'[i] = "writing" => reservation'[i] = Need[i]
      BY <1>5, <1>6, <2>1 DEF Reserve, Covered, TypeOK
    <2>3. Free - Sum(owed) >= MinFree
      BY <2>1 DEF Covered
    <2>4. Sum(owed)' = Sum(owed) + (Owed(j)' - Owed(j)) /\ Sum(used)' = Sum(used)
      BY <1>3, <1>4, <1>5, <1>6, SumsAfterStep
    <2>5. Owed(j)' = Need[j] - used[j] /\ used[j] <= Need[j]
      BY <1>1, <1>6 DEF Owed, Sized
    <2>6. Sum(owed) <= total /\ Sum(owed) \in Nat /\ Sum(used) \in Nat /\ Owed(j) \in Nat
      BY SumsTyped DEF LedgerExact
    <2>7. CASE reservation[j] > 0
      <3>1. Owed(j)' = Owed(j)
        BY <1>1, <1>6, <2>5, <2>7 DEF Owed
      <3> QED
        BY <2>2, <2>3, <2>4, <2>6, <3>1 DEF Free
    <2>8. CASE ~ (reservation[j] > 0)
      <3>1. Free - total - MinFree >= Need[j] /\ Owed(j) = 0
        BY <2>8 DEF Reserve, Fits, Owed
      <3> QED
        BY <1>1, <2>2, <2>4, <2>5, <2>6, <3>1 DEF Free
    <2> QED
      BY <2>2, <2>7, <2>8
  <1> QED
    BY <1>3, <1>4, <1>7, <1>8

\* A step that leaves the reservations alone and changes no more than what job j
\* occupies: more only under its reservation, where less is owed then.
LEMMA OccupyKeepsInv ==
  ASSUME LedgerInv, NEW j \in Jobs,
         TypeOK', UNCHANGED <<total, reservation, boundVars>>,
         \A i \in Jobs : i # j => used'[i] = used[i],
         used'[j] <= used[j] \/ (pc[j] = "writing" /\ used'[j] <= Need[j]),
         \A i \in Jobs : pc'[i] = "writing" => pc[i] = "writing"
  PROVE  LedgerInv'
  <1> USE LedgerAssumption DEF LedgerInv
  <1>1. Need[j] \in Nat /\ Need[j] > 0 /\ reservation[j] \in {0, Need[j]}
        /\ used[j] \in Nat /\ used'[j] \in Nat /\ used[j] <= Need[j] /\ used'[j] <= Need[j]
    BY DEF TypeOK, Sized
  <1>2. Sized'
    <2>1. ASSUME NEW i \in Jobs PROVE used'[i] <= Need[i] /\ reservation'[i] \in {0, Need[i]}
      BY <1>1 DEF Sized
    <2> QED
      BY <2>1 DEF Sized
  <1>3. LedgerExact'
    BY DEF LedgerExact
  <1>4. Covered'
    <2> SUFFICES ASSUME Undisturbed'
                 PROVE  /\ \A i \in Jobs : pc'[i] = "writing" => reservation'[i] = Need[i]
                        /\ Free' - Sum(owed)' >= MinFree
      BY DEF Covered
    <2>0. Undisturbed
      BY DEF boundVars, Undisturbed
    <2>1. \A i \in Jobs : pc'[i] = "writing" => reservation'[i] = Need[i]
      BY <2>0 DEF Covered
    <2>2. Free - Sum(owed) >= MinFree
      BY <2>0 DEF Covered
    <2>3. /\ Sum(used)' = Sum(used) + (used'[j] - used[j])
          /\ Sum(owed)' = Sum(owed) + (Owed(j)' - Owed(j))
      BY <1>2, SumsAfterStep
    <2>4. Sum(used) \in Nat /\ Sum(owed) \in Nat
      BY SumsTyped
    <2>5. CASE reservation[j] = 0
      <3>1. Owed(j) = 0 /\ Owed(j)' = 0 /\ used'[j] <= used[j]
        BY <1>1, <2>0, <2>5 DEF Owed, Covered
      <3> QED
        BY <1>1, <2>1, <2>2, <2>3, <2>4, <3>1 DEF Free
    <2>6. CASE reservation[j] = Need[j]
      <3>1. Owed(j) = Need[j] - used[j] /\ Owed(j)' = Need[j] - used'[j]
        BY <1>1, <2>6 DEF Owed
      <3> QED
        BY <1>1, <2>1, <2>2, <2>3, <2>4, <3>1 DEF Free
    <2> QED
      BY <1>1, <2>1, <2>5, <2>6
  <1> QED
    BY <1>2, <1>3, <1>4

\* A step that releases job j's reservation, if any, and lets it occupy no more
\* than before: nothing is owed to j then.
LEMMA ReleaseKeepsInv ==
  ASSUME LedgerInv, NEW j \in Jobs, Released(j), TypeOK',
         \A i \in Jobs : i # j => used'[i] = used[i], used'[j] <= used[j],
         Undisturbed' => /\ Undisturbed
                         /\ \A i \in Jobs : pc'[i] = "writing" => pc[i] = "writing" /\ i # j
  PROVE  LedgerInv'
  <1> USE LedgerAssumption DEF LedgerInv
  <1>1. /\ reservation' = [reservation EXCEPT ![j] = 0]
        /\ total' = total - reservation[j] /\ total' \in Nat
    BY ReleaseTakesItOff
  <1>2. Need[j] \in Nat /\ used[j] \in Nat /\ used'[j] \in Nat /\ used[j] <= Need[j]
        /\ total \in Nat /\ reservation[j] \in Nat
    BY DEF TypeOK, Sized
  <1>3. reservation'[j] = 0 /\ \A i \in Jobs : i # j => reservation'[i] = reservation[i]
    BY <1>1 DEF TypeOK
  <1>4. Sized'
    <2>1. ASSUME NEW i \in Jobs PROVE used'[i] <= Need[i] /\ reservation'[i] \in {0, Need[i]}
      BY <1>2, <1>3 DEF Sized
    <2> QED
      BY <2>1 DEF Sized
  <1>5. /\ Sum(used)' = Sum(used) + (used'[j] - used[j])
        /\ Sum(owed)' = Sum(owed) + (Owed(j)' - Owed(j))
        /\ Sum(reservation)' = Sum(reservation) + (reservation'[j] - reservation[j])
    BY <1>3, <1>4, SumsAfterStep
  <1>6. Sum(used) \in Nat /\ Sum(owed) \in Nat /\ Sum(reservation) \in Nat /\ Owed(j) \in Nat
    BY SumsTyped
  <1>7. LedgerExact'
    BY <1>1, <1>2, <1>3, <1>5, <1>6 DEF LedgerExact
  <1>8. Covered'
    <2> SUFFICES ASSUME Undisturbed'
                 PROVE  /\ \A i \in Jobs : pc'[i] = "writing" => reservation'[i] = Need[i]
                        /\ Free' - Sum(owed)' >= MinFree
      BY DEF Covered
    <2>1. \A i \in Jobs : pc'[i] = "writing" => reservation'[i] = Need[i]
      BY <1>3 DEF Covered
    <2>2. Free - Sum(owed) >= MinFree
      BY DEF Covered
    <2>3. Owed(j)' = 0
      BY <1>3 DEF Owed
    <2> QED
      BY <1>2, <1>5, <1>6, <2>1, <2>2, <2>3 DEF Free
  <1> QED
    BY <1>4, <1>7, <1>8

LEMMA InitLedgerInv == Init => LedgerInv
  <1> USE LedgerAssumption
  <1> SUFFICES ASSUME Init
               PROVE  LedgerInv
    OBVIOUS
  <1>1. TypeOK
    BY DEF Init, TypeOK, HandlerStates
  <1>2. Sized
    BY DEF Init, Sized
  <1>3. \A j \in Jobs : used[j] = 0 /\ reservation[j] = 0 /\ owed[j] = 0
    BY DEF Init, owed, Owed
  <1>4. \A f : (\A j \in Jobs : f[j] = 0) => Sum(f) = 0
    <2> SUFFICES ASSUME NEW f, \A j \in Jobs : f[j] = 0
                 PROVE  Sum(f) = 0
      OBVIOUS
    <2> DEFINE T == {s \in SUBSET Jobs : SumOver(f, s) = 0}
    <2>1. {} \in T
      BY SumOverEmpty
    <2>2. ASSUME NEW s \in SUBSET Jobs, s # {}, s \ {Pick(s)} \in T
          PROVE  s \in T
      <3>1. Pick(s) \in s /\ IsFiniteSet(s)
        BY <2>2, FS_Subset DEF Pick
      <3>2. SumOver(f, s) = f[Pick(s)] + SumOver(f, s \ {Pick(s)})
        BY <2>2, <3>1, SumOverStep
      <3> QED
        BY <2>2, <3>1, <3>2
    <2>3. T = SUBSET Jobs
      <3> HIDE DEF T
      <3> SUFFICES T \subseteq SUBSET Jobs
        BY <2>1, <2>2, PickInduction
      <3> QED
        BY DEF T
    <2> QED
      BY <2>3, SumIsSumOver
  <1>5. Sum(used) = 0 /\ Sum(reservation) = 0 /\ Sum(owed) = 0
    BY <1>3, <1>4
  <1> QED
    BY <1>1, <1>2, <1>5 DEF Init, LedgerInv, LedgerExact, Covered, Free

LEMMA NextTypeOK ==
  ASSUME LedgerInv, [Next]_vars
  PROVE  TypeOK'
  <1> USE LedgerAssumption DEF LedgerInv, TypeOK, HandlerStates, boundVars
  <1>1. ASSUME NEW j \in Jobs, Released(j)
        PROVE  total' \in Nat /\ reservation' \in [Jobs -> Nat]
    BY <1>1, ReleaseTakesItOff
  <1>2. ASSUME NEW j \in Jobs, Reserve(j)
        PROVE  TypeOK'
    BY <1>2, ReserveKeepsInv
  <1>3. ASSUME NEW j \in Jobs, Write(j) \/ RemoveForWait(j) \/ Stop(j) \/ Remove(j)
        PROVE  TypeOK'
    BY <1>3 DEF Write, RemoveForWait, Stop, Remove
  <1>4. ASSUME NEW j \in Jobs, Release(j) \/ Recover(j) \/ Cancel(j)
        PROVE  TypeOK'
    <2>1. total' \in Nat /\ reservation' \in [Jobs -> Nat]
      BY <1>1, <1>4 DEF Release, Recover, Cancel
    <2> QED
      BY <1>4, <2>1 DEF Release, Recover, Cancel
  <1>5. CASE Crash
    BY <1>5 DEF Crash
  <1>6. CASE UNCHANGED vars
    BY <1>6 DEF vars
  <1> QED
    BY <1>2, <1>3, <1>4, <1>5, <1>6 DEF Next, Handler

LEMMA NextLedgerInv == LedgerInv /\ [Next]_vars => LedgerInv'
  <1> SUFFICES ASSUME LedgerInv, [Next]_vars
               PROVE  LedgerInv'
    OBVIOUS
  <1>1. TypeOK' /\ TypeOK
    BY NextTypeOK DEF LedgerInv
  <1>2. ASSUME NEW j \in Jobs, Reserve(j)
        PROVE  LedgerInv'
    BY <1>2, ReserveKeepsInv
  <1>3. ASSUME NEW j \in Jobs, Write(j)
        PROVE  LedgerInv'
    <2>1. used[j] \in Nat /\ Need[j] \in Nat /\ used[j] < Need[j] /\ used'[j] = used[j] + 1
      BY <1>1, <1>3, LedgerAssumption DEF Write, TypeOK
    <2>2. used'[j] <= Need[j]
      BY <2>1
    <2>3. /\ UNCHANGED <<total, reservation, boundVars>>
          /\ \A i \in Jobs : i # j => used'[i] = used[i]
          /\ pc[j] = "writing"
          /\ \A i \in Jobs : pc'[i] = "writing" => pc[i] = "writing"
      BY <1>1, <1>3 DEF Write, TypeOK
    <2> QED
      BY <1>1, <2>2, <2>3, OccupyKeepsInv
  <1>4. ASSUME NEW j \in Jobs, RemoveForWait(j) \/ Stop(j) \/ Remove(j)
        PROVE  LedgerInv'
    <2>1. /\ UNCHANGED <<total, reservation, boundVars>>
          /\ \A i \in Jobs : i # j => used'[i] = used[i]
          /\ used'[j] <= used[j]
          /\ \A i \in Jobs : pc'[i] = "writing" => pc[i] = "writing"
      BY <1>1, <1>4 DEF RemoveForWait, Stop, Remove, TypeOK
    <2> QED
      BY <1>1, <2>1, OccupyKeepsInv
  <1>5. ASSUME NEW j \in Jobs, Release(j) \/ Recover(j) \/ Cancel(j)
        PROVE  LedgerInv'
    <2>1. /\ Released(j)
          /\ \A i \in Jobs : i # j => used'[i] = used[i]
          /\ used'[j] <= used[j]
      BY <1>1, <1>5 DEF Release, Recover, Cancel, TypeOK
    <2>2. Undisturbed' => /\ Undisturbed
                          /\ \A i \in Jobs : pc'[i] = "writing" => pc[i] = "writing" /\ i # j
      BY <1>1, <1>5 DEF Release, Recover, Cancel, TypeOK, boundVars, Undisturbed
    <2> QED
      BY <1>1, <2>1, <2>2, ReleaseKeepsInv
  <1>6. CASE Crash
    <2>1. UNCHANGED <<total, reservation, used, overtaken, cancels>>
          /\ \A i \in Jobs : pc'[i] # "writing"
      BY <1>6 DEF Crash
    <2>2. Sum(used)' = Sum(used) /\ Sum(reservation)' = Sum(reservation)
          /\ Sum(owed)' = Sum(owed)
      BY <2>1 DEF owed, Owed
    <2> QED
      BY <1>1, <2>1, <2>2 DEF LedgerInv, LedgerExact, Sized, Covered, Free, Undisturbed
  <1>7. CASE UNCHANGED vars
    <2>1. UNCHANGED <<total, reservation, used, boundVars, pc>>
      BY <1>7 DEF vars
    <2>2. Sum(used)' = Sum(used) /\ Sum(reservation)' = Sum(reservation)
          /\ Sum(owed)' = Sum(owed)
      BY <2>1 DEF owed, Owed
    <2> QED
      BY <1>1, <2>1, <2>2
         DEF LedgerInv, LedgerExact, Sized, Covered, Free, Undisturbed, boundVars
  <1> QED
    BY <1>2, <1>3, <1>4, <1>5, <1>6, <1>7 DEF Next, Handler

\* The four facts hold together in every reachable state.
THEOREM LedgerInvariant == Spec => []LedgerInv
  BY InitLedgerInv, NextLedgerInv, PTL DEF Spec

\* The counter is the sum of the per-job keys, whatever crashes and cancellations
\* come between the two scripts, for any number of jobs.
THEOREM Exact == Spec => []LedgerExact
  <1>1. LedgerInv => LedgerExact
    BY DEF LedgerInv
  <1> QED
    BY <1>1, LedgerInvariant, PTL

\* Until a cancellation or the recovery of a live run, the bytes the writing jobs still
\* need fit above the floor, whatever crashes, left-over reservations and releases come
\* between.
THEOREM NeverOvercommitted == Spec => []ReservationsCovered
  <1>1. LedgerInv => ReservationsCovered
    <2> DEFINE toCome == [j \in Jobs |-> IF pc[j] = "writing" THEN Need[j] - used[j] ELSE 0]
    <2> SUFFICES ASSUME LedgerInv, Undisturbed
                 PROVE  Free - Sum(toCome) >= MinFree
      BY DEF ReservationsCovered
    <2> USE LedgerAssumption DEF LedgerInv
    <2>1. \A j \in Jobs : /\ toCome[j] \in Nat /\ owed[j] \in Nat
                          /\ toCome[j] <= owed[j]
      BY DEF TypeOK, Sized, Covered, owed, Owed
    <2> HIDE DEF toCome
    <2>2. Sum(toCome) \in Nat /\ Sum(toCome) <= Sum(owed)
      BY <2>1, SumOverNat, SumOverMonotone, SumIsSumOver
    <2>3. Sum(owed) \in Nat /\ Sum(used) \in Nat
      BY SumsTyped
    <2> QED
      BY <2>2, <2>3 DEF Covered, Free
  <1> QED
    BY <1>1, LedgerInvariant, PTL

=============================================================================
