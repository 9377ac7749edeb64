----------------------------- MODULE SlotsProofs -----------------------------
(* Proofs about Slots, for any finite set of jobs and any limit: the two limits, *)
(* and that set and passes implement a semaphore.                                *)
EXTENDS Slots, FiniteSetTheorems, TLAPS

-----------------------------------------------------------------------------
(* Facts about the holder set. *)

\* The set of holders is finite because the set of jobs is.
LEMMA HoldersFinite ==
  ASSUME NEW S, S \subseteq Jobs
  PROVE  IsFiniteSet(S) /\ Cardinality(S) \in Nat
  BY SlotsAssumption, FS_Subset, FS_CardinalityType

\* Granting a slot keeps the set within its limit: a member is not added again,
\* and a new one only when there is room.
LEMMA GrantKeepsLimit ==
  ASSUME NEW j \in Jobs, holders \subseteq Jobs,
         Cardinality(holders) <= Limit, Granted(j)
  PROVE  Cardinality(holders \cup {j}) <= Limit
  <1>1. IsFiniteSet(holders) /\ Cardinality(holders) \in Nat
    BY HoldersFinite
  <1>2. CASE j \in holders
    <2>1. holders \cup {j} = holders
      BY <1>2
    <2> QED
      BY <2>1
  <1>3. CASE j \notin holders
    <2>1. Cardinality(holders \cup {j}) = Cardinality(holders) + 1
      BY <1>1, <1>3, FS_AddElement
    <2>2. Cardinality(holders) < Limit
      BY <1>3 DEF Granted
    <2> QED
      BY <1>1, <2>1, <2>2, SlotsAssumption
  <1> QED
    BY <1>2, <1>3

\* Taking elements away keeps the set within its limit.
LEMMA ShrinkKeepsLimit ==
  ASSUME NEW S, NEW T, T \subseteq Jobs, S \subseteq T, Cardinality(T) <= Limit
  PROVE  Cardinality(S) <= Limit
  <1>1. IsFiniteSet(T) /\ Cardinality(T) \in Nat /\ Cardinality(S) \in Nat
    BY HoldersFinite
  <1>2. Cardinality(S) <= Cardinality(T)
    BY <1>1, FS_Subset
  <1> QED
    BY <1>1, <1>2, SlotsAssumption

-----------------------------------------------------------------------------
(* Types. *)

\* Every variable keeps its type.
THEOREM Typing == Spec => []TypeOK
  <1>1. Init => TypeOK
    BY SlotsAssumption DEF Init, TypeOK, BullStates, HandlerStates
  <1>2. TypeOK /\ [Next]_vars => TypeOK'
    <2> SUFFICES ASSUME TypeOK, [Next]_vars
                 PROVE  TypeOK'
      OBVIOUS
    <2> USE SlotsAssumption DEF TypeOK, BullStates, HandlerStates, jobVars, passVars
    <2>1. ASSUME NEW j \in Jobs, Dispatch(j) PROVE TypeOK'
      BY <2>1 DEF Dispatch
    <2>2. ASSUME NEW j \in Jobs, Enter(j) PROVE TypeOK'
      BY <2>2 DEF Enter
    <2>3. ASSUME NEW j \in Jobs, Refused(j) PROVE TypeOK'
      BY <2>3 DEF Refused
    <2>4. ASSUME NEW j \in Jobs, Leave(j) PROVE TypeOK'
      BY <2>4 DEF Leave
    <2>5. ASSUME NEW j \in Jobs, Finish(j) PROVE TypeOK'
      BY <2>5 DEF Finish
    <2>6. ASSUME NEW j \in Jobs, Cancel(j) PROVE TypeOK'
      BY <2>6 DEF Cancel
    <2>7. ASSUME NEW j \in Jobs, Stalled(j) PROVE TypeOK'
      BY <2>7 DEF Stalled
    <2>8. ASSUME NEW j \in Jobs, Lapse(j) PROVE TypeOK'
      BY <2>8 DEF Lapse
    <2>9. ASSUME NEW p \in Passes, PassBegin(p) PROVE TypeOK'
      BY <2>9 DEF PassBegin
    <2>10. ASSUME NEW p \in Passes, PassInspect(p) PROVE TypeOK'
      BY <2>10 DEF PassInspect
    <2>11. ASSUME NEW p \in Passes, PassRemove(p) PROVE TypeOK'
      BY <2>11 DEF PassRemove
    <2>12. CASE Crash
      BY <2>12 DEF Crash
    <2>13. CASE UNCHANGED vars
      BY <2>13 DEF vars
    <2> QED
      BY <2>1, <2>2, <2>3, <2>4, <2>5, <2>6, <2>7, <2>8, <2>9, <2>10, <2>11,
         <2>12, <2>13 DEF Next, Handler, Pass
  <1> QED
    BY <1>1, <1>2, PTL DEF Spec

-----------------------------------------------------------------------------
(* The holder set never exceeds its limit. *)

\* Whatever handlers, cancellations, crashes and passes do, the Redis set stays
\* within its limit.
THEOREM HoldersBounded == Spec => []HoldersWithinLimit
  <1>1. Init => HoldersWithinLimit
    BY FS_EmptySet, SlotsAssumption DEF Init, HoldersWithinLimit
  <1>2. TypeOK /\ HoldersWithinLimit /\ [Next]_vars => HoldersWithinLimit'
    <2> SUFFICES ASSUME TypeOK, HoldersWithinLimit, [Next]_vars
                 PROVE  HoldersWithinLimit'
      OBVIOUS
    <2>1. holders \subseteq Jobs
      BY DEF TypeOK
    <2>2. ASSUME NEW j \in Jobs, Enter(j) PROVE HoldersWithinLimit'
      BY <2>1, <2>2, GrantKeepsLimit DEF Enter, HoldersWithinLimit
    <2>3. ASSUME holders' \subseteq holders PROVE HoldersWithinLimit'
      BY <2>1, <2>3, ShrinkKeepsLimit DEF HoldersWithinLimit
    <2>4. \/ \E j \in Jobs : Enter(j)
          \/ holders' \subseteq holders
      BY DEF Next, Handler, Pass, Dispatch, Refused, Leave, Finish, Cancel, Stalled,
             Lapse, PassBegin, PassInspect, PassRemove, Crash, vars, jobVars
    <2> QED
      BY <2>2, <2>3, <2>4
  <1> QED
    BY <1>1, <1>2, Typing, PTL DEF Spec

-----------------------------------------------------------------------------
(* The sections the set guards. *)

\* Why the section is bounded: whoever is inside holds a slot, where refusals are
\* heeded; BullMQ calls a job active as long as a handler of it runs here; and a job
\* that a reconcile pass has doomed has no handler, because the pass saw it not active.
SlotsInv ==
  /\ Heeded => \A j \in Jobs : pc[j] = "inside" => j \in holders
  /\ \A j \in Jobs : pc[j] # "idle" => bull[j] = "active"
  /\ \A p \in Passes : doomed[p] # NoJob => pc[doomed[p]] = "idle"

\* If no job gets from dispatch to its slot between a pass's last read and its SREM,
\* the invariant is inductive, for every caller.
LEMMA SlotsInvInductive ==
  ASSUME ~ Racing
  PROVE  Spec => []SlotsInv
  <1>1. Init => SlotsInv
    BY SlotsAssumption DEF Init, SlotsInv
  <1>2. TypeOK /\ SlotsInv /\ [Next]_vars => SlotsInv'
    <2> SUFFICES ASSUME TypeOK, SlotsInv, [Next]_vars
                 PROVE  SlotsInv'
      OBVIOUS
    <2> USE SlotsAssumption DEF TypeOK, SlotsInv, Heeded, jobVars, passVars
    <2>1. ASSUME NEW j \in Jobs, Dispatch(j) PROVE SlotsInv'
      BY <2>1 DEF Dispatch
    <2>2. ASSUME NEW j \in Jobs, Enter(j) PROVE SlotsInv'
      BY <2>2 DEF Enter
    <2>3. ASSUME NEW j \in Jobs, Refused(j) PROVE SlotsInv'
      BY <2>3 DEF Refused
    <2>4. ASSUME NEW j \in Jobs, Leave(j) PROVE SlotsInv'
      BY <2>4 DEF Leave
    <2>5. ASSUME NEW j \in Jobs, Finish(j) PROVE SlotsInv'
      BY <2>5 DEF Finish
    <2>6. ASSUME NEW j \in Jobs, Cancel(j) PROVE SlotsInv'
      BY <2>6 DEF Cancel
    <2>7. ASSUME NEW j \in Jobs, Stalled(j) PROVE SlotsInv'
      BY <2>7 DEF Stalled
    <2>8. ASSUME NEW j \in Jobs, Lapse(j) PROVE SlotsInv'
      BY <2>8 DEF Lapse
    <2>9. ASSUME NEW p \in Passes, PassBegin(p) PROVE SlotsInv'
      BY <2>9 DEF PassBegin
    <2>10. ASSUME NEW p \in Passes, PassInspect(p) PROVE SlotsInv'
      BY <2>10 DEF PassInspect, Stale
    <2>11. ASSUME NEW p \in Passes, PassRemove(p) PROVE SlotsInv'
      BY <2>11 DEF PassRemove
    <2>12. CASE Crash
      BY <2>12 DEF Crash
    <2>13. CASE UNCHANGED vars
      BY <2>13 DEF vars
    <2> QED
      BY <2>1, <2>2, <2>3, <2>4, <2>5, <2>6, <2>7, <2>8, <2>9, <2>10, <2>11,
         <2>12, <2>13 DEF Next, Handler, Pass
  <1> QED
    BY <1>1, <1>2, Typing, PTL DEF Spec

\* Under that hypothesis, for every caller that heeds refusals and any number of
\* crashes, no more handlers are in the guarded section than the limit allows.
THEOREM SectionsBounded ==
  ASSUME ~ Racing
  PROVE  Spec => []SectionsWithinLimit
  <1>1. TypeOK /\ SlotsInv /\ HoldersWithinLimit => SectionsWithinLimit
    <2> SUFFICES ASSUME TypeOK, SlotsInv, HoldersWithinLimit, Heeded
                 PROVE  Cardinality(Inside) <= Limit
      BY DEF SectionsWithinLimit
    <2>1. Inside \subseteq holders /\ holders \subseteq Jobs
      BY DEF TypeOK, SlotsInv, Inside
    <2> QED
      BY <2>1, ShrinkKeepsLimit DEF HoldersWithinLimit
  <1> QED
    BY <1>1, Typing, HoldersBounded, SlotsInvInductive, PTL

-----------------------------------------------------------------------------
(* The semaphore. *)

\* Whoever enters beside fewer holders than the limit, or on a slot of its own that a
\* crash has left it, finds room in the section.
LEMMA RoomInside ==
  ASSUME TypeOK, SlotsInv, HoldersWithinLimit, Heeded, NEW j \in Jobs, Enter(j)
  PROVE  Cardinality(Inside) < Limit
  <1>1. Inside \subseteq holders \ {j} /\ holders \subseteq Jobs
    BY DEF TypeOK, SlotsInv, Inside, Enter
  <1>2. IsFiniteSet(holders) /\ Cardinality(holders) \in Nat /\ Cardinality(Inside) \in Nat
    BY <1>1, HoldersFinite
  <1>3. CASE j \in holders
    <2>1. Cardinality(holders \ {j}) = Cardinality(holders) - 1 /\ IsFiniteSet(holders \ {j})
      BY <1>2, <1>3, FS_RemoveElement
    <2>2. Cardinality(Inside) <= Cardinality(holders \ {j})
      BY <1>1, <2>1, FS_Subset
    <2> QED
      BY <1>2, <2>1, <2>2, SlotsAssumption DEF HoldersWithinLimit
  <1>4. CASE j \notin holders
    <2>1. Cardinality(holders) < Limit
      BY <1>4 DEF Enter, Granted
    <2>2. Cardinality(Inside) <= Cardinality(holders)
      BY <1>1, <1>2, FS_Subset
    <2> QED
      BY <1>2, <2>1, <2>2, SlotsAssumption
  <1> QED
    BY <1>3, <1>4

\* The semaphore counts as the holder set does.
LEMMA SameCount == ASSUME NEW S PROVE Gate!Cardinality(S) = Cardinality(S)
  BY DEF Cardinality, Gate!Cardinality

\* Heeding is a truth value, and once refusals are not heeded they never are again.
LEMMA HeededValue == Heeded \in BOOLEAN
  BY Zenon DEF Heeded

\* A set of holders in Redis with its script, its releases by job id and its reconcile
\* passes implements a semaphore, under the same hypothesis.
THEOREM SetIsSemaphore ==
  ASSUME ~ Racing
  PROVE  Spec => ImplementsSemaphore
  <1>1. Init => Gate!Init
    <2> SUFFICES ASSUME Init PROVE Inside = {} /\ Heeded \in BOOLEAN
      BY DEF Gate!Init
    <2> QED
      BY HeededValue DEF Init, Inside
  <1>2. TypeOK /\ SlotsInv /\ HoldersWithinLimit /\ [Next]_vars => [Gate!Next]_Gate!vars
    <2> SUFFICES ASSUME TypeOK, SlotsInv, HoldersWithinLimit, [Next]_vars
                 PROVE  Gate!Next
      OBVIOUS
    <2>1. ASSUME Inside' \subseteq Inside, Heeded' = Heeded \/ Heeded' = FALSE
          PROVE  Gate!Next
      BY <2>1, Zenon DEF Gate!Next, Gate!Leave, Gate!Disturb
    <2>2. ASSUME NEW j \in Jobs, j \notin Inside, Inside' = Inside \cup {j},
                 Heeded' = Heeded, Heeded => Cardinality(Inside) < Limit
          PROVE  Gate!Next
      BY <2>2, SameCount, Zenon DEF Gate!Next, Gate!Enter
    <2>3. ASSUME NEW j \in Jobs, Enter(j) PROVE Gate!Next
      <3>1. j \notin Inside /\ Inside' = Inside \cup {j}
        BY <2>3 DEF Enter, Inside, TypeOK
      <3>2. kind' = kind /\ cancels' = cancels
        BY <2>3 DEF Enter
      <3>3. Heeded' = Heeded
        BY <3>2, Zenon DEF Heeded
      <3> QED
        BY <3>1, <3>3, <2>2, <2>3, RoomInside
    <2>4. ASSUME NEW j \in Jobs, Refused(j) PROVE Gate!Next
      <3>1. kind' = kind /\ cancels' = cancels
        BY <2>4 DEF Refused
      <3>2. Heeded' = Heeded
        BY <3>1, Zenon DEF Heeded
      <3>3. CASE kind = "local" /\ pc' = [pc EXCEPT ![j] = "inside"]
        <4>1. j \notin Inside /\ Inside' = Inside \cup {j}
          BY <2>4, <3>3 DEF Refused, Inside, TypeOK
        <4>2. ~ Heeded
          BY <3>3 DEF Heeded
        <4> QED
          BY <4>1, <4>2, <3>2, <2>2
      <3>4. CASE pc' = [pc EXCEPT ![j] = "idle"]
        <4>1. Inside' \subseteq Inside
          BY <3>4 DEF Inside, TypeOK
        <4> QED
          BY <4>1, <3>2, <2>1
      <3> QED
        BY <2>4, <3>3, <3>4 DEF Refused
    <2>5. ASSUME NEW j \in Jobs, Cancel(j) PROVE Gate!Next
      <3>1. Inside' \subseteq Inside
        BY <2>5 DEF Cancel, Inside
      <3>2. kind' = kind /\ cancels' = cancels + 1 /\ cancels \in Nat
        BY <2>5, SlotsAssumption DEF Cancel, TypeOK
      <3>3. Heeded' => Heeded
        BY <3>2, SlotsAssumption DEF Heeded
      <3>4. Heeded \in BOOLEAN /\ Heeded' \in BOOLEAN
        BY Zenon DEF Heeded
      <3>5. Heeded' = Heeded \/ Heeded' = FALSE
        BY <3>3, <3>4, Zenon
      <3> QED
        BY <3>1, <3>5, <2>1
    <2>6. CASE \/ \E j \in Jobs : Dispatch(j) \/ Leave(j) \/ Finish(j) \/ Stalled(j) \/ Lapse(j)
               \/ \E p \in Passes : Pass(p)
               \/ Crash
               \/ UNCHANGED vars
      <3>1. Inside' \subseteq Inside /\ kind' = kind /\ cancels' = cancels
        BY <2>6 DEF Dispatch, Leave, Finish, Stalled, Lapse, Pass, PassBegin, PassInspect,
           PassRemove, Crash, vars, jobVars, Inside, TypeOK
      <3>2. Heeded' = Heeded
        BY <3>1, Zenon DEF Heeded
      <3> QED
        BY <3>1, <3>2, <2>1
    <2> QED
      BY <2>3, <2>4, <2>5, <2>6 DEF Next, Handler
  <1> QED
    BY <1>1, <1>2, Typing, HoldersBounded, SlotsInvInductive, PTL
       DEF Spec, ImplementsSemaphore, Gate!Spec

=============================================================================
