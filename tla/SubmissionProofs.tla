-------------------------- MODULE SubmissionProofs --------------------------
(* Proofs about Submission, for any jobs, callers, requests, mishaps and          *)
(* recoveries: the active key keeps the jobs of a version apart, and what was     *)
(* refused is not run.                                                            *)
EXTENDS Submission, FiniteSetTheorems, TLAPS

\* A job at work owns the active key, unless it has found it gone, or lost it.
WorkInv ==
  /\ bull \in [Jobs -> BullStates]
  /\ \A j \in Jobs : bull[j] \in AtWork /\ j \notin unkeyed => active = j

\* What most steps are to WorkInv.
LEMMA Harmless ==
  ASSUME WorkInv, UNCHANGED <<bull, active, unkeyed>>
  PROVE  WorkInv'
  BY DEF WorkInv

\* The invariant holds initially and every step keeps it.
LEMMA WorkInvInductive ==
  /\ Init => WorkInv
  /\ WorkInv /\ [Next]_vars => WorkInv'
  <1>1. Init => WorkInv
    BY DEF Init, WorkInv, BullStates, AtWork
  <1>2. ASSUME WorkInv, [Next]_vars PROVE WorkInv'
    <2> USE <1>2, SubmissionAssumption
    <2> USE DEF jobVars, keyVars, runVars, BullStates, Running, AtWork
    <2>1. ASSUME NEW c \in Callers, Enqueue(c) PROVE WorkInv'
      <3>1. CASE Add(c)
        BY <3>1 DEF Add, WorkInv
      <3>2. CASE ~ Add(c)
        BY <2>1, <3>2, Harmless
           DEF Enqueue, Check, Reserve, Owner, Store, Priority, GiveBack, DelBack
      <3> QED
        BY <3>1, <3>2
    <2>2. ASSUME NEW c \in Callers, Fault(c) \/ \E j \in Jobs : Post(c, j) PROVE WorkInv'
      BY <2>2, Harmless DEF Fault, Post
    <2>3. ASSUME NEW j \in Jobs, ClaimSet(j) \/ ClaimGet(j) PROVE WorkInv'
      <3>1. CASE ClaimSet(j)
        BY <3>1 DEF ClaimSet, WorkInv
      <3>2. CASE ClaimGet(j) /\ Claimable(j)
        BY <3>2 DEF ClaimGet, Claimable, WorkInv
      <3>3. CASE ClaimGet(j) /\ ~ Claimable(j)
        BY <3>3 DEF ClaimGet, WorkInv
      <3> QED
        BY <2>3, <3>1, <3>2, <3>3
    <2>4. ASSUME NEW j \in Jobs, Validate(j) PROVE WorkInv'
      BY <2>4 DEF Validate, WorkInv
    <2>5. ASSUME NEW j \in Jobs, Finish(j) \/ Retry(j) PROVE WorkInv'
      <3>1. PICK state \in {"completed", "failed", "waiting"} : bull' = [bull EXCEPT ![j] = state]
        BY <2>5 DEF Finish, Retry
      <3>2. active' = Freed(active, j) /\ RunOver(j)
        BY <2>5 DEF Finish, Retry
      <3> QED
        BY <3>1, <3>2 DEF WorkInv, Freed, RunOver
    <2>6. ASSUME NEW j \in Jobs, Exhausted(j) PROVE WorkInv'
      BY <2>6 DEF Exhausted, Removed, Freed, WorkInv
    <2>7. ASSUME NEW j \in Jobs, NEW c \in Callers, Recover(c, j) PROVE WorkInv'
      BY <2>7 DEF Recover, Removed, WorkInv
    <2>8. ASSUME NEW j \in Jobs, Age(j) \/ LockLapse(j) PROVE WorkInv'
      BY <2>8, Harmless DEF Age, LockLapse
    <2>9. CASE Expire
      BY <2>9 DEF Expire, WorkInv
    <2>10. CASE Lapse
      BY <2>10, Harmless DEF Lapse
    <2>11. CASE Crash
      BY <2>11 DEF Crash, WorkInv
    <2>12. CASE UNCHANGED vars
      BY <2>12, Harmless DEF vars
    <2> QED
      BY <2>1, <2>2, <2>3, <2>4, <2>5, <2>6, <2>7, <2>8, <2>9, <2>10, <2>11, <2>12
         DEF Next, Handler, Recovery
  <1> QED
    BY <1>1, <1>2

\* Of two jobs of a file version that are worked on together, one has found the active
\* key gone or has lost it, whatever happens to the queued key and whatever recovery
\* does to live runs (DuplicateActiveFileVersionError).
THEOREM VersionWorkedOnOnce == Spec => []OneAtWork
  <1>1. WorkInv => OneAtWork
    <2> SUFFICES ASSUME WorkInv PROVE OneAtWork
      OBVIOUS
    <2>1. {j \in Jobs : bull[j] \in AtWork} \ unkeyed \subseteq {active}
      BY DEF WorkInv
    <2>2. IsFiniteSet({active}) /\ Cardinality({active}) = 1
      BY FS_Singleton
    <2> QED
      BY <2>1, <2>2, FS_Subset, FS_CardinalityType DEF OneAtWork
  <1> QED
    BY <1>1, WorkInvInductive, PTL DEF Spec

-----------------------------------------------------------------------------
(* What was refused, until a mishap. *)

Calls == [pc : {"idle"} \cup Reserving \cup Storing \cup GivingBack,
          job : Jobs \cup {NoJob}, client : BOOLEAN, second : BOOLEAN]

\* What a step does to the activations: one of them moves on, or ends.
LEMMA StepMoves ==
  ASSUME call \in [Callers -> Calls], NEW c \in Callers, NEW from,
         NEW to \in {"idle"} \cup Reserving \cup Storing \cup GivingBack, Step(c, from, to)
  PROVE  /\ call' \in [Callers -> Calls]
         /\ call[c].pc = from
         /\ call'[c].pc = to /\ call'[c].job = call[c].job /\ call'[c].client = call[c].client
         /\ \A d \in Callers : d # c => call'[d] = call[d]
  BY DEF Step, Calls

LEMMA IdleCall == Idle \in Calls /\ Idle.pc = "idle" /\ Idle.job = NoJob
  BY DEF Idle, Calls

LEMMA EndEnds ==
  ASSUME call \in [Callers -> Calls], NEW c \in Callers, NEW answer, End(c, answer)
  PROVE  /\ call' \in [Callers -> Calls]
         /\ call'[c].pc = "idle"
         /\ \A d \in Callers : d # c => call'[d] = call[d]
  BY IdleCall DEF End

\* Job j has been answered 202, or a request that has passed the reservation will be.
Committed(j) ==
  \/ "accepted" \in answers[j]
  \/ \E c \in Callers : call[c].job = j /\ call[c].client /\ call[c].pc \in Storing

\* Recovery finds only jobs with metadata; and until a mishap there is neither metadata
\* nor a job in BullMQ without somebody who has been, or will be, told so.
PromiseInv ==
  /\ call \in [Callers -> Calls]
  /\ bull \in [Jobs -> BullStates]
  /\ meta \in [Jobs -> {"none", "queued", "retrying", "working", "over"}]
  /\ answers \in [Jobs -> SUBSET {"accepted", "refused"}]
  /\ mishaps \in Nat
  /\ \A c \in Callers : call[c].pc # "idle" =>
       call[c].job \in Jobs /\ (call[c].client \/ meta[call[c].job] # "none")
  /\ mishaps = 0 =>
       \A j \in Jobs : meta[j] # "none" \/ bull[j] # "none" => Committed(j)

\* A promise is kept as long as the request that made it goes on storing, or answers.
LEMMA CommittedKept ==
  ASSUME NEW j \in Jobs, Committed(j), answers[j] \subseteq answers'[j],
         \A c \in Callers : call[c].job = j /\ call[c].client /\ call[c].pc \in Storing =>
           \/ "accepted" \in answers'[j]
           \/ call'[c].job = j /\ call'[c].client /\ call'[c].pc \in Storing
  PROVE  Committed(j)'
  BY DEF Committed

\* Steps of an activation that store nothing.
LEMMA PromiseKeptByMoves ==
  ASSUME PromiseInv, NEW c \in Callers,
         Check(c) \/ Reserve(c) \/ Owner(c) \/ Priority(c) \/ GiveBack(c) \/ DelBack(c)
  PROVE  PromiseInv'
  <1> USE DEF PromiseInv, jobVars, keyVars, boundVars
  <1>1. /\ bull' = bull /\ meta' = meta /\ mishaps' = mishaps
        /\ call' \in [Callers -> Calls]
        /\ \A d \in Callers : d # c => call'[d] = call[d]
        /\ call'[c].pc # "idle" =>
             /\ call[c].pc # "idle"
             /\ call'[c].job = call[c].job /\ call'[c].client = call[c].client
        /\ call[c].pc \in Storing => call'[c].pc \in Storing
        /\ answers' = answers \/ (call[c].pc # "idle" /\ End(c, "refused"))
    <2>1. CASE Check(c)
      BY <2>1, StepMoves, EndEnds DEF Check, Storing, Reserving
    <2>2. CASE Reserve(c)
      BY <2>2, StepMoves DEF Reserve, Storing, Reserving
    <2>3. CASE Owner(c)
      <3>1. CASE Step(c, "owner", "store") /\ UNCHANGED answers
        BY <2>3, <3>1, StepMoves DEF Owner, Storing, Reserving
      <3>2. CASE call' = [call EXCEPT ![c].pc = "reserve", ![c].second = TRUE]
                 /\ UNCHANGED answers
        <4> DEFINE r == [call[c] EXCEPT !.pc = "reserve", !.second = TRUE]
        <4>1. call[c] \in Calls
          OBVIOUS
        <4>2. r \in Calls /\ r.pc = "reserve" /\ r.job = call[c].job /\ r.client = call[c].client
          BY <4>1 DEF Calls, Reserving
        <4>3. call' = [call EXCEPT ![c] = r]
          BY <3>2
        <4>4. call[c].pc = "owner"
          BY <2>3 DEF Owner
        <4>5. /\ bull' = bull /\ meta' = meta /\ mishaps' = mishaps
          BY <2>3 DEF Owner
        <4> HIDE DEF r
        <4>6. call' \in [Callers -> Calls] /\ call'[c] = r
              /\ \A d \in Callers : d # c => call'[d] = call[d]
          BY <4>2, <4>3
        <4> QED
          BY <3>2, <4>2, <4>4, <4>5, <4>6 DEF Storing
      <3>3. CASE End(c, "refused")
        BY <2>3, <3>3, EndEnds DEF Owner, Storing
      <3> QED
        BY <2>3, <3>1, <3>2, <3>3 DEF Owner
    <2>4. CASE Priority(c)
      BY <2>4, StepMoves DEF Priority, historyVars, Storing
    <2>5. CASE GiveBack(c) \/ DelBack(c)
      <3>1. call[c].pc \in {"giveBack", "delBack"}
        BY <2>5 DEF GiveBack, DelBack, Step
      <3> QED
        BY <2>5, <3>1, StepMoves, EndEnds DEF GiveBack, DelBack, GivingBack, Storing
    <2> QED
      BY <2>1, <2>2, <2>3, <2>4, <2>5
  <1>2. /\ answers' \in [Jobs -> SUBSET {"accepted", "refused"}]
        /\ \A j \in Jobs : answers[j] \subseteq answers'[j]
    BY <1>1 DEF End
  <1>3. \A d \in Callers : call'[d].pc # "idle" =>
          call'[d].job \in Jobs /\ (call'[d].client \/ meta'[call'[d].job] # "none")
    BY <1>1
  <1>4. ASSUME NEW j \in Jobs, Committed(j) PROVE Committed(j)'
    <2>1. ASSUME NEW d \in Callers, call[d].job = j, call[d].client, call[d].pc \in Storing
          PROVE  call'[d].job = j /\ call'[d].client /\ call'[d].pc \in Storing
      BY <1>1, <2>1 DEF Storing
    <2> QED
      BY <1>2, <1>4, <2>1, CommittedKept
  <1> QED
    BY <1>1, <1>2, <1>3, <1>4

\* Steps of handlers, recovery and time: promises stay, and what they work on is a job
\* that has been promised.
LEMMA PromiseKeptByOthers ==
  ASSUME PromiseInv, NEW j \in Jobs, call' = call, answers' = answers, mishaps' = mishaps,
         bull' \in [Jobs -> BullStates],
         meta' \in [Jobs -> {"none", "queued", "retrying", "working", "over"}],
         \A i \in Jobs : i # j => bull'[i] = bull[i] /\ meta'[i] = meta[i],
         meta[j] # "none" \/ bull[j] # "none",
         meta'[j] # "none"
  PROVE  PromiseInv'
  <1>1. \A i \in Jobs : Committed(i) => Committed(i)'
    BY DEF Committed
  <1> QED
    BY <1>1 DEF PromiseInv

\* The metadata is stored, or a job added, on behalf of a client who will be told, or of
\* recovery, for a job that has been promised before.
LEMMA PromiseInvInductive ==
  /\ Init => PromiseInv
  /\ PromiseInv /\ [Next]_vars => PromiseInv'
  <1>1. Init => PromiseInv
    BY IdleCall DEF Init, PromiseInv, BullStates
  <1>2. ASSUME PromiseInv, [Next]_vars PROVE PromiseInv'
    <2> USE <1>2, SubmissionAssumption DEF jobVars, keyVars, boundVars, historyVars
    <2>1. ASSUME NEW c \in Callers, Enqueue(c) PROVE PromiseInv'
      <3>1. CASE Store(c)
        <4>1. /\ call' \in [Callers -> Calls] /\ call[c].pc = "store"
              /\ call'[c].pc = "priority"
              /\ call'[c].job = call[c].job /\ call'[c].client = call[c].client
              /\ \A d \in Callers : d # c => call'[d] = call[d]
          BY <3>1, StepMoves DEF Store, PromiseInv, Storing
        <4>2. /\ call[c].job \in Jobs /\ bull' = bull /\ answers' = answers
              /\ mishaps' = mishaps
              /\ meta' = [meta EXCEPT ![call[c].job] = "queued"]
          BY <3>1, <4>1 DEF Store, PromiseInv
        <4>3. ASSUME NEW i \in Jobs, Committed(i) PROVE Committed(i)'
          <5>1. ASSUME NEW d \in Callers, call[d].job = i, call[d].client,
                       call[d].pc \in Storing
                PROVE  call'[d].job = i /\ call'[d].client /\ call'[d].pc \in Storing
            BY <4>1, <5>1 DEF Storing
          <5> QED
            BY <4>2, <4>3, <5>1, CommittedKept
        <4>4. call[c].client => Committed(call[c].job)'
          BY <4>1 DEF Committed, Storing
        <4>5. mishaps = 0 => Committed(call[c].job)'
          BY <4>1, <4>2, <4>3, <4>4 DEF PromiseInv
        <4>6. meta' \in [Jobs -> {"none", "queued", "retrying", "working", "over"}]
              /\ \A i \in Jobs : meta'[i] = IF i = call[c].job THEN "queued" ELSE meta[i]
          BY <4>2 DEF PromiseInv
        <4>7. \A d \in Callers : call'[d].pc # "idle" =>
                call'[d].job \in Jobs /\ (call'[d].client \/ meta'[call'[d].job] # "none")
          BY <4>1, <4>6 DEF PromiseInv
        <4> QED
          BY <4>1, <4>2, <4>3, <4>5, <4>6, <4>7 DEF PromiseInv
      <3>2. CASE Add(c)
        <4>1. /\ call' \in [Callers -> Calls] /\ call[c].pc = "add" /\ call'[c].pc = "idle"
              /\ \A d \in Callers : d # c => call'[d] = call[d]
          BY <3>2, EndEnds DEF Add, PromiseInv
        <4>2. PICK j \in Jobs : j = call[c].job
          BY <4>1 DEF PromiseInv
        <4>3. /\ meta' = meta /\ mishaps' = mishaps
              /\ bull' = [bull EXCEPT ![j] = IF @ = "none" THEN "waiting" ELSE @]
          BY <3>2, <4>2 DEF Add
        <4>4. /\ answers' \in [Jobs -> SUBSET {"accepted", "refused"}]
              /\ \A i \in Jobs : answers[i] \subseteq answers'[i]
              /\ call[c].client => "accepted" \in answers'[j]
          BY <3>2, <4>2 DEF Add, End, PromiseInv
        <4>5. ASSUME NEW i \in Jobs, Committed(i) PROVE Committed(i)'
          <5>1. ASSUME NEW d \in Callers, call[d].job = i, call[d].client
                PROVE  "accepted" \in answers'[i] \/ call'[d] = call[d]
            BY <4>1, <4>2, <4>4, <5>1
          <5> QED
            BY <4>4, <4>5, <5>1, CommittedKept
        <4>6. call[c].client => Committed(j)'
          BY <4>4 DEF Committed
        <4>7. ~ call[c].client => meta[j] # "none"
          BY <4>1, <4>2 DEF PromiseInv
        <4>8. mishaps = 0 => Committed(j)'
          BY <4>5, <4>6, <4>7 DEF PromiseInv
        <4>9. bull' \in [Jobs -> BullStates]
          BY <4>3 DEF PromiseInv, BullStates
        <4>10. \A i \in Jobs : i # j => bull'[i] = bull[i]
          BY <4>3 DEF PromiseInv
        <4>11. \A d \in Callers : call'[d].pc # "idle" =>
                 call'[d].job \in Jobs /\ (call'[d].client \/ meta'[call'[d].job] # "none")
          BY <4>1, <4>3 DEF PromiseInv
        <4>12. mishaps' = 0 =>
                 \A i \in Jobs : meta'[i] # "none" \/ bull'[i] # "none" => Committed(i)'
          BY <4>3, <4>5, <4>8, <4>10 DEF PromiseInv
        <4> QED
          BY <4>1, <4>3, <4>4, <4>9, <4>11, <4>12 DEF PromiseInv
      <3> QED
        BY <2>1, <3>1, <3>2, PromiseKeptByMoves DEF Enqueue
    <2>2. ASSUME NEW c \in Callers, Fault(c) PROVE PromiseInv'
      <3>1. /\ mishaps' \in Nat /\ mishaps' # 0 /\ bull' = bull /\ meta' = meta
            /\ call[c].pc # "idle" /\ call[c].job \in Jobs
        BY <2>2 DEF Fault, Mishap, PromiseInv
      <3>2. /\ call' \in [Callers -> Calls]
            /\ \A d \in Callers : d # c => call'[d] = call[d]
            /\ call'[c].pc # "idle" =>
                 call'[c].job = call[c].job /\ call'[c].client = call[c].client
            /\ answers' = answers \/ End(c, "refused")
        BY <2>2, StepMoves, EndEnds DEF Fault, PromiseInv, Storing, GivingBack
      <3>3. answers' \in [Jobs -> SUBSET {"accepted", "refused"}]
        BY <3>1, <3>2 DEF End, PromiseInv
      <3> QED
        BY <3>1, <3>2, <3>3 DEF PromiseInv
    <2>3. ASSUME NEW c \in Callers, NEW j \in Jobs, Post(c, j) PROVE PromiseInv'
      <3>1. /\ call[c] = Idle /\ answers' = answers /\ bull' = bull /\ meta' = meta
            /\ mishaps' = mishaps
            /\ call' = [call EXCEPT ![c] = [Idle EXCEPT !.pc = "check", !.job = j]]
        BY <2>3 DEF Post
      <3>2. [Idle EXCEPT !.pc = "check", !.job = j] \in Calls
            /\ [Idle EXCEPT !.pc = "check", !.job = j].job = j
            /\ [Idle EXCEPT !.pc = "check", !.job = j].client
        BY DEF Idle, Calls, Reserving
      <3>3. /\ call' \in [Callers -> Calls] /\ call'[c].job = j /\ call'[c].client
            /\ \A d \in Callers : d # c => call'[d] = call[d]
        BY <3>1, <3>2 DEF PromiseInv
      <3>4. ASSUME NEW i \in Jobs, Committed(i) PROVE Committed(i)'
        <4>1. call[c].pc \notin Storing
          BY <3>1, IdleCall DEF Storing
        <4> QED
          BY <3>1, <3>3, <3>4, <4>1, CommittedKept
      <3> QED
        BY <3>1, <3>3, <3>4 DEF PromiseInv
    <2>4. ASSUME NEW j \in Jobs, Handler(j) \/ Retry(j) PROVE PromiseInv'
      <3> USE DEF BullStates, Running, AtWork
      <3>1. CASE ClaimSet(j)
        BY <3>1 DEF ClaimSet, PromiseInv, Committed
      <3>2. CASE ClaimGet(j)
        BY <3>2 DEF ClaimGet, PromiseInv, Committed
      <3>3. CASE Validate(j) \/ Finish(j)
        <4>1. /\ bull' \in [Jobs -> BullStates]
              /\ meta' \in [Jobs -> {"none", "queued", "retrying", "working", "over"}]
              /\ \A i \in Jobs : i # j => bull'[i] = bull[i] /\ meta'[i] = meta[i]
              /\ bull[j] # "none" /\ meta'[j] # "none"
          BY <3>3 DEF Validate, Finish, PromiseInv
        <4> QED
          BY <3>3, <4>1, PromiseKeptByOthers DEF Validate, Finish
      <3>4. CASE Retry(j)
        BY <3>4 DEF Retry, Mishap, PromiseInv
      <3> QED
        BY <2>4, <3>1, <3>2, <3>3, <3>4 DEF Handler
    <2>6. ASSUME NEW j \in Jobs, Exhausted(j) PROVE PromiseInv'
      <3>1. /\ bull' \in [Jobs -> BullStates]
            /\ meta' \in [Jobs -> {"none", "queued", "retrying", "working", "over"}]
            /\ \A i \in Jobs : i # j => bull'[i] = bull[i] /\ meta'[i] = meta[i]
            /\ meta[j] # "none" /\ meta'[j] # "none"
        BY <2>6 DEF Exhausted, Removed, LeftAlone, Unstored, PromiseInv, BullStates
      <3> QED
        BY <2>6, <3>1, PromiseKeptByOthers DEF Exhausted
    <2>7. ASSUME NEW j \in Jobs, NEW c \in Callers, Recover(c, j) PROVE PromiseInv'
      <3> DEFINE r == [Idle EXCEPT !.pc = "check", !.job = j, !.client = FALSE]
      <3>1. /\ call[c] = Idle /\ answers' = answers /\ mishaps' = mishaps /\ meta[j] # "none"
            /\ call' = [call EXCEPT ![c] = r]
            /\ \E state \in {bull[j], "none"} : bull' = [bull EXCEPT ![j] = state]
            /\ meta' = [meta EXCEPT ![j] = "retrying"]
        BY <2>7 DEF Recover, Removed, LeftAlone, Unstored
      <3>2. r \in Calls /\ r.job = j
        BY DEF Idle, Calls, Reserving
      <3> HIDE DEF r
      <3>3. /\ call' \in [Callers -> Calls] /\ call'[c].job = j
            /\ \A d \in Callers : d # c => call'[d] = call[d]
        BY <3>1, <3>2 DEF PromiseInv
      <3>4. ASSUME NEW i \in Jobs, Committed(i) PROVE Committed(i)'
        <4>1. call[c].pc \notin Storing
          BY <3>1, IdleCall DEF Storing
        <4> QED
          BY <3>1, <3>3, <3>4, <4>1, CommittedKept
      <3>5. /\ bull' \in [Jobs -> BullStates]
            /\ meta' \in [Jobs -> {"none", "queued", "retrying", "working", "over"}]
            /\ \A i \in Jobs : meta'[i] # "none" \/ bull'[i] # "none"
                                 => meta[i] # "none" \/ bull[i] # "none"
            /\ \A i \in Jobs : meta[i] # "none" => meta'[i] # "none"
            /\ meta'[j] # "none"
        BY <3>1 DEF PromiseInv, BullStates
      <3> QED
        BY <3>1, <3>3, <3>4, <3>5 DEF PromiseInv
    <2>8. CASE (\E j \in Jobs : Age(j)) \/ UNCHANGED vars
      <3>1. /\ call' = call /\ answers' = answers /\ mishaps' = mishaps
            /\ bull' = bull /\ meta' = meta
        BY <2>8 DEF Age, vars
      <3> QED
        BY <3>1 DEF PromiseInv, Committed
    <2>9. CASE Lapse \/ Crash \/ \E j \in Jobs : LockLapse(j)
      <3>1. /\ mishaps' \in Nat /\ mishaps' # 0 /\ meta' = meta /\ answers' = answers
            /\ bull' \in [Jobs -> BullStates]
            /\ call' = call \/ call' = [c \in Callers |-> Idle]
        BY <2>9 DEF Lapse, Crash, LockLapse, Mishap, PromiseInv, BullStates
      <3> QED
        BY <3>1, IdleCall DEF PromiseInv
    <2>10. CASE Expire
      <3>1. /\ mishaps' \in Nat /\ (mishaps' = 0 => mishaps = 0) /\ meta' = meta
            /\ answers' = answers /\ bull' = bull /\ call' = call
        BY <2>10 DEF Expire, Mishap, PromiseInv
      <3> QED
        BY <3>1 DEF PromiseInv, Committed
    <2> QED
      BY <2>1, <2>2, <2>3, <2>4, <2>6, <2>7, <2>8, <2>9, <2>10 DEF Next, Recovery
  <1> QED
    BY <1>1, <1>2

\* A job whose every submission was refused is not run, for any number of ids, requests
\* and recoveries, until a mishap: enqueueFile stores nothing before the reservation,
\* and with the reservation a request is accepted.
THEOREM RefusedIsNotRun == Spec => []RefusedStaysOut
  <1>1. PromiseInv => RefusedStaysOut
    BY DEF PromiseInv, RefusedStaysOut, Committed
  <1> QED
    BY <1>1, PromiseInvInductive, PTL DEF Spec

-----------------------------------------------------------------------------
(* Types. *)

\* What PromiseInv does not say about types: the keys, the histories and the counters.
RestOK ==
  /\ queued \in Jobs \cup {NoJob} /\ active \in Jobs \cup {NoJob}
  /\ stale \subseteq Jobs /\ again \subseteq Jobs /\ cutOff \subseteq Jobs
  /\ unlocked \subseteq Jobs /\ unkeyed \subseteq Jobs
  /\ manual \in [Jobs -> 0 .. MaxManual]
  /\ requests \in 0 .. MaxRequests /\ mishaps \in 0 .. MaxMishaps

\* The keys and the counters keep their types because no activation runs without a job,
\* which PromiseInv says.
LEMMA RestStays ==
  ASSUME PromiseInv, RestOK, [Next]_vars
  PROVE  RestOK'
  <1> USE SubmissionAssumption DEF RestOK, jobVars, keyVars, runVars, boundVars, historyVars
  <1>1. ASSUME NEW c \in Callers, call[c].pc # "idle"
        PROVE  call[c].job \in Jobs
    BY <1>1 DEF PromiseInv
  <1>2. ASSUME Mishap PROVE mishaps' \in 0 .. MaxMishaps
    BY <1>2 DEF Mishap
  <1>3. ASSUME NEW c \in Callers, Enqueue(c) PROVE RestOK'
    <2>1. CASE Check(c) \/ Owner(c) \/ Priority(c) \/ Add(c) \/ GiveBack(c) \/ DelBack(c)
      BY <2>1 DEF Check, Owner, Priority, Add, GiveBack, DelBack
    <2>2. CASE Reserve(c)
      <3>1. call[c].job \in Jobs
        BY <1>1, <2>2 DEF Reserve, Step
      <3> QED
        BY <2>2, <3>1 DEF Reserve
    <2>3. CASE Store(c)
      <3>1. call[c].job \in Jobs
        BY <1>1, <2>3 DEF Store, Step
      <3>2. manual' \in [Jobs -> 0 .. MaxManual]
        BY <2>3 DEF Store, Counted
      <3>3. stale' \subseteq Jobs
        BY <2>3 DEF Store, Touch
      <3> QED
        BY <2>3, <3>1, <3>2, <3>3 DEF Store
    <2> QED
      BY <1>3, <2>1, <2>2, <2>3 DEF Enqueue
  <1>4. ASSUME NEW c \in Callers, Fault(c) PROVE RestOK'
    <2>1. call[c].job \in Jobs
      BY <1>1, <1>4 DEF Fault
    <2>2. mishaps' \in 0 .. MaxMishaps
      BY <1>2, <1>4 DEF Fault
    <2> QED
      BY <1>4, <2>1, <2>2 DEF Fault
  <1>5. ASSUME NEW c \in Callers, NEW j \in Jobs, Post(c, j) PROVE RestOK'
    BY <1>5 DEF Post
  <1>6. ASSUME NEW j \in Jobs,
               Handler(j) \/ Retry(j) \/ Exhausted(j) \/ Age(j) \/ LockLapse(j)
        PROVE  RestOK'
    <2> USE <1>2
    <2>1. CASE Handler(j)
      BY <2>1 DEF Handler, ClaimSet, ClaimGet, Validate, Finish, Freed, RunOver
    <2>2. CASE Retry(j) \/ LockLapse(j)
      BY <2>2 DEF Retry, LockLapse, Freed, RunOver
    <2>3. CASE Exhausted(j) \/ Age(j)
      BY <2>3 DEF Exhausted, Age, Freed, Unlocked
    <2> QED
      BY <1>6, <2>1, <2>2, <2>3
  <1>7. ASSUME NEW c \in Callers, NEW j \in Jobs, Recover(c, j) PROVE RestOK'
    <2>1. manual[j] + 1 \in 0 .. MaxManual
      BY <1>7 DEF Recover, RecoveriesLeft
    <2> QED
      BY <1>7, <2>1 DEF Recover, Touch, Unlocked
  <1>8. CASE Expire \/ Lapse \/ Crash
    BY <1>2, <1>8 DEF Expire, Lapse, Crash
  <1>9. CASE UNCHANGED vars
    BY <1>9 DEF vars
  <1> QED
    BY <1>3, <1>4, <1>5, <1>6, <1>7, <1>8, <1>9 DEF Next, Recovery

\* Every variable keeps its type.
THEOREM SubmissionTyping == Spec => []TypeOK
  <1>1. Init => RestOK
    BY SubmissionAssumption DEF Init, RestOK
  <1>2. PromiseInv /\ RestOK => TypeOK
    BY DEF PromiseInv, RestOK, TypeOK, Calls
  <1>3. PromiseInv /\ RestOK /\ [Next]_vars => RestOK'
    BY RestStays
  <1> QED
    BY <1>1, <1>2, <1>3, PromiseInvInductive, PTL DEF Spec

=============================================================================
