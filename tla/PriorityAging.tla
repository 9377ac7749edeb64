---------------------------- MODULE PriorityAging ----------------------------
(***************************************************************************)
(* The order in which the jobs of one queue are served.  getPriority gives  *)
(* a job a number when it is added, from its tier and its time since        *)
(* createdAt, and the scheduler computes the numbers of the jobs getWaiting *)
(* returns again every minute.  BullMQ 5 keeps jobs without a priority, or  *)
(* with 0, in the list "wait", which getWaiting returns and which is served *)
(* first, and all others in the sorted set "prioritized".                   *)
(*                                                                         *)
(* A tick is the time in which a job ages by one point.  The size class is  *)
(* the same for all jobs of a queue and left out.                           *)
(***************************************************************************)
EXTENDS Integers

CONSTANTS
  Jobs,      \* places for jobs that wait at the same time; one is used again
             \* when its job has been served
  Tiers,     \* tierWeight of the users; without 0 no job is added with the number 0
  TierStep,  \* points between two tiers, 10 in the code
  Short,     \* bound: ticks that pass while two jobs wait
  MaxAge     \* bound: ticks after which the age of a job counts no further; above
             \* Short by more than the tiers are apart, so that age can outweigh tier

VARIABLES
  place,  \* place[j]: "out", or where in BullMQ the job is
  tier,   \* tier[j]
  age,    \* age[j]: ticks since createdAt
  score   \* score[j]: the priority BullMQ has for the job

vars == <<place, tier, age, score>>

Init ==
  /\ place = [j \in Jobs |-> "out"]
  /\ tier \in [Jobs -> Tiers]
  /\ age = [j \in Jobs |-> 0] /\ score = [j \in Jobs |-> 0]

Queued == {j \in Jobs : place[j] # "out"}

basePriority(t) == t * TierStep

\* a ticks and part of another have passed, or exactly a; the result is rounded down.
getPriority(t, a, part) == basePriority(t) - a - part

\* Where BullMQ puts a job with priority p.
PlaceFor(p) == IF p = 0 THEN "wait" ELSE "prioritized"

-----------------------------------------------------------------------------
\* queue.add in enqueueFile.
Submit(j) ==
  /\ place[j] = "out"
  /\ \E t \in Tiers, part \in {0, 1} :
       LET p == getPriority(t, 0, part) IN
       /\ tier' = [tier EXCEPT ![j] = t]
       /\ score' = [score EXCEPT ![j] = p]
       /\ place' = [place EXCEPT ![j] = PlaceFor(p)]
  /\ age' = [age EXCEPT ![j] = 0]

Tick ==
  /\ \E j \in Queued : age[j] < MaxAge
  /\ \A i, j \in Queued : i # j => age[i] < Short \/ age[j] < Short
  /\ age' = [j \in Jobs |-> IF j \in Queued /\ age[j] < MaxAge THEN age[j] + 1 ELSE age[j]]
  /\ UNCHANGED <<place, tier, score>>

\* The jobs getWaiting returns: those in the list.
Waiting == {j \in Jobs : place[j] = "wait"}

\* rebalanceQueue: one round over the jobs it has got.
Rebalance ==
  /\ Waiting # {}
  /\ \E part \in [Waiting -> {0, 1}] :
       score' = [j \in Jobs |->
         IF j \in Waiting THEN getPriority(tier[j], age[j], part[j]) ELSE score[j]]
  /\ place' = [j \in Jobs |-> IF j \in Waiting THEN PlaceFor(score'[j]) ELSE place[j]]
  /\ UNCHANGED <<tier, age>>

\* A worker is free: the list first, then the lowest number, of equal ones the older.
Before(j, i) == score[j] < score[i] \/ (score[j] = score[i] /\ age[j] >= age[i])

Serve(j) ==
  /\ \/ place[j] = "wait" /\ \A i \in Waiting : age[j] >= age[i]
     \/ place[j] = "prioritized" /\ \A i \in Queued : place[i] = "prioritized" /\ Before(j, i)
  /\ place' = [place EXCEPT ![j] = "out"]
  /\ age' = [age EXCEPT ![j] = 0] /\ score' = [score EXCEPT ![j] = 0]
  /\ UNCHANGED tier

-----------------------------------------------------------------------------
Serving == \E j \in Jobs : Serve(j)

Next ==
  \/ \E j \in Jobs : Submit(j)
  \/ Tick \/ Rebalance \/ Serving

\* Time passes, the scheduler comes round every minute, and workers keep working.
FairSpec ==
  /\ Init /\ [][Next]_vars
  /\ WF_vars(Tick) /\ WF_vars(Rebalance) /\ WF_vars(Serving)

-----------------------------------------------------------------------------
(* Properties *)

\* No job is passed forever by jobs of a better tier alone: it is served, or meets one
\* that is of no better tier (rebalanceQueue).
NoStarvation ==
  \A j \in Jobs :
    place[j] # "out" ~> \/ place[j] = "out"
                        \/ \E i \in Queued \ {j} : tier[i] >= tier[j]

=============================================================================
