----------------------------- MODULE Submission -----------------------------
(***************************************************************************)
(* What becomes of submissions for one file version.  enqueueFile takes the *)
(* version's queued key, stores the metadata and adds the job to BullMQ,    *)
(* with one command to Redis each, any of which may be refused.  Clients    *)
(* call it through POST /jobs, for the same id too while an earlier request *)
(* is under way or long after, and recoverStuckJobs for what it finds left  *)
(* over.  Of the handler only its claim, the start of its heartbeat and its *)
(* end matter here: retries and locks are JobLifecycle's subject, the single *)
(* commands of the finally block and of /job/cancel, and a job whose handler *)
(* dies twice, FileVersion's.                                               *)
(***************************************************************************)
EXTENDS Integers, FiniteSets

CONSTANTS
  Jobs,         \* ids submitted for this file version
  NoJob,        \* null value, not a job
  Callers,      \* activations of enqueueFile, used again
  MaxRequests,  \* bound: POST /jobs requests in a behaviour
  MaxMishaps,   \* bound: commands Redis refuses, process crashes, attempts to be
                \* repeated, queued keys that reach their 24 hours, and locks and
                \* active keys that reach their three minutes under a handler
  MaxManual     \* MAX_MANUAL_RETRIES

ASSUME SubmissionAssumption ==
  /\ NoJob \notin Jobs
  /\ MaxRequests \in Nat /\ MaxMishaps \in Nat /\ MaxManual \in Nat

VARIABLES
  queued,    \* owner in the queued key, or NoJob
  active,    \* owner in the active key, or NoJob
  meta,      \* meta[j]: status in the job's hash, "none" without a hash
  bull,      \* bull[j]: BullMQ's state of the job, "none" if it has no such id; for
             \* an active job, where its handler is
  unlocked,  \* running jobs whose lock:{id} has lapsed or been deleted by recovery
  unkeyed,   \* jobs at work that have found the active key gone, or lost it
  stale,     \* jobs whose timestamps are beyond the stuck threshold
  manual,    \* manual[j]: manualRetryCount || retryCount
  call,      \* call[c]: where the activation is, and on whose behalf
  answers,   \* answers[j]: what POST /jobs has answered for j
  again,     \* jobs submitted again after BullMQ had completed them
  cutOff,    \* jobs whose metadata never followed the reservation
  requests, mishaps

keyVars == <<queued, active>>
runVars == <<unlocked, unkeyed>>
jobVars == <<meta, bull, stale, manual>>
historyVars == <<answers, again, cutOff>>
boundVars == <<requests, mishaps>>
vars == <<keyVars, jobVars, runVars, call, historyVars, boundVars>>

Idle == [pc |-> "idle", job |-> NoJob, client |-> TRUE, second |-> FALSE]

\* A handler that claims the version, or works on the job: before, or after, it has
\* armed its heartbeat.
AtWork == {"work", "armed"}
Running == {"owner"} \cup AtWork
BullStates == {"none", "waiting", "completed", "failed"} \cup Running

\* Before the reservation is decided; with it.
Reserving == {"check", "reserve", "owner"}
Storing == {"store", "priority", "add"}
GivingBack == {"giveBack", "delBack"}

TypeOK ==
  /\ queued \in Jobs \cup {NoJob} /\ active \in Jobs \cup {NoJob}
  /\ meta \in [Jobs -> {"none", "queued", "retrying", "working", "over"}]
  /\ bull \in [Jobs -> BullStates]
  /\ unlocked \subseteq Jobs /\ unkeyed \subseteq Jobs
  /\ stale \subseteq Jobs /\ again \subseteq Jobs /\ cutOff \subseteq Jobs
  /\ manual \in [Jobs -> 0 .. MaxManual]
  /\ call \in [Callers -> [pc : {"idle"} \cup Reserving \cup Storing \cup GivingBack,
                           job : Jobs \cup {NoJob}, client : BOOLEAN, second : BOOLEAN]]
  /\ answers \in [Jobs -> SUBSET {"accepted", "refused"}]
  /\ requests \in 0 .. MaxRequests /\ mishaps \in 0 .. MaxMishaps

Init ==
  /\ queued = NoJob /\ active = NoJob
  /\ meta = [j \in Jobs |-> "none"] /\ bull = [j \in Jobs |-> "none"]
  /\ unlocked = {} /\ unkeyed = {}
  /\ stale = {} /\ manual = [j \in Jobs |-> 0]
  /\ call = [c \in Callers |-> Idle]
  /\ answers = [j \in Jobs |-> {}] /\ again = {} /\ cutOff = {}
  /\ requests = 0 /\ mishaps = 0

Mishap == mishaps < MaxMishaps /\ mishaps' = mishaps + 1

Step(c, from, to) == call[c].pc = from /\ call' = [call EXCEPT ![c].pc = to]

\* The activation ends; a client is answered 202 or 400, recovery goes on.
End(c, answer) ==
  /\ call' = [call EXCEPT ![c] = Idle]
  /\ answers' = IF call[c].client
                THEN [answers EXCEPT ![call[c].job] = @ \cup {answer}]
                ELSE answers

\* Recovery finds nothing to recover in the job's hash.
Unstored(j) == meta[j] \in {"none", "over"}

\* Which timestamp the staleness test selects is JobLifecycle's subject.
Touch(j) == stale' \in {stale, stale \ {j}}

\* Nor is it of interest here which of the two counters is looked at.
Counted(j) ==
  \E n \in {manual[j], manual[j] + 1} \cap 0 .. MaxManual :
    manual' = [manual EXCEPT ![j] = n]

-----------------------------------------------------------------------------
(* Deliberately wrong variants, for the mutation runs. *)

\* The handler does not look at the active key.
ClaimRegardless(j) == TRUE

\* The metadata is the first thing to be stored.
CheckAndStore(c) ==
  /\ Step(c, "check", "reserve")
  /\ meta' = [meta EXCEPT ![call[c].job] = "queued"]
  /\ UNCHANGED <<keyVars, bull, stale, manual, runVars, historyVars, boundVars>>



\* One recovery too many.
OneMoreRecovery(j) == manual[j] <= MaxManual

-----------------------------------------------------------------------------
(* enqueueFile. *)

\* POST /jobs.
Post(c, j) ==
  /\ requests < MaxRequests
  /\ call[c] = Idle
  /\ requests' = requests + 1
  /\ call' = [call EXCEPT ![c] = [Idle EXCEPT !.pc = "check", !.job = j]]
  /\ UNCHANGED <<keyVars, jobVars, runVars, historyVars, mishaps>>

\* Another job's active key refuses the submission.
Check(c) ==
  /\ call[c].pc = "check"
  /\ IF active \in {NoJob, call[c].job}
     THEN Step(c, "check", "reserve") /\ UNCHANGED answers
     ELSE End(c, "refused")
  /\ UNCHANGED <<keyVars, jobVars, runVars, again, cutOff, boundVars>>

\* SET NX.
Reserve(c) ==
  LET j == call[c].job
  IN  /\ IF queued = NoJob THEN Step(c, "reserve", "store") /\ queued' = j
                          ELSE Step(c, "reserve", "owner") /\ UNCHANGED queued
      /\ again' = IF queued = NoJob /\ bull[j] = "completed" THEN again \cup {j} ELSE again
      /\ UNCHANGED <<active, jobVars, runVars, answers, cutOff, boundVars>>

\* GET: the job's own key, which PEXPIRE extends, whoever owns it by then; nobody's any
\* more; or another job's.
Owner(c) ==
  /\ call[c].pc = "owner"
  /\ \/ queued = call[c].job /\ Step(c, "owner", "store") /\ UNCHANGED answers
     \/ /\ queued = NoJob /\ ~ call[c].second
        /\ call' = [call EXCEPT ![c].pc = "reserve", ![c].second = TRUE]
        /\ UNCHANGED answers
     \/ /\ queued = NoJob => call[c].second
        /\ queued # call[c].job
        /\ End(c, "refused")
  /\ UNCHANGED <<keyVars, jobVars, runVars, again, cutOff, boundVars>>

\* HSET of the metadata, over what an earlier submission stored; its retryCount goes
\* up, which counts as long as there is no manualRetryCount.
Store(c) ==
  LET j == call[c].job
  IN  /\ Step(c, "store", "priority")
      /\ meta' = [meta EXCEPT ![j] = "queued"]
      /\ IF meta[j] = "none" THEN stale' = stale \ {j} /\ UNCHANGED manual
                             ELSE Touch(j) /\ Counted(j)
      /\ again' = IF bull[j] = "completed" THEN again \cup {j} ELSE again
      /\ UNCHANGED <<keyVars, bull, runVars, answers, cutOff, boundVars>>

\* EXPIRE of the hash, and getPriority, which reads it.
Priority(c) ==
  /\ Step(c, "priority", "add")
  /\ UNCHANGED <<keyVars, jobVars, runVars, historyVars, boundVars>>

\* An id that BullMQ has, in whatever state, is not added again.
Add(c) ==
  LET j == call[c].job
  IN  /\ call[c].pc = "add"
      /\ bull' = [bull EXCEPT ![j] = IF @ = "none" THEN "waiting" ELSE @]
      /\ End(c, "accepted")
      /\ UNCHANGED <<keyVars, meta, stale, manual, runVars, again, cutOff, boundVars>>

\* Redis refuses a command c is about to give.  The HSET's error is swallowed.
\* getPriority's is caught and the reservation given back; that of the EXPIRE before it
\* is not, and that of queue.add, which is not awaited, goes past the catch block.
Fault(c) ==
  LET j == call[c].job
  IN  /\ Mishap
      /\ call[c].pc # "idle"
      /\ \/ Step(c, "store", "priority") /\ UNCHANGED answers
         \/ Step(c, "priority", "giveBack") /\ UNCHANGED answers
         \/ call[c].pc # "store" /\ End(c, "refused")
      /\ cutOff' = IF call[c].pc = "store" /\ Unstored(j)
                 THEN cutOff \cup {j} ELSE cutOff
      /\ UNCHANGED <<keyVars, jobVars, runVars, again, requests>>

\* The catch block: GET, and DEL if the key is the job's own.
GiveBack(c) ==
  /\ call[c].pc = "giveBack"
  /\ IF queued = call[c].job THEN Step(c, "giveBack", "delBack") /\ UNCHANGED answers
                             ELSE End(c, "refused")
  /\ UNCHANGED <<keyVars, jobVars, runVars, again, cutOff, boundVars>>

DelBack(c) ==
  /\ call[c].pc = "delBack"
  /\ queued' = NoJob
  /\ End(c, "refused")
  /\ UNCHANGED <<active, jobVars, runVars, again, cutOff, boundVars>>

-----------------------------------------------------------------------------
(* The handler. *)

Freed(key, j) == IF key = j THEN NoJob ELSE key

\* BullMQ gives the job to a handler, which takes lock:{id} and tries SET NX of the
\* active key.
ClaimSet(j) ==
  /\ bull[j] = "waiting"
  /\ bull' = [bull EXCEPT ![j] = IF active = NoJob THEN "work" ELSE "owner"]
  /\ active' = IF active = NoJob THEN j ELSE active
  /\ UNCHANGED <<queued, meta, stale, manual, runVars, call, historyVars, boundVars>>

\* The owner that the GET returns is no other job: there may be none any more.
Claimable(j) == active \in {NoJob, j}

\* GET, when the key was taken, and PEXPIRE, which sets no key that is gone; or
\* DuplicateActiveFileVersionError, which fails the job for good.
ClaimGet(j) ==
  /\ bull[j] = "owner"
  /\ \/ /\ Claimable(j)
        /\ bull' = [bull EXCEPT ![j] = "work"]
        /\ unkeyed' = IF active = NoJob THEN unkeyed \cup {j} ELSE unkeyed
        /\ UNCHANGED <<queued, meta, unlocked>>
     \/ /\ ~ Claimable(j)
        /\ bull' = [bull EXCEPT ![j] = "failed"]
        /\ meta' = [meta EXCEPT ![j] = "over"]
        /\ queued' = Freed(queued, j)
        /\ unlocked' = unlocked \ {j}
        /\ UNCHANGED unkeyed
  /\ UNCHANGED <<active, stale, manual, call, historyVars, boundVars>>

\* The stages before the download are written, with the first heartbeatAt of this
\* attempt, and the heartbeat is armed.
Validate(j) ==
  /\ bull[j] = "work"
  /\ bull' = [bull EXCEPT ![j] = "armed"]
  /\ meta' = [meta EXCEPT ![j] = "working"]
  /\ stale' = stale \ {j}
  /\ UNCHANGED <<keyVars, manual, runVars, call, historyVars, boundVars>>

\* A heartbeat that finds the lock its own keeps the hash fresh and both keys alive.
Beating(j) == bull[j] = "armed" /\ j \notin unlocked

\* The handler is gone, and with it what it knew.
RunOver(j) == unlocked' = unlocked \ {j} /\ unkeyed' = unkeyed \ {j}

\* The job ends, well or badly, and gives its keys back.
Finish(j) ==
  /\ \/ bull[j] \in AtWork /\ bull' = [bull EXCEPT ![j] = "failed"]
     \/ bull[j] = "armed" /\ bull' = [bull EXCEPT ![j] = "completed"]
  /\ meta' = [meta EXCEPT ![j] = "over"]
  /\ queued' = Freed(queued, j) /\ active' = Freed(active, j)
  /\ RunOver(j)
  /\ UNCHANGED <<stale, manual, call, historyVars, boundVars>>

\* The attempt ends, another is to come, at once or after a wait for resources.
Retry(j) ==
  /\ Mishap
  /\ bull[j] \in AtWork
  /\ bull' = [bull EXCEPT ![j] = "waiting"]
  /\ \E state \in {"queued", "retrying"} : meta' = [meta EXCEPT ![j] = state]
  /\ active' = Freed(active, j)
  /\ RunOver(j)
  /\ UNCHANGED <<queued, stale, manual, call, historyVars, requests>>

-----------------------------------------------------------------------------
(* recoverStuckJobs, one pass at a time.  Its commands up to enqueueFile are one *)
(* step here; JobLifecycle takes them apart.  It deletes the lock of a job that  *)
(* runs, but cannot remove the job from BullMQ.                                  *)

LeftAlone(j) ==
  \/ Unstored(j) \/ j \notin stale
  \/ meta[j] = "queued" /\ bull[j] = "waiting"
  \/ bull[j] = "completed"

Removed(j) == bull' = [bull EXCEPT ![j] = IF @ \in Running THEN @ ELSE "none"]

Unlocked(j) == IF bull[j] \in Running THEN unlocked \cup {j} ELSE unlocked

RecoveriesLeft(j) == manual[j] < MaxManual

\* Too many recoveries, or too many attempts in BullMQ's count.
Exhausted(j) ==
  /\ ~ LeftAlone(j) /\ \A c \in Callers : call[c] = Idle \/ call[c].client
  /\ RecoveriesLeft(j) => bull[j] = "failed"
  /\ meta' = [meta EXCEPT ![j] = "over"]
  /\ Removed(j)
  /\ queued' = Freed(queued, j) /\ active' = Freed(active, j)
  /\ unlocked' = Unlocked(j)
  /\ unkeyed' = IF bull[j] \in AtWork THEN unkeyed \cup {j} ELSE unkeyed
  /\ UNCHANGED <<stale, manual, call, historyVars, boundVars>>

\* Unless another job of the version is at work, the job is taken out of BullMQ and
\* submitted again.
Recover(c, j) ==
  /\ ~ LeftAlone(j) /\ \A d \in Callers : call[d] = Idle \/ call[d].client
  /\ RecoveriesLeft(j)
  /\ active \in {NoJob, j}
  /\ call[c] = Idle
  /\ call' = [call EXCEPT ![c] = [Idle EXCEPT !.pc = "check", !.job = j, !.client = FALSE]]
  /\ manual' = [manual EXCEPT ![j] = @ + 1]
  /\ meta' = [meta EXCEPT ![j] = "retrying"]
  /\ Touch(j)
  /\ Removed(j)
  /\ unlocked' = Unlocked(j)
  /\ UNCHANGED <<keyVars, unkeyed, historyVars, boundVars>>

-----------------------------------------------------------------------------
(* Time and crashes. *)

\* Nobody writes to the job's hash for longer than the stuck threshold, which no
\* request lasts; or its heartbeatAt is an earlier attempt's.
Age(j) ==
  /\ meta[j] # "none" /\ j \notin stale /\ ~ Beating(j)
  /\ \A c \in Callers : call[c].job # j
  /\ stale' = stale \cup {j}
  /\ UNCHANGED <<keyVars, meta, bull, manual, runVars, call, historyVars, boundVars>>

\* A handler has not armed its heartbeat when lock:{id} reaches its three minutes.
LockLapse(j) ==
  /\ Mishap
  /\ bull[j] = "work" /\ j \notin unlocked
  /\ unlocked' = unlocked \cup {j}
  /\ UNCHANGED <<keyVars, jobVars, unkeyed, call, historyVars, requests>>

\* So does the active key: after the death of its owner, or under a handler without a
\* heartbeat.
Expire ==
  /\ active # NoJob
  /\ \/ bull[active] \notin AtWork /\ UNCHANGED <<unkeyed, mishaps>>
     \/ /\ bull[active] \in AtWork /\ ~ Beating(active)
        /\ Mishap
        /\ unkeyed' = unkeyed \cup {active}
  /\ active' = NoJob
  /\ UNCHANGED <<queued, jobVars, unlocked, call, historyVars, requests>>

\* The queued key's 24 hours are over.
Lapse ==
  /\ Mishap
  /\ queued # NoJob /\ ~ Beating(queued)
  /\ \A c \in Callers : call[c].job = queued => call[c].pc \in Reserving
  /\ queued' = NoJob
  /\ UNCHANGED <<active, jobVars, runVars, call, historyVars, requests>>

\* The process goes down with the requests and the handlers, whose jobs BullMQ will
\* give to others.
Crash ==
  /\ Mishap
  /\ call' = [c \in Callers |-> Idle]
  /\ bull' = [j \in Jobs |-> IF bull[j] \in Running THEN "waiting" ELSE bull[j]]
  /\ unlocked' = {} /\ unkeyed' = {}
  /\ cutOff' = cutOff \cup
       {j \in Jobs : Unstored(j) /\ \E c \in Callers : call[c].pc = "store" /\ call[c].job = j}
  /\ UNCHANGED <<keyVars, meta, stale, manual, answers, again, requests>>

-----------------------------------------------------------------------------
Enqueue(c) ==
  \/ Check(c) \/ Reserve(c) \/ Owner(c) \/ Store(c) \/ Priority(c)
  \/ Add(c) \/ GiveBack(c) \/ DelBack(c)

Handler(j) == ClaimSet(j) \/ ClaimGet(j) \/ Validate(j) \/ Finish(j)

Recovery(j) == Exhausted(j) \/ \E c \in Callers : Recover(c, j)

Next ==
  \/ \E c \in Callers : Enqueue(c) \/ Fault(c) \/ \E j \in Jobs : Post(c, j)
  \/ \E j \in Jobs : Handler(j) \/ Retry(j) \/ Recovery(j) \/ Age(j) \/ LockLapse(j)
  \/ Expire \/ Lapse \/ Crash

Spec == Init /\ [][Next]_vars

\* Requests are carried out, workers work, recovery passes every minute.
FairSpec ==
  /\ Spec
  /\ \A c \in Callers : WF_vars(Enqueue(c))
  /\ \A j \in Jobs : WF_vars(Handler(j)) /\ WF_vars(Age(j))
  /\ \A j \in Jobs : WF_vars(Recovery(j))

-----------------------------------------------------------------------------
(* Properties *)

\* Of two jobs of the version that are worked on together, one has lost the active key
\* to its time to live or to recovery, or found it taken and then gone; although the
\* queued key may reach its end, be deleted by a request that gives it back, or be
\* extended for a job that does not own it (handleJob's claim of the active key).
OneAtWork == Cardinality({j \in Jobs : bull[j] \in AtWork} \ unkeyed) <= 1

\* A job whose every submission was refused is not run, unless a mishap cut one short
\* (the order of reservation and metadata in enqueueFile).
RefusedStaysOut ==
  \A j \in Jobs :
    /\ mishaps = 0 /\ answers[j] = {"refused"} /\ \A c \in Callers : call[c].job # j
    => bull[j] = "none"



=============================================================================
