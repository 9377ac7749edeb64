--------------------------- MODULE CallbackProofs ---------------------------
(* Proof about CallbackDelivery, for any outcomes, refusals and crashes. *)
EXTENDS CallbackDelivery, TLAPS

\* Whoever is about to delete the key has had an answer from the client, and what
\* the timer posts it has found recorded.
ToldInv ==
  /\ \A o \in Outcomes : pc[o] = "delete" => received # {}
  /\ retry.pc = "post" => retry.read \in Outcomes
  /\ retry.pc = "delete" => received # {}
  /\ NothingDroppedUntold

\* A recorded outcome is not dropped before the client has been told something,
\* although the timer and the senders delete the key without looking at it.
THEOREM NothingIsDroppedUntold == Spec => []NothingDroppedUntold
  <1>1. Init => ToldInv /\ TypeOK
    BY CallbackAssumption DEF Init, ToldInv, TypeOK, NothingDroppedUntold
  <1>2. TypeOK /\ ToldInv /\ [Next]_vars => TypeOK' /\ ToldInv'
    <2> SUFFICES ASSUME TypeOK, ToldInv, [Next]_vars
                 PROVE  TypeOK' /\ ToldInv'
      OBVIOUS
    <2> USE CallbackAssumption DEF TypeOK, ToldInv, NothingDroppedUntold
    <2>1. ASSUME NEW o \in Outcomes, Record(o) PROVE TypeOK' /\ ToldInv'
      BY <2>1 DEF Record
    <2>2. ASSUME NEW o \in Outcomes, Notify(o) PROVE TypeOK' /\ ToldInv'
      <3>1. PICK ok \in BOOLEAN :
              /\ Post(o, ok)
              /\ pc' = [pc EXCEPT ![o] = IF ok THEN "delete" ELSE "done"]
        BY <2>2 DEF Notify, Accepted
      <3>2. received' \in {received, received \cup {o}} /\ refusals' \in 0 .. MaxRefusals
        BY <3>1 DEF Post
      <3>3. ok => o \in received'
        BY <3>1 DEF Post
      <3>4. UNCHANGED <<pending, latest, url, retry, crashes>>
        BY <2>2 DEF Notify
      <3> HIDE <2>2
      <3> QED
        BY <3>1, <3>2, <3>3, <3>4
    <2>3. ASSUME NEW o \in Outcomes, Delete(o) PROVE TypeOK' /\ ToldInv'
      BY <2>3 DEF Delete
    <2>4. CASE RetryRead
      BY <2>4 DEF RetryRead
    <2>5. CASE RetryPost
      <3>1. PICK ok \in BOOLEAN :
              /\ Post(retry.read, ok)
              /\ retry' = [retry EXCEPT !.pc = IF ok THEN "delete" ELSE "idle"]
        BY <2>5 DEF RetryPost, Accepted
      <3>2. /\ received' \in {received, received \cup {retry.read}}
            /\ refusals' \in 0 .. MaxRefusals
        BY <3>1 DEF Post
      <3>3. ok => retry.read \in received'
        BY <3>1 DEF Post
      <3>4. retry.read \in Outcomes /\ UNCHANGED <<pending, latest, url, pc, crashes>>
        BY <2>5 DEF RetryPost
      <3> QED
        BY <3>1, <3>2, <3>3, <3>4
    <2>6. CASE RetryDelete
      BY <2>6 DEF RetryDelete
    <2>7. CASE Crash
      BY <2>7 DEF Crash
    <2>8. CASE Expire
      BY <2>8 DEF Expire
    <2>9. CASE UNCHANGED vars
      BY <2>9 DEF vars
    <2> QED
      BY <2>1, <2>2, <2>3, <2>4, <2>5, <2>6, <2>7, <2>8, <2>9 DEF Next, Retry
  <1>3. ToldInv => NothingDroppedUntold
    BY DEF ToldInv
  <1> QED
    BY <1>1, <1>2, <1>3, PTL DEF Spec

=============================================================================
