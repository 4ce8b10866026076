------------------------- MODULE WarrantyQueueProofs -------------------------
(***************************************************************************)
(* Proofs about WarrantyQueue, for every set of jobs, serials and lanes and *)
(* every value of the bounds.                                               *)
(***************************************************************************)
EXTENDS WarrantyQueue, TLAPS

USE DEF Items, JobOf, SerialOf, OfJob, Answers, ItemStates, Lookups, Working, Busy

-----------------------------------------------------------------------------
\* Every step is one of the named actions.
LEMMA StepCases ==
    ASSUME [Next]_vars
    PROVE  \/ \E j \in Jobs :
                \/ ReadCache(j) \/ InsertJob(j) \/ InsertItems(j) \/ InsertItemsFails(j)
                \/ RetryReset(j) \/ RetryExhaust(j) \/ RetryRequeue(j)
           \/ SweepExhaust \/ SweepRequeue
           \/ \E l \in Lanes :
                \/ \E i \in Items : Claim(l, i)
                \/ CheckCache(l)
                \/ \E a \in Answers : HpAnswers(l, a)
                \/ HpRefuses(l) \/ StoreAnswer(l) \/ MarkDone(l) \/ MarkFailed(l)
                \/ CaughtDbError(l) \/ LaneDies(l)
           \/ ClosePool \/ CrashAndRestart
           \/ \E i \in Items : Age(i)
           \/ UNCHANGED vars
  BY DEF Next, Upload, Retry, Housekeeping, LaneStep, Ask, Fault

\* The type invariant holds initially.
LEMMA TypeInit == Init => TypeOK
  BY QueueAssumption DEF Init, TypeOK

\* Every step keeps the type invariant.
LEMMA TypeStep == TypeOK /\ [Next]_vars => TypeOK'
<1> SUFFICES ASSUME TypeOK, [Next]_vars PROVE TypeOK'
  OBVIOUS
<1> USE QueueAssumption DEF TypeOK
<1>1. ASSUME NEW j \in Jobs, ReadCache(j) PROVE TypeOK'
  BY <1>1 DEF ReadCache, itemVars, laneVars, faultVars
<1>2. ASSUME NEW j \in Jobs, InsertJob(j) PROVE TypeOK'
  BY <1>2 DEF InsertJob, itemVars, laneVars, faultVars
<1>3. ASSUME NEW j \in Jobs, InsertItems(j) PROVE TypeOK'
  BY <1>3 DEF InsertItems, ForgetRequest, laneVars, faultVars
<1>4. ASSUME NEW j \in Jobs, InsertItemsFails(j) PROVE TypeOK'
  BY <1>4 DEF InsertItemsFails, ForgetRequest, itemVars, laneVars
<1>5. ASSUME NEW j \in Jobs, RetryReset(j) PROVE TypeOK'
  BY <1>5 DEF RetryReset, PutBack, faultVars
<1>6. ASSUME NEW j \in Jobs, RetryExhaust(j) PROVE TypeOK'
  BY <1>6 DEF RetryExhaust, Exhaust, Stale, laneVars, faultVars
<1>7. ASSUME NEW j \in Jobs, RetryRequeue(j) PROVE TypeOK'
  BY <1>7 DEF RetryRequeue, Requeue, PutBack, Stale, faultVars
<1>8. CASE SweepExhaust
  BY <1>8 DEF SweepExhaust, Exhaust, Stale, apiVars, laneVars, faultVars
<1>9. CASE SweepRequeue
  BY <1>9 DEF SweepRequeue, Requeue, PutBack, Stale, apiVars, faultVars
<1>10. ASSUME NEW l \in Lanes, NEW i \in Items, Claim(l, i) PROVE TypeOK'
  BY <1>10 DEF Claim, apiVars, faultVars
<1>11. ASSUME NEW l \in Lanes, CheckCache(l) PROVE TypeOK'
  BY <1>11 DEF CheckCache, Goto, itemVars, apiVars, faultVars
<1>12. ASSUME NEW l \in Lanes, NEW a \in Answers, HpAnswers(l, a) PROVE TypeOK'
  BY <1>12 DEF HpAnswers, Goto, itemVars, apiVars, faultVars
<1>13. ASSUME NEW l \in Lanes, HpRefuses(l) PROVE TypeOK'
  BY <1>13 DEF HpRefuses, Goto, itemVars, apiVars, faultVars
<1>14. ASSUME NEW l \in Lanes, StoreAnswer(l) PROVE TypeOK'
  BY <1>14 DEF StoreAnswer, Goto, itemVars, apiVars, faultVars
<1>15. ASSUME NEW l \in Lanes, MarkDone(l) PROVE TypeOK'
  <2>1. held[l] \in Items /\ answer[l] \in Lookups
    BY <1>15 DEF MarkDone
  <2> QED
    BY <1>15, <2>1 DEF MarkDone, Settle, Release, apiVars, faultVars
<1>16. ASSUME NEW l \in Lanes, MarkFailed(l) PROVE TypeOK'
  BY <1>16 DEF MarkFailed, Settle, Release, apiVars, faultVars
<1>17. ASSUME NEW l \in Lanes, CaughtDbError(l) PROVE TypeOK'
  BY <1>17 DEF CaughtDbError, Goto, itemVars, apiVars
<1>18. ASSUME NEW l \in Lanes, LaneDies(l) PROVE TypeOK'
  BY <1>18 DEF LaneDies, Release, itemVars, apiVars
<1>19. CASE ClosePool
  BY <1>19 DEF ClosePool, DropItems, itemVars, apiVars
<1>20. CASE CrashAndRestart
  BY <1>20 DEF CrashAndRestart, DropItems, itemVars, apiVars
<1>21. ASSUME NEW i \in Items, Age(i) PROVE TypeOK'
  BY <1>21 DEF Age, apiVars, laneVars, faultVars
<1>22. CASE UNCHANGED vars
  BY <1>22 DEF vars, itemVars, apiVars, laneVars, faultVars
<1> HIDE DEF TypeOK, Items, Answers
<1> QED
  BY StepCases, <1>1, <1>2, <1>3, <1>4, <1>5, <1>6, <1>7, <1>8, <1>9, <1>10, <1>11,
     <1>12, <1>13, <1>14, <1>15, <1>16, <1>17, <1>18, <1>19, <1>20, <1>21, <1>22

\* Every variable of the queue keeps its type.
THEOREM TypeCorrect == Spec => []TypeOK
  BY TypeInit, TypeStep, PTL DEF Spec
-----------------------------------------------------------------------------
\* Rows stay coherent: every statement that writes a state writes the result
\* and the lock that go with it, and no late write can separate them.
LEMMA RowStep == TypeOK /\ RowCoherent /\ [Next]_vars => RowCoherent'
<1> SUFFICES ASSUME TypeOK, RowCoherent, [Next]_vars PROVE RowCoherent'
  OBVIOUS
<1> USE QueueAssumption DEF TypeOK, RowCoherent, itemVars, apiVars, laneVars, faultVars
<1>1. ASSUME NEW j \in Jobs, ReadCache(j) PROVE RowCoherent'
  BY <1>1 DEF ReadCache
<1>2. ASSUME NEW j \in Jobs, InsertJob(j) PROVE RowCoherent'
  BY <1>2 DEF InsertJob
<1>3. ASSUME NEW j \in Jobs, InsertItems(j) PROVE RowCoherent'
  BY <1>3 DEF InsertItems
<1>4. ASSUME NEW j \in Jobs, InsertItemsFails(j) PROVE RowCoherent'
  BY <1>4 DEF InsertItemsFails
<1>5. ASSUME NEW j \in Jobs, RetryReset(j) PROVE RowCoherent'
  BY <1>5 DEF RetryReset, PutBack
<1>6. ASSUME NEW j \in Jobs, RetryExhaust(j) PROVE RowCoherent'
  BY <1>6 DEF RetryExhaust, Exhaust, Stale
<1>7. ASSUME NEW j \in Jobs, RetryRequeue(j) PROVE RowCoherent'
  BY <1>7 DEF RetryRequeue, Requeue, PutBack, Stale
<1>8. CASE SweepExhaust
  BY <1>8 DEF SweepExhaust, Exhaust, Stale
<1>9. CASE SweepRequeue
  BY <1>9 DEF SweepRequeue, Requeue, PutBack, Stale
<1>10. ASSUME NEW l \in Lanes, NEW i \in Items, Claim(l, i) PROVE RowCoherent'
  BY <1>10 DEF Claim
<1>11. ASSUME NEW l \in Lanes, CheckCache(l) PROVE RowCoherent'
  BY <1>11 DEF CheckCache, Goto
<1>12. ASSUME NEW l \in Lanes, NEW a \in Answers, HpAnswers(l, a) PROVE RowCoherent'
  BY <1>12 DEF HpAnswers, Goto
<1>13. ASSUME NEW l \in Lanes, HpRefuses(l) PROVE RowCoherent'
  BY <1>13 DEF HpRefuses, Goto
<1>14. ASSUME NEW l \in Lanes, StoreAnswer(l) PROVE RowCoherent'
  BY <1>14 DEF StoreAnswer, Goto
<1>15. ASSUME NEW l \in Lanes, MarkDone(l) PROVE RowCoherent'
  BY <1>15 DEF MarkDone, Settle, Release
<1>16. ASSUME NEW l \in Lanes, MarkFailed(l) PROVE RowCoherent'
  BY <1>16 DEF MarkFailed, Settle, Release
<1>17. ASSUME NEW l \in Lanes, CaughtDbError(l) PROVE RowCoherent'
  BY <1>17 DEF CaughtDbError, Goto
<1>18. ASSUME NEW l \in Lanes, LaneDies(l) PROVE RowCoherent'
  BY <1>18 DEF LaneDies, Release
<1>19. CASE ClosePool
  BY <1>19 DEF ClosePool, DropItems
<1>20. CASE CrashAndRestart
  BY <1>20 DEF CrashAndRestart, DropItems
<1>21. ASSUME NEW i \in Items, Age(i) PROVE RowCoherent'
  BY <1>21 DEF Age
<1>22. CASE UNCHANGED vars
  BY <1>22 DEF vars
<1> HIDE DEF TypeOK, RowCoherent, Items, Answers
<1> QED
  BY StepCases, <1>1, <1>2, <1>3, <1>4, <1>5, <1>6, <1>7, <1>8, <1>9, <1>10, <1>11, <1>12,
     <1>13, <1>14, <1>15, <1>16, <1>17, <1>18, <1>19, <1>20, <1>21, <1>22

\* A row's state, result and lock agree at all times; in particular every row in
\* processing carries the lock by which the reclaim can find it.
THEOREM RowsCoherent == Spec => []RowCoherent
<1>1. Init => RowCoherent
  BY QueueAssumption DEF Init, RowCoherent
<1> QED
  BY <1>1, TypeCorrect, RowStep, PTL DEF Spec

-----------------------------------------------------------------------------
\* While a lane's item has not been put back, the item is not up for claiming,
\* and no other lane has it.
ClaimInv ==
    /\ \A l \in Lanes : Busy(l) /\ ~requeued[l] => state[held[l]] \notin {"absent", "pending"}
    /\ \A l \in Lanes : Busy(l) => state[held[l]] # "absent"
    /\ ExclusiveClaim

\* Putting rows back marks every lane that holds one of them.
LEMMA PutBackClaims ==
    ASSUME TypeOK, ClaimInv, NEW back, PutBack(back),
           \A i \in Items : i \in back => state[i] # "absent"
    PROVE  ClaimInv'
<1> USE DEF TypeOK, ClaimInv, ExclusiveClaim
<1>1. /\ pc' = pc /\ held' = held
      /\ \A l \in Lanes : requeued'[l] = (requeued[l] \/ (Busy(l) /\ held[l] \in back))
      /\ \A i \in Items : state'[i] = IF i \in back THEN "pending" ELSE state[i]
  BY DEF PutBack
<1>2. ASSUME NEW l \in Lanes, Busy(l)'
      PROVE  /\ ~requeued'[l] => state'[held'[l]] \notin {"absent", "pending"}
             /\ state'[held'[l]] # "absent"
  <2>1. Busy(l) /\ held[l] \in Items
    BY <1>1, <1>2
  <2> QED
    BY <1>1, <2>1
<1>3. ASSUME NEW l \in Lanes, NEW m \in Lanes,
             l # m, Busy(l)', Busy(m)', held'[l] = held'[m]
      PROVE  requeued'[l] \/ requeued'[m]
  <2>1. Busy(l) /\ Busy(m) /\ held[l] = held[m]
    BY <1>1, <1>3
  <2>2. requeued[l] \/ requeued[m]
    BY <1>3, <2>1
  <2> QED
    BY <1>1, <2>2
<1> QED
  BY <1>2, <1>3

\* Only PutBack makes an item claimable, and it marks every lane that holds it.
LEMMA ClaimStep == TypeOK /\ ClaimInv /\ [Next]_vars => ClaimInv'
<1> SUFFICES ASSUME TypeOK, ClaimInv, [Next]_vars PROVE ClaimInv'
  OBVIOUS
<1> USE QueueAssumption DEF TypeOK, ClaimInv, ExclusiveClaim, itemVars, apiVars, laneVars, faultVars
<1>1. ASSUME NEW j \in Jobs, ReadCache(j) PROVE ClaimInv'
  BY <1>1 DEF ReadCache
<1>2. ASSUME NEW j \in Jobs, InsertJob(j) PROVE ClaimInv'
  BY <1>2 DEF InsertJob
<1>3. ASSUME NEW j \in Jobs, InsertItems(j) PROVE ClaimInv'
  BY <1>3 DEF InsertItems
<1>4. ASSUME NEW j \in Jobs, InsertItemsFails(j) PROVE ClaimInv'
  BY <1>4 DEF InsertItemsFails
<1>5. ASSUME NEW j \in Jobs, RetryReset(j) PROVE ClaimInv'
  <2>1. \A i \in Items : i \in {k \in OfJob(j) : state[k] = "failed"} => state[i] # "absent"
    OBVIOUS
  <2> QED
    BY <1>5, <2>1, PutBackClaims DEF RetryReset
<1>6. ASSUME NEW j \in Jobs, RetryExhaust(j) PROVE ClaimInv'
  BY <1>6 DEF RetryExhaust, Exhaust, Stale
<1>7. ASSUME NEW j \in Jobs, RetryRequeue(j) PROVE ClaimInv'
  <2> DEFINE back == {i \in OfJob(j) : Stale(i) /\ attempts[i] < RetryMaxAttempts}
  <2>1. \A i \in Items : i \in back => state[i] # "absent"
    BY DEF Stale
  <2> QED
    BY <1>7, <2>1, PutBackClaims DEF RetryRequeue, Requeue
<1>8. CASE SweepExhaust
  BY <1>8 DEF SweepExhaust, Exhaust, Stale
<1>9. CASE SweepRequeue
  <2> DEFINE back == {i \in Items : Stale(i) /\ attempts[i] < MaxAttempts}
  <2>1. \A i \in Items : i \in back => state[i] # "absent"
    BY DEF Stale
  <2> QED
    BY <1>9, <2>1, PutBackClaims DEF SweepRequeue, Requeue
<1>10. ASSUME NEW l \in Lanes, NEW i \in Items, Claim(l, i) PROVE ClaimInv'
  BY <1>10 DEF Claim
<1>11. ASSUME NEW l \in Lanes, CheckCache(l) PROVE ClaimInv'
  BY <1>11 DEF CheckCache, Goto
<1>12. ASSUME NEW l \in Lanes, NEW a \in Answers, HpAnswers(l, a) PROVE ClaimInv'
  BY <1>12 DEF HpAnswers, Goto
<1>13. ASSUME NEW l \in Lanes, HpRefuses(l) PROVE ClaimInv'
  BY <1>13 DEF HpRefuses, Goto
<1>14. ASSUME NEW l \in Lanes, StoreAnswer(l) PROVE ClaimInv'
  BY <1>14 DEF StoreAnswer, Goto
<1>15. ASSUME NEW l \in Lanes, MarkDone(l) PROVE ClaimInv'
  BY <1>15 DEF MarkDone, Settle, Release
<1>16. ASSUME NEW l \in Lanes, MarkFailed(l) PROVE ClaimInv'
  BY <1>16 DEF MarkFailed, Settle, Release
<1>17. ASSUME NEW l \in Lanes, CaughtDbError(l) PROVE ClaimInv'
  BY <1>17 DEF CaughtDbError, Goto
<1>18. ASSUME NEW l \in Lanes, LaneDies(l) PROVE ClaimInv'
  BY <1>18 DEF LaneDies, Release
<1>19. CASE ClosePool
  BY <1>19 DEF ClosePool, DropItems
<1>20. CASE CrashAndRestart
  BY <1>20 DEF CrashAndRestart, DropItems
<1>21. ASSUME NEW i \in Items, Age(i) PROVE ClaimInv'
  BY <1>21 DEF Age
<1>22. CASE UNCHANGED vars
  BY <1>22 DEF vars
<1> HIDE DEF TypeOK, ClaimInv, Items, Answers
<1> QED
  BY StepCases, <1>1, <1>2, <1>3, <1>4, <1>5, <1>6, <1>7, <1>8, <1>9, <1>10, <1>11, <1>12,
     <1>13, <1>14, <1>15, <1>16, <1>17, <1>18, <1>19, <1>20, <1>21, <1>22

\* Two lanes work on one item only after it was requeued under one of them.
THEOREM ClaimsExclusive == Spec => []ExclusiveClaim
<1>1. Init => ClaimInv
  BY QueueAssumption DEF Init, ClaimInv, ExclusiveClaim
<1>2. ClaimInv => ExclusiveClaim
  BY DEF ClaimInv
<1> QED
  BY <1>1, <1>2, TypeCorrect, ClaimStep, PTL DEF Spec

-----------------------------------------------------------------------------
\* A claimable item still has a claim left under the bound, so the claim that
\* takes it cannot pass the bound.
AttemptsInv == \A i \in Items :
    /\ attempts[i] <= AttemptLimit + resets[JobOf(i)]
    /\ state[i] = "pending" => attempts[i] < AttemptLimit + resets[JobOf(i)]
    /\ state[i] = "absent" => attempts[i] = 0

\* Each way back to pending leaves room for one more claim: a requeue checks
\* the limit, and a Retry raises the bound.
LEMMA AttemptsStep == TypeOK /\ ClaimInv /\ AttemptsInv /\ [Next]_vars => AttemptsInv'
<1> SUFFICES ASSUME TypeOK, ClaimInv, AttemptsInv, [Next]_vars PROVE AttemptsInv'
  OBVIOUS
<1> USE QueueAssumption DEF TypeOK, ClaimInv, AttemptsInv, AttemptLimit, itemVars, apiVars, laneVars, faultVars
<1>1. ASSUME NEW j \in Jobs, ReadCache(j) PROVE AttemptsInv'
  BY <1>1 DEF ReadCache
<1>2. ASSUME NEW j \in Jobs, InsertJob(j) PROVE AttemptsInv'
  BY <1>2 DEF InsertJob
<1>3. ASSUME NEW j \in Jobs, InsertItems(j) PROVE AttemptsInv'
  BY <1>3 DEF InsertItems
<1>4. ASSUME NEW j \in Jobs, InsertItemsFails(j) PROVE AttemptsInv'
  BY <1>4 DEF InsertItemsFails
<1>5. ASSUME NEW j \in Jobs, RetryReset(j) PROVE AttemptsInv'
  BY <1>5 DEF RetryReset, PutBack
<1>6. ASSUME NEW j \in Jobs, RetryExhaust(j) PROVE AttemptsInv'
  BY <1>6 DEF RetryExhaust, Exhaust, Stale
<1>7. ASSUME NEW j \in Jobs, RetryRequeue(j) PROVE AttemptsInv'
  BY <1>7 DEF RetryRequeue, Requeue, PutBack, Stale
<1>8. CASE SweepExhaust
  BY <1>8 DEF SweepExhaust, Exhaust, Stale
<1>9. CASE SweepRequeue
  BY <1>9 DEF SweepRequeue, Requeue, PutBack, Stale
<1>10. ASSUME NEW l \in Lanes, NEW i \in Items, Claim(l, i) PROVE AttemptsInv'
  BY <1>10 DEF Claim
<1>11. ASSUME NEW l \in Lanes, CheckCache(l) PROVE AttemptsInv'
  BY <1>11 DEF CheckCache, Goto
<1>12. ASSUME NEW l \in Lanes, NEW a \in Answers, HpAnswers(l, a) PROVE AttemptsInv'
  BY <1>12 DEF HpAnswers, Goto
<1>13. ASSUME NEW l \in Lanes, HpRefuses(l) PROVE AttemptsInv'
  BY <1>13 DEF HpRefuses, Goto
<1>14. ASSUME NEW l \in Lanes, StoreAnswer(l) PROVE AttemptsInv'
  BY <1>14 DEF StoreAnswer, Goto
<1>15. ASSUME NEW l \in Lanes, MarkDone(l) PROVE AttemptsInv'
  BY <1>15 DEF MarkDone, Settle, Release
<1>16. ASSUME NEW l \in Lanes, MarkFailed(l) PROVE AttemptsInv'
  BY <1>16 DEF MarkFailed, Settle, Release
<1>17. ASSUME NEW l \in Lanes, CaughtDbError(l) PROVE AttemptsInv'
  BY <1>17 DEF CaughtDbError, Goto
<1>18. ASSUME NEW l \in Lanes, LaneDies(l) PROVE AttemptsInv'
  BY <1>18 DEF LaneDies, Release
<1>19. CASE ClosePool
  BY <1>19 DEF ClosePool, DropItems
<1>20. CASE CrashAndRestart
  BY <1>20 DEF CrashAndRestart, DropItems
<1>21. ASSUME NEW i \in Items, Age(i) PROVE AttemptsInv'
  BY <1>21 DEF Age
<1>22. CASE UNCHANGED vars
  BY <1>22 DEF vars
<1> HIDE DEF TypeOK, ClaimInv, AttemptsInv, Items, Answers
<1> QED
  BY StepCases, <1>1, <1>2, <1>3, <1>4, <1>5, <1>6, <1>7, <1>8, <1>9, <1>10, <1>11, <1>12,
     <1>13, <1>14, <1>15, <1>16, <1>17, <1>18, <1>19, <1>20, <1>21, <1>22

\* No serial is claimed more often than the attempt limit plus one claim for
\* each Retry of its job, through any number of crashes and late lanes.
THEOREM ClaimsBounded == Spec => []AttemptsBounded
<1>1. Init => AttemptsInv
  BY QueueAssumption DEF Init, AttemptsInv, AttemptLimit
<1>2. AttemptsInv => AttemptsBounded
  BY DEF AttemptsInv, AttemptsBounded
<1>3. Init => ClaimInv
  BY QueueAssumption DEF Init, ClaimInv, ExclusiveClaim
<1> QED
  BY <1>1, <1>2, <1>3, TypeCorrect, ClaimStep, AttemptsStep, PTL DEF Spec

-----------------------------------------------------------------------------
\* Whatever saw an answer in the cache, or stored one, still finds one there:
\* the cache never loses a row.
CacheInv ==
    /\ \A j \in Jobs, s \in Serials : hits[j][s] # "none" => cache[s] # "none"
    /\ \A l \in Lanes : Busy(l) /\ knew[l] => cache[SerialOf(held[l])] # "none"
    /\ \A l \in Lanes : pc[l] \in {"known", "stored"} => cache[SerialOf(held[l])] # "none"
    /\ NoLateFetch
    /\ AnswersAreCached

\* The check after the claim is what keeps a lane from asking again.
LEMMA CacheStep == TypeOK /\ RowCoherent /\ CacheInv /\ [Next]_vars => CacheInv'
<1> SUFFICES ASSUME TypeOK, RowCoherent, CacheInv, [Next]_vars PROVE CacheInv'
  OBVIOUS
<1> USE QueueAssumption DEF TypeOK, RowCoherent, CacheInv, NoLateFetch, AnswersAreCached, itemVars, apiVars, laneVars, faultVars
<1>1. ASSUME NEW j \in Jobs, ReadCache(j) PROVE CacheInv'
  BY <1>1 DEF ReadCache
<1>2. ASSUME NEW j \in Jobs, InsertJob(j) PROVE CacheInv'
  BY <1>2 DEF InsertJob
<1>3. ASSUME NEW j \in Jobs, InsertItems(j) PROVE CacheInv'
  BY <1>3 DEF InsertItems, ForgetRequest
<1>4. ASSUME NEW j \in Jobs, InsertItemsFails(j) PROVE CacheInv'
  BY <1>4 DEF InsertItemsFails, ForgetRequest
<1>5. ASSUME NEW j \in Jobs, RetryReset(j) PROVE CacheInv'
  BY <1>5 DEF RetryReset, PutBack
<1>6. ASSUME NEW j \in Jobs, RetryExhaust(j) PROVE CacheInv'
  BY <1>6 DEF RetryExhaust, Exhaust, Stale
<1>7. ASSUME NEW j \in Jobs, RetryRequeue(j) PROVE CacheInv'
  BY <1>7 DEF RetryRequeue, Requeue, PutBack, Stale
<1>8. CASE SweepExhaust
  BY <1>8 DEF SweepExhaust, Exhaust, Stale
<1>9. CASE SweepRequeue
  BY <1>9 DEF SweepRequeue, Requeue, PutBack, Stale
<1>10. ASSUME NEW l \in Lanes, NEW i \in Items, Claim(l, i) PROVE CacheInv'
  <2>1. /\ cache' = cache /\ hits' = hits /\ lookup' = lookup
        /\ pc' = [pc EXCEPT ![l] = "claimed"] /\ held' = [held EXCEPT ![l] = i]
        /\ \A m \in Lanes \ {l} : knew'[m] = knew[m]
    BY <1>10 DEF Claim
  <2>2. ASSUME NEW m \in Lanes, Busy(m)', knew'[m]
        PROVE  cache'[SerialOf(held'[m])] # "none"
    <3>1. CASE m = l
      <4>1. SUFFICES ASSUME cache[SerialOf(i)] = "none" PROVE FALSE
        BY <2>1, <3>1
      <4>2. (cache[SerialOf(i)] # "none") = FALSE
        BY <4>1
      <4>3. knew' = [knew EXCEPT ![l] = FALSE]
        BY <1>10, <4>2, Zenon DEF Claim
      <4> QED
        BY <2>2, <3>1, <4>3
    <3>2. CASE m # l
      BY <2>1, <2>2, <3>2
    <3> QED
      BY <3>1, <3>2
  <2>3. (NoLateFetch /\ AnswersAreCached)'
    BY <2>1
  <2> QED
    BY <2>1, <2>2, <2>3
<1>11. ASSUME NEW l \in Lanes, CheckCache(l) PROVE CacheInv'
  BY <1>11 DEF CheckCache, Goto
<1>12. ASSUME NEW l \in Lanes, NEW a \in Answers, HpAnswers(l, a) PROVE CacheInv'
  BY <1>12 DEF HpAnswers, Goto
<1>13. ASSUME NEW l \in Lanes, HpRefuses(l) PROVE CacheInv'
  BY <1>13 DEF HpRefuses, Goto
<1>14. ASSUME NEW l \in Lanes, StoreAnswer(l) PROVE CacheInv'
  BY <1>14 DEF StoreAnswer, Goto
<1>15. ASSUME NEW l \in Lanes, MarkDone(l) PROVE CacheInv'
  BY <1>15 DEF MarkDone, Settle, Release
<1>16. ASSUME NEW l \in Lanes, MarkFailed(l) PROVE CacheInv'
  BY <1>16 DEF MarkFailed, Settle, Release
<1>17. ASSUME NEW l \in Lanes, CaughtDbError(l) PROVE CacheInv'
  BY <1>17 DEF CaughtDbError, Goto
<1>18. ASSUME NEW l \in Lanes, LaneDies(l) PROVE CacheInv'
  BY <1>18 DEF LaneDies, Release
<1>19. CASE ClosePool
  BY <1>19 DEF ClosePool, DropItems
<1>20. CASE CrashAndRestart
  BY <1>20 DEF CrashAndRestart, DropItems
<1>21. ASSUME NEW i \in Items, Age(i) PROVE CacheInv'
  BY <1>21 DEF Age
<1>22. CASE UNCHANGED vars
  BY <1>22 DEF vars
<1> HIDE DEF TypeOK, RowCoherent, CacheInv, Items, Answers
<1> QED
  BY StepCases, <1>1, <1>2, <1>3, <1>4, <1>5, <1>6, <1>7, <1>8, <1>9, <1>10, <1>11, <1>12,
     <1>13, <1>14, <1>15, <1>16, <1>17, <1>18, <1>19, <1>20, <1>21, <1>22

LEMMA CacheInit == Init => CacheInv
  BY QueueAssumption DEF Init, CacheInv, NoLateFetch, AnswersAreCached

\* A lane never asks HP for a serial that was cached when it claimed its item.
THEOREM LateFetchImpossible == Spec => []NoLateFetch
<1>1. Init => RowCoherent
  BY QueueAssumption DEF Init, RowCoherent
<1>2. CacheInv => NoLateFetch
  BY DEF CacheInv
<1> QED
  BY <1>1, <1>2, CacheInit, TypeCorrect, RowStep, CacheStep, PTL DEF Spec

\* An item that shows an answer of HP has its serial in the permanent cache.
THEOREM AnswersKept == Spec => []AnswersAreCached
<1>1. Init => RowCoherent
  BY QueueAssumption DEF Init, RowCoherent
<1>2. CacheInv => AnswersAreCached
  BY DEF CacheInv
<1> QED
  BY <1>1, <1>2, CacheInit, TypeCorrect, RowStep, CacheStep, PTL DEF Spec

-----------------------------------------------------------------------------
\* A blank serial is born done, so it is never up for claiming.
BlankInv ==
    /\ BlankNeverAsked
    /\ \A i \in Items : SerialOf(i) \in BlankSerials => state[i] \in {"absent", "done"}

\* No statement makes a blank item claimable or failed.
LEMMA BlankStep == TypeOK /\ BlankInv /\ [Next]_vars => BlankInv'
<1> SUFFICES ASSUME TypeOK, BlankInv, [Next]_vars PROVE BlankInv'
  OBVIOUS
<1> USE QueueAssumption DEF TypeOK, BlankInv, BlankNeverAsked, itemVars, apiVars, laneVars, faultVars
<1>1. ASSUME NEW j \in Jobs, ReadCache(j) PROVE BlankInv'
  BY <1>1 DEF ReadCache
<1>2. ASSUME NEW j \in Jobs, InsertJob(j) PROVE BlankInv'
  BY <1>2 DEF InsertJob
<1>3. ASSUME NEW j \in Jobs, InsertItems(j) PROVE BlankInv'
  BY <1>3 DEF InsertItems
<1>4. ASSUME NEW j \in Jobs, InsertItemsFails(j) PROVE BlankInv'
  BY <1>4 DEF InsertItemsFails
<1>5. ASSUME NEW j \in Jobs, RetryReset(j) PROVE BlankInv'
  BY <1>5 DEF RetryReset, PutBack
<1>6. ASSUME NEW j \in Jobs, RetryExhaust(j) PROVE BlankInv'
  BY <1>6 DEF RetryExhaust, Exhaust, Stale
<1>7. ASSUME NEW j \in Jobs, RetryRequeue(j) PROVE BlankInv'
  BY <1>7 DEF RetryRequeue, Requeue, PutBack, Stale
<1>8. CASE SweepExhaust
  BY <1>8 DEF SweepExhaust, Exhaust, Stale
<1>9. CASE SweepRequeue
  BY <1>9 DEF SweepRequeue, Requeue, PutBack, Stale
<1>10. ASSUME NEW l \in Lanes, NEW i \in Items, Claim(l, i) PROVE BlankInv'
  <2>1. SerialOf(i) \notin BlankSerials
    BY <1>10 DEF Claim
  <2>2. \A m \in Lanes : Busy(m)' => SerialOf(held'[m]) \notin BlankSerials
    BY <1>10, <2>1 DEF Claim
  <2>3. \A k \in Items : SerialOf(k) \in BlankSerials => state'[k] = state[k]
    BY <1>10, <2>1 DEF Claim
  <2> QED
    BY <1>10, <2>2, <2>3 DEF Claim
<1>11. ASSUME NEW l \in Lanes, CheckCache(l) PROVE BlankInv'
  BY <1>11 DEF CheckCache, Goto
<1>12. ASSUME NEW l \in Lanes, NEW a \in Answers, HpAnswers(l, a) PROVE BlankInv'
  BY <1>12 DEF HpAnswers, Goto
<1>13. ASSUME NEW l \in Lanes, HpRefuses(l) PROVE BlankInv'
  BY <1>13 DEF HpRefuses, Goto
<1>14. ASSUME NEW l \in Lanes, StoreAnswer(l) PROVE BlankInv'
  BY <1>14 DEF StoreAnswer, Goto
<1>15. ASSUME NEW l \in Lanes, MarkDone(l) PROVE BlankInv'
  BY <1>15 DEF MarkDone, Settle, Release
<1>16. ASSUME NEW l \in Lanes, MarkFailed(l) PROVE BlankInv'
  BY <1>16 DEF MarkFailed, Settle, Release
<1>17. ASSUME NEW l \in Lanes, CaughtDbError(l) PROVE BlankInv'
  BY <1>17 DEF CaughtDbError, Goto
<1>18. ASSUME NEW l \in Lanes, LaneDies(l) PROVE BlankInv'
  BY <1>18 DEF LaneDies, Release
<1>19. CASE ClosePool
  BY <1>19 DEF ClosePool, DropItems
<1>20. CASE CrashAndRestart
  BY <1>20 DEF CrashAndRestart, DropItems
<1>21. ASSUME NEW i \in Items, Age(i) PROVE BlankInv'
  BY <1>21 DEF Age
<1>22. CASE UNCHANGED vars
  BY <1>22 DEF vars
<1> HIDE DEF TypeOK, BlankInv, Items, Answers
<1> QED
  BY StepCases, <1>1, <1>2, <1>3, <1>4, <1>5, <1>6, <1>7, <1>8, <1>9, <1>10, <1>11, <1>12,
     <1>13, <1>14, <1>15, <1>16, <1>17, <1>18, <1>19, <1>20, <1>21, <1>22

\* No blank or NOSN serial is sent to HP or cached.
THEOREM BlankStaysHome == Spec => []BlankNeverAsked
<1>1. Init => BlankInv
  BY QueueAssumption DEF Init, BlankInv, BlankNeverAsked
<1>2. BlankInv => BlankNeverAsked
  BY DEF BlankInv
<1> QED
  BY <1>1, <1>2, TypeCorrect, BlankStep, PTL DEF Spec

-----------------------------------------------------------------------------
\* While HP answered once at most for a serial, there is one answer about: the
\* cache can be overwritten only by a lane whose answer is a second one.
AgreeInv ==
    /\ \A l \in Lanes : pc[l] = "fetched" => fetched[SerialOf(held[l])] >= 1
    /\ \A l \in Lanes : pc[l] = "asking" /\ cache[SerialOf(held[l])] # "none"
                          => fetched[SerialOf(held[l])] >= 1
    /\ \A l \in Lanes : pc[l] = "fetched" /\ cache[SerialOf(held[l])] # "none"
                          => fetched[SerialOf(held[l])] >= 2
    /\ \A l, m \in Lanes :
          l # m /\ pc[l] = "fetched" /\ pc[m] = "fetched"
             /\ SerialOf(held[l]) = SerialOf(held[m]) => fetched[SerialOf(held[l])] >= 2
    /\ \A l \in Lanes : pc[l] \in {"known", "stored"} /\ fetched[SerialOf(held[l])] <= 1
                          => answer[l] = cache[SerialOf(held[l])]
    /\ \A j \in Jobs, s \in Serials : hits[j][s] # "none" /\ fetched[s] <= 1
                          => hits[j][s] = cache[s]
    /\ AnswersAgree

\* The upsert that would change an answer is made by a lane that proves a
\* second fetch.
LEMMA AgreeStep == TypeOK /\ RowCoherent /\ CacheInv /\ AgreeInv /\ [Next]_vars => AgreeInv'
<1> SUFFICES ASSUME TypeOK, RowCoherent, CacheInv, AgreeInv, [Next]_vars PROVE AgreeInv'
  OBVIOUS
<1> USE QueueAssumption DEF TypeOK, RowCoherent, CacheInv, AgreeInv, AnswersAgree, AnswersAreCached, itemVars, apiVars, laneVars, faultVars
<1>1. ASSUME NEW j \in Jobs, ReadCache(j) PROVE AgreeInv'
  BY <1>1 DEF ReadCache
<1>2. ASSUME NEW j \in Jobs, InsertJob(j) PROVE AgreeInv'
  BY <1>2 DEF InsertJob
<1>3. ASSUME NEW j \in Jobs, InsertItems(j) PROVE AgreeInv'
  BY <1>3 DEF InsertItems, ForgetRequest
<1>4. ASSUME NEW j \in Jobs, InsertItemsFails(j) PROVE AgreeInv'
  BY <1>4 DEF InsertItemsFails, ForgetRequest
<1>5. ASSUME NEW j \in Jobs, RetryReset(j) PROVE AgreeInv'
  BY <1>5 DEF RetryReset, PutBack
<1>6. ASSUME NEW j \in Jobs, RetryExhaust(j) PROVE AgreeInv'
  BY <1>6 DEF RetryExhaust, Exhaust, Stale
<1>7. ASSUME NEW j \in Jobs, RetryRequeue(j) PROVE AgreeInv'
  BY <1>7 DEF RetryRequeue, Requeue, PutBack, Stale
<1>8. CASE SweepExhaust
  BY <1>8 DEF SweepExhaust, Exhaust, Stale
<1>9. CASE SweepRequeue
  BY <1>9 DEF SweepRequeue, Requeue, PutBack, Stale
<1>10. ASSUME NEW l \in Lanes, NEW i \in Items, Claim(l, i) PROVE AgreeInv'
  BY <1>10 DEF Claim
<1>11. ASSUME NEW l \in Lanes, CheckCache(l) PROVE AgreeInv'
  BY <1>11 DEF CheckCache, Goto
<1>12. ASSUME NEW l \in Lanes, NEW a \in Answers, HpAnswers(l, a) PROVE AgreeInv'
  BY <1>12 DEF HpAnswers, Goto
<1>13. ASSUME NEW l \in Lanes, HpRefuses(l) PROVE AgreeInv'
  BY <1>13 DEF HpRefuses, Goto
<1>14. ASSUME NEW l \in Lanes, StoreAnswer(l) PROVE AgreeInv'
  BY <1>14 DEF StoreAnswer, Goto
<1>15. ASSUME NEW l \in Lanes, MarkDone(l) PROVE AgreeInv'
  BY <1>15 DEF MarkDone, Settle, Release
<1>16. ASSUME NEW l \in Lanes, MarkFailed(l) PROVE AgreeInv'
  BY <1>16 DEF MarkFailed, Settle, Release
<1>17. ASSUME NEW l \in Lanes, CaughtDbError(l) PROVE AgreeInv'
  BY <1>17 DEF CaughtDbError, Goto
<1>18. ASSUME NEW l \in Lanes, LaneDies(l) PROVE AgreeInv'
  BY <1>18 DEF LaneDies, Release
<1>19. CASE ClosePool
  BY <1>19 DEF ClosePool, DropItems
<1>20. CASE CrashAndRestart
  BY <1>20 DEF CrashAndRestart, DropItems
<1>21. ASSUME NEW i \in Items, Age(i) PROVE AgreeInv'
  BY <1>21 DEF Age
<1>22. CASE UNCHANGED vars
  BY <1>22 DEF vars
<1> HIDE DEF TypeOK, RowCoherent, CacheInv, AgreeInv, Items, Answers
<1> QED
  BY StepCases, <1>1, <1>2, <1>3, <1>4, <1>5, <1>6, <1>7, <1>8, <1>9, <1>10, <1>11, <1>12,
     <1>13, <1>14, <1>15, <1>16, <1>17, <1>18, <1>19, <1>20, <1>21, <1>22

\* Finished items of one serial show the cached answer, unless HP was asked for
\* that serial more than once.
THEOREM AnswersConsistent == Spec => []AnswersAgree
<1>1. Init => RowCoherent /\ AgreeInv
  BY QueueAssumption DEF Init, RowCoherent, AgreeInv, AnswersAgree
<1>2. AgreeInv => AnswersAgree
  BY DEF AgreeInv
<1> QED
  BY <1>1, <1>2, CacheInit, TypeCorrect, RowStep, CacheStep, AgreeStep, PTL DEF Spec

-----------------------------------------------------------------------------
\* The step formula of OnlyRetryReopens.
ReopenRule == \A i \in Items :
    /\ state[i] = "done" => state'[i] \in {"done", "failed"}
    /\ (state[i] = "failed" /\ state'[i] = "pending") =>
          resets'[JobOf(i)] = resets[JobOf(i)] + 1

\* What one step may do to a finished row.
LEMMA ReopenStep == TypeOK /\ [Next]_vars => ReopenRule
<1> SUFFICES ASSUME TypeOK, [Next]_vars PROVE ReopenRule
  OBVIOUS
<1> USE QueueAssumption DEF TypeOK, ReopenRule, itemVars, apiVars, laneVars, faultVars
<1>1. ASSUME NEW j \in Jobs, ReadCache(j) PROVE ReopenRule
  BY <1>1 DEF ReadCache
<1>2. ASSUME NEW j \in Jobs, InsertJob(j) PROVE ReopenRule
  BY <1>2 DEF InsertJob
<1>3. ASSUME NEW j \in Jobs, InsertItems(j) PROVE ReopenRule
  BY <1>3 DEF InsertItems
<1>4. ASSUME NEW j \in Jobs, InsertItemsFails(j) PROVE ReopenRule
  BY <1>4 DEF InsertItemsFails
<1>5. ASSUME NEW j \in Jobs, RetryReset(j) PROVE ReopenRule
  BY <1>5 DEF RetryReset, PutBack
<1>6. ASSUME NEW j \in Jobs, RetryExhaust(j) PROVE ReopenRule
  BY <1>6 DEF RetryExhaust, Exhaust, Stale
<1>7. ASSUME NEW j \in Jobs, RetryRequeue(j) PROVE ReopenRule
  BY <1>7 DEF RetryRequeue, Requeue, PutBack, Stale
<1>8. CASE SweepExhaust
  BY <1>8 DEF SweepExhaust, Exhaust, Stale
<1>9. CASE SweepRequeue
  BY <1>9 DEF SweepRequeue, Requeue, PutBack, Stale
<1>10. ASSUME NEW l \in Lanes, NEW i \in Items, Claim(l, i) PROVE ReopenRule
  BY <1>10 DEF Claim
<1>11. ASSUME NEW l \in Lanes, CheckCache(l) PROVE ReopenRule
  BY <1>11 DEF CheckCache, Goto
<1>12. ASSUME NEW l \in Lanes, NEW a \in Answers, HpAnswers(l, a) PROVE ReopenRule
  BY <1>12 DEF HpAnswers, Goto
<1>13. ASSUME NEW l \in Lanes, HpRefuses(l) PROVE ReopenRule
  BY <1>13 DEF HpRefuses, Goto
<1>14. ASSUME NEW l \in Lanes, StoreAnswer(l) PROVE ReopenRule
  BY <1>14 DEF StoreAnswer, Goto
<1>15. ASSUME NEW l \in Lanes, MarkDone(l) PROVE ReopenRule
  BY <1>15 DEF MarkDone, Settle, Release
<1>16. ASSUME NEW l \in Lanes, MarkFailed(l) PROVE ReopenRule
  BY <1>16 DEF MarkFailed, Settle, Release
<1>17. ASSUME NEW l \in Lanes, CaughtDbError(l) PROVE ReopenRule
  BY <1>17 DEF CaughtDbError, Goto
<1>18. ASSUME NEW l \in Lanes, LaneDies(l) PROVE ReopenRule
  BY <1>18 DEF LaneDies, Release
<1>19. CASE ClosePool
  BY <1>19 DEF ClosePool, DropItems
<1>20. CASE CrashAndRestart
  BY <1>20 DEF CrashAndRestart, DropItems
<1>21. ASSUME NEW i \in Items, Age(i) PROVE ReopenRule
  BY <1>21 DEF Age
<1>22. CASE UNCHANGED vars
  BY <1>22 DEF vars
<1> HIDE DEF TypeOK, ReopenRule, Items, Answers
<1> QED
  BY StepCases, <1>1, <1>2, <1>3, <1>4, <1>5, <1>6, <1>7, <1>8, <1>9, <1>10, <1>11, <1>12,
     <1>13, <1>14, <1>15, <1>16, <1>17, <1>18, <1>19, <1>20, <1>21, <1>22

\* A finished item goes back to the queue only through a Retry of its own job.
THEOREM ReopenedByRetryOnly == Spec => OnlyRetryReopens
<1>1. TypeOK /\ [Next]_vars => [ReopenRule]_vars
  BY ReopenStep
<1>2. [][ReopenRule]_vars => OnlyRetryReopens
  BY PTL DEF OnlyRetryReopens, ReopenRule
<1> QED
  BY <1>1, <1>2, TypeCorrect, PTL DEF Spec

=============================================================================
