------------------------ MODULE GeocodeCascadeProofs ------------------------
(***************************************************************************)
(* Proofs about GeocodeCascade, for every set of work orders, addresses and *)
(* lanes and every value of the limits and the bounds.                      *)
(***************************************************************************)
EXTENDS GeocodeCascade, TLAPS

USE DEF Keys, Busy, NoAddress, EmptyBatch, EmptyPlan, Sweepers, Worker, Script

-----------------------------------------------------------------------------
\* Every step is one of the named actions.
LEMMA StepCases ==
    ASSUME [Next]_vars
    PROVE  \/ EndScript
           \/ \E s \in Sweepers :
                \/ Expire(s) \/ Upgrade(s) \/ FindCandidates(s) \/ Prepare(s) \/ Enqueue(s)
                \/ \E t \in Tickets : Upsert(s, t)
                \/ EndSweep(s) \/ SweepFails(s)
           \/ RetryFailed \/ Route \/ ReclaimExhausted \/ ReclaimRequeued
           \/ \E l \in Lanes :
                \/ \E a \in Addresses : Claim(l, a)
                \/ \E r \in {"point", "none"} : Answer(l, r)
                \/ Refuse(l) \/ MarkResolved(l) \/ MarkFailed(l)
                \/ Caught(l) \/ LaneDies(l)
           \/ ClosePool \/ CrashAndRestart
           \/ \E a \in Addresses : Age(a)
           \/ \E t \in Tickets, k \in Keys : Upload(t, k)
           \/ GoDown \/ ComeBack
           \/ UNCHANGED vars
  BY DEF Next, Housekeeping, RunScript, Sweep, LaneStep, Fault, World

\* The type invariant holds initially.
LEMMA TypeInit == Init => TypeOK
  BY CascadeAssumption DEF Init, TypeOK

\* Every step keeps the type invariant.
LEMMA TypeStep == TypeOK /\ [Next]_vars => TypeOK'
<1> SUFFICES ASSUME TypeOK, [Next]_vars PROVE TypeOK'
  OBVIOUS
<1> USE CascadeAssumption DEF TypeOK, cacheVars, routeVars, orderVars, sweepVars, laneVars, envVars
<1>1. ASSUME NEW s \in Sweepers, Expire(s) PROVE TypeOK'
  BY <1>1 DEF Expire, Goto
<1>2. ASSUME NEW s \in Sweepers, Upgrade(s) PROVE TypeOK'
  BY <1>2 DEF Upgrade, Goto
<1>3. ASSUME NEW s \in Sweepers, FindCandidates(s) PROVE TypeOK'
  BY <1>3 DEF FindCandidates, Goto
<1>4. ASSUME NEW s \in Sweepers, Prepare(s) PROVE TypeOK'
  BY <1>4 DEF Prepare, Goto
<1>5. ASSUME NEW s \in Sweepers, Enqueue(s) PROVE TypeOK'
  BY <1>5 DEF Enqueue, Goto
<1>6. ASSUME NEW s \in Sweepers, NEW t \in Tickets, Upsert(s, t) PROVE TypeOK'
  <2>1. \A r \in Sweepers : r # s => plan'[r] = plan[r]
    BY <1>6 DEF Upsert
  <2>2. plan' \in [Sweepers -> [Tickets -> {"skip", "centroid", "provider"}]]
    BY <1>6 DEF Upsert
  <2>3. \A r \in Sweepers : pc'[r] \notin {"prepared", "writing"} => plan'[r] = EmptyPlan
    BY <1>6, <2>1 DEF Upsert
  <2>4. \A r \in Sweepers, u \in Tickets : plan'[r][u] # "skip" => batch'[r][u] \in Keys
    BY <1>6 DEF Upsert
  <2>5. point' \in [Tickets -> {"absent", "centroid", "provider"}] /\ key' \in [Tickets -> Keys]
    BY <1>6 DEF Upsert
  <2> QED
    BY <1>6, <2>2, <2>3, <2>4, <2>5 DEF Upsert
<1>7. ASSUME NEW s \in Sweepers, EndSweep(s) PROVE TypeOK'
  BY <1>7 DEF EndSweep, Goto, ForgetSweep
<1>8. CASE EndScript
  BY <1>8 DEF EndScript, Goto
<1>9. CASE RetryFailed
  BY <1>9 DEF RetryFailed, Goto
<1>10. CASE Route
  <2>1. CASE FindTargets
    BY <2>1 DEF FindTargets, FirstTargets, Goto
  <2>2. CASE WriteDistances
    <3>1. routed' \subseteq Addresses /\ targets' = {}
      BY <2>2 DEF WriteDistances
    <3> QED
      BY <2>2, <3>1 DEF WriteDistances, Goto
  <2> QED
    BY <1>10, <2>1, <2>2 DEF Route
<1>11. CASE ReclaimExhausted
  BY <1>11 DEF ReclaimExhausted, Stale, Goto
<1>12. CASE ReclaimRequeued
  BY <1>12 DEF ReclaimRequeued, Stale, Goto
<1>13. ASSUME NEW l \in Lanes, NEW a \in Addresses, Claim(l, a) PROVE TypeOK'
  BY <1>13 DEF Claim
<1>14. ASSUME NEW l \in Lanes, NEW r \in {"point", "none"}, Answer(l, r) PROVE TypeOK'
  BY <1>14 DEF Answer
<1>15. ASSUME NEW l \in Lanes, Refuse(l) PROVE TypeOK'
  BY <1>15 DEF Refuse
<1>16. ASSUME NEW l \in Lanes, MarkResolved(l) PROVE TypeOK'
  <2>1. held[l] \in Addresses
    BY <1>16 DEF MarkResolved
  <2>2. given' \subseteq Addresses
    BY <1>16, <2>1 DEF MarkResolved
  <2>3. state' = [state EXCEPT ![held[l]] = "done"] /\ lock' = [lock EXCEPT ![held[l]] = "free"]
    BY <1>16 DEF MarkResolved
  <2>4. precision' \in [Addresses -> {"NULL", "none", "point"}]
    BY <1>16 DEF MarkResolved
  <2>5. /\ lane' \in [Lanes -> {"idle", "asking", "point", "none", "refused", "dead"}]
        /\ held' \in [Lanes -> Keys]
        /\ \A m \in Lanes : Busy(m)' <=> held'[m] \in Addresses
    BY <1>16 DEF MarkResolved, Release
  <2>6. UNCHANGED <<attempts, routeVars, orderVars, flex, sweepVars, envVars>>
    BY <1>16 DEF MarkResolved
  <2> QED
    BY <2>2, <2>3, <2>4, <2>5, <2>6
<1>17. ASSUME NEW l \in Lanes, MarkFailed(l) PROVE TypeOK'
  BY <1>17 DEF MarkFailed, Release
<1>18. ASSUME NEW l \in Lanes, Caught(l) PROVE TypeOK'
  BY <1>18 DEF Caught, Fail
<1>19. ASSUME NEW l \in Lanes, LaneDies(l) PROVE TypeOK'
  BY <1>19 DEF LaneDies, Fail, Release
<1>20. ASSUME NEW s \in Sweepers, SweepFails(s) PROVE TypeOK'
  <2>1. CASE pc[s] \in {"retried", "targets"}
    BY <1>20, <2>1 DEF SweepFails, Fail, Goto
  <2>2. CASE pc[s] \notin {"retried", "targets"}
    <3>1. pc' = [pc EXCEPT ![s] = "idle"] /\ ForgetSweep(s) /\ UNCHANGED targets
      BY <1>20, <2>2 DEF SweepFails, Goto
    <3>2. pc' \in [Sweepers -> {"idle", "sweep", "upgraded", "found", "prepared", "writing",
                               "swept", "retried", "targets", "routed", "reclaim"}]
      BY <3>1
    <3>3. /\ batch' \in [Sweepers -> [Tickets -> Keys \cup {-1}]]
          /\ plan' \in [Sweepers -> [Tickets -> {"skip", "centroid", "provider"}]]
      BY <3>1 DEF ForgetSweep
    <3>4. \A r \in Sweepers : pc'[r] \notin {"prepared", "writing"} => plan'[r] = EmptyPlan
      BY <3>1 DEF ForgetSweep
    <3>5. \A r \in Sweepers, t \in Tickets : plan'[r][t] # "skip" => batch'[r][t] \in Keys
      BY <3>1 DEF ForgetSweep
    <3>6. /\ failures' \in Nat
          /\ UNCHANGED <<cacheVars, given, routed, orderVars, flex, laneVars, pool, provider,
                         uploads, expiries, outages>>
      BY <1>20 DEF SweepFails, Fail
    <3> QED
      BY <3>1, <3>2, <3>3, <3>4, <3>5, <3>6
  <2> QED
    BY <2>1, <2>2
<1>21. CASE ClosePool
  BY <1>21 DEF ClosePool, Goto, ForgetSweep
<1>22. CASE CrashAndRestart
  BY <1>22 DEF CrashAndRestart, Fail, Goto, ForgetSweep
<1>23. ASSUME NEW a \in Addresses, Age(a) PROVE TypeOK'
  BY <1>23 DEF Age
<1>24. ASSUME NEW t \in Tickets, NEW k \in Keys, Upload(t, k) PROVE TypeOK'
  BY <1>24 DEF Upload
<1>25. CASE GoDown
  BY <1>25 DEF GoDown
<1>26. CASE ComeBack
  BY <1>26 DEF ComeBack
<1>27. CASE UNCHANGED vars
  BY <1>27 DEF vars
<1> HIDE DEF TypeOK
<1> QED
  BY StepCases, <1>1, <1>2, <1>3, <1>4, <1>5, <1>6, <1>7, <1>8, <1>9, <1>10, <1>11, <1>12, <1>13, <1>14,
     <1>15, <1>16, <1>17, <1>18, <1>19, <1>20, <1>21, <1>22, <1>23, <1>24, <1>25, <1>26, <1>27

\* Every variable of the cascade keeps its type.
THEOREM TypeCorrect == Spec => []TypeOK
  BY TypeInit, TypeStep, PTL DEF Spec

-----------------------------------------------------------------------------
\* An expiry touches finished rows only, and counts when it takes one.
LEMMA ExpireKeeps ==
    ASSUME TypeOK, NEW s \in Sweepers, Expire(s)
    PROVE  /\ \A a \in Addresses :
                state[a] # "done" => state'[a] = state[a] /\ lock'[a] = lock[a]
           /\ expiries' = 0 => expiries = 0 /\ state' = state
           /\ UNCHANGED <<lane, held, precision, point, key, batch, plan>>
<1>1. PICK old \in SUBSET {a \in Addresses : state[a] = "done"} :
        /\ expiries' = IF old = {} THEN expiries ELSE expiries + 1
        /\ state' = [a \in Addresses |-> IF a \in old THEN "pending" ELSE state[a]]
        /\ lock' = [a \in Addresses |-> IF a \in old THEN "free" ELSE lock[a]]
  BY DEF Expire
<1>2. \A a \in Addresses : state[a] # "done" => state'[a] = state[a] /\ lock'[a] = lock[a]
  BY <1>1 DEF TypeOK
<1>3. expiries' = 0 => expiries = 0 /\ state' = state
  <2>1. CASE old = {}
    BY <1>1, <2>1 DEF TypeOK
  <2>2. CASE old # {}
    BY <1>1, <2>2 DEF TypeOK
  <2> QED
    BY <2>1, <2>2
<1>4. UNCHANGED <<lane, held, precision, point, key, batch, plan>>
  BY DEF Expire, orderVars, laneVars
<1> QED
  BY <1>2, <1>3, <1>4

\* RowCoherent with what makes it inductive: a lane's row exists.
RowInv ==
    /\ RowCoherent
    /\ \A l \in Lanes : Busy(l) => state[held[l]] # "absent"

\* Every statement that writes a state writes the lock and the answer that go
\* with it.
LEMMA RowStep == TypeOK /\ RowInv /\ [Next]_vars => RowInv'
<1> SUFFICES ASSUME TypeOK, RowInv, [Next]_vars PROVE RowInv'
  OBVIOUS
<1> USE CascadeAssumption DEF TypeOK, RowInv, RowCoherent, cacheVars, routeVars, orderVars, sweepVars, laneVars, envVars
<1>1. ASSUME NEW s \in Sweepers, Expire(s) PROVE RowInv'
  BY <1>1 DEF Expire, Goto
<1>2. ASSUME NEW s \in Sweepers, Upgrade(s) PROVE RowInv'
  BY <1>2 DEF Upgrade, Goto
<1>3. ASSUME NEW s \in Sweepers, FindCandidates(s) PROVE RowInv'
  BY <1>3 DEF FindCandidates, Goto
<1>4. ASSUME NEW s \in Sweepers, Prepare(s) PROVE RowInv'
  BY <1>4 DEF Prepare, Goto
<1>5. ASSUME NEW s \in Sweepers, Enqueue(s) PROVE RowInv'
  BY <1>5 DEF Enqueue, Goto
<1>6. ASSUME NEW s \in Sweepers, NEW t \in Tickets, Upsert(s, t) PROVE RowInv'
  BY <1>6 DEF Upsert
<1>7. ASSUME NEW s \in Sweepers, EndSweep(s) PROVE RowInv'
  BY <1>7 DEF EndSweep, Goto, ForgetSweep
<1>8. CASE EndScript
  BY <1>8 DEF EndScript, Goto
<1>9. CASE RetryFailed
  BY <1>9 DEF RetryFailed, Goto
<1>10. CASE Route
  BY <1>10 DEF Route, FindTargets, WriteDistances, Goto
<1>11. CASE ReclaimExhausted
  BY <1>11 DEF ReclaimExhausted, Stale, Goto
<1>12. CASE ReclaimRequeued
  BY <1>12 DEF ReclaimRequeued, Stale, Goto
<1>13. ASSUME NEW l \in Lanes, NEW a \in Addresses, Claim(l, a) PROVE RowInv'
  BY <1>13 DEF Claim
<1>14. ASSUME NEW l \in Lanes, NEW r \in {"point", "none"}, Answer(l, r) PROVE RowInv'
  BY <1>14 DEF Answer
<1>15. ASSUME NEW l \in Lanes, Refuse(l) PROVE RowInv'
  BY <1>15 DEF Refuse
<1>16. ASSUME NEW l \in Lanes, MarkResolved(l) PROVE RowInv'
  BY <1>16 DEF MarkResolved, Release
<1>17. ASSUME NEW l \in Lanes, MarkFailed(l) PROVE RowInv'
  BY <1>17 DEF MarkFailed, Release
<1>18. ASSUME NEW l \in Lanes, Caught(l) PROVE RowInv'
  BY <1>18 DEF Caught, Fail
<1>19. ASSUME NEW l \in Lanes, LaneDies(l) PROVE RowInv'
  BY <1>19 DEF LaneDies, Fail, Release
<1>20. ASSUME NEW s \in Sweepers, SweepFails(s) PROVE RowInv'
  BY <1>20 DEF SweepFails, Fail, Goto, ForgetSweep
<1>21. CASE ClosePool
  BY <1>21 DEF ClosePool, Goto, ForgetSweep
<1>22. CASE CrashAndRestart
  BY <1>22 DEF CrashAndRestart, Fail, Goto, ForgetSweep
<1>23. ASSUME NEW a \in Addresses, Age(a) PROVE RowInv'
  BY <1>23 DEF Age
<1>24. ASSUME NEW t \in Tickets, NEW k \in Keys, Upload(t, k) PROVE RowInv'
  BY <1>24 DEF Upload
<1>25. CASE GoDown
  BY <1>25 DEF GoDown
<1>26. CASE ComeBack
  BY <1>26 DEF ComeBack
<1>27. CASE UNCHANGED vars
  BY <1>27 DEF vars
<1> HIDE DEF TypeOK, RowInv, RowCoherent
<1> QED
  BY StepCases, <1>1, <1>2, <1>3, <1>4, <1>5, <1>6, <1>7, <1>8, <1>9, <1>10, <1>11, <1>12, <1>13, <1>14,
     <1>15, <1>16, <1>17, <1>18, <1>19, <1>20, <1>21, <1>22, <1>23, <1>24, <1>25, <1>26, <1>27

\* Claimed rows carry a lock and finished rows an answer, also when a lane that
\* lost its row writes late.
THEOREM RowsCoherent == Spec => []RowCoherent
<1>1. Init => RowInv
  BY CascadeAssumption DEF Init, RowInv, RowCoherent
<1>2. RowInv => RowCoherent
  BY DEF RowInv
<1> QED
  BY <1>1, <1>2, TypeCorrect, RowStep, PTL DEF Spec

-----------------------------------------------------------------------------
\* ForeignKey with what makes it inductive: the rows a sweep is about to refer
\* to exist, those of cache hits from the read on, the queued ones once queued.
ForeignKeyInv ==
    /\ ForeignKey
    /\ \A s \in Sweepers, t \in Tickets :
         (batch[s][t] \in Addresses /\
            (plan[s][t] = "provider" \/ (pc[s] = "writing" /\ plan[s][t] # "skip")))
              => state[batch[s][t]] # "absent"

\* Queue rows exist before the work orders that refer to them.
LEMMA ForeignKeyStep == TypeOK /\ RowInv /\ ForeignKeyInv /\ [Next]_vars => ForeignKeyInv'
<1> SUFFICES ASSUME TypeOK, RowInv, ForeignKeyInv, [Next]_vars PROVE ForeignKeyInv'
  OBVIOUS
<1> USE CascadeAssumption DEF TypeOK, ForeignKeyInv, ForeignKey, RowInv, cacheVars, routeVars, orderVars, sweepVars, laneVars, envVars
<1>1. ASSUME NEW s \in Sweepers, Expire(s) PROVE ForeignKeyInv'
  BY <1>1 DEF Expire, Goto
<1>2. ASSUME NEW s \in Sweepers, Upgrade(s) PROVE ForeignKeyInv'
  BY <1>2 DEF Upgrade, Goto, Known
<1>3. ASSUME NEW s \in Sweepers, FindCandidates(s) PROVE ForeignKeyInv'
  BY <1>3 DEF FindCandidates, Goto
<1>4. ASSUME NEW s \in Sweepers, Prepare(s) PROVE ForeignKeyInv'
  BY <1>4 DEF Prepare, Goto, Known
<1>5. ASSUME NEW s \in Sweepers, Enqueue(s) PROVE ForeignKeyInv'
  BY <1>5 DEF Enqueue, Goto
<1>6. ASSUME NEW s \in Sweepers, NEW t \in Tickets, Upsert(s, t) PROVE ForeignKeyInv'
  BY <1>6 DEF Upsert
<1>7. ASSUME NEW s \in Sweepers, EndSweep(s) PROVE ForeignKeyInv'
  BY <1>7 DEF EndSweep, Goto, ForgetSweep
<1>8. CASE EndScript
  BY <1>8 DEF EndScript, Goto
<1>9. CASE RetryFailed
  BY <1>9 DEF RetryFailed, Goto
<1>10. CASE Route
  BY <1>10 DEF Route, FindTargets, WriteDistances, Goto
<1>11. CASE ReclaimExhausted
  BY <1>11 DEF ReclaimExhausted, Stale, Goto
<1>12. CASE ReclaimRequeued
  BY <1>12 DEF ReclaimRequeued, Stale, Goto
<1>13. ASSUME NEW l \in Lanes, NEW a \in Addresses, Claim(l, a) PROVE ForeignKeyInv'
  BY <1>13 DEF Claim
<1>14. ASSUME NEW l \in Lanes, NEW r \in {"point", "none"}, Answer(l, r) PROVE ForeignKeyInv'
  BY <1>14 DEF Answer
<1>15. ASSUME NEW l \in Lanes, Refuse(l) PROVE ForeignKeyInv'
  BY <1>15 DEF Refuse
<1>16. ASSUME NEW l \in Lanes, MarkResolved(l) PROVE ForeignKeyInv'
  BY <1>16 DEF MarkResolved, Release
<1>17. ASSUME NEW l \in Lanes, MarkFailed(l) PROVE ForeignKeyInv'
  BY <1>17 DEF MarkFailed, Release
<1>18. ASSUME NEW l \in Lanes, Caught(l) PROVE ForeignKeyInv'
  BY <1>18 DEF Caught, Fail
<1>19. ASSUME NEW l \in Lanes, LaneDies(l) PROVE ForeignKeyInv'
  BY <1>19 DEF LaneDies, Fail, Release
<1>20. ASSUME NEW s \in Sweepers, SweepFails(s) PROVE ForeignKeyInv'
  BY <1>20 DEF SweepFails, Fail, Goto, ForgetSweep
<1>21. CASE ClosePool
  BY <1>21 DEF ClosePool, Goto, ForgetSweep
<1>22. CASE CrashAndRestart
  BY <1>22 DEF CrashAndRestart, Fail, Goto, ForgetSweep
<1>23. ASSUME NEW a \in Addresses, Age(a) PROVE ForeignKeyInv'
  BY <1>23 DEF Age
<1>24. ASSUME NEW t \in Tickets, NEW k \in Keys, Upload(t, k) PROVE ForeignKeyInv'
  BY <1>24 DEF Upload
<1>25. CASE GoDown
  BY <1>25 DEF GoDown
<1>26. CASE ComeBack
  BY <1>26 DEF ComeBack
<1>27. CASE UNCHANGED vars
  BY <1>27 DEF vars
<1> HIDE DEF TypeOK, ForeignKeyInv, ForeignKey, RowInv
<1> QED
  BY StepCases, <1>1, <1>2, <1>3, <1>4, <1>5, <1>6, <1>7, <1>8, <1>9, <1>10, <1>11, <1>12, <1>13, <1>14,
     <1>15, <1>16, <1>17, <1>18, <1>19, <1>20, <1>21, <1>22, <1>23, <1>24, <1>25, <1>26, <1>27

\* No work order ever refers to an address without a cache row.
THEOREM ReferencesHold == Spec => []ForeignKey
<1>1. Init => RowInv /\ ForeignKeyInv
  BY CascadeAssumption DEF Init, RowInv, RowCoherent, ForeignKeyInv, ForeignKey
<1>2. ForeignKeyInv => ForeignKey
  BY DEF ForeignKeyInv
<1> QED
  BY <1>1, <1>2, TypeCorrect, RowStep, ForeignKeyStep, PTL DEF Spec

-----------------------------------------------------------------------------
\* AttemptsBounded with what makes it inductive: a new row has none.
AttemptsInv ==
    /\ AttemptsBounded
    /\ \A a \in Addresses : state[a] = "absent" => attempts[a] = 0

\* A row goes back to the queue only with an attempt left.
LEMMA AttemptsStep == TypeOK /\ RowInv /\ AttemptsInv /\ [Next]_vars => AttemptsInv'
<1> SUFFICES ASSUME TypeOK, RowInv, AttemptsInv, [Next]_vars PROVE AttemptsInv'
  OBVIOUS
<1> USE CascadeAssumption DEF TypeOK, RowInv, AttemptsInv, AttemptsBounded, cacheVars, routeVars, orderVars, sweepVars, laneVars, envVars
<1>1. ASSUME NEW s \in Sweepers, Expire(s) PROVE AttemptsInv'
  BY <1>1 DEF Expire, Goto
<1>2. ASSUME NEW s \in Sweepers, Upgrade(s) PROVE AttemptsInv'
  BY <1>2 DEF Upgrade, Goto
<1>3. ASSUME NEW s \in Sweepers, FindCandidates(s) PROVE AttemptsInv'
  BY <1>3 DEF FindCandidates, Goto
<1>4. ASSUME NEW s \in Sweepers, Prepare(s) PROVE AttemptsInv'
  BY <1>4 DEF Prepare, Goto
<1>5. ASSUME NEW s \in Sweepers, Enqueue(s) PROVE AttemptsInv'
  BY <1>5 DEF Enqueue, Goto
<1>6. ASSUME NEW s \in Sweepers, NEW t \in Tickets, Upsert(s, t) PROVE AttemptsInv'
  BY <1>6 DEF Upsert
<1>7. ASSUME NEW s \in Sweepers, EndSweep(s) PROVE AttemptsInv'
  BY <1>7 DEF EndSweep, Goto, ForgetSweep
<1>8. CASE EndScript
  BY <1>8 DEF EndScript, Goto
<1>9. CASE RetryFailed
  BY <1>9 DEF RetryFailed, Goto
<1>10. CASE Route
  BY <1>10 DEF Route, FindTargets, WriteDistances, Goto
<1>11. CASE ReclaimExhausted
  BY <1>11 DEF ReclaimExhausted, Stale, Goto
<1>12. CASE ReclaimRequeued
  BY <1>12 DEF ReclaimRequeued, Stale, Goto
<1>13. ASSUME NEW l \in Lanes, NEW a \in Addresses, Claim(l, a) PROVE AttemptsInv'
  BY <1>13 DEF Claim
<1>14. ASSUME NEW l \in Lanes, NEW r \in {"point", "none"}, Answer(l, r) PROVE AttemptsInv'
  BY <1>14 DEF Answer
<1>15. ASSUME NEW l \in Lanes, Refuse(l) PROVE AttemptsInv'
  BY <1>15 DEF Refuse
<1>16. ASSUME NEW l \in Lanes, MarkResolved(l) PROVE AttemptsInv'
  BY <1>16 DEF MarkResolved, Release
<1>17. ASSUME NEW l \in Lanes, MarkFailed(l) PROVE AttemptsInv'
  BY <1>17 DEF MarkFailed, Release
<1>18. ASSUME NEW l \in Lanes, Caught(l) PROVE AttemptsInv'
  BY <1>18 DEF Caught, Fail
<1>19. ASSUME NEW l \in Lanes, LaneDies(l) PROVE AttemptsInv'
  BY <1>19 DEF LaneDies, Fail, Release
<1>20. ASSUME NEW s \in Sweepers, SweepFails(s) PROVE AttemptsInv'
  BY <1>20 DEF SweepFails, Fail, Goto, ForgetSweep
<1>21. CASE ClosePool
  BY <1>21 DEF ClosePool, Goto, ForgetSweep
<1>22. CASE CrashAndRestart
  BY <1>22 DEF CrashAndRestart, Fail, Goto, ForgetSweep
<1>23. ASSUME NEW a \in Addresses, Age(a) PROVE AttemptsInv'
  BY <1>23 DEF Age
<1>24. ASSUME NEW t \in Tickets, NEW k \in Keys, Upload(t, k) PROVE AttemptsInv'
  BY <1>24 DEF Upload
<1>25. CASE GoDown
  BY <1>25 DEF GoDown
<1>26. CASE ComeBack
  BY <1>26 DEF ComeBack
<1>27. CASE UNCHANGED vars
  BY <1>27 DEF vars
<1> HIDE DEF TypeOK, RowInv, AttemptsInv, AttemptsBounded
<1> QED
  BY StepCases, <1>1, <1>2, <1>3, <1>4, <1>5, <1>6, <1>7, <1>8, <1>9, <1>10, <1>11, <1>12, <1>13, <1>14,
     <1>15, <1>16, <1>17, <1>18, <1>19, <1>20, <1>21, <1>22, <1>23, <1>24, <1>25, <1>26, <1>27

\* No address is asked for more often than the attempt limit between expiries.
THEOREM AskedBoundedly == Spec => []AttemptsBounded
<1>1. Init => RowInv /\ AttemptsInv
  BY CascadeAssumption DEF Init, RowInv, RowCoherent, AttemptsInv, AttemptsBounded
<1>2. AttemptsInv => AttemptsBounded
  BY DEF AttemptsInv
<1> QED
  BY <1>1, <1>2, TypeCorrect, RowStep, AttemptsStep, PTL DEF Spec

-----------------------------------------------------------------------------
\* OwnRow with what makes it inductive: while no live lane outlasts the
\* threshold, the lock of a lane's row is recent.
OwnInv ==
    /\ OwnRow
    /\ LanesMayStall \/ \A l \in Lanes : Busy(l) => lock[held[l]] = "recent"

\* Neither the reclaim nor another lane touches the row of a live lane.
LEMMA OwnStep == TypeOK /\ OwnInv /\ [Next]_vars => OwnInv'
<1> SUFFICES ASSUME TypeOK, OwnInv, [Next]_vars PROVE OwnInv'
  OBVIOUS
<1> USE CascadeAssumption DEF TypeOK, OwnInv, OwnRow, cacheVars, routeVars, orderVars, sweepVars, laneVars, envVars
<1>1. ASSUME NEW s \in Sweepers, Expire(s) PROVE OwnInv'
  <2>1. \A a \in Addresses : state[a] # "done" => state'[a] = state[a] /\ lock'[a] = lock[a]
    BY <1>1, ExpireKeeps
  <2>2. UNCHANGED <<lane, held>>
    BY <1>1, ExpireKeeps
  <2>3. \A l \in Lanes : Busy(l) => held[l] \in Addresses
    OBVIOUS
  <2> HIDE DEF TypeOK
  <2> QED
    BY <2>1, <2>2, <2>3
<1>2. ASSUME NEW s \in Sweepers, Upgrade(s) PROVE OwnInv'
  BY <1>2 DEF Upgrade, Goto
<1>3. ASSUME NEW s \in Sweepers, FindCandidates(s) PROVE OwnInv'
  BY <1>3 DEF FindCandidates, Goto
<1>4. ASSUME NEW s \in Sweepers, Prepare(s) PROVE OwnInv'
  BY <1>4 DEF Prepare, Goto
<1>5. ASSUME NEW s \in Sweepers, Enqueue(s) PROVE OwnInv'
  BY <1>5 DEF Enqueue, Goto
<1>6. ASSUME NEW s \in Sweepers, NEW t \in Tickets, Upsert(s, t) PROVE OwnInv'
  BY <1>6 DEF Upsert
<1>7. ASSUME NEW s \in Sweepers, EndSweep(s) PROVE OwnInv'
  BY <1>7 DEF EndSweep, Goto, ForgetSweep
<1>8. CASE EndScript
  BY <1>8 DEF EndScript, Goto
<1>9. CASE RetryFailed
  BY <1>9 DEF RetryFailed, Goto
<1>10. CASE Route
  BY <1>10 DEF Route, FindTargets, WriteDistances, Goto
<1>11. CASE ReclaimExhausted
  BY <1>11 DEF ReclaimExhausted, Stale, Goto
<1>12. CASE ReclaimRequeued
  BY <1>12 DEF ReclaimRequeued, Stale, Goto
<1>13. ASSUME NEW l \in Lanes, NEW a \in Addresses, Claim(l, a) PROVE OwnInv'
  BY <1>13 DEF Claim
<1>14. ASSUME NEW l \in Lanes, NEW r \in {"point", "none"}, Answer(l, r) PROVE OwnInv'
  BY <1>14 DEF Answer
<1>15. ASSUME NEW l \in Lanes, Refuse(l) PROVE OwnInv'
  BY <1>15 DEF Refuse
<1>16. ASSUME NEW l \in Lanes, MarkResolved(l) PROVE OwnInv'
  BY <1>16 DEF MarkResolved, Release
<1>17. ASSUME NEW l \in Lanes, MarkFailed(l) PROVE OwnInv'
  BY <1>17 DEF MarkFailed, Release
<1>18. ASSUME NEW l \in Lanes, Caught(l) PROVE OwnInv'
  BY <1>18 DEF Caught, Fail
<1>19. ASSUME NEW l \in Lanes, LaneDies(l) PROVE OwnInv'
  BY <1>19 DEF LaneDies, Fail, Release
<1>20. ASSUME NEW s \in Sweepers, SweepFails(s) PROVE OwnInv'
  BY <1>20 DEF SweepFails, Fail, Goto, ForgetSweep
<1>21. CASE ClosePool
  BY <1>21 DEF ClosePool, Goto, ForgetSweep
<1>22. CASE CrashAndRestart
  BY <1>22 DEF CrashAndRestart, Fail, Goto, ForgetSweep
<1>23. ASSUME NEW a \in Addresses, Age(a) PROVE OwnInv'
  BY <1>23 DEF Age
<1>24. ASSUME NEW t \in Tickets, NEW k \in Keys, Upload(t, k) PROVE OwnInv'
  BY <1>24 DEF Upload
<1>25. CASE GoDown
  BY <1>25 DEF GoDown
<1>26. CASE ComeBack
  BY <1>26 DEF ComeBack
<1>27. CASE UNCHANGED vars
  BY <1>27 DEF vars
<1> HIDE DEF TypeOK, OwnInv, OwnRow
<1> QED
  BY StepCases, <1>1, <1>2, <1>3, <1>4, <1>5, <1>6, <1>7, <1>8, <1>9, <1>10, <1>11, <1>12, <1>13, <1>14,
     <1>15, <1>16, <1>17, <1>18, <1>19, <1>20, <1>21, <1>22, <1>23, <1>24, <1>25, <1>26, <1>27

\* A lane that stays under the threshold owns its row until it has written it.
THEOREM LanesOwnRows == Spec => []OwnRow
<1>1. Init => OwnInv
  BY DEF Init, OwnInv, OwnRow
<1>2. OwnInv => OwnRow
  BY DEF OwnInv
<1> QED
  BY <1>1, <1>2, TypeCorrect, OwnStep, PTL DEF Spec

-----------------------------------------------------------------------------
\* The step formula of NeverDowngraded.
UpgradeRule == \A t \in Tickets : point[t] = "provider" => point'[t] = "provider"

\* No statement replaces a provider answer by anything else.
LEMMA UpgradeStep == TypeOK /\ [Next]_vars => UpgradeRule
<1> SUFFICES ASSUME TypeOK, [Next]_vars PROVE UpgradeRule
  OBVIOUS
<1> USE CascadeAssumption DEF TypeOK, UpgradeRule, cacheVars, routeVars, orderVars, sweepVars, laneVars, envVars
<1>1. ASSUME NEW s \in Sweepers, Expire(s) PROVE UpgradeRule
  BY <1>1 DEF Expire, Goto
<1>2. ASSUME NEW s \in Sweepers, Upgrade(s) PROVE UpgradeRule
  BY <1>2 DEF Upgrade, Goto
<1>3. ASSUME NEW s \in Sweepers, FindCandidates(s) PROVE UpgradeRule
  BY <1>3 DEF FindCandidates, Goto
<1>4. ASSUME NEW s \in Sweepers, Prepare(s) PROVE UpgradeRule
  BY <1>4 DEF Prepare, Goto
<1>5. ASSUME NEW s \in Sweepers, Enqueue(s) PROVE UpgradeRule
  BY <1>5 DEF Enqueue, Goto
<1>6. ASSUME NEW s \in Sweepers, NEW t \in Tickets, Upsert(s, t) PROVE UpgradeRule
  BY <1>6 DEF Upsert
<1>7. ASSUME NEW s \in Sweepers, EndSweep(s) PROVE UpgradeRule
  BY <1>7 DEF EndSweep, Goto, ForgetSweep
<1>8. CASE EndScript
  BY <1>8 DEF EndScript, Goto
<1>9. CASE RetryFailed
  BY <1>9 DEF RetryFailed, Goto
<1>10. CASE Route
  BY <1>10 DEF Route, FindTargets, WriteDistances, Goto
<1>11. CASE ReclaimExhausted
  BY <1>11 DEF ReclaimExhausted, Stale, Goto
<1>12. CASE ReclaimRequeued
  BY <1>12 DEF ReclaimRequeued, Stale, Goto
<1>13. ASSUME NEW l \in Lanes, NEW a \in Addresses, Claim(l, a) PROVE UpgradeRule
  BY <1>13 DEF Claim
<1>14. ASSUME NEW l \in Lanes, NEW r \in {"point", "none"}, Answer(l, r) PROVE UpgradeRule
  BY <1>14 DEF Answer
<1>15. ASSUME NEW l \in Lanes, Refuse(l) PROVE UpgradeRule
  BY <1>15 DEF Refuse
<1>16. ASSUME NEW l \in Lanes, MarkResolved(l) PROVE UpgradeRule
  BY <1>16 DEF MarkResolved, Release
<1>17. ASSUME NEW l \in Lanes, MarkFailed(l) PROVE UpgradeRule
  BY <1>17 DEF MarkFailed, Release
<1>18. ASSUME NEW l \in Lanes, Caught(l) PROVE UpgradeRule
  BY <1>18 DEF Caught, Fail
<1>19. ASSUME NEW l \in Lanes, LaneDies(l) PROVE UpgradeRule
  BY <1>19 DEF LaneDies, Fail, Release
<1>20. ASSUME NEW s \in Sweepers, SweepFails(s) PROVE UpgradeRule
  BY <1>20 DEF SweepFails, Fail, Goto, ForgetSweep
<1>21. CASE ClosePool
  BY <1>21 DEF ClosePool, Goto, ForgetSweep
<1>22. CASE CrashAndRestart
  BY <1>22 DEF CrashAndRestart, Fail, Goto, ForgetSweep
<1>23. ASSUME NEW a \in Addresses, Age(a) PROVE UpgradeRule
  BY <1>23 DEF Age
<1>24. ASSUME NEW t \in Tickets, NEW k \in Keys, Upload(t, k) PROVE UpgradeRule
  BY <1>24 DEF Upload
<1>25. CASE GoDown
  BY <1>25 DEF GoDown
<1>26. CASE ComeBack
  BY <1>26 DEF ComeBack
<1>27. CASE UNCHANGED vars
  BY <1>27 DEF vars
<1> HIDE DEF TypeOK, UpgradeRule
<1> QED
  BY StepCases, <1>1, <1>2, <1>3, <1>4, <1>5, <1>6, <1>7, <1>8, <1>9, <1>10, <1>11, <1>12, <1>13, <1>14,
     <1>15, <1>16, <1>17, <1>18, <1>19, <1>20, <1>21, <1>22, <1>23, <1>24, <1>25, <1>26, <1>27

\* Neither sweep ever downgrades a provider coordinate to a centroid.
THEOREM AnswersOnlyImprove == Spec => NeverDowngraded
<1>1. TypeOK /\ [Next]_vars => [UpgradeRule]_vars
  BY UpgradeStep
<1>2. [][UpgradeRule]_vars => NeverDowngraded
  BY PTL DEF NeverDowngraded, UpgradeRule
<1> QED
  BY <1>1, <1>2, TypeCorrect, PTL DEF Spec

-----------------------------------------------------------------------------
\* The step formula of DoneIsTerminal.
DoneRule == \A a \in Addresses :
    (state[a] = "done" /\ state'[a] # "done") => expiries' = expiries + 1

\* A lane that owns its row never writes over a finished one.
LEMMA DoneStep == TypeOK /\ OwnInv /\ ~LanesMayStall /\ [Next]_vars => DoneRule
<1> SUFFICES ASSUME TypeOK, OwnInv, ~LanesMayStall, [Next]_vars PROVE DoneRule
  OBVIOUS
<1> USE CascadeAssumption DEF TypeOK, OwnInv, OwnRow, DoneRule, cacheVars, routeVars, orderVars, sweepVars, laneVars, envVars
<1>1. ASSUME NEW s \in Sweepers, Expire(s) PROVE DoneRule
  BY <1>1 DEF Expire, Goto
<1>2. ASSUME NEW s \in Sweepers, Upgrade(s) PROVE DoneRule
  BY <1>2 DEF Upgrade, Goto
<1>3. ASSUME NEW s \in Sweepers, FindCandidates(s) PROVE DoneRule
  BY <1>3 DEF FindCandidates, Goto
<1>4. ASSUME NEW s \in Sweepers, Prepare(s) PROVE DoneRule
  BY <1>4 DEF Prepare, Goto
<1>5. ASSUME NEW s \in Sweepers, Enqueue(s) PROVE DoneRule
  BY <1>5 DEF Enqueue, Goto
<1>6. ASSUME NEW s \in Sweepers, NEW t \in Tickets, Upsert(s, t) PROVE DoneRule
  BY <1>6 DEF Upsert
<1>7. ASSUME NEW s \in Sweepers, EndSweep(s) PROVE DoneRule
  BY <1>7 DEF EndSweep, Goto, ForgetSweep
<1>8. CASE EndScript
  BY <1>8 DEF EndScript, Goto
<1>9. CASE RetryFailed
  BY <1>9 DEF RetryFailed, Goto
<1>10. CASE Route
  BY <1>10 DEF Route, FindTargets, WriteDistances, Goto
<1>11. CASE ReclaimExhausted
  BY <1>11 DEF ReclaimExhausted, Stale, Goto
<1>12. CASE ReclaimRequeued
  BY <1>12 DEF ReclaimRequeued, Stale, Goto
<1>13. ASSUME NEW l \in Lanes, NEW a \in Addresses, Claim(l, a) PROVE DoneRule
  BY <1>13 DEF Claim
<1>14. ASSUME NEW l \in Lanes, NEW r \in {"point", "none"}, Answer(l, r) PROVE DoneRule
  BY <1>14 DEF Answer
<1>15. ASSUME NEW l \in Lanes, Refuse(l) PROVE DoneRule
  BY <1>15 DEF Refuse
<1>16. ASSUME NEW l \in Lanes, MarkResolved(l) PROVE DoneRule
  BY <1>16 DEF MarkResolved, Release
<1>17. ASSUME NEW l \in Lanes, MarkFailed(l) PROVE DoneRule
  BY <1>17 DEF MarkFailed, Release
<1>18. ASSUME NEW l \in Lanes, Caught(l) PROVE DoneRule
  BY <1>18 DEF Caught, Fail
<1>19. ASSUME NEW l \in Lanes, LaneDies(l) PROVE DoneRule
  BY <1>19 DEF LaneDies, Fail, Release
<1>20. ASSUME NEW s \in Sweepers, SweepFails(s) PROVE DoneRule
  BY <1>20 DEF SweepFails, Fail, Goto, ForgetSweep
<1>21. CASE ClosePool
  BY <1>21 DEF ClosePool, Goto, ForgetSweep
<1>22. CASE CrashAndRestart
  BY <1>22 DEF CrashAndRestart, Fail, Goto, ForgetSweep
<1>23. ASSUME NEW a \in Addresses, Age(a) PROVE DoneRule
  BY <1>23 DEF Age
<1>24. ASSUME NEW t \in Tickets, NEW k \in Keys, Upload(t, k) PROVE DoneRule
  BY <1>24 DEF Upload
<1>25. CASE GoDown
  BY <1>25 DEF GoDown
<1>26. CASE ComeBack
  BY <1>26 DEF ComeBack
<1>27. CASE UNCHANGED vars
  BY <1>27 DEF vars
<1> HIDE DEF TypeOK, OwnInv, OwnRow, DoneRule
<1> QED
  BY StepCases, <1>1, <1>2, <1>3, <1>4, <1>5, <1>6, <1>7, <1>8, <1>9, <1>10, <1>11, <1>12, <1>13, <1>14,
     <1>15, <1>16, <1>17, <1>18, <1>19, <1>20, <1>21, <1>22, <1>23, <1>24, <1>25, <1>26, <1>27

\* While no live lane outlasts the threshold, only the TTL reopens an answer.
THEOREM AnswersStay == ASSUME ~LanesMayStall PROVE Spec => DoneIsTerminal
<1>1. Init => OwnInv
  BY DEF Init, OwnInv, OwnRow
<1>2. TypeOK /\ OwnInv /\ [Next]_vars => [DoneRule]_vars
  BY DoneStep
<1>3. [][DoneRule]_vars => DoneIsTerminal
  BY PTL DEF DoneIsTerminal, DoneRule
<1> QED
  BY <1>1, <1>2, <1>3, TypeCorrect, OwnStep, PTL DEF Spec

-----------------------------------------------------------------------------
\* What makes the first half of PointBacked inductive: whatever a row, a plan or
\* a work order shows as a point of the provider was recorded for that address.
GivenInv ==
    /\ \A a \in Addresses : precision[a] = "point" => a \in given
    /\ \A s \in Sweepers, t \in Tickets : plan[s][t] = "provider" => batch[s][t] \in given
    /\ \A t \in Tickets : point[t] = "provider" => key[t] \in given

\* A sweep copies a point together with the address it was looked up by.
LEMMA GivenStep == TypeOK /\ GivenInv /\ [Next]_vars => GivenInv'
<1> SUFFICES ASSUME TypeOK, GivenInv, [Next]_vars PROVE GivenInv'
  OBVIOUS
<1> USE CascadeAssumption DEF TypeOK, GivenInv, Known, cacheVars, routeVars, orderVars, sweepVars, laneVars, envVars
<1>1. ASSUME NEW s \in Sweepers, Expire(s) PROVE GivenInv'
  BY <1>1 DEF Expire, Goto
<1>2. ASSUME NEW s \in Sweepers, Upgrade(s) PROVE GivenInv'
  <2>1. UNCHANGED <<precision, given, key, batch, plan>>
    BY <1>2 DEF Upgrade
  <2>2. PICK up \in SUBSET {t \in Tickets : point[t] = "centroid" /\ Known(key[t])} :
           point' = [t \in Tickets |-> IF t \in up THEN "provider" ELSE point[t]]
    BY <1>2 DEF Upgrade
  <2>3. \A t \in Tickets : point'[t] = "provider" => key'[t] \in given'
    BY <2>1, <2>2
  <2> QED
    BY <2>1, <2>3
<1>3. ASSUME NEW s \in Sweepers, FindCandidates(s) PROVE GivenInv'
  BY <1>3 DEF FindCandidates, Goto
<1>4. ASSUME NEW s \in Sweepers, Prepare(s) PROVE GivenInv'
  BY <1>4 DEF Prepare, Goto
<1>5. ASSUME NEW s \in Sweepers, Enqueue(s) PROVE GivenInv'
  BY <1>5 DEF Enqueue, Goto
<1>6. ASSUME NEW s \in Sweepers, NEW t \in Tickets, Upsert(s, t) PROVE GivenInv'
  BY <1>6 DEF Upsert
<1>7. ASSUME NEW s \in Sweepers, EndSweep(s) PROVE GivenInv'
  BY <1>7 DEF EndSweep, Goto, ForgetSweep
<1>8. CASE EndScript
  BY <1>8 DEF EndScript, Goto
<1>9. CASE RetryFailed
  BY <1>9 DEF RetryFailed, Goto
<1>10. CASE Route
  BY <1>10 DEF Route, FindTargets, WriteDistances, Goto
<1>11. CASE ReclaimExhausted
  BY <1>11 DEF ReclaimExhausted, Stale, Goto
<1>12. CASE ReclaimRequeued
  BY <1>12 DEF ReclaimRequeued, Stale, Goto
<1>13. ASSUME NEW l \in Lanes, NEW a \in Addresses, Claim(l, a) PROVE GivenInv'
  BY <1>13 DEF Claim
<1>14. ASSUME NEW l \in Lanes, NEW r \in {"point", "none"}, Answer(l, r) PROVE GivenInv'
  BY <1>14 DEF Answer
<1>15. ASSUME NEW l \in Lanes, Refuse(l) PROVE GivenInv'
  BY <1>15 DEF Refuse
<1>16. ASSUME NEW l \in Lanes, MarkResolved(l) PROVE GivenInv'
  BY <1>16 DEF MarkResolved, Release
<1>17. ASSUME NEW l \in Lanes, MarkFailed(l) PROVE GivenInv'
  BY <1>17 DEF MarkFailed, Release
<1>18. ASSUME NEW l \in Lanes, Caught(l) PROVE GivenInv'
  BY <1>18 DEF Caught, Fail
<1>19. ASSUME NEW l \in Lanes, LaneDies(l) PROVE GivenInv'
  BY <1>19 DEF LaneDies, Fail, Release
<1>20. ASSUME NEW s \in Sweepers, SweepFails(s) PROVE GivenInv'
  BY <1>20 DEF SweepFails, Fail, Goto, ForgetSweep
<1>21. CASE ClosePool
  BY <1>21 DEF ClosePool, Goto, ForgetSweep
<1>22. CASE CrashAndRestart
  BY <1>22 DEF CrashAndRestart, Fail, Goto, ForgetSweep
<1>23. ASSUME NEW a \in Addresses, Age(a) PROVE GivenInv'
  BY <1>23 DEF Age
<1>24. ASSUME NEW t \in Tickets, NEW k \in Keys, Upload(t, k) PROVE GivenInv'
  BY <1>24 DEF Upload
<1>25. CASE GoDown
  BY <1>25 DEF GoDown
<1>26. CASE ComeBack
  BY <1>26 DEF ComeBack
<1>27. CASE UNCHANGED vars
  BY <1>27 DEF vars
<1> HIDE DEF TypeOK, GivenInv, Known
<1> QED
  BY StepCases, <1>1, <1>2, <1>3, <1>4, <1>5, <1>6, <1>7, <1>8, <1>9, <1>10, <1>11, <1>12, <1>13, <1>14,
     <1>15, <1>16, <1>17, <1>18, <1>19, <1>20, <1>21, <1>22, <1>23, <1>24, <1>25, <1>26, <1>27

-----------------------------------------------------------------------------
\* What makes the second half inductive: while nothing stalls or expires, what a
\* sweep read of a cache hit still holds when it is written.
PointInv == (~LanesMayStall /\ expiries = 0) =>
    /\ \A t \in Tickets : point[t] = "provider" => Known(key[t])
    /\ \A s \in Sweepers, t \in Tickets : plan[s][t] = "provider" => Known(batch[s][t])

\* Without expiries a cache hit stays one, so what was read may be written.
LEMMA PointStep == TypeOK /\ OwnInv /\ PointInv /\ [Next]_vars => PointInv'
<1> SUFFICES ASSUME TypeOK, OwnInv, PointInv, [Next]_vars PROVE PointInv'
  OBVIOUS
<1> USE CascadeAssumption DEF TypeOK, OwnInv, OwnRow, PointInv, Known, cacheVars, routeVars, orderVars, sweepVars, laneVars, envVars
<1>1. ASSUME NEW s \in Sweepers, Expire(s) PROVE PointInv'
  <2>1. expiries' = 0 => expiries = 0 /\ state' = state
    BY <1>1, ExpireKeeps
  <2>2. UNCHANGED <<precision, point, key, batch, plan>>
    BY <1>1, ExpireKeeps
  <2> HIDE DEF TypeOK, OwnInv, OwnRow
  <2>3. (~LanesMayStall /\ expiries' = 0) => \A t \in Tickets :
           point'[t] = "provider" => Known(key[t])'
    BY <2>1, <2>2
  <2>4. (~LanesMayStall /\ expiries' = 0) => \A r \in Sweepers, t \in Tickets :
           plan'[r][t] = "provider" => Known(batch[r][t])'
    <3> SUFFICES ASSUME ~LanesMayStall, expiries' = 0, NEW r \in Sweepers, NEW t \in Tickets,
                        plan'[r][t] = "provider"
                 PROVE  Known(batch[r][t])'
      OBVIOUS
    <3>1. Known(batch[r][t])
      BY <2>1, <2>2
    <3> QED
      BY <2>1, <2>2, <3>1
  <2> QED
    BY <2>3, <2>4
<1>2. ASSUME NEW s \in Sweepers, Upgrade(s) PROVE PointInv'
  BY <1>2 DEF Upgrade, Goto
<1>3. ASSUME NEW s \in Sweepers, FindCandidates(s) PROVE PointInv'
  BY <1>3 DEF FindCandidates, Goto
<1>4. ASSUME NEW s \in Sweepers, Prepare(s) PROVE PointInv'
  BY <1>4 DEF Prepare, Goto
<1>5. ASSUME NEW s \in Sweepers, Enqueue(s) PROVE PointInv'
  BY <1>5 DEF Enqueue, Goto
<1>6. ASSUME NEW s \in Sweepers, NEW t \in Tickets, Upsert(s, t) PROVE PointInv'
  BY <1>6 DEF Upsert
<1>7. ASSUME NEW s \in Sweepers, EndSweep(s) PROVE PointInv'
  BY <1>7 DEF EndSweep, Goto, ForgetSweep
<1>8. CASE EndScript
  BY <1>8 DEF EndScript, Goto
<1>9. CASE RetryFailed
  BY <1>9 DEF RetryFailed, Goto
<1>10. CASE Route
  BY <1>10 DEF Route, FindTargets, WriteDistances, Goto
<1>11. CASE ReclaimExhausted
  BY <1>11 DEF ReclaimExhausted, Stale, Goto
<1>12. CASE ReclaimRequeued
  BY <1>12 DEF ReclaimRequeued, Stale, Goto
<1>13. ASSUME NEW l \in Lanes, NEW a \in Addresses, Claim(l, a) PROVE PointInv'
  BY <1>13 DEF Claim
<1>14. ASSUME NEW l \in Lanes, NEW r \in {"point", "none"}, Answer(l, r) PROVE PointInv'
  BY <1>14 DEF Answer
<1>15. ASSUME NEW l \in Lanes, Refuse(l) PROVE PointInv'
  BY <1>15 DEF Refuse
<1>16. ASSUME NEW l \in Lanes, MarkResolved(l) PROVE PointInv'
  BY <1>16 DEF MarkResolved, Release
<1>17. ASSUME NEW l \in Lanes, MarkFailed(l) PROVE PointInv'
  BY <1>17 DEF MarkFailed, Release
<1>18. ASSUME NEW l \in Lanes, Caught(l) PROVE PointInv'
  BY <1>18 DEF Caught, Fail
<1>19. ASSUME NEW l \in Lanes, LaneDies(l) PROVE PointInv'
  BY <1>19 DEF LaneDies, Fail, Release
<1>20. ASSUME NEW s \in Sweepers, SweepFails(s) PROVE PointInv'
  BY <1>20 DEF SweepFails, Fail, Goto, ForgetSweep
<1>21. CASE ClosePool
  BY <1>21 DEF ClosePool, Goto, ForgetSweep
<1>22. CASE CrashAndRestart
  BY <1>22 DEF CrashAndRestart, Fail, Goto, ForgetSweep
<1>23. ASSUME NEW a \in Addresses, Age(a) PROVE PointInv'
  BY <1>23 DEF Age
<1>24. ASSUME NEW t \in Tickets, NEW k \in Keys, Upload(t, k) PROVE PointInv'
  BY <1>24 DEF Upload
<1>25. CASE GoDown
  BY <1>25 DEF GoDown
<1>26. CASE ComeBack
  BY <1>26 DEF ComeBack
<1>27. CASE UNCHANGED vars
  BY <1>27 DEF vars
<1> HIDE DEF TypeOK, OwnInv, OwnRow, PointInv, Known
<1> QED
  BY StepCases, <1>1, <1>2, <1>3, <1>4, <1>5, <1>6, <1>7, <1>8, <1>9, <1>10, <1>11, <1>12, <1>13, <1>14,
     <1>15, <1>16, <1>17, <1>18, <1>19, <1>20, <1>21, <1>22, <1>23, <1>24, <1>25, <1>26, <1>27

\* A work order's provider coordinate is one the provider gave for the address
\* the work order is filed under; while no lane has stalled and nothing has
\* expired, it is the answer of the cache row as well.
THEOREM PointsBacked == Spec => []PointBacked
<1>1. Init => GivenInv /\ OwnInv /\ PointInv
  BY CascadeAssumption DEF Init, GivenInv, OwnInv, OwnRow, PointInv
<1>2. GivenInv /\ PointInv => PointBacked
  BY DEF GivenInv, PointInv, PointBacked
<1> QED
  BY <1>1, <1>2, TypeCorrect, OwnStep, GivenStep, PointStep, PTL DEF Spec

=============================================================================
