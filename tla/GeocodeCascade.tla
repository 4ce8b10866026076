---------------------------- MODULE GeocodeCascade ----------------------------
(***************************************************************************)
(* A coordinate for every work order: the table geocode_cache (permanent    *)
(* cache and queue of the geocoding worker), the table work_order_geocodes  *)
(* (the answer each work order has now), the sweep that gives a work order  *)
(* its pincode centroid at once and queues its address, the lanes that ask  *)
(* the provider, and the housekeeping lane that upgrades, retries, routes,  *)
(* expires and reclaims.  The sweep also runs as a script (geocode:sweep)   *)
(* beside the worker, so two sweeps may interleave.  Every SQL statement is *)
(* one step.                                                                *)
(***************************************************************************)
EXTENDS Integers, FiniteSets

CONSTANTS
    Tickets,        \* work orders, numbered in the order of their ids
    Addresses,      \* distinct addresses, numbered in the order of their keys
    HasCentroid,    \* work orders whose pincode is in pincode_geo
    Unroutable,     \* addresses the pincode gate or OSRM turns down
    Answered,       \* addresses the provider answered in earlier uploads
    Uploaded,       \* the newest Flex row of each work order at the start
    Lanes,          \* GEOCODE_CONCURRENCY drain lanes
    MaxAttempts,    \* GEOCODE_MAX_ATTEMPTS
    SweepLimit,     \* work orders per sweep
    RouteLimit,     \* addresses routed per office and sweep
    LanesMayStall,  \* may a live lane outlast the stale-lock threshold
    MaxUploads,     \* bound: Flex rows uploaded
    MaxExpiries,    \* bound: cached answers that outlive the TTL
    MaxOutages,     \* bound: outages of the provider
    MaxFailures     \* bound: failed statements and worker crashes

ASSUME CascadeAssumption ==
    /\ Tickets \subseteq Nat
    /\ Addresses \subseteq Nat \ {0} /\ Answered \subseteq Addresses
    /\ Uploaded \in [Tickets -> Addresses \cup {0, -1}]
    /\ MaxAttempts \in Nat \ {0}
    /\ LanesMayStall \in BOOLEAN
    /\ MaxUploads \in Nat /\ MaxExpiries \in Nat
    /\ MaxOutages \in Nat /\ MaxFailures \in Nat

VARIABLES
    state,      \* geocode_cache.state, "absent" without a row
    precision,  \* its answer: NULL, none (no match), or a point
    attempts,   \* geocode_cache.attempts
    lock,       \* locked_at: NULL, recent or past the threshold
    given,      \* history: addresses a point of the provider was recorded for
    routed,     \* addresses with a row in office_address_distances
    targets,    \* the addresses the worker is asking distances for
    point,      \* work_order_geocodes.source, "absent" without a row
    key,        \* work_order_geocodes.address_key
    flex,       \* the address in the newest Flex row of a work order
    pc,         \* where each sweeper has got to
    batch,      \* the candidates of each sweep, with the address read
    plan,       \* the answers each sweep is about to write
    lane,       \* where each lane has got to
    held,       \* the address each lane claimed
    provider,   \* is the geocoding provider up
    pool,       \* is the worker's database pool open
    uploads, expiries, outages, failures  \* counters of the bounds

cacheVars == <<state, precision, attempts, lock>>
routeVars == <<routed, targets>>
orderVars == <<point, key>>
sweepVars == <<pc, batch, plan>>
laneVars  == <<lane, held>>
envVars   == <<provider, pool, uploads, expiries, outages, failures>>
vars == <<cacheVars, given, routeVars, orderVars, flex, sweepVars, laneVars, envVars>>

NoAddress == 0          \* too thin to geocode: the address key is null
Worker == "worker"
Script == "script"
Sweepers == {Worker, Script}
Keys == Addresses \cup {NoAddress}
Busy(l) == lane[l] \in {"asking", "point", "none", "refused"}

\* Mutant: a remembered miss counts as a hit.
KnownMiss(a) == a \in Addresses /\ state[a] = "done"

\* A cache hit: the provider gave this address a coordinate.
Known(a) == a \in Addresses /\ state[a] = "done" /\ precision[a] = "point"

NoMatch(a) == a \in Addresses /\ precision[a] = "none"

EmptyBatch == [t \in Tickets |-> -1]
EmptyPlan == [t \in Tickets |-> "skip"]

Init ==
    /\ state = [a \in Addresses |-> IF a \in Answered THEN "done" ELSE "absent"]
    /\ precision = [a \in Addresses |-> IF a \in Answered THEN "point" ELSE "NULL"]
    /\ attempts = [a \in Addresses |-> IF a \in Answered THEN 1 ELSE 0]
    /\ lock = [a \in Addresses |-> "free"]
    /\ given = Answered
    /\ routed = {} /\ targets = {}
    /\ point = [t \in Tickets |-> "absent"]
    /\ key = [t \in Tickets |-> NoAddress]
    /\ flex = Uploaded
    /\ pc = [s \in Sweepers |-> "idle"]
    /\ batch = [s \in Sweepers |-> EmptyBatch]
    /\ plan = [s \in Sweepers |-> EmptyPlan]
    /\ lane = [l \in Lanes |-> "idle"]
    /\ held = [l \in Lanes |-> NoAddress]
    /\ provider = "up"
    /\ pool = "open"
    /\ uploads = 0 /\ expiries = 0 /\ outages = 0 /\ failures = 0

(***************************************************************************)
(* The expiry and the sweep.  The worker goes on to the rest of its         *)
(* housekeeping; the script does these two and ends.                        *)
(***************************************************************************)

Running(s) == s = Script \/ pool = "open"
Goto(s, to) == pc' = [pc EXCEPT ![s] = to]

\* expireStaleCacheEntries; which answers are too old is left open.
Expire(s) ==
    /\ Running(s)
    /\ pc[s] = "idle"
    /\ \E old \in SUBSET {a \in Addresses : state[a] = "done"} :
        /\ old # {} => expiries < MaxExpiries
        /\ expiries' = IF old = {} THEN expiries ELSE expiries + 1
        /\ state' = [a \in Addresses |-> IF a \in old THEN "pending" ELSE state[a]]
        /\ attempts' = [a \in Addresses |-> IF a \in old THEN 0 ELSE attempts[a]]
        /\ lock' = [a \in Addresses |-> IF a \in old THEN "free" ELSE lock[a]]
    /\ Goto(s, "sweep")
    /\ UNCHANGED <<precision, given, routeVars, orderVars, flex, batch, plan, laneVars,
                   provider, pool, uploads, outages, failures>>

\* Mutant: the upgrade is left out of the sweep.
UpgradeSkipped(s) ==
    /\ Running(s)
    /\ pc[s] = "sweep"
    /\ Goto(s, "upgraded")
    /\ UNCHANGED <<cacheVars, given, routeVars, orderVars, flex, batch, plan, laneVars, envVars>>

\* upgradeCentroidWorkOrdersFromCache, up to the limit in one statement.
Upgrade(s) ==
    /\ Running(s)
    /\ pc[s] = "sweep"
    /\ LET due == {t \in Tickets : point[t] = "centroid" /\ Known(key[t])}
       IN \E up \in SUBSET due :
            /\ up # due => Cardinality(up) = SweepLimit
            /\ Cardinality(up) <= SweepLimit
            /\ point' = [t \in Tickets |-> IF t \in up THEN "provider" ELSE point[t]]
    /\ Goto(s, "upgraded")
    /\ UNCHANGED <<cacheVars, given, routeVars, key, flex, batch, plan, laneVars, envVars>>

\* findWorkOrdersWithoutCoordinates: the first ones in the order of their ids.
FindCandidates(s) ==
    /\ Running(s)
    /\ pc[s] = "upgraded"
    /\ LET blank == {t \in Tickets : flex[t] # -1 /\ point[t] = "absent"}
           first == {t \in blank : Cardinality({u \in blank : u < t}) < SweepLimit}
       IN /\ batch' = [batch EXCEPT ![s] =
                         [t \in Tickets |-> IF t \in first THEN flex[t] ELSE -1]]
          /\ Goto(s, IF blank = {} THEN "swept" ELSE "found")
    /\ UNCHANGED <<cacheVars, given, routeVars, orderVars, flex, plan, laneVars, envVars>>

\* Mutant: the rows are written before the addresses are queued.
PrepareUnqueued(s) ==
    /\ Running(s)
    /\ pc[s] = "found"
    /\ plan' = [plan EXCEPT ![s] = [t \in Tickets |->
          IF batch[s][t] = -1 THEN "skip"
          ELSE IF Known(batch[s][t]) THEN "provider"
          ELSE IF t \in HasCentroid THEN "centroid" ELSE "skip"]]
    /\ Goto(s, "writing")
    /\ UNCHANGED <<cacheVars, given, routeVars, orderVars, flex, batch, laneVars, envVars>>

\* findResolvedAddresses and findPincodeCentroids, then the loop that chooses:
\* a cache hit, else the centroid, else nothing.
Prepare(s) ==
    /\ Running(s)
    /\ pc[s] = "found"
    /\ plan' = [plan EXCEPT ![s] = [t \in Tickets |->
          IF batch[s][t] = -1 THEN "skip"
          ELSE IF Known(batch[s][t]) THEN "provider"
          ELSE IF t \in HasCentroid THEN "centroid" ELSE "skip"]]
    /\ Goto(s, "prepared")
    /\ UNCHANGED <<cacheVars, given, routeVars, orderVars, flex, batch, laneVars, envVars>>

\* Mutants: a known address is queued again; one with a centroid is not queued.
EnqueueAgain(s) ==
    /\ Running(s)
    /\ pc[s] = "prepared"
    /\ LET new == {a \in Addresses : state[a] \in {"absent", "done"} /\
                      \E t \in Tickets : batch[s][t] = a /\ plan[s][t] # "provider"}
       IN state' = [a \in Addresses |-> IF a \in new THEN "pending" ELSE state[a]]
    /\ Goto(s, "writing")
    /\ UNCHANGED <<precision, attempts, lock, given, routeVars, orderVars, flex, batch, plan,
                   laneVars, envVars>>
EnqueueUnanswered(s) ==
    /\ Running(s)
    /\ pc[s] = "prepared"
    /\ LET new == {a \in Addresses : state[a] = "absent" /\
                      \E t \in Tickets : batch[s][t] = a /\ plan[s][t] = "skip"}
       IN state' = [a \in Addresses |-> IF a \in new THEN "pending" ELSE state[a]]
    /\ Goto(s, "writing")
    /\ UNCHANGED <<precision, attempts, lock, given, routeVars, orderVars, flex, batch, plan,
                   laneVars, envVars>>

\* enqueueAddresses: ON CONFLICT DO NOTHING.
Enqueue(s) ==
    /\ Running(s)
    /\ pc[s] = "prepared"
    /\ LET new == {a \in Addresses : state[a] = "absent" /\
                      \E t \in Tickets : batch[s][t] = a /\ plan[s][t] # "provider"}
       IN state' = [a \in Addresses |-> IF a \in new THEN "pending" ELSE state[a]]
    /\ Goto(s, "writing")
    /\ UNCHANGED <<precision, attempts, lock, given, routeVars, orderVars, flex, batch, plan,
                   laneVars, envVars>>

\* Mutant: the upsert has no WHERE clause.
UpsertAlways(s, t) ==
    /\ Running(s)
    /\ pc[s] = "writing"
    /\ plan[s][t] # "skip"
    /\ \A u \in Tickets : u < t => plan[s][u] = "skip"
    /\ point' = [point EXCEPT ![t] = plan[s][t]]
    /\ key' = [key EXCEPT ![t] = batch[s][t]]
    /\ plan' = [plan EXCEPT ![s][t] = "skip"]
    /\ UNCHANGED <<cacheVars, given, routeVars, flex, pc, batch, laneVars, envVars>>

\* upsertWorkOrderGeocode, one row at a time.  The WHERE clause of the upsert
\* lets a centroid replace nothing but a centroid.
Upsert(s, t) ==
    /\ Running(s)
    /\ pc[s] = "writing"
    /\ plan[s][t] # "skip"
    /\ \A u \in Tickets : u < t => plan[s][u] = "skip"
    /\ IF point[t] \in {"absent", "centroid"} \/ plan[s][t] = "provider"
       THEN /\ point' = [point EXCEPT ![t] = plan[s][t]]
            /\ key' = [key EXCEPT ![t] = batch[s][t]]
       ELSE UNCHANGED orderVars
    /\ plan' = [plan EXCEPT ![s][t] = "skip"]
    /\ UNCHANGED <<cacheVars, given, routeVars, flex, pc, batch, laneVars, envVars>>

ForgetSweep(s) ==
    /\ batch' = [batch EXCEPT ![s] = EmptyBatch]
    /\ plan' = [plan EXCEPT ![s] = EmptyPlan]

EndSweep(s) ==
    /\ pc[s] = "writing"
    /\ \A t \in Tickets : plan[s][t] = "skip"
    /\ ForgetSweep(s)
    /\ Goto(s, "swept")
    /\ UNCHANGED <<cacheVars, given, routeVars, orderVars, flex, laneVars, envVars>>

EndScript ==
    /\ pc[Script] = "swept"
    /\ Goto(Script, "idle")
    /\ UNCHANGED <<cacheVars, given, routeVars, orderVars, flex, batch, plan, laneVars, envVars>>

(***************************************************************************)
(* The rest of the housekeeping lane                                        *)
(***************************************************************************)

\* Mutant: the attempts are not looked at.
RetryFailedAlways ==
    /\ pool = "open"
    /\ pc[Worker] = "swept"
    /\ state' = [a \in Addresses |-> IF state[a] = "failed" THEN "pending" ELSE state[a]]
    /\ Goto(Worker, "retried")
    /\ UNCHANGED <<precision, attempts, lock, given, routeVars, orderVars, flex, batch, plan,
                   laneVars, envVars>>

RetryFailed ==
    /\ pool = "open"
    /\ pc[Worker] = "swept"
    /\ LET again == {a \in Addresses : state[a] = "failed" /\ attempts[a] < MaxAttempts}
       IN /\ state' = [a \in Addresses |-> IF a \in again THEN "pending" ELSE state[a]]
          /\ lock' = [a \in Addresses |-> IF a \in again THEN "free" ELSE lock[a]]
    /\ Goto(Worker, "retried")
    /\ UNCHANGED <<precision, attempts, given, routeVars, orderVars, flex, batch, plan, laneVars, envVars>>

FirstTargets(due) == {a \in due : Cardinality({b \in due : b < a}) < RouteLimit}

\* Mutant: addresses that have a distance are routed again.
RouteAgain ==
    /\ pool = "open"
    /\ pc[Worker] = "retried"
    /\ targets' = FirstTargets({a \in Addresses : Known(a)})
    /\ Goto(Worker, "targets")
    /\ UNCHANGED <<cacheVars, given, routed, orderVars, flex, batch, plan, laneVars, envVars>>

\* routeProviderAddressDistances for one office: the first RouteLimit resolved
\* addresses without a distance, in the order of their keys.
FindTargets ==
    /\ pool = "open"
    /\ pc[Worker] = "retried"
    /\ targets' = FirstTargets({a \in Addresses : Known(a) /\ a \notin routed})
    /\ Goto(Worker, "targets")
    /\ UNCHANGED <<cacheVars, given, routed, orderVars, flex, batch, plan, laneVars, envVars>>

\* OSRM has answered and the rows are written; those that fail the gate, and
\* those OSRM cannot reach, stay without one.
WriteDistances ==
    /\ pool = "open"
    /\ pc[Worker] = "targets"
    /\ routed' = routed \cup (targets \ Unroutable)
    /\ targets' = {}
    /\ Goto(Worker, "routed")
    /\ UNCHANGED <<cacheVars, given, orderVars, flex, batch, plan, laneVars, envVars>>

Route == FindTargets \/ WriteDistances

\* Mutant: the age of the lock is not looked at.
StaleAtOnce(a) == state[a] = "processing"

Stale(a) == state[a] = "processing" /\ lock[a] = "stale"

\* reclaimStaleProcessingAddresses, on every poll: the first of two statements.
ReclaimExhausted ==
    /\ pool = "open"
    /\ pc[Worker] = "routed" \/ (pc[Worker] = "idle" /\ \E a \in Addresses : Stale(a))
    /\ LET gone == {a \in Addresses : Stale(a) /\ attempts[a] >= MaxAttempts}
       IN /\ state' = [a \in Addresses |-> IF a \in gone THEN "failed" ELSE state[a]]
          /\ lock' = [a \in Addresses |-> IF a \in gone THEN "free" ELSE lock[a]]
    /\ Goto(Worker, "reclaim")
    /\ UNCHANGED <<precision, attempts, given, routeVars, orderVars, flex, batch, plan, laneVars, envVars>>

\* Mutant: the reclaim leaves the lock behind.
ReclaimLocked ==
    /\ pool = "open"
    /\ pc[Worker] = "reclaim"
    /\ LET back == {a \in Addresses : Stale(a) /\ attempts[a] < MaxAttempts}
       IN state' = [a \in Addresses |-> IF a \in back THEN "pending" ELSE state[a]]
    /\ Goto(Worker, "idle")
    /\ UNCHANGED <<precision, attempts, lock, given, routeVars, orderVars, flex, batch, plan,
                   laneVars, envVars>>

ReclaimRequeued ==
    /\ pool = "open"
    /\ pc[Worker] = "reclaim"
    /\ LET back == {a \in Addresses : Stale(a) /\ attempts[a] < MaxAttempts}
       IN /\ state' = [a \in Addresses |-> IF a \in back THEN "pending" ELSE state[a]]
          /\ lock' = [a \in Addresses |-> IF a \in back THEN "free" ELSE lock[a]]
    /\ Goto(Worker, "idle")
    /\ UNCHANGED <<precision, attempts, given, routeVars, orderVars, flex, batch, plan, laneVars, envVars>>

(***************************************************************************)
(* The drain lanes                                                          *)
(***************************************************************************)

\* claimNextPendingAddress
Claim(l, a) ==
    /\ pool = "open"
    /\ lane[l] = "idle"
    /\ state[a] = "pending"
    /\ state' = [state EXCEPT ![a] = "processing"]
    /\ lock' = [lock EXCEPT ![a] = "recent"]
    /\ attempts' = [attempts EXCEPT ![a] = @ + 1]
    /\ lane' = [lane EXCEPT ![l] = "asking"]
    /\ held' = [held EXCEPT ![l] = a]
    /\ UNCHANGED <<precision, given, routeVars, orderVars, flex, sweepVars, envVars>>

\* provider.geocode answers with a point, or with null: no match.
Answer(l, result) ==
    /\ lane[l] = "asking"
    /\ provider = "up"
    /\ lane' = [lane EXCEPT ![l] = result]
    /\ UNCHANGED <<cacheVars, given, routeVars, orderVars, flex, sweepVars, held, envVars>>

\* A time-out or an error of the provider while it is down.
Refuse(l) ==
    /\ lane[l] = "asking"
    /\ provider = "down"
    /\ lane' = [lane EXCEPT ![l] = "refused"]
    /\ UNCHANGED <<cacheVars, given, routeVars, orderVars, flex, sweepVars, held, envVars>>

\* Mutant: the lane keeps its item.
ReleaseKeeps(l, to) ==
    /\ lane' = [lane EXCEPT ![l] = to]
    /\ held' = held

Release(l, to) ==
    /\ lane' = [lane EXCEPT ![l] = to]
    /\ held' = [held EXCEPT ![l] = NoAddress]

\* The row is named by its key alone, whatever its state is by now.
MarkResolved(l) ==
    /\ pool = "open"
    /\ lane[l] \in {"point", "none"}
    /\ state' = [state EXCEPT ![held[l]] = "done"]
    /\ precision' = [precision EXCEPT ![held[l]] = lane[l]]
    /\ lock' = [lock EXCEPT ![held[l]] = "free"]
    /\ given' = IF lane[l] = "point" THEN given \cup {held[l]} ELSE given
    /\ Release(l, "idle")
    /\ UNCHANGED <<attempts, routeVars, orderVars, flex, sweepVars, envVars>>

MarkFailed(l) ==
    /\ pool = "open"
    /\ lane[l] = "refused"
    /\ state' = [state EXCEPT ![held[l]] = "failed"]
    /\ lock' = [lock EXCEPT ![held[l]] = "free"]
    /\ Release(l, "idle")
    /\ UNCHANGED <<precision, attempts, given, routeVars, orderVars, flex, sweepVars, envVars>>

(***************************************************************************)
(* Faults, time and the rest of the system                                  *)
(***************************************************************************)

Fail ==
    /\ failures < MaxFailures
    /\ failures' = failures + 1
    /\ UNCHANGED <<provider, uploads, expiries, outages>>

\* A provider call cut short (HTTP 429, shutdown's abort) or a failed
\* markAddressResolved is caught, and the address marked failed.
Caught(l) ==
    /\ Busy(l) /\ lane[l] # "refused"
    /\ Fail
    /\ lane' = [lane EXCEPT ![l] = "refused"]
    /\ UNCHANGED <<cacheVars, given, routeVars, orderVars, flex, sweepVars, held, pool>>

\* markAddressFailed itself fails: the lane's promise rejects.
LaneDies(l) ==
    /\ pool = "open"
    /\ lane[l] = "refused"
    /\ Fail
    /\ Release(l, "dead")
    /\ UNCHANGED <<cacheVars, given, routeVars, orderVars, flex, sweepVars, pool>>

\* A statement of a sweep fails.  The housekeeping lane logs it and starts over
\* at its next poll; a failed routing only skips the routing; the script exits.
SweepFails(s) ==
    /\ Running(s)
    /\ pc[s] # "idle"
    /\ Fail
    /\ IF pc[s] \in {"retried", "targets"}
       THEN Goto(s, "routed") /\ targets' = {} /\ UNCHANGED <<batch, plan>>
       ELSE Goto(s, "idle") /\ ForgetSweep(s) /\ UNCHANGED targets
    /\ UNCHANGED <<cacheVars, given, routed, orderVars, flex, laneVars, pool>>

\* run() rejects with the dead lane and the pool is closed under the others.
ClosePool ==
    /\ pool = "open"
    /\ \E l \in Lanes : lane[l] = "dead"
    /\ pool' = "closed"
    /\ lane' = [l \in Lanes |-> IF Busy(l) THEN "dead" ELSE lane[l]]
    /\ held' = [l \in Lanes |-> NoAddress]
    /\ Goto(Worker, "idle") /\ ForgetSweep(Worker) /\ targets' = {}
    /\ UNCHANGED <<cacheVars, given, routed, orderVars, flex, provider, uploads, expiries,
                   outages, failures>>

CrashAndRestart ==
    /\ Fail
    /\ pool' = "open"
    /\ lane' = [l \in Lanes |-> "idle"]
    /\ held' = [l \in Lanes |-> NoAddress]
    /\ Goto(Worker, "idle") /\ ForgetSweep(Worker) /\ targets' = {}
    /\ UNCHANGED <<cacheVars, given, routed, orderVars, flex>>

\* The stale-lock threshold passes.  A provider call is cut off long before, so
\* a live lane outlasts it only in a statement that hangs: the pool sets no
\* statement timeout.
Age(a) ==
    /\ lock[a] = "recent"
    /\ LanesMayStall \/ \A l \in Lanes : held[l] # a
    /\ lock' = [lock EXCEPT ![a] = "stale"]
    /\ UNCHANGED <<state, precision, attempts, given, routeVars, orderVars, flex, sweepVars,
                   laneVars, envVars>>

\* An upload brings a newer Flex row for the work order.
Upload(t, a) ==
    /\ uploads < MaxUploads
    /\ uploads' = uploads + 1
    /\ flex' = [flex EXCEPT ![t] = a]
    /\ UNCHANGED <<cacheVars, given, routeVars, orderVars, sweepVars, laneVars, provider, pool,
                   expiries, outages, failures>>

GoDown ==
    /\ provider = "up" /\ outages < MaxOutages
    /\ provider' = "down"
    /\ outages' = outages + 1
    /\ UNCHANGED <<cacheVars, given, routeVars, orderVars, flex, sweepVars, laneVars, pool, uploads,
                   expiries, failures>>

ComeBack ==
    /\ provider = "down"
    /\ provider' = "up"
    /\ UNCHANGED <<cacheVars, given, routeVars, orderVars, flex, sweepVars, laneVars, pool, uploads,
                   expiries, outages, failures>>

(***************************************************************************)
(* The specification                                                        *)
(***************************************************************************)

Sweep(s) ==
    \/ Upgrade(s) \/ FindCandidates(s) \/ Prepare(s) \/ Enqueue(s)
    \/ (\E t \in Tickets : Upsert(s, t)) \/ EndSweep(s)
Housekeeping ==
    Expire(Worker) \/ Sweep(Worker) \/ RetryFailed \/ Route \/ ReclaimExhausted \/ ReclaimRequeued
RunScript == Expire(Script) \/ Sweep(Script) \/ EndScript
LaneStep(l) ==
    \/ \E a \in Addresses : Claim(l, a)
    \/ \E result \in {"point", "none"} : Answer(l, result)
    \/ Refuse(l) \/ MarkResolved(l) \/ MarkFailed(l)
Fault ==
    \/ \E l \in Lanes : Caught(l) \/ LaneDies(l)
    \/ \E s \in Sweepers : SweepFails(s)
    \/ ClosePool \/ CrashAndRestart
World ==
    \/ \E a \in Addresses : Age(a)
    \/ \E t \in Tickets, a \in Keys : Upload(t, a)
    \/ GoDown \/ ComeBack

Next ==
    \/ Housekeeping
    \/ RunScript
    \/ \E l \in Lanes : LaneStep(l)
    \/ Fault
    \/ World

Spec == Init /\ [][Next]_vars

\* The housekeeping lane and the drain lanes loop for ever, a provider call is
\* cut off by its timeout, an outage ends, and time passes.  Nobody owes a
\* script run, an upload or a fault.
FairSpec ==
    /\ Spec
    /\ WF_vars(Housekeeping)
    /\ \A l \in Lanes : WF_vars(LaneStep(l))
    /\ WF_vars(ComeBack)
    /\ \A a \in Addresses : WF_vars(Age(a))

(***************************************************************************)
(* Properties                                                               *)
(***************************************************************************)

\* Every variable keeps its type; a plan exists only while it is being written,
\* and a busy lane holds an address.
TypeOK ==
    /\ state \in [Addresses -> {"absent", "pending", "processing", "done", "failed"}]
    /\ precision \in [Addresses -> {"NULL", "none", "point"}]
    /\ attempts \in [Addresses -> Nat]
    /\ lock \in [Addresses -> {"free", "recent", "stale"}]
    /\ given \subseteq Addresses /\ routed \subseteq Addresses
    /\ targets \subseteq Addresses
    /\ point \in [Tickets -> {"absent", "centroid", "provider"}]
    /\ key \in [Tickets -> Keys]
    /\ flex \in [Tickets -> Keys \cup {-1}]
    /\ pc \in [Sweepers -> {"idle", "sweep", "upgraded", "found", "prepared", "writing",
                            "swept", "retried", "targets", "routed", "reclaim"}]
    /\ batch \in [Sweepers -> [Tickets -> Keys \cup {-1}]]
    /\ plan \in [Sweepers -> [Tickets -> {"skip", "centroid", "provider"}]]
    /\ \A s \in Sweepers : pc[s] \notin {"prepared", "writing"} => plan[s] = EmptyPlan
    /\ \A s \in Sweepers, t \in Tickets : plan[s][t] # "skip" => batch[s][t] \in Keys
    /\ lane \in [Lanes -> {"idle", "asking", "point", "none", "refused", "dead"}]
    /\ held \in [Lanes -> Keys]
    /\ \A l \in Lanes : Busy(l) <=> held[l] \in Addresses
    /\ provider \in {"up", "down"}
    /\ pool \in {"open", "closed"}
    /\ uploads \in Nat /\ expiries \in Nat /\ outages \in Nat /\ failures \in Nat

\* A claimed row carries a lock, so the reclaim can find it, and a finished one
\* carries an answer, whatever overlaps (the CHECK of migration 045).
RowCoherent == \A a \in Addresses :
    /\ state[a] = "processing" <=> lock[a] # "free"
    /\ state[a] = "done" => precision[a] # "NULL"
    /\ state[a] = "absent" => precision[a] = "NULL"

\* work_order_geocodes.address_key never names a missing cache row: the reason
\* for "enqueue first, always", here with two sweeps and failed statements.
ForeignKey == \A t \in Tickets :
    key[t] # NoAddress => state[key[t]] # "absent"

\* A provider answer is never downgraded to the centroid, by either sweep.
NeverDowngraded == [][\A t \in Tickets :
    point[t] = "provider" => point'[t] = "provider"]_vars

\* No address costs more provider calls than the attempt limit between two
\* expiries, however often it fails, hangs or kills the worker.
AttemptsBounded == \A a \in Addresses :
    /\ attempts[a] <= MaxAttempts
    /\ state[a] = "pending" => attempts[a] < MaxAttempts

\* While no live lane outlasts the threshold, a lane's row is its own: it is
\* still in processing when the lane writes the answer, and no other lane has it.
OwnRow == LanesMayStall \/ \A l, m \in Lanes :
    /\ Busy(l) => state[held[l]] = "processing"
    /\ (Busy(l) /\ Busy(m) /\ held[l] = held[m]) => l = m

\* A work order shown with a provider coordinate shows one the provider gave
\* for the address it is filed under, whatever stalls, fails or expires between
\* a sweep's look-up and its write; and until a lane stalls or the TTL runs out,
\* the cache row of that address still holds it.
PointBacked == \A t \in Tickets : point[t] = "provider" =>
    /\ key[t] \in given
    /\ (~LanesMayStall /\ expiries = 0) => Known(key[t])

\* "'done' is terminal even when the provider found nothing" (migration 045):
\* only the TTL takes a finished row back.
DoneIsTerminal == [][\A a \in Addresses :
    (state[a] = "done" /\ state'[a] # "done") => expiries' = expiries + 1]_vars

\* The loop between the two halves closes: a work order on the centroid whose
\* address has an answer is upgraded, and once nothing new arrives none is left.
CentroidsUpgrade == []<>(\A t \in Tickets : point[t] = "centroid" => ~Known(key[t]))

\* Work orders below t that may sit in every sweep's batch without being filed.
Unfiled(t) == {u \in Tickets : u < t /\ u \notin HasCentroid}

\* An uploaded work order ends on the provider's coordinate, unless it has no
\* address to ask for or the provider has no match for the one it has: as long
\* as fewer work orders than the sweep's limit stay without a coordinate before
\* it, since the sweep always starts from the first ones; stated for the time
\* after the last upload.
WorkOrdersSettle == <>[](\A t \in Tickets :
    (flex[t] # -1 /\ Cardinality(Unfiled(t)) < SweepLimit) =>
        \/ point[t] = "provider"
        \/ flex[t] = NoAddress \/ NoMatch(flex[t])
        \/ point[t] = "centroid" /\ (key[t] = NoAddress \/ NoMatch(key[t])))

\* "a provider outage must not poison an address forever" (migration 045): once
\* outages are over, a failed address is tried again.
OutageHeals == \A a \in Addresses : (state[a] = "failed") ~> (state[a] # "failed")

\* An address OSRM can route is routed in the end, as long as fewer addresses
\* than the limit are turned down before it: those are examined on every run.
BacklogDrains == []<>(\A a \in Addresses \ Unroutable :
    Cardinality({b \in Unroutable : b < a}) < RouteLimit => (Known(a) => a \in routed))

\* "Bounded per office per run; the worker calls this every sweep, so a backlog
\* drains in a few cycles" (addressRoutingService.ts:29), with no exception.
BacklogAlwaysDrains == []<>(\A a \in Addresses \ Unroutable : Known(a) => a \in routed)

=============================================================================
