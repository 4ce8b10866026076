---------------------------- MODULE WarrantyQueue ----------------------------
(***************************************************************************)
(* The HP warranty look-up queue: the upload jobs the API creates, the      *)
(* rows of warranty_job_items that ARE the queue, the permanent cache       *)
(* hp_warranty_cache, the drain lanes of warrantyWorker.ts, the stale-lock  *)
(* reclaim of its housekeeping lane, and the Retry button of the API.       *)
(*                                                                          *)
(* Every SQL statement is one step, so everything the code does between two *)
(* awaits of different requests or lanes interleaves.  Time appears only as *)
(* "this lock is older than the threshold" (Age): a look-up may take longer *)
(* than WARRANTY_STALE_LOCK_SECONDS (module HpLookup), so a lock may become *)
(* stale under a lane that is still alive.                                  *)
(***************************************************************************)
EXTENDS Integers, FiniteSets

CONSTANTS
    Jobs,              \* the uploads that may be made
    Serials,           \* normalised serial texts
    BlankSerials,      \* those that mean "no serial" (blank cells, NOSN)
    Lanes,             \* the drain lanes, WARRANTY_CONCURRENCY of them
    NoItem,            \* what a lane with no claimed item holds
    MaxAttempts,       \* WARRANTY_MAX_ATTEMPTS of the worker
    RetryMaxAttempts,  \* MAX_ATTEMPTS of warrantyJobService, used by Retry
    MaxResets,         \* bound: Retry requests until one job has had so many
    MaxCrashes,        \* bound: worker crashes
    MaxDbErrors        \* bound: statements that fail

ASSUME QueueAssumption ==
    /\ BlankSerials \subseteq Serials
    /\ MaxAttempts \in Nat \ {0}
    /\ RetryMaxAttempts \in Nat \ {0}
    /\ MaxResets \in Nat
    /\ MaxCrashes \in Nat
    /\ MaxDbErrors \in Nat
    /\ IsFiniteSet(Lanes)
    /\ NoItem \notin Jobs \X Serials

VARIABLES
    state,     \* warranty_job_items.state, "absent" before the insert
    lookup,    \* warranty_job_items.lookup_status
    attempts,  \* warranty_job_items.attempts
    lock,      \* locked_at: NULL, recent, or older than the stale threshold
    cache,     \* hp_warranty_cache.lookup_status, "none" without a row
    upload,    \* where createWarrantyJob of the job has got to
    want,      \* the serials the uploaded sheet holds
    hits,      \* the cache rows createWarrantyJob read
    retry,     \* where retryWarrantyJob of the job has got to
    sweep,     \* where the housekeeping lane's reclaim has got to
    pc,        \* where each drain lane has got to
    held,      \* the item each lane claimed
    answer,    \* the result each lane has in hand
    pool,      \* is the worker's database pool open
    resets,    \* history: Retry requests made of the job
    crashes,   \* history: worker crashes
    dbErrors,  \* history: failed statements
    fetched,   \* history: answers HP gave for the serial
    knew,      \* history: the lane's serial was cached when it claimed
    requeued   \* history: the lane's item went back to pending under it

itemVars  == <<state, lookup, attempts, lock>>
apiVars   == <<upload, want, hits, retry, resets>>
laneVars  == <<pc, held, answer, knew, requeued>>
faultVars == <<pool, crashes, dbErrors>>
vars == <<itemVars, cache, apiVars, sweep, laneVars, faultVars, fetched>>

Items == Jobs \X Serials
JobOf(i) == i[1]
SerialOf(i) == i[2]
OfJob(j) == {i \in Items : JobOf(i) = j}

\* The two terminal results HP can give; only these are cached.
Answers == {"OK", "NOT_FOUND"}
ItemStates == {"absent", "pending", "processing", "done", "failed"}
Lookups == Answers \cup {"NULL", "NO_SERIAL", "FAILED"}
Working == {"claimed", "known", "asking", "fetched", "stored", "refused"}
Busy(l) == pc[l] \in Working

\* The larger of the two attempt limits in force.
AttemptLimit == IF MaxAttempts >= RetryMaxAttempts THEN MaxAttempts
                                                   ELSE RetryMaxAttempts

Init ==
    /\ state = [i \in Items |-> "absent"]
    /\ lookup = [i \in Items |-> "NULL"]
    /\ attempts = [i \in Items |-> 0]
    /\ lock = [i \in Items |-> "free"]
    /\ cache \in [Serials -> Answers \cup {"none"}]
    /\ \A s \in BlankSerials : cache[s] = "none"
    /\ upload = [j \in Jobs |-> "none"]
    /\ want = [j \in Jobs |-> {}]
    /\ hits = [j \in Jobs |-> [s \in Serials |-> "none"]]
    /\ retry = [j \in Jobs |-> "idle"]
    /\ sweep = "idle"
    /\ pc = [l \in Lanes |-> "idle"]
    /\ held = [l \in Lanes |-> NoItem]
    /\ answer = [l \in Lanes |-> "none"]
    /\ pool = "open"
    /\ resets = [j \in Jobs |-> 0]
    /\ crashes = 0
    /\ dbErrors = 0
    /\ fetched = [s \in Serials |-> 0]
    /\ knew = [l \in Lanes |-> FALSE]
    /\ requeued = [l \in Lanes |-> FALSE]

(***************************************************************************)
(* The API: createWarrantyJob                                               *)
(***************************************************************************)

\* The workbook is reduced to its serials; those that could reach HP are
\* looked up in the cache.
ReadCache(j) ==
    /\ upload[j] = "none"
    /\ \E S \in SUBSET Serials \ {{}} :
        /\ want' = [want EXCEPT ![j] = S]
        /\ hits' = [hits EXCEPT ![j] =
                      [s \in Serials |-> IF s \in S \ BlankSerials
                                         THEN cache[s] ELSE "none"]]
    /\ upload' = [upload EXCEPT ![j] = "read"]
    /\ UNCHANGED <<itemVars, cache, retry, resets, sweep, laneVars, faultVars, fetched>>

InsertJob(j) ==
    /\ upload[j] = "read"
    /\ upload' = [upload EXCEPT ![j] = "inserted"]
    /\ UNCHANGED <<itemVars, cache, want, hits, retry, resets, sweep, laneVars, faultVars, fetched>>

\* The locals of a request go with it.
ForgetRequest(j) ==
    /\ want' = [want EXCEPT ![j] = {}]
    /\ hits' = [hits EXCEPT ![j] = [s \in Serials |-> "none"]]

\* A blank serial and a cache hit are born done; the rest are queued.
InsertItems(j) ==
    /\ upload[j] = "inserted"
    /\ LET new == {i \in OfJob(j) : SerialOf(i) \in want[j] /\ state[i] = "absent"}
           hit(i) == hits[j][SerialOf(i)]
           noSerial(i) == SerialOf(i) \in BlankSerials
       IN /\ state' = [i \in Items |->
                IF i \notin new THEN state[i]
                ELSE IF noSerial(i) \/ hit(i) # "none" THEN "done" ELSE "pending"]
          /\ lookup' = [i \in Items |->
                IF i \notin new THEN lookup[i]
                ELSE IF noSerial(i) THEN "NO_SERIAL"
                ELSE IF hit(i) # "none" THEN hit(i) ELSE "NULL"]
    /\ upload' = [upload EXCEPT ![j] = "queued"]
    /\ ForgetRequest(j)
    /\ UNCHANGED <<attempts, lock, cache, retry, resets, sweep, laneVars, faultVars, fetched>>

\* The two inserts are not one transaction: a failed second insert leaves a
\* job row with no items.
InsertItemsFails(j) ==
    /\ upload[j] = "inserted"
    /\ dbErrors < MaxDbErrors
    /\ dbErrors' = dbErrors + 1
    /\ upload' = [upload EXCEPT ![j] = "lost"]
    /\ ForgetRequest(j)
    /\ UNCHANGED <<itemVars, cache, retry, resets, sweep, laneVars, pool, crashes, fetched>>

(***************************************************************************)
(* Reclaiming stale locks: two statements, run by the housekeeping lane for *)
(* every job and by Retry for one                                           *)
(***************************************************************************)

Stale(i) == state[i] = "processing" /\ lock[i] = "stale"

\* Mutant: an item with its last attempt used is not yet at its limit.
ExhaustPast(scope, limit) ==
    LET gone == {i \in scope : Stale(i) /\ attempts[i] > limit}
    IN /\ state' = [i \in Items |-> IF i \in gone THEN "failed" ELSE state[i]]
       /\ lookup' = [i \in Items |-> IF i \in gone THEN "FAILED" ELSE lookup[i]]
       /\ lock' = [i \in Items |-> IF i \in gone THEN "free" ELSE lock[i]]
       /\ UNCHANGED attempts

\* First statement: a stale item that has used its attempts is failed.
Exhaust(scope, limit) ==
    LET gone == {i \in scope : Stale(i) /\ attempts[i] >= limit}
    IN /\ state' = [i \in Items |-> IF i \in gone THEN "failed" ELSE state[i]]
       /\ lookup' = [i \in Items |-> IF i \in gone THEN "FAILED" ELSE lookup[i]]
       /\ lock' = [i \in Items |-> IF i \in gone THEN "free" ELSE lock[i]]
       /\ UNCHANGED attempts

\* Both the second statement and resetFailedItems put rows back to pending.
PutBack(back) ==
    /\ state' = [i \in Items |-> IF i \in back THEN "pending" ELSE state[i]]
    /\ lookup' = [i \in Items |-> IF i \in back THEN "NULL" ELSE lookup[i]]
    /\ lock' = [i \in Items |-> IF i \in back THEN "free" ELSE lock[i]]
    /\ requeued' = [l \in Lanes |-> requeued[l] \/ (Busy(l) /\ held[l] \in back)]
    /\ UNCHANGED <<attempts, pc, held, answer, knew>>

\* Mutants: the limit is not looked at; failed rows go back too.
RequeueAll(scope, limit) == PutBack({i \in scope : Stale(i)})
RequeueFailed(scope, limit) ==
    PutBack({i \in scope : (Stale(i) \/ state[i] = "failed") /\ attempts[i] < limit})

\* Second statement: the other stale items go back to the queue.
Requeue(scope, limit) ==
    PutBack({i \in scope : Stale(i) /\ attempts[i] < limit})

SweepExhaust ==
    /\ pool = "open"
    /\ sweep = "idle"
    /\ \E i \in Items : Stale(i)
    /\ Exhaust(Items, MaxAttempts)
    /\ sweep' = "exhausted"
    /\ UNCHANGED <<cache, apiVars, laneVars, faultVars, fetched>>

SweepRequeue ==
    /\ pool = "open"
    /\ sweep = "exhausted"
    /\ Requeue(Items, MaxAttempts)
    /\ sweep' = "idle"
    /\ UNCHANGED <<cache, apiVars, faultVars, fetched>>

(***************************************************************************)
(* The API: retryWarrantyJob                                                *)
(***************************************************************************)

RetryReset(j) ==
    /\ upload[j] = "queued"
    /\ retry[j] = "idle"
    /\ \A k \in Jobs : resets[k] < MaxResets
    /\ resets' = [resets EXCEPT ![j] = @ + 1]
    /\ PutBack({i \in OfJob(j) : state[i] = "failed"})
    /\ retry' = [retry EXCEPT ![j] = "reset"]
    /\ UNCHANGED <<cache, upload, want, hits, sweep, faultVars, fetched>>

RetryExhaust(j) ==
    /\ retry[j] = "reset"
    /\ Exhaust(OfJob(j), RetryMaxAttempts)
    /\ retry' = [retry EXCEPT ![j] = "exhausted"]
    /\ UNCHANGED <<cache, upload, want, hits, resets, sweep, laneVars, faultVars, fetched>>

RetryRequeue(j) ==
    /\ retry[j] = "exhausted"
    /\ Requeue(OfJob(j), RetryMaxAttempts)
    /\ retry' = [retry EXCEPT ![j] = "idle"]
    /\ UNCHANGED <<cache, upload, want, hits, resets, sweep, faultVars, fetched>>

(***************************************************************************)
(* The drain lanes                                                          *)
(***************************************************************************)

\* Mutant: the claim reads a row and locks it without marking it processing.
ClaimUnmarked(l, i) ==
    /\ pool = "open"
    /\ pc[l] = "idle"
    /\ state[i] = "pending"
    /\ attempts' = [attempts EXCEPT ![i] = @ + 1]
    /\ pc' = [pc EXCEPT ![l] = "claimed"]
    /\ held' = [held EXCEPT ![l] = i]
    /\ knew' = [knew EXCEPT ![l] = cache[SerialOf(i)] # "none"]
    /\ requeued' = [requeued EXCEPT ![l] = FALSE]
    /\ UNCHANGED <<state, lock, lookup, cache, apiVars, sweep, answer, faultVars, fetched>>

\* claimNextPendingItem.  Which pending row comes first is left open: rows of
\* one insert share created_at, and SKIP LOCKED passes over a contended row.
Claim(l, i) ==
    /\ pool = "open"
    /\ pc[l] = "idle"
    /\ state[i] = "pending"
    /\ state' = [state EXCEPT ![i] = "processing"]
    /\ lock' = [lock EXCEPT ![i] = "recent"]
    /\ attempts' = [attempts EXCEPT ![i] = @ + 1]
    /\ pc' = [pc EXCEPT ![l] = "claimed"]
    /\ held' = [held EXCEPT ![l] = i]
    /\ knew' = [knew EXCEPT ![l] = cache[SerialOf(i)] # "none"]
    /\ requeued' = [requeued EXCEPT ![l] = FALSE]
    /\ UNCHANGED <<lookup, cache, apiVars, sweep, answer, faultVars, fetched>>

Goto(l, to, got) ==
    /\ pc' = [pc EXCEPT ![l] = to]
    /\ answer' = [answer EXCEPT ![l] = got]
    /\ UNCHANGED <<held, knew, requeued>>

\* The lane is through with its item.
Release(l, to) ==
    /\ pc' = [pc EXCEPT ![l] = to]
    /\ answer' = [answer EXCEPT ![l] = "none"]
    /\ held' = [held EXCEPT ![l] = NoItem]
    /\ knew' = [knew EXCEPT ![l] = FALSE]
    /\ requeued' = [requeued EXCEPT ![l] = FALSE]

\* Mutants: a miss is taken for a hit; the cache is not looked at again.
CheckCacheNoMiss(l) ==
    /\ pool = "open"
    /\ pc[l] = "claimed"
    /\ Goto(l, "known", cache[SerialOf(held[l])])
    /\ UNCHANGED <<itemVars, cache, apiVars, sweep, faultVars, fetched>>
CheckCacheSkipped(l) ==
    /\ pool = "open"
    /\ pc[l] = "claimed"
    /\ Goto(l, "asking", "none")
    /\ UNCHANGED <<itemVars, cache, apiVars, sweep, faultVars, fetched>>

\* findCachedWarranty: another job may have fetched the serial meanwhile.
CheckCache(l) ==
    /\ pool = "open"
    /\ pc[l] = "claimed"
    /\ LET found == cache[SerialOf(held[l])]
       IN Goto(l, IF found = "none" THEN "asking" ELSE "known", found)
    /\ UNCHANGED <<itemVars, cache, apiVars, sweep, faultVars, fetched>>

\* Mutant: an answer goes to the item without going to the cache.
HpAnswersUncached(l, a) ==
    /\ pc[l] = "asking"
    /\ fetched' = [fetched EXCEPT ![SerialOf(held[l])] = @ + 1]
    /\ Goto(l, "stored", a)
    /\ UNCHANGED <<itemVars, cache, apiVars, sweep, faultVars>>

HpAnswers(l, a) ==
    /\ pc[l] = "asking"
    /\ fetched' = [fetched EXCEPT ![SerialOf(held[l])] = @ + 1]
    /\ Goto(l, "fetched", a)
    /\ UNCHANGED <<itemVars, cache, apiVars, sweep, faultVars>>

\* A timeout, a challenge, a page that did not resolve: lookupWarranty throws.
HpRefuses(l) ==
    /\ pc[l] = "asking"
    /\ Goto(l, "refused", "none")
    /\ UNCHANGED <<itemVars, cache, apiVars, sweep, faultVars, fetched>>

\* upsertWarrantyCache overwrites an earlier answer.
StoreAnswer(l) ==
    /\ pool = "open"
    /\ pc[l] = "fetched"
    /\ cache' = [cache EXCEPT ![SerialOf(held[l])] = answer[l]]
    /\ Goto(l, "stored", answer[l])
    /\ UNCHANGED <<itemVars, apiVars, sweep, faultVars, fetched>>

\* Mutants: the lock stays; every result is written down as a success.
SettleLocked(i, to, result) ==
    /\ state' = [state EXCEPT ![i] = to]
    /\ lookup' = [lookup EXCEPT ![i] = result]
    /\ UNCHANGED <<attempts, lock>>
SettleOk(i, to, result) ==
    /\ state' = [state EXCEPT ![i] = to]
    /\ lookup' = [lookup EXCEPT ![i] = IF to = "done" THEN "OK" ELSE "FAILED"]
    /\ lock' = [lock EXCEPT ![i] = "free"]
    /\ UNCHANGED attempts

\* markItemDone and markItemFailed name the row by id alone: neither its state
\* nor the lock is looked at.
Settle(i, to, result) ==
    /\ state' = [state EXCEPT ![i] = to]
    /\ lookup' = [lookup EXCEPT ![i] = result]
    /\ lock' = [lock EXCEPT ![i] = "free"]
    /\ UNCHANGED attempts

MarkDone(l) ==
    /\ pool = "open"
    /\ pc[l] \in {"known", "stored"}
    /\ Settle(held[l], "done", answer[l])
    /\ Release(l, "idle")
    /\ UNCHANGED <<cache, apiVars, sweep, faultVars, fetched>>

MarkFailed(l) ==
    /\ pool = "open"
    /\ pc[l] = "refused"
    /\ Settle(held[l], "failed", "FAILED")
    /\ Release(l, "idle")
    /\ UNCHANGED <<cache, apiVars, sweep, faultVars, fetched>>

(***************************************************************************)
(* Faults and time                                                          *)
(***************************************************************************)

\* A statement inside the try block fails: the item is marked FAILED.
CaughtDbError(l) ==
    /\ pc[l] \in {"fetched", "stored"}
    /\ dbErrors < MaxDbErrors
    /\ dbErrors' = dbErrors + 1
    /\ Goto(l, "refused", "none")
    /\ UNCHANGED <<itemVars, cache, apiVars, sweep, pool, crashes, fetched>>

\* A statement outside the try block fails (the cache read, markItemDone of a
\* cache hit, markItemFailed itself): the lane's promise rejects.
LaneDies(l) ==
    /\ pool = "open"
    /\ pc[l] \in {"claimed", "known", "refused"}
    /\ dbErrors < MaxDbErrors
    /\ dbErrors' = dbErrors + 1
    /\ Release(l, "dead")
    /\ UNCHANGED <<itemVars, cache, apiVars, sweep, pool, crashes, fetched>>

DropItems ==
    /\ answer' = [l \in Lanes |-> "none"]
    /\ held' = [l \in Lanes |-> NoItem]
    /\ knew' = [l \in Lanes |-> FALSE]
    /\ requeued' = [l \in Lanes |-> FALSE]

\* Promise.all rejects with the first dead lane: run() closes the browser and
\* the finally block ends the pool, so no lane of this process reaches the
\* database again.  Nothing exits the process: the housekeeping lane and the
\* idle lanes catch every error and sleep again.
ClosePool ==
    /\ pool = "open"
    /\ \E l \in Lanes : pc[l] = "dead"
    /\ pool' = "closed"
    /\ pc' = [l \in Lanes |-> IF Busy(l) THEN "dead" ELSE pc[l]]
    /\ DropItems
    /\ sweep' = "idle"
    /\ UNCHANGED <<itemVars, cache, apiVars, crashes, dbErrors, fetched>>

\* The process dies (OOM, SIGKILL, eviction) and its container is restarted:
\* what the lanes held stays in processing.
CrashAndRestart ==
    /\ crashes < MaxCrashes
    /\ crashes' = crashes + 1
    /\ pool' = "open"
    /\ pc' = [l \in Lanes |-> "idle"]
    /\ DropItems
    /\ sweep' = "idle"
    /\ UNCHANGED <<itemVars, cache, apiVars, dbErrors, fetched>>

\* The threshold passes since the lock was taken.
Age(i) ==
    /\ lock[i] = "recent"
    /\ lock' = [lock EXCEPT ![i] = "stale"]
    /\ UNCHANGED <<state, lookup, attempts, cache, apiVars, sweep, laneVars, faultVars, fetched>>

(***************************************************************************)
(* The specification                                                        *)
(***************************************************************************)

Upload(j) == ReadCache(j) \/ InsertJob(j) \/ InsertItems(j) \/ InsertItemsFails(j)
Retry(j) == RetryReset(j) \/ RetryExhaust(j) \/ RetryRequeue(j)
Housekeeping == SweepExhaust \/ SweepRequeue
Ask(l) == (\E a \in Answers : HpAnswers(l, a)) \/ HpRefuses(l)
LaneStep(l) ==
    \/ \E i \in Items : Claim(l, i)
    \/ CheckCache(l)
    \/ Ask(l)
    \/ StoreAnswer(l)
    \/ MarkDone(l)
    \/ MarkFailed(l)
Fault == (\E l \in Lanes : CaughtDbError(l) \/ LaneDies(l)) \/ ClosePool \/ CrashAndRestart

Next ==
    \/ \E j \in Jobs : Upload(j) \/ Retry(j)
    \/ Housekeeping
    \/ \E l \in Lanes : LaneStep(l)
    \/ Fault
    \/ \E i \in Items : Age(i)

Spec == Init /\ [][Next]_vars

\* Lanes loop for ever, every look-up is bounded by timeouts, housekeeping
\* polls, a started request runs on, and time passes.  Faults and new
\* requests are never owed.
FairSpec ==
    /\ Spec
    /\ \A l \in Lanes : WF_vars(LaneStep(l))
    /\ WF_vars(Housekeeping)
    /\ WF_vars(ClosePool)
    /\ \A j \in Jobs : WF_vars(InsertJob(j) \/ InsertItems(j))
    /\ \A j \in Jobs : WF_vars(RetryExhaust(j) \/ RetryRequeue(j))
    /\ \A i \in Items : WF_vars(Age(i))

(***************************************************************************)
(* Properties                                                               *)
(***************************************************************************)

\* Every variable keeps its type.
TypeOK ==
    /\ state \in [Items -> ItemStates]
    /\ lookup \in [Items -> Lookups]
    /\ attempts \in [Items -> Nat]
    /\ lock \in [Items -> {"free", "recent", "stale"}]
    /\ cache \in [Serials -> Answers \cup {"none"}]
    /\ upload \in [Jobs -> {"none", "read", "inserted", "queued", "lost"}]
    /\ want \in [Jobs -> SUBSET Serials]
    /\ hits \in [Jobs -> [Serials -> Answers \cup {"none"}]]
    /\ retry \in [Jobs -> {"idle", "reset", "exhausted"}]
    /\ sweep \in {"idle", "exhausted"}
    /\ pc \in [Lanes -> Working \cup {"idle", "dead"}]
    /\ held \in [Lanes -> Items \cup {NoItem}]
    /\ \A l \in Lanes : Busy(l) => held[l] \in Items
    /\ answer \in [Lanes -> Answers \cup {"none"}]
    /\ \A l \in Lanes : pc[l] \in {"known", "fetched", "stored"} => answer[l] \in Answers
    /\ pool \in {"open", "closed"}
    /\ resets \in [Jobs -> Nat]
    /\ crashes \in Nat
    /\ dbErrors \in Nat
    /\ fetched \in [Serials -> Nat]
    /\ knew \in [Lanes -> BOOLEAN]
    /\ requeued \in [Lanes -> BOOLEAN]

\* A row's state, result and lock tell one story however the lanes, the reclaim
\* and Retry overlap.  A processing row always carries a lock: without locked_at
\* the reclaim would pass over it and its job would never complete.
RowCoherent == \A i \in Items :
    /\ state[i] = "processing" <=> lock[i] # "free"
    /\ state[i] = "failed" <=> lookup[i] = "FAILED"
    /\ state[i] = "done" <=> lookup[i] \in Answers \cup {"NO_SERIAL"}
    /\ lookup[i] = "NO_SERIAL" => SerialOf(i) \in BlankSerials

\* FOR UPDATE SKIP LOCKED hands each lane a row of its own: two lanes are at
\* work on one item only after that item went back to the queue under one of
\* them (a stale lock or a Retry).
ExclusiveClaim == \A l, m \in Lanes :
    (l # m /\ Busy(l) /\ Busy(m) /\ held[l] = held[m])
        => requeued[l] \/ requeued[m]

\* A lane never asks HP for a serial that had an answer when the lane claimed
\* its item, even though the job was queued on an older reading of the cache.
NoLateFetch == \A l \in Lanes :
    pc[l] \in {"asking", "fetched"} => ~knew[l]

\* No blank or NOSN serial is ever sent to HP or cached.
BlankNeverAsked == \A s \in BlankSerials :
    /\ cache[s] = "none" /\ fetched[s] = 0
    /\ \A l \in Lanes : Busy(l) => SerialOf(held[l]) # s

\* An item is done with an answer of HP only when the cache keeps an answer for
\* its serial, so no later job can send the serial to HP again.
AnswersAreCached == \A i \in Items :
    lookup[i] \in Answers => cache[SerialOf(i)] # "none"

\* Every finished item of a serial shows the cached answer, unless HP was asked
\* for that serial more than once.
AnswersAgree == \A i \in Items :
    (lookup[i] \in Answers /\ fetched[SerialOf(i)] <= 1)
        => lookup[i] = cache[SerialOf(i)]

\* What bounds the claims of one serial: the attempt limit, plus one for each
\* time a person pressed Retry (resetFailedItems leaves attempts alone).  "One
\* poison serial that reliably kills the browser cannot spin the worker forever".
AttemptsBounded == \A i \in Items :
    attempts[i] <= AttemptLimit + resets[JobOf(i)]

\* What the cache does guarantee about traffic to HP: once an answer is stored
\* only lanes that had already read the cache may still ask, so a serial is
\* fetched at most once per lane, plus what a crash or a failed upsert loses.
FetchesBounded == \A s \in Serials :
    fetched[s] <= Cardinality(Lanes) * (1 + crashes) + dbErrors

\* Only a Retry takes a finished item back: done is left for failed at most
\* (a late lane), and failed for pending only by resetFailedItems.
OnlyRetryReopens == [][\A i \in Items :
    /\ state[i] = "done" => state'[i] \in {"done", "failed"}
    /\ (state[i] = "failed" /\ state'[i] = "pending") =>
          resets'[JobOf(i)] = resets[JobOf(i)] + 1]_vars

\* A queued item is settled in the end: claimed, or reclaimed from a crashed
\* worker and claimed again, until it is done or failed.
ItemsSettle == \A i \in Items :
    state[i] \in {"pending", "processing"} ~> state[i] \in {"done", "failed"}

=============================================================================
