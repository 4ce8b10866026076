-------------------------- MODULE WarrantyJobStatus --------------------------
(***************************************************************************)
(* The roll-up warranty_jobs.status over the items of WarrantyQueue, and    *)
(* the requests that read or start a job: POST /jobs, GET a job, GET its    *)
(* file, POST its retry.  The worker moves items only; every one of these   *)
(* requests ends in loadJobDetail, which counts the job's items, compares   *)
(* the derived status with the row the request read earlier and rewrites    *)
(* the row.  buildWarrantyJobFile then lists the items in a statement of    *)
(* its own.                                                                 *)
(***************************************************************************)
EXTENDS WarrantyQueue

CONSTANTS Readers,      \* concurrent requests about a job that exists
          NoJob

ASSUME RequestAssumption == Readers \cap Jobs = {}

\* A job stands for the request that creates it.
Requests == Readers \cup Jobs

VARIABLES
    stored,   \* warranty_jobs.status
    step,     \* where each request has got to
    wantFile, \* it is a file request
    target,   \* the job it is about
    seen,     \* the status of the row it read
    derived,  \* the status it derived from the counts
    reopened, \* history: a Retry reset the job since the request counted
    file      \* serials with no result in the workbook it wrote

requestVars == <<step, wantFile, target, seen, derived, reopened, file>>
jobVars == <<vars, stored, requestVars>>

\* The id of a job is known to nobody before the request that creates it has
\* answered: no route lists the jobs.
Created(j) == upload[j] = "queued" /\ step[j] = "idle"
Present(j) == {i \in OfJob(j) : state[i] # "absent"}
Unsettled(j) == {i \in OfJob(j) : state[i] \in {"pending", "processing"}}

\* Mutants: an item in flight does not count as work; an item's word for a job's.
DeriveQueuedOnly(j) ==
    IF \A i \in Present(j) : state[i] # "pending" THEN "completed"
    ELSE IF \E i \in Present(j) : state[i] # "pending" THEN "processing"
    ELSE "pending"
DeriveDone(j) == IF Unsettled(j) = {} THEN "done" ELSE "processing"

\* Failed items do not block a job.
DeriveJobStatus(j) ==
    IF Unsettled(j) = {} THEN "completed"
    ELSE IF \E i \in Present(j) : state[i] # "pending" THEN "processing"
    ELSE "pending"

JobInit ==
    /\ Init
    /\ stored = [j \in Jobs |-> "pending"]
    /\ step = [r \in Requests |-> "idle"]
    /\ wantFile = [r \in Requests |-> FALSE]
    /\ target = [r \in Requests |-> NoJob]
    /\ seen = [r \in Requests |-> "none"]
    /\ derived = [r \in Requests |-> "none"]
    /\ reopened = [r \in Requests |-> FALSE]
    /\ file = [r \in Requests |-> {}]

\* A request has its job's row in hand.
Begin(r, at, isFile, j, status) ==
    /\ step' = [step EXCEPT ![r] = at]
    /\ wantFile' = [wantFile EXCEPT ![r] = isFile]
    /\ target' = [target EXCEPT ![r] = j]
    /\ seen' = [seen EXCEPT ![r] = status]
    /\ UNCHANGED <<stored, derived, reopened, file>>

\* requireJob, for GET a job, GET its file and POST its retry
FindJob(r, j) ==
    /\ step[r] = "idle"
    /\ Created(j)
    /\ \/ Begin(r, "found", FALSE, j, stored[j])
       \/ Begin(r, "found", TRUE, j, stored[j])
       \/ Begin(r, "retrying", FALSE, j, stored[j])
    /\ UNCHANGED vars

\* The end of createWarrantyJob: its items are in, and it goes on to load the
\* job it inserted.
FinishCreate(j) ==
    /\ InsertItems(j)
    /\ Begin(j, "found", FALSE, j, "pending")

\* retryWarrantyJob: the three statements of WarrantyQueue, then loadJobDetail
\* with the row read before them.  A reset is noted against the requests that
\* have counted.
RetryStep(r) ==
    /\ step[r] = "retrying"
    /\ LET j == target[r]
       IN /\ Retry(j)
          /\ reopened' = [q \in Requests |->
                reopened[q] \/ (derived[q] # "none" /\ target[q] = j /\ resets'[j] # resets[j])]
          /\ step' = [step EXCEPT ![r] =
                IF retry[j] = "exhausted" THEN "found" ELSE "retrying"]
    /\ UNCHANGED <<stored, wantFile, target, seen, derived, file>>

\* The request answers, and what it knew goes with it.
Forget(r) ==
    /\ step' = [step EXCEPT ![r] = "idle"]
    /\ wantFile' = [wantFile EXCEPT ![r] = FALSE]
    /\ target' = [target EXCEPT ![r] = NoJob]
    /\ seen' = [seen EXCEPT ![r] = "none"]
    /\ derived' = [derived EXCEPT ![r] = "none"]
    /\ reopened' = [reopened EXCEPT ![r] = FALSE]
    /\ file' = [file EXCEPT ![r] = {}]

\* Mutant: a file request goes on whatever the status.
LoadedAnyway(r, status) ==
    IF wantFile[r]
    THEN /\ step' = [step EXCEPT ![r] = "loaded"]
         /\ derived' = [derived EXCEPT ![r] = status]
         /\ seen' = [seen EXCEPT ![r] = "none"]
         /\ UNCHANGED <<wantFile, target, reopened, file>>
    ELSE Forget(r)

\* The job is loaded with this status: a file request of a completed job goes
\* on, one of an unfinished job answers 409, and the others answer the job.
Loaded(r, status) ==
    IF wantFile[r] /\ status = "completed"
    THEN /\ step' = [step EXCEPT ![r] = "loaded"]
         /\ derived' = [derived EXCEPT ![r] = status]
         /\ seen' = [seen EXCEPT ![r] = "none"]
         /\ UNCHANGED <<wantFile, target, reopened, file>>
    ELSE Forget(r)

\* countJobItems and deriveJobStatus
CountItems(r) ==
    /\ step[r] = "found"
    /\ LET status == DeriveJobStatus(target[r])
       IN IF status = seen[r] THEN Loaded(r, status)
          ELSE /\ step' = [step EXCEPT ![r] = "counted"]
               /\ derived' = [derived EXCEPT ![r] = status]
               /\ seen' = [seen EXCEPT ![r] = "none"]
               /\ UNCHANGED <<wantFile, target, reopened, file>>
    /\ UNCHANGED <<vars, stored>>

\* updateWarrantyJobStatus: unconditional, whatever the row says by now.
StoreStatus(r) ==
    /\ step[r] = "counted"
    /\ stored' = [stored EXCEPT ![target[r]] = derived[r]]
    /\ Loaded(r, derived[r])
    /\ UNCHANGED vars

\* listJobItems; an item without lookup_status leaves its rows blank.
ServeFile(r) ==
    /\ step[r] = "loaded"
    /\ file' = [file EXCEPT ![r] =
                  {SerialOf(i) : i \in {k \in Present(target[r]) : lookup[k] = "NULL"}}]
    /\ step' = [step EXCEPT ![r] = "served"]
    /\ UNCHANGED <<vars, stored, wantFile, target, seen, derived, reopened>>

\* The workbook is sent.
Respond(r) ==
    /\ step[r] = "served"
    /\ Forget(r)
    /\ UNCHANGED <<vars, stored>>

\* The steps of the queue that no request of this module makes.
Alone(A) == A /\ UNCHANGED <<stored, requestVars>>
QueueStep ==
    Alone(\/ \E j \in Jobs : ReadCache(j) \/ InsertJob(j) \/ InsertItemsFails(j)
          \/ Housekeeping
          \/ \E l \in Lanes : LaneStep(l)
          \/ Fault
          \/ \E i \in Items : Age(i))

RequestStep(r) ==
    \/ \E j \in Jobs : r \in Readers /\ FindJob(r, j)
    \/ r \in Jobs /\ FinishCreate(r)
    \/ RetryStep(r)
    \/ CountItems(r)
    \/ StoreStatus(r)
    \/ ServeFile(r)
    \/ Respond(r)

JobNext == QueueStep \/ \E r \in Requests : RequestStep(r)

JobSpec == JobInit /\ [][JobNext]_jobVars

\* The queue's fairness; no request is ever owed a beginning, and none but a
\* Retry that has begun an end.
JobFairSpec ==
    /\ JobSpec
    /\ \A l \in Lanes : WF_jobVars(Alone(LaneStep(l)))
    /\ WF_jobVars(Alone(Housekeeping))
    /\ WF_jobVars(Alone(ClosePool))
    /\ \A j \in Jobs : WF_jobVars(Alone(InsertJob(j)) \/ FinishCreate(j))
    /\ \A r \in Readers : WF_jobVars(RetryStep(r))
    /\ \A i \in Items : WF_jobVars(Alone(Age(i)))

-----------------------------------------------------------------------------
\* The requests' bookkeeping keeps its types.
JobTypeOK ==
    /\ stored \in [Jobs -> {"pending", "processing", "completed"}]
    /\ step \in [Requests -> {"idle", "retrying", "found", "counted", "loaded", "served"}]
    /\ wantFile \in [Requests -> BOOLEAN]
    /\ target \in [Requests -> Jobs \cup {NoJob}]
    /\ derived \in [Requests -> {"none", "pending", "processing", "completed"}]
    /\ file \in [Requests -> SUBSET Serials]

\* A request that found its job completed may rely on it until it answers: work
\* comes back to a completed job through a Retry only, whatever late lanes,
\* crashes and reclaims do meanwhile.
CompletedStands == \A r \in Requests :
    (derived[r] = "completed" /\ ~reopened[r]) => Unsettled(target[r]) = {}

\* Unless a Retry slips between the count and the listing, the workbook has a
\* result for every serial of the job.
FileWhole == \A r \in Requests :
    (step[r] = "served" /\ ~reopened[r]) => file[r] = {}
=============================================================================
