--------------------------- MODULE ClosedCallSweep ---------------------------
(***************************************************************************)
(* Closed calls and the warranty queue (closedCallWarrantyService.ts): each *)
(* view of the closed-calls list and the worker's unattended sweep enqueue  *)
(* the serials that are neither cached nor queued, up to a daily budget,    *)
(* onto one standing job.  Every repository call is a statement of its own, *)
(* so the views of several people and the sweep interleave between them.    *)
(***************************************************************************)
EXTENDS Integers, FiniteSets, Sequences

CONSTANTS
    Callers,   \* concurrent views and sweeps
    Sweeper,   \* the caller that is the worker's sweep, if it is one of them
    List,      \* the closed serials of the latest report, in budget order
    Cap,       \* DAILY_LOOKUP_CAP
    MaxJobs,   \* bound: standing jobs
    Hopeless,  \* serials HP never resolves (a challenge, no such page)
    Shared     \* serials that are in uploaded workbooks too

\* What the constants are assumed to be, by the modules that give them values.
SweepAssumption ==
    /\ Cap \in Nat \ {0}
    /\ MaxJobs \in Nat \ {0}

Serials == {List[k] : k \in DOMAIN List}
JobIds == 1..MaxJobs

VARIABLES
    jobs,     \* standing jobs created so far, the oldest is 1
    item,     \* warranty_job_items of the standing jobs: state, and whether
              \* the row was created today, on the IST calendar
    cached,   \* serials in hp_warranty_cache
    step,     \* where each caller has got to
    local     \* what each caller has read

vars == <<jobs, item, cached, step, local>>

NoItem == [state |-> "absent", today |-> FALSE]
\* The cached serials, the uncached ones still in flight, those open to look up
\* (from the count on, the slice of them to insert), and the standing job.
Fresh == [cached |-> {}, queued |-> {}, open |-> <<>>, job |-> 0]

Waiting(s) == \E j \in JobIds : item[j, s].state = "pending"

Init ==
    /\ jobs = 0
    /\ item = [j \in JobIds, s \in Serials |-> NoItem]
    /\ cached = {}
    /\ step = [c \in Callers |-> "idle"]
    /\ local = [c \in Callers |-> Fresh]

Advance(c, to) == step' = [step EXCEPT ![c] = to]
Learn(c, field, value) == local' = [local EXCEPT ![c] = [@ EXCEPT ![field] = value]]

\* findCachedWarranties
ReadCache(c) ==
    /\ step[c] = "idle"
    /\ local' = [local EXCEPT ![c] = [Fresh EXCEPT !.cached = cached]]
    /\ Advance(c, "cacheRead")
    /\ UNCHANGED <<jobs, item, cached>>

\* Mutant: nothing is filtered out.
UncachedAll(known) == List

\* The serials with neither answer nor work in flight, in list order.  A failed
\* look-up is among them.
Uncached(known) == SelectSeq(List, LAMBDA s : s \notin known)

\* findQueuedSerials, of every standing job (it looks at the uploaded jobs too,
\* of which only the answers are modelled: ResolveShared).  The worker's sweep returns
\* when that leaves nothing to look up; a view keeps what is in flight, and goes
\* on to report the budget.
ReadQueued(c) ==
    /\ step[c] = "cacheRead"
    /\ LET queued == {s \in Serials : Waiting(s)}
           open == Uncached(local[c].cached \cup queued)
       IN IF c = Sweeper /\ open = <<>>
          THEN local' = [local EXCEPT ![c] = Fresh] /\ Advance(c, "idle")
          ELSE /\ local' = [local EXCEPT ![c] = [Fresh EXCEPT !.open = open,
                     !.queued = IF c = Sweeper THEN {} ELSE queued \ local[c].cached]]
               /\ Advance(c, "queueRead")
    /\ UNCHANGED <<jobs, item, cached>>

\* Mutant: the standing job is taken for granted.
FindJobAssumed(c) ==
    /\ step[c] = "queueRead"
    /\ Learn(c, "job", 1)
    /\ Advance(c, "jobKnown")
    /\ UNCHANGED <<jobs, item, cached>>

\* getOrCreateClosedCallsJobId: the select finds the oldest standing job ...
FindJob(c) ==
    /\ step[c] = "queueRead"
    /\ Learn(c, "job", IF jobs = 0 THEN 0 ELSE 1)
    /\ Advance(c, IF jobs = 0 THEN "noJob" ELSE "jobKnown")
    /\ UNCHANGED <<jobs, item, cached>>

\* ... or the insert makes one; no constraint makes it the only one.
CreateJob(c) ==
    /\ step[c] = "noJob"
    /\ jobs < MaxJobs
    /\ jobs' = jobs + 1
    /\ Learn(c, "job", jobs + 1)
    /\ Advance(c, "jobKnown")
    /\ UNCHANGED <<item, cached>>

\* Mutant: only the rows still waiting are counted.
PendingToday(j) == Cardinality({s \in Serials :
    item[j, s].state = "pending" /\ item[j, s].today})

EnqueuedToday(j) == Cardinality({s \in Serials :
    item[j, s].state # "absent" /\ item[j, s].today})

\* countEnqueuedTodayForJob, and the front of the open list as long as the budget
\* of the day lasts.  With nothing to insert the caller answers.
CountToday(c) ==
    /\ step[c] = "jobKnown"
    /\ LET left == Cap - EnqueuedToday(local[c].job)
           open == local[c].open
       IN IF left <= 0 \/ open = <<>>
          THEN local' = [local EXCEPT ![c] = Fresh] /\ Advance(c, "idle")
          ELSE /\ Learn(c, "open", SubSeq(open, 1, IF left < Len(open) THEN left ELSE Len(open)))
               /\ Advance(c, "counted")
    /\ UNCHANGED <<jobs, item, cached>>

Slice(c) == {local[c].open[k] : k \in DOMAIN local[c].open}

\* The entries of a view that say CHECKING: what was in flight when it read the
\* queue, and the whole slice, inserted or not.
Checking(c) == local[c].queued \cup Slice(c)

\* The slice is inserted, ON CONFLICT DO NOTHING, and the caller answers; it may
\* come again.
Enqueue(c) ==
    /\ step[c] = "counted"
    /\ item' = [k \in JobIds \X Serials |->
          IF k[1] = local[c].job /\ k[2] \in Slice(c) /\ item[k].state = "absent"
          THEN [state |-> "pending", today |-> TRUE] ELSE item[k]]
    /\ local' = [local EXCEPT ![c] = Fresh]
    /\ Advance(c, "idle")
    /\ UNCHANGED <<jobs, cached>>

Call(c) ==
    \/ ReadCache(c) \/ ReadQueued(c) \/ FindJob(c) \/ CreateJob(c)
    \/ CountToday(c) \/ Enqueue(c)

\* The queue settles an item (module WarrantyQueue): cached and done, or failed.
Work(j, s) ==
    /\ item[j, s].state = "pending"
    /\ IF s \in Hopeless
       THEN cached' = cached /\ item' = [item EXCEPT ![j, s].state = "failed"]
       ELSE cached' = cached \cup {s} /\ item' = [item EXCEPT ![j, s].state = "done"]
    /\ UNCHANGED <<jobs, step, local>>

\* The same worker resolves the serial for an uploaded job, of which no more is
\* modelled here than the answer in the cache.
ResolveShared(s) ==
    /\ s \in Shared \ (Hopeless \cup cached)
    /\ cached' = cached \cup {s}
    /\ UNCHANGED <<jobs, item, step, local>>

Drain == \E j \in JobIds, s \in Serials : Work(j, s)

\* Midnight in India.
NextDay ==
    /\ item' = [k \in JobIds \X Serials |-> [item[k] EXCEPT !.today = FALSE]]
    /\ UNCHANGED <<jobs, cached, step, local>>

Next ==
    \/ \E c \in Callers : Call(c)
    \/ \E s \in Serials : ResolveShared(s)
    \/ Drain
    \/ NextDay

Spec == Init /\ [][Next]_vars

\* The worker's sweep comes round every hour, the queue is drained in order,
\* days pass; that somebody views the list is not owed.
FairSpec ==
    /\ Spec
    /\ \A c \in Callers \cap {Sweeper} : WF_vars(Call(c))
    /\ WF_vars(Drain)
    /\ WF_vars(NextDay)

-----------------------------------------------------------------------------
\* Types; rows exist under created jobs only.
TypeOK ==
    /\ jobs \in 0..MaxJobs
    /\ item \in [JobIds \X Serials ->
                   [state : {"absent", "pending", "done", "failed"}, today : BOOLEAN]]
    /\ \A j \in JobIds, s \in Serials : item[j, s].state # "absent" => j <= jobs
    /\ cached \subseteq Serials
    /\ step \in [Callers -> {"idle", "cacheRead", "queueRead", "noJob", "jobKnown",
                            "counted"}]

AddedToday == Cardinality({k \in JobIds \X Serials :
    item[k].state # "absent" /\ item[k].today})

\* What the check-then-insert does promise when callers race: a racing caller
\* overruns by one budget at most, and so does a standing job created by a race.
OverrunBounded ==
    jobs > 0 => AddedToday <= Cap * (Cardinality(Callers) + jobs - 1)

\* "CHECKING: enqueued, worker not done yet" (shared/src/types/warranty.ts): an
\* answer says it only of serials that were in flight when the request read the
\* queue, or that wait for the worker when it answers, or are cached by then.
CheckingInWork == [][\A c \in Callers \ {Sweeper} : Enqueue(c) =>
    \A s \in Checking(c) : \/ s \in local[c].queued \cup cached
                           \/ \E j \in JobIds : item'[j, s].state = "pending"]_vars

Blockers(k) == {i \in 1..(k - 1) : List[i] \in Hopeless}

\* A serial is answered or handed to the worker in the end if the serials before
\* it that HP never resolves are fewer than the budget of a day.  These come back
\* to the front of the slice on every call, so Cap of them starve all behind them.
ListFills == <>(\A k \in DOMAIN List :
    Cardinality(Blockers(k)) < Cap
        => \/ List[k] \in cached
           \/ \E j \in JobIds : item[j, List[k]].state # "absent")
=============================================================================
