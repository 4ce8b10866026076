---------------------------- MODULE QuotationDesk ----------------------------
(***************************************************************************)
(* Raising quotations: by hand, or by approving one of the waiting          *)
(* quotations the report detector raises on its own.  Approving, creating   *)
(* and correcting run in transactions at READ COMMITTED; what one holds is  *)
(* a row lock on the waiting quotation (FOR UPDATE) and on the counter row  *)
(* of the number series, until COMMIT or ROLLBACK.  Other requests see the  *)
(* committed rows only.                                                     *)
(***************************************************************************)
EXTENDS Integers, Sequences

CONSTANTS
    Kinds,      \* PART and VISIT
    Orders,     \* work orders of the report, as normalizeTicketId writes them
    Years,      \* financial years quotations are dated in
    Requests,   \* API requests in flight
    Nobody,     \* no request, or no waiting quotation
    NoJob,      \* what a request not in flight is about to raise
    Elsewhere,  \* a typed work order no report lists
    MaxQuotes   \* bound: quotations raised

VARIABLES
    draft,      \* quotation_drafts.status of each kind and work order
    link,       \* quotation_drafts.quotation_id, 0 for NULL
    quotes,     \* the quotations table in the order of its ids
    seq,        \* last_seq of each series
    seqLock,    \* the transaction that holds the counter row
    draftLock,  \* the transaction that holds the waiting quotation
    pc,         \* where each request has got to
    job,        \* the quotation each request is about to raise
    batch       \* what the detector's current run found unraised

vars == <<draft, link, quotes, seq, seqLock, draftLock, pc, job, batch>>

Drafts == Kinds \X Orders
Series == Kinds \X Years
Typed == Orders \cup {Elsewhere}
Statuses == {"none", "WAITING", "APPROVED", "REMOVED"}

Quotation == [series : Series, no : Nat, order : Typed, from : Drafts \cup {Nobody}]

ASSUME DeskAssumption ==
    /\ Nobody \notin Requests
    /\ Nobody \notin Kinds \X Orders
    /\ Elsewhere \notin Orders
    /\ NoJob \notin Quotation
    /\ MaxQuotes \in Nat

\* quotationRaisedFor: a quotation of the kind for the work order, however raised.
Raised(d) == \E i \in DOMAIN quotes :
    quotes[i].series[1] = d[1] /\ quotes[i].order = d[2]

Init ==
    /\ draft = [d \in Drafts |-> "none"]
    /\ link = [d \in Drafts |-> 0]
    /\ quotes = <<>>
    /\ seq = [s \in Series |-> 0]
    /\ seqLock = [s \in Series |-> Nobody]
    /\ draftLock = [d \in Drafts |-> Nobody]
    /\ pc = [r \in Requests |-> "idle"]
    /\ job = [r \in Requests |-> NoJob]
    /\ batch = {}

(***************************************************************************)
(* The detector: one run at a time in the API process, over the work orders *)
(* the report just generated                                                *)
(***************************************************************************)

\* findUnraisedDraftKeys
FindUnraised(candidates) ==
    /\ batch = {}
    /\ batch' = {d \in candidates : draft[d] = "none" /\ ~Raised(d)}
    /\ UNCHANGED <<draft, link, quotes, seq, seqLock, draftLock, pc, job>>

\* insertQuotationDraft looks again, and the unique key has the last word.
InsertDraft(d) ==
    /\ d \in batch
    /\ draft' = IF draft[d] = "none" /\ ~Raised(d)
                THEN [draft EXCEPT ![d] = "WAITING"] ELSE draft
    /\ batch' = batch \ {d}
    /\ UNCHANGED <<link, quotes, seq, seqLock, draftLock, pc, job>>

\* A failed statement or a restart: the rest of the run is dropped and logged.
DetectorFails ==
    /\ batch # {}
    /\ batch' = {}
    /\ UNCHANGED <<draft, link, quotes, seq, seqLock, draftLock, pc, job>>

(***************************************************************************)
(* The transactions                                                         *)
(***************************************************************************)

\* Mutant: the counter is read and written back without holding its row.
TakeUnlocked(r, j) ==
    /\ job' = [job EXCEPT ![r] = [series |-> j.series, no |-> seq[j.series] + 1,
                                  order |-> j.order, from |-> j.from]]
    /\ pc' = [pc EXCEPT ![r] = "numbered"]
    /\ UNCHANGED seqLock

\* INSERT ... ON CONFLICT DO UPDATE ... RETURNING last_seq: waits for the row,
\* takes the next number and holds the row to the end of the transaction.
Take(r, j) ==
    /\ seqLock[j.series] = Nobody
    /\ seqLock' = [seqLock EXCEPT ![j.series] = r]
    /\ job' = [job EXCEPT ![r] = [series |-> j.series, no |-> seq[j.series] + 1,
                                  order |-> j.order, from |-> j.from]]
    /\ pc' = [pc EXCEPT ![r] = "numbered"]

\* createQuotation: the first statement of the transaction takes the number.
CreateQuotation(r, s, order) ==
    /\ pc[r] = "idle"
    /\ Len(quotes) < MaxQuotes
    /\ Take(r, [series |-> s, no |-> 0, order |-> order, from |-> Nobody])
    /\ UNCHANGED <<draft, link, quotes, seq, draftLock, batch>>

\* Mutant: the row is read without FOR UPDATE.
LockDraftNot(r, d, year) ==
    /\ pc[r] = "idle"
    /\ Len(quotes) < MaxQuotes
    /\ draft[d] = "WAITING"
    /\ job' = [job EXCEPT ![r] = [series |-> <<d[1], year>>, no |-> 0,
                                  order |-> d[2], from |-> d]]
    /\ pc' = [pc EXCEPT ![r] = "locked"]
    /\ UNCHANGED <<draft, link, quotes, seq, seqLock, draftLock, batch>>

\* approveQuotationDraft: SELECT ... FOR UPDATE; one already decided is
\* answered DECIDED and nothing is held.  The kind and the work order are the
\* waiting quotation's own, the date is the form's.
LockDraft(r, d, year) ==
    /\ pc[r] = "idle"
    /\ Len(quotes) < MaxQuotes
    /\ draftLock[d] = Nobody
    /\ draft[d] = "WAITING"
    /\ draftLock' = [draftLock EXCEPT ![d] = r]
    /\ job' = [job EXCEPT ![r] = [series |-> <<d[1], year>>, no |-> 0,
                                  order |-> d[2], from |-> d]]
    /\ pc' = [pc EXCEPT ![r] = "locked"]
    /\ UNCHANGED <<draft, link, quotes, seq, seqLock, batch>>

\* The transaction is over: its row locks go with it.
Release(r) ==
    /\ seqLock' = [s \in Series |-> IF seqLock[s] = r THEN Nobody ELSE seqLock[s]]
    /\ draftLock' = [d \in Drafts |-> IF draftLock[d] = r THEN Nobody ELSE draftLock[d]]
    /\ pc' = [pc EXCEPT ![r] = "idle"]
    /\ job' = [job EXCEPT ![r] = NoJob]

\* Mutant: the refused approval is rolled back, but its handler goes on.
CheckRaisedGoesOn(r) ==
    /\ pc[r] = "locked"
    /\ job' = [job EXCEPT ![r] = IF Raised(job[r].from) THEN NoJob ELSE job[r]]
    /\ pc' = [pc EXCEPT ![r] = "checked"]
    /\ UNCHANGED <<draft, link, quotes, seq, seqLock, draftLock, batch>>

\* ALREADY_RAISED rolls back.
CheckRaised(r) ==
    /\ pc[r] = "locked"
    /\ IF Raised(job[r].from)
       THEN Release(r)
       ELSE pc' = [pc EXCEPT ![r] = "checked"] /\ UNCHANGED <<seqLock, draftLock, job>>
    /\ UNCHANGED <<draft, link, quotes, seq, batch>>

TakeNumber(r) ==
    /\ pc[r] = "checked"
    /\ Take(r, job[r])
    /\ UNCHANGED <<draft, link, quotes, seq, draftLock, batch>>

\* The quotation, its counter and, for an approval, the waiting quotation's new
\* status become visible together.
Commit(r) ==
    /\ pc[r] = "numbered"
    /\ quotes' = Append(quotes, job[r])
    /\ seq' = [seq EXCEPT ![job[r].series] = job[r].no]
    /\ IF job[r].from = Nobody
       THEN UNCHANGED <<draft, link>>
       ELSE /\ draft' = [draft EXCEPT ![job[r].from] = "APPROVED"]
            /\ link' = [link EXCEPT ![job[r].from] = Len(quotes) + 1]
    /\ Release(r)
    /\ UNCHANGED batch

\* Mutant: a failed request gives its connection back without ROLLBACK.
RollbackNot(r) ==
    /\ pc[r] # "idle"
    /\ pc' = [pc EXCEPT ![r] = "idle"]
    /\ job' = [job EXCEPT ![r] = NoJob]
    /\ UNCHANGED <<draft, link, quotes, seq, seqLock, draftLock, batch>>

\* A statement fails or the process dies: nothing the transaction did remains,
\* the number it took included.
Rollback(r) ==
    /\ pc[r] # "idle"
    /\ Release(r)
    /\ UNCHANGED <<draft, link, quotes, seq, batch>>

(***************************************************************************)
(* Single statements                                                        *)
(***************************************************************************)

\* Mutant: the UPDATE names the row by id alone.
RemoveDraftAny(d) ==
    /\ draft[d] # "none"
    /\ draftLock[d] = Nobody
    /\ draft' = [draft EXCEPT ![d] = "REMOVED"]
    /\ UNCHANGED <<link, quotes, seq, seqLock, draftLock, pc, job, batch>>

\* removeQuotationDraft: one conditional UPDATE; it waits for a row an approval
\* holds and then looks at the status again.
RemoveDraft(d) ==
    /\ draft[d] = "WAITING"
    /\ draftLock[d] = Nobody
    /\ draft' = [draft EXCEPT ![d] = "REMOVED"]
    /\ UNCHANGED <<link, quotes, seq, seqLock, draftLock, pc, job, batch>>

\* updateQuotation: anything on the sheet may be corrected, the work order
\* included, but neither its number nor its kind.
UpdateQuotation(i, order) ==
    /\ quotes' = [quotes EXCEPT ![i].order = order]
    /\ UNCHANGED <<draft, link, seq, seqLock, draftLock, pc, job, batch>>

(***************************************************************************)
(* The specification                                                        *)
(***************************************************************************)

Start(r) ==
    \/ \E s \in Series, order \in Typed : CreateQuotation(r, s, order)
    \/ \E d \in Drafts, year \in Years : LockDraft(r, d, year)
Proceed(r) == CheckRaised(r) \/ TakeNumber(r) \/ Commit(r)
Detector ==
    \/ \E candidates \in SUBSET Drafts : FindUnraised(candidates)
    \/ \E d \in Drafts : InsertDraft(d)
    \/ DetectorFails
Next ==
    \/ Detector
    \/ \E r \in Requests : Start(r) \/ Proceed(r) \/ Rollback(r)
    \/ \E d \in Drafts : RemoveDraft(d)
    \/ \E i \in DOMAIN quotes, order \in Typed : UpdateQuotation(i, order)

Spec == Init /\ [][Next]_vars

\* A request in flight runs on; Postgres queues the waiters of a row, so one that
\* can take the row again and again gets it.  No failure is ever owed.
FairSpec == Spec /\ \A r \in Requests : SF_vars(Proceed(r))

-----------------------------------------------------------------------------
\* Types; a request in flight is about to raise a quotation of its own.
TypeOK ==
    /\ draft \in [Drafts -> Statuses]
    /\ link \in [Drafts -> Nat]
    /\ quotes \in Seq(Quotation)
    /\ seq \in [Series -> Nat]
    /\ seqLock \in [Series -> Requests \cup {Nobody}]
    /\ draftLock \in [Drafts -> Requests \cup {Nobody}]
    /\ pc \in [Requests -> {"idle", "locked", "checked", "numbered"}]
    /\ job \in [Requests -> Quotation \cup {NoJob}]
    /\ \A r \in Requests : pc[r] # "idle" => job[r] \in Quotation
    /\ \A r \in Requests : pc[r] \in {"locked", "checked"} => job[r].from \in Drafts
    /\ batch \subseteq Drafts

OfSeries(s) == {i \in DOMAIN quotes : quotes[i].series = s}

\* "numbers never collide or skip" (quotationRepository.ts): the numbers of a
\* series are 1, 2, ... up to its counter, each on one quotation, through racing
\* requests, refused approvals and rollbacks.
NumbersDense == \A s \in Series :
    /\ \A i \in OfSeries(s) : quotes[i].no \in 1..seq[s]
    /\ \A n \in 1..seq[s] : \E i \in OfSeries(s) : quotes[i].no = n
    /\ \A i, j \in OfSeries(s) : quotes[i].no = quotes[j].no => i = j

\* "two people approving the same one at once raise one quotation": a waiting
\* quotation is APPROVED exactly when one quotation was raised from it, of its
\* own kind, and the row points at that one.
ApprovedOnce ==
    /\ \A d \in Drafts :
        IF draft[d] = "APPROVED"
        THEN link[d] \in DOMAIN quotes /\ quotes[link[d]].from = d
        ELSE link[d] = 0
    /\ \A i \in DOMAIN quotes : LET d == quotes[i].from IN
        d # Nobody => draft[d] = "APPROVED" /\ link[d] = i /\ quotes[i].series[1] = d[1]

\* "a removed one stays removed", "an approval stands": no report, request or
\* correction brings a decided one back.
DecisionStands == [][\A d \in Drafts :
    draft[d] \in {"APPROVED", "REMOVED"} => draft'[d] = draft[d]]_vars

\* No request waits for ever on a row: the waiting quotation is locked before
\* the counter by everyone, and both are let go when the request ends.
RequestsEnd == \A r \in Requests : (pc[r] # "idle") ~> (pc[r] = "idle")
=============================================================================
