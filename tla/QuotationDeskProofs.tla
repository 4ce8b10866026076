------------------------- MODULE QuotationDeskProofs -------------------------
(***************************************************************************)
(* Proofs about QuotationDesk, for every set of kinds, work orders, years   *)
(* and requests and every bound on the quotations raised.                   *)
(***************************************************************************)
EXTENDS QuotationDesk, TLAPS

\* A request that holds a number holds the row of its counter, and its number is
\* the next one still; a request that approves holds the waiting quotation, which
\* is undecided still and of the kind it is about to raise.
LocksHeld == \A r \in Requests :
    /\ pc[r] = "numbered" => /\ seqLock[job[r].series] = r
                             /\ job[r].no = seq[job[r].series] + 1
    /\ pc[r] # "idle" /\ job[r].from # Nobody =>
          /\ draftLock[job[r].from] = r
          /\ draft[job[r].from] = "WAITING"
          /\ job[r].series[1] = job[r].from[1]

-----------------------------------------------------------------------------
\* Every step is one of the named actions.
LEMMA StepCases ==
    ASSUME [Next]_vars
    PROVE  \/ \E S \in SUBSET Drafts : FindUnraised(S)
           \/ \E d \in Drafts : InsertDraft(d)
           \/ DetectorFails
           \/ \E r \in Requests, s \in Series, o \in Typed : CreateQuotation(r, s, o)
           \/ \E r \in Requests, d \in Drafts, y \in Years : LockDraft(r, d, y)
           \/ \E r \in Requests : CheckRaised(r) \/ TakeNumber(r) \/ Commit(r) \/ Rollback(r)
           \/ \E d \in Drafts : RemoveDraft(d)
           \/ \E i \in DOMAIN quotes, o \in Typed : UpdateQuotation(i, o)
           \/ UNCHANGED vars
  BY DEF Next, Detector, Start, Proceed

\* Release ends one request and lets go of its locks and of no others.
LEMMA ReleaseOne ==
    ASSUME TypeOK, NEW r \in Requests, Release(r)
    PROVE  /\ seqLock' \in [Series -> Requests \cup {Nobody}]
           /\ draftLock' \in [Drafts -> Requests \cup {Nobody}]
           /\ pc' \in [Requests -> {"idle", "locked", "checked", "numbered"}]
           /\ job' \in [Requests -> Quotation \cup {NoJob}]
           /\ pc'[r] = "idle"
           /\ \A x \in Requests : x # r =>
                /\ pc'[x] = pc[x] /\ job'[x] = job[x]
                /\ \A s \in Series : seqLock[s] = x => seqLock'[s] = x
                /\ \A d \in Drafts : draftLock[d] = x => draftLock'[d] = x
<1>1. /\ pc' = [pc EXCEPT ![r] = "idle"] /\ job' = [job EXCEPT ![r] = NoJob]
      /\ pc \in [Requests -> {"idle", "locked", "checked", "numbered"}]
      /\ job \in [Requests -> Quotation \cup {NoJob}]
  BY DEF Release, TypeOK
<1>2. /\ pc' \in [Requests -> {"idle", "locked", "checked", "numbered"}]
      /\ job' \in [Requests -> Quotation \cup {NoJob}]
      /\ pc'[r] = "idle"
      /\ \A x \in Requests : x # r => pc'[x] = pc[x] /\ job'[x] = job[x]
  BY <1>1
<1>3. /\ seqLock \in [Series -> Requests \cup {Nobody}]
      /\ seqLock' = [s \in Series |-> IF seqLock[s] = r THEN Nobody ELSE seqLock[s]]
      /\ draftLock \in [Drafts -> Requests \cup {Nobody}]
      /\ draftLock' = [d \in Drafts |-> IF draftLock[d] = r THEN Nobody ELSE draftLock[d]]
  BY DEF Release, TypeOK
<1>4. /\ seqLock' \in [Series -> Requests \cup {Nobody}]
      /\ \A x \in Requests : x # r => \A s \in Series : seqLock[s] = x => seqLock'[s] = x
  BY <1>3
<1>5. /\ draftLock' \in [Drafts -> Requests \cup {Nobody}]
      /\ \A x \in Requests : x # r => \A d \in Drafts : draftLock[d] = x => draftLock'[d] = x
  BY <1>3
<1> QED
  BY <1>2, <1>4, <1>5

\* The type invariant holds initially.
LEMMA TypeInit == Init => TypeOK
  BY DeskAssumption DEF Init, TypeOK, Statuses

\* Every step keeps the type invariant.
LEMMA TypeStep == TypeOK /\ [Next]_vars => TypeOK'
<1> SUFFICES ASSUME TypeOK, [Next]_vars PROVE TypeOK'
  OBVIOUS
<1> USE DeskAssumption DEF TypeOK, Quotation, Statuses
<1>1. ASSUME NEW S \in SUBSET Drafts, FindUnraised(S) PROVE TypeOK'
  BY <1>1 DEF FindUnraised
<1>2. ASSUME NEW d \in Drafts, InsertDraft(d) PROVE TypeOK'
  BY <1>2 DEF InsertDraft
<1>3. CASE DetectorFails
  BY <1>3 DEF DetectorFails
<1>4. ASSUME NEW r \in Requests, NEW s \in Series, NEW o \in Typed, CreateQuotation(r, s, o) PROVE TypeOK'
  BY <1>4 DEF CreateQuotation, Take
<1>5. ASSUME NEW r \in Requests, NEW d \in Drafts, NEW y \in Years, LockDraft(r, d, y) PROVE TypeOK'
  <2>1. /\ d[1] \in Kinds /\ d[2] \in Orders /\ <<d[1], y>> \in Series
    BY DEF Drafts, Series
  <2>2. [series |-> <<d[1], y>>, no |-> 0, order |-> d[2], from |-> d] \in Quotation
    BY <2>1 DEF Typed
  <2> HIDE DEF Quotation
  <2> QED
    BY <1>5, <2>2 DEF LockDraft, Quotation
<1>6. ASSUME NEW r \in Requests, CheckRaised(r) PROVE TypeOK'
  <2> HIDE DEF Quotation
  <2>1. CASE Release(r)
    <3>1. \A x \in Requests : pc'[x] # "idle" => x # r
      BY <2>1, ReleaseOne
    <3> QED
      BY <1>6, <2>1, <3>1, ReleaseOne DEF CheckRaised
  <2>2. CASE /\ pc' = [pc EXCEPT ![r] = "checked"]
             /\ UNCHANGED <<seqLock, draftLock, job>>
    BY <1>6, <2>2 DEF CheckRaised
  <2> QED
    BY <1>6, <2>1, <2>2 DEF CheckRaised
<1>7. ASSUME NEW r \in Requests, TakeNumber(r) PROVE TypeOK'
  BY <1>7 DEF TakeNumber, Take
<1>8. ASSUME NEW r \in Requests, Commit(r) PROVE TypeOK'
  <2> HIDE DEF Quotation
  <2>1. /\ pc[r] = "numbered" /\ job[r] \in Quotation /\ Release(r)
        /\ quotes' = Append(quotes, job[r])
        /\ seq' = [seq EXCEPT ![job[r].series] = job[r].no]
        /\ batch' = batch
    BY <1>8 DEF Commit
  <2>2. job[r].no \in Nat /\ job[r].from \in Drafts \cup {Nobody}
    BY <2>1 DEF Quotation
  <2>3. quotes' \in Seq(Quotation) /\ seq' \in [Series -> Nat]
    <3>1. quotes \in Seq(Quotation) /\ seq \in [Series -> Nat]
      OBVIOUS
    <3> HIDE DEF TypeOK
    <3>2. quotes' \in Seq(Quotation)
      BY <2>1, <3>1
    <3>3. seq' \in [Series -> Nat]
      BY <2>1, <2>2, <3>1
    <3> QED
      BY <3>2, <3>3
  <2>4. draft' \in [Drafts -> Statuses] /\ link' \in [Drafts -> Nat]
    <3>1. /\ quotes \in Seq(Quotation) /\ draft \in [Drafts -> Statuses]
          /\ link \in [Drafts -> Nat]
      OBVIOUS
    <3>2. \/ UNCHANGED <<draft, link>>
          \/ /\ draft' = [draft EXCEPT ![job[r].from] = "APPROVED"]
             /\ link' = [link EXCEPT ![job[r].from] = Len(quotes) + 1]
      BY <1>8 DEF Commit
    <3> HIDE DEF TypeOK
    <3>3. Len(quotes) + 1 \in Nat
      BY <3>1
    <3> QED
      BY <3>1, <3>2, <3>3
  <2>5. \A x \in Requests : pc'[x] # "idle" => x # r
    BY <2>1, ReleaseOne
  <2> QED
    BY <2>1, <2>3, <2>4, <2>5, ReleaseOne
<1>9. ASSUME NEW r \in Requests, Rollback(r) PROVE TypeOK'
  BY <1>9 DEF Rollback, Release
<1>10. ASSUME NEW d \in Drafts, RemoveDraft(d) PROVE TypeOK'
  BY <1>10 DEF RemoveDraft
<1>11. ASSUME NEW i \in DOMAIN quotes, NEW o \in Typed, UpdateQuotation(i, o) PROVE TypeOK'
  <2> HIDE DEF Quotation
  <2>1. quotes[i] \in Quotation
    OBVIOUS
  <2>2. [quotes[i] EXCEPT !.order = o] \in Quotation
    BY <2>1 DEF Quotation
  <2>3. quotes' = [quotes EXCEPT ![i] = [quotes[i] EXCEPT !.order = o]]
    BY <1>11 DEF UpdateQuotation
  <2>4. quotes' \in Seq(Quotation)
    BY <2>2, <2>3
  <2> QED
    BY <1>11, <2>4 DEF UpdateQuotation
<1>12. CASE UNCHANGED vars
  BY <1>12 DEF vars
<1> QED
  BY StepCases, <1>1, <1>2, <1>3, <1>4, <1>5, <1>6, <1>7, <1>8, <1>9, <1>10, <1>11, <1>12

\* Every variable keeps its type, and a request in flight has a quotation to raise.
THEOREM TypeCorrect == Spec => []TypeOK
  BY TypeInit, TypeStep, PTL DEF Spec
-----------------------------------------------------------------------------
\* Nothing is in flight initially.
LEMMA LocksInit == Init => LocksHeld
  BY DEF Init, LocksHeld

\* Every step keeps the locks with the requests that rely on them.
LEMMA LocksStep == TypeOK /\ LocksHeld /\ [Next]_vars => LocksHeld'
<1> SUFFICES ASSUME TypeOK, LocksHeld, [Next]_vars PROVE LocksHeld'
  OBVIOUS
<1> USE DeskAssumption DEF TypeOK, LocksHeld, Quotation, Drafts, Series
<1>1. ASSUME NEW S \in SUBSET Drafts, FindUnraised(S) PROVE LocksHeld'
  BY <1>1 DEF FindUnraised
<1>2. ASSUME NEW d \in Drafts, InsertDraft(d) PROVE LocksHeld'
  BY <1>2 DEF InsertDraft
<1>3. CASE DetectorFails
  BY <1>3 DEF DetectorFails
<1>4. ASSUME NEW r \in Requests, NEW s \in Series, NEW o \in Typed, CreateQuotation(r, s, o) PROVE LocksHeld'
  BY <1>4 DEF CreateQuotation, Take
<1>5. ASSUME NEW r \in Requests, NEW d \in Drafts, NEW y \in Years, LockDraft(r, d, y) PROVE LocksHeld'
  BY <1>5 DEF LockDraft
<1>6. ASSUME NEW r \in Requests, CheckRaised(r) PROVE LocksHeld'
  <2>1. CASE Release(r)
    <3>1. \A x \in Requests : pc'[x] # "idle" => x # r
      BY <2>1, ReleaseOne
    <3>2. \A x \in Requests : pc[x] # "idle" => job[x].series \in Series
      OBVIOUS
    <3>3. \A x \in Requests : pc[x] # "idle" /\ job[x].from # Nobody => job[x].from \in Drafts
      OBVIOUS
    <3>4. draft' = draft /\ seq' = seq
      BY <1>6 DEF CheckRaised
    <3> HIDE DEF TypeOK, Quotation, Drafts, Series
    <3> QED
      BY <2>1, <3>1, <3>2, <3>3, <3>4, ReleaseOne
  <2>2. CASE /\ pc' = [pc EXCEPT ![r] = "checked"]
             /\ UNCHANGED <<seqLock, draftLock, job>>
    BY <1>6, <2>2 DEF CheckRaised
  <2> QED
    BY <1>6, <2>1, <2>2 DEF CheckRaised
<1>7. ASSUME NEW r \in Requests, TakeNumber(r) PROVE LocksHeld'
  BY <1>7 DEF TakeNumber, Take
<1>8. ASSUME NEW r \in Requests, Commit(r) PROVE LocksHeld'
  BY <1>8 DEF Commit, Release
<1>9. ASSUME NEW r \in Requests, Rollback(r) PROVE LocksHeld'
  BY <1>9 DEF Rollback, Release
<1>10. ASSUME NEW d \in Drafts, RemoveDraft(d) PROVE LocksHeld'
  BY <1>10 DEF RemoveDraft
<1>11. ASSUME NEW i \in DOMAIN quotes, NEW o \in Typed, UpdateQuotation(i, o) PROVE LocksHeld'
  BY <1>11 DEF UpdateQuotation
<1>12. CASE UNCHANGED vars
  BY <1>12 DEF vars
<1> QED
  BY StepCases, <1>1, <1>2, <1>3, <1>4, <1>5, <1>6, <1>7, <1>8, <1>9, <1>10, <1>11, <1>12 DEF Drafts, Series

\* The locks a request relies on are its own until it ends.
THEOREM LocksAreHeld == Spec => []LocksHeld
<1>1. TypeOK /\ LocksHeld /\ [Next]_vars => (TypeOK /\ LocksHeld)'
  BY TypeStep, LocksStep
<1>2. Init => TypeOK /\ LocksHeld
  BY TypeInit, LocksInit
<1> QED
  BY <1>1, <1>2, PTL DEF Spec
-----------------------------------------------------------------------------
\* No quotation, no number.
LEMMA DenseInit == Init => NumbersDense
  BY DEF Init, NumbersDense, OfSeries

\* Only Commit adds a number, the next of its series; a correction keeps them.
LEMMA DenseStep == TypeOK /\ LocksHeld /\ NumbersDense /\ [Next]_vars => NumbersDense'
<1> SUFFICES ASSUME TypeOK, LocksHeld, NumbersDense, [Next]_vars PROVE NumbersDense'
  OBVIOUS
<1> USE DEF NumbersDense, OfSeries
<1>1. ASSUME NEW S \in SUBSET Drafts, FindUnraised(S) PROVE NumbersDense'
  BY <1>1 DEF FindUnraised
<1>2. ASSUME NEW d \in Drafts, InsertDraft(d) PROVE NumbersDense'
  BY <1>2 DEF InsertDraft
<1>3. CASE DetectorFails
  BY <1>3 DEF DetectorFails
<1>4. ASSUME NEW r \in Requests, NEW s \in Series, NEW o \in Typed, CreateQuotation(r, s, o) PROVE NumbersDense'
  BY <1>4 DEF CreateQuotation, Take
<1>5. ASSUME NEW r \in Requests, NEW d \in Drafts, NEW y \in Years, LockDraft(r, d, y) PROVE NumbersDense'
  BY <1>5 DEF LockDraft
<1>6. ASSUME NEW r \in Requests, CheckRaised(r) PROVE NumbersDense'
  BY <1>6 DEF CheckRaised, Release
<1>7. ASSUME NEW r \in Requests, TakeNumber(r) PROVE NumbersDense'
  BY <1>7 DEF TakeNumber, Take
<1>8. ASSUME NEW r \in Requests, Commit(r) PROVE NumbersDense'
  <2> DEFINE q == job[r]
  <2>1. q \in Quotation /\ q.series \in Series /\ q.no = seq[q.series] + 1
    BY <1>8 DEF Commit, TypeOK, LocksHeld, Quotation
  <2>2. /\ quotes' = Append(quotes, q)
        /\ seq' = [seq EXCEPT ![q.series] = q.no]
    BY <1>8 DEF Commit
  <2>3. quotes \in Seq(Quotation) /\ seq \in [Series -> Nat]
    BY DEF TypeOK
  <2>4. /\ DOMAIN quotes' = 1..Len(quotes) + 1 /\ DOMAIN quotes = 1..Len(quotes)
        /\ Len(quotes) \in Nat
        /\ quotes'[Len(quotes) + 1] = q
        /\ \A i \in 1..Len(quotes) : quotes'[i] = quotes[i] /\ quotes[i] \in Quotation
    BY <2>1, <2>2, <2>3
  <2> HIDE DEF q
  <2> SUFFICES ASSUME NEW s \in Series
               PROVE  /\ \A i \in OfSeries(s)' : quotes'[i].no \in 1..seq'[s]
                      /\ \A n \in 1..seq'[s] : \E i \in OfSeries(s)' : quotes'[i].no = n
                      /\ \A i, j \in OfSeries(s)' :
                            quotes'[i].no = quotes'[j].no => i = j
    OBVIOUS
  <2>5. CASE s # q.series
    <3>1. seq'[s] = seq[s] /\ OfSeries(s)' = OfSeries(s)
      BY <2>1, <2>2, <2>3, <2>4, <2>5
    <3> QED
      BY <3>1, <2>4
  <2>6. CASE s = q.series
    <3>1. /\ seq'[s] = seq[s] + 1 /\ seq[s] \in Nat /\ q.no = seq[s] + 1
          /\ OfSeries(s)' = OfSeries(s) \cup {Len(quotes) + 1}
      BY <2>1, <2>2, <2>3, <2>4, <2>6
    <3>2. \A i \in OfSeries(s) : quotes'[i].no = quotes[i].no /\ quotes[i].no \in 1..seq[s]
      BY <2>4
    <3>3. \A i \in OfSeries(s) : quotes'[i].no # q.no
      BY <3>1, <3>2
    <3>4. \A n \in 1..seq'[s] : \E i \in OfSeries(s)' : quotes'[i].no = n
      <4> SUFFICES ASSUME NEW n \in 1..seq'[s] PROVE \E i \in OfSeries(s)' : quotes'[i].no = n
        OBVIOUS
      <4>1. CASE n = seq[s] + 1
        BY <4>1, <3>1, <2>4
      <4>2. CASE n \in 1..seq[s]
        <5>1. PICK i \in OfSeries(s) : quotes[i].no = n
          BY <4>2
        <5> QED
          BY <5>1, <3>1, <3>2
      <4> QED
        BY <4>1, <4>2, <3>1
    <3>5. \A i \in OfSeries(s)' : quotes'[i].no \in 1..seq'[s]
      BY <3>1, <3>2, <2>4
    <3>6. \A i, j \in OfSeries(s)' : quotes'[i].no = quotes'[j].no => i = j
      BY <3>1, <3>2, <3>3, <2>4
    <3> QED
      BY <3>4, <3>5, <3>6
  <2> QED
    BY <2>5, <2>6
<1>9. ASSUME NEW r \in Requests, Rollback(r) PROVE NumbersDense'
  BY <1>9 DEF Rollback, Release
<1>10. ASSUME NEW d \in Drafts, RemoveDraft(d) PROVE NumbersDense'
  BY <1>10 DEF RemoveDraft
<1>11. ASSUME NEW i \in DOMAIN quotes, NEW o \in Typed, UpdateQuotation(i, o) PROVE NumbersDense'
  <2>1. /\ DOMAIN quotes' = DOMAIN quotes
        /\ \A k \in DOMAIN quotes : /\ quotes'[k].series = quotes[k].series
                                    /\ quotes'[k].no = quotes[k].no
    BY <1>11 DEF UpdateQuotation, TypeOK, Quotation
  <2>2. seq' = seq
    BY <1>11 DEF UpdateQuotation
  <2>3. \A s \in Series : OfSeries(s)' = OfSeries(s)
    BY <2>1
  <2> QED
    BY <2>1, <2>2, <2>3
<1>12. CASE UNCHANGED vars
  BY <1>12 DEF vars
<1> QED
  BY StepCases, <1>1, <1>2, <1>3, <1>4, <1>5, <1>6, <1>7, <1>8, <1>9, <1>10, <1>11, <1>12

\* Numbers of a series are dense and unique through races, refusals and rollbacks.
THEOREM NumbersAreDense == Spec => []NumbersDense
<1>1. TypeOK /\ LocksHeld /\ NumbersDense /\ [Next]_vars
        => (TypeOK /\ LocksHeld /\ NumbersDense)'
  BY TypeStep, LocksStep, DenseStep
<1>2. Init => TypeOK /\ LocksHeld /\ NumbersDense
  BY TypeInit, LocksInit, DenseInit
<1> QED
  BY <1>1, <1>2, PTL DEF Spec
-----------------------------------------------------------------------------
\* Nothing is approved initially.
LEMMA OnceInit == Init => ApprovedOnce
  BY DEF Init, ApprovedOnce

\* Only Commit approves, and the row it approves is undecided and its own.
LEMMA OnceStep == TypeOK /\ LocksHeld /\ ApprovedOnce /\ [Next]_vars => ApprovedOnce'
<1> SUFFICES ASSUME TypeOK, LocksHeld, ApprovedOnce, [Next]_vars PROVE ApprovedOnce'
  OBVIOUS
<1> USE DeskAssumption DEF ApprovedOnce
<1>1. ASSUME NEW S \in SUBSET Drafts, FindUnraised(S) PROVE ApprovedOnce'
  BY <1>1 DEF FindUnraised
<1>2. ASSUME NEW d \in Drafts, InsertDraft(d) PROVE ApprovedOnce'
  BY <1>2 DEF InsertDraft, TypeOK, Quotation
<1>3. CASE DetectorFails
  BY <1>3 DEF DetectorFails
<1>4. ASSUME NEW r \in Requests, NEW s \in Series, NEW o \in Typed, CreateQuotation(r, s, o) PROVE ApprovedOnce'
  BY <1>4 DEF CreateQuotation, Take
<1>5. ASSUME NEW r \in Requests, NEW d \in Drafts, NEW y \in Years, LockDraft(r, d, y) PROVE ApprovedOnce'
  BY <1>5 DEF LockDraft
<1>6. ASSUME NEW r \in Requests, CheckRaised(r) PROVE ApprovedOnce'
  BY <1>6 DEF CheckRaised, Release
<1>7. ASSUME NEW r \in Requests, TakeNumber(r) PROVE ApprovedOnce'
  BY <1>7 DEF TakeNumber, Take
<1>8. ASSUME NEW r \in Requests, Commit(r) PROVE ApprovedOnce'
  <2> DEFINE q == job[r]
  <2>1. /\ q \in Quotation
        /\ q.from # Nobody => /\ q.from \in Drafts /\ draft[q.from] = "WAITING"
                              /\ q.series[1] = q.from[1]
    BY <1>8 DEF Commit, TypeOK, LocksHeld, Quotation
  <2>2. quotes' = Append(quotes, q)
    BY <1>8 DEF Commit
  <2>3. /\ quotes \in Seq(Quotation)
        /\ draft \in [Drafts -> Statuses] /\ link \in [Drafts -> Nat]
    BY DEF TypeOK
  <2>4. /\ DOMAIN quotes' = 1..Len(quotes) + 1 /\ DOMAIN quotes = 1..Len(quotes)
        /\ Len(quotes) \in Nat
        /\ quotes'[Len(quotes) + 1] = q
        /\ \A i \in 1..Len(quotes) : quotes'[i] = quotes[i] /\ quotes[i] \in Quotation
    BY <2>1, <2>2, <2>3
  <2>5. CASE q.from = Nobody
    <3>1. draft' = draft /\ link' = link
      BY <1>8, <2>5 DEF Commit
    <3> HIDE DEF q
    <3> QED
      BY <2>1, <2>4, <2>5, <3>1
  <2>6. CASE q.from # Nobody
    <3>1. /\ draft' = [draft EXCEPT ![q.from] = "APPROVED"]
          /\ link' = [link EXCEPT ![q.from] = Len(quotes) + 1]
      BY <1>8, <2>6 DEF Commit
    <3> HIDE DEF q
    <3>2. \A i \in 1..Len(quotes) : quotes[i].from # q.from
      BY <2>1, <2>4, <2>6
    <3>3. \A d \in Drafts : IF draft'[d] = "APPROVED"
             THEN link'[d] \in DOMAIN quotes' /\ quotes'[link'[d]].from = d
             ELSE link'[d] = 0
      BY <2>1, <2>3, <2>4, <2>6, <3>1
    <3>4. \A i \in DOMAIN quotes' : quotes'[i].from # Nobody =>
             /\ draft'[quotes'[i].from] = "APPROVED" /\ link'[quotes'[i].from] = i
             /\ quotes'[i].series[1] = quotes'[i].from[1]
      BY <2>1, <2>3, <2>4, <2>6, <3>1, <3>2 DEF Quotation
    <3> QED
      BY <3>3, <3>4
  <2> QED
    BY <2>5, <2>6
<1>9. ASSUME NEW r \in Requests, Rollback(r) PROVE ApprovedOnce'
  BY <1>9 DEF Rollback, Release
<1>10. ASSUME NEW d \in Drafts, RemoveDraft(d) PROVE ApprovedOnce'
  BY <1>10 DEF RemoveDraft, TypeOK, Quotation
<1>11. ASSUME NEW i \in DOMAIN quotes, NEW o \in Typed, UpdateQuotation(i, o) PROVE ApprovedOnce'
  <2>1. /\ DOMAIN quotes' = DOMAIN quotes
        /\ \A k \in DOMAIN quotes : /\ quotes'[k].series = quotes[k].series
                                    /\ quotes'[k].from = quotes[k].from
    BY <1>11 DEF UpdateQuotation, TypeOK, Quotation
  <2> QED
    BY <1>11, <2>1 DEF UpdateQuotation
<1>12. CASE UNCHANGED vars
  BY <1>12 DEF vars
<1> QED
  BY StepCases, <1>1, <1>2, <1>3, <1>4, <1>5, <1>6, <1>7, <1>8, <1>9, <1>10, <1>11, <1>12

\* A waiting quotation is approved exactly when one quotation was raised from it.
THEOREM ApprovedExactlyOnce == Spec => []ApprovedOnce
<1>1. TypeOK /\ LocksHeld /\ ApprovedOnce /\ [Next]_vars
        => (TypeOK /\ LocksHeld /\ ApprovedOnce)'
  BY TypeStep, LocksStep, OnceStep
<1>2. Init => TypeOK /\ LocksHeld /\ ApprovedOnce
  BY TypeInit, LocksInit, OnceInit
<1> QED
  BY <1>1, <1>2, PTL DEF Spec
-----------------------------------------------------------------------------
\* A decided waiting quotation keeps its decision in every step.
LEMMA DecisionStep ==
    ASSUME TypeOK, LocksHeld, [Next]_vars
    PROVE  \A d \in Drafts : draft[d] \in {"APPROVED", "REMOVED"} => draft'[d] = draft[d]
<1> DEFINE Stands == \A d \in Drafts :
        draft[d] \in {"APPROVED", "REMOVED"} => draft'[d] = draft[d]
<1> USE DEF TypeOK
<1>1. ASSUME NEW S \in SUBSET Drafts, FindUnraised(S) PROVE Stands
  BY <1>1 DEF FindUnraised
<1>2. ASSUME NEW d \in Drafts, InsertDraft(d) PROVE Stands
  BY <1>2 DEF InsertDraft
<1>3. CASE DetectorFails
  BY <1>3 DEF DetectorFails
<1>4. ASSUME NEW r \in Requests, NEW s \in Series, NEW o \in Typed, CreateQuotation(r, s, o) PROVE Stands
  BY <1>4 DEF CreateQuotation, Take
<1>5. ASSUME NEW r \in Requests, NEW d \in Drafts, NEW y \in Years, LockDraft(r, d, y) PROVE Stands
  BY <1>5 DEF LockDraft
<1>6. ASSUME NEW r \in Requests, CheckRaised(r) PROVE Stands
  BY <1>6 DEF CheckRaised, Release
<1>7. ASSUME NEW r \in Requests, TakeNumber(r) PROVE Stands
  BY <1>7 DEF TakeNumber, Take
<1>8. ASSUME NEW r \in Requests, Commit(r) PROVE Stands
  <2>1. job[r].from # Nobody => draft[job[r].from] = "WAITING"
    BY <1>8 DEF Commit, LocksHeld
  <2> QED
    BY <1>8, <2>1 DEF Commit
<1>9. ASSUME NEW r \in Requests, Rollback(r) PROVE Stands
  BY <1>9 DEF Rollback, Release
<1>10. ASSUME NEW d \in Drafts, RemoveDraft(d) PROVE Stands
  BY <1>10 DEF RemoveDraft
<1>11. ASSUME NEW i \in DOMAIN quotes, NEW o \in Typed, UpdateQuotation(i, o) PROVE Stands
  BY <1>11 DEF UpdateQuotation
<1>12. CASE UNCHANGED vars
  BY <1>12 DEF vars
<1> QED
  BY StepCases, <1>1, <1>2, <1>3, <1>4, <1>5, <1>6, <1>7, <1>8, <1>9, <1>10, <1>11, <1>12

\* An approval and a removal both stand.
THEOREM DecisionsStand == Spec => DecisionStands
<1>1. TypeOK /\ LocksHeld /\ [Next]_vars
        => (\A d \in Drafts : draft[d] \in {"APPROVED", "REMOVED"} => draft'[d] = draft[d])
  BY DecisionStep
<1> QED
  BY <1>1, TypeCorrect, LocksAreHeld, PTL DEF Spec, DecisionStands
=============================================================================
