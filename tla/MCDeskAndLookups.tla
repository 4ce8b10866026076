--------------------------- MODULE MCDeskAndLookups ---------------------------
(* Small instances of three parts that share no state; a behaviour is about
   one of them and the others stand still.  The quotation desk: both kinds,
   one work order, one financial year and three requests in flight.  The
   closed-call list: three serials, the first of which HP never resolves, with
   a daily budget of two, and with one of one, which callers that race can
   overrun within a list of three.  One look-up on HP's form. *)
EXTENDS QuotationDesk

CONSTANTS
    r1, r2, r3,
    \* the closed-call list
    Callers, Sweeper, Cap, MaxJobs, Hopeless, Shared,
    \* a look-up
    Timeout, InnerText, StaleLock

ThreeSerials == <<"first", "second", "third">>

VARIABLES
    focus,    \* the part this behaviour is about
    jobs, item, cached, step, local,
    stage, page, outcome, answer, elapsed, hasProduct, landed

deskVars == vars
listVars == <<jobs, item, cached, step, local>>
lookupVars == <<stage, page, outcome, answer, elapsed, hasProduct, landed>>
allVars == <<focus, deskVars, listVars, lookupVars>>

Closed == INSTANCE ClosedCallSweep WITH List <- ThreeSerials
Budget == INSTANCE ClosedCallSweep WITH List <- ThreeSerials, Cap <- 1
Lookup == INSTANCE HpLookup

ASSUME ListAssumption == Closed!SweepAssumption
ASSUME HpAssumption == Lookup!LookupAssumption

OnDesk(A) == focus = "desk" /\ A /\ UNCHANGED <<focus, listVars, lookupVars>>
OnList(A) == focus = "list" /\ A /\ UNCHANGED <<focus, deskVars, lookupVars>>
OnBudget(A) == focus = "budget" /\ A /\ UNCHANGED <<focus, deskVars, lookupVars>>
OnLookup(A) == focus = "lookup" /\ A /\ UNCHANGED <<focus, deskVars, listVars>>

AllInit ==
    /\ focus \in {"desk", "list", "budget", "lookup"}
    /\ Init
    /\ Closed!Init
    /\ Lookup!Init /\ (hasProduct => focus = "lookup")

AllNext ==
    \/ OnDesk(Next)
    \/ OnList(Closed!Next) \/ OnBudget(Budget!Next)
    \/ OnLookup(Lookup!Next)

\* The fairness of QuotationDesk and of ClosedCallSweep, for their own steps.
AllSpec ==
    /\ AllInit /\ [][AllNext]_allVars
    /\ \A r \in Requests : SF_allVars(OnDesk(Proceed(r)))
    /\ \A c \in Callers \cap {Sweeper} : WF_allVars(OnList(Closed!Call(c)))
    /\ WF_allVars(OnList(Closed!Drain))
    /\ WF_allVars(OnList(Closed!NextDay))

-----------------------------------------------------------------------------
\* The type invariants of the list and of the look-up.
ListTypeOK == Closed!TypeOK
LookupTypeOK == Lookup!TypeOK

\* How far callers that race can overrun the daily budget (ClosedCallSweep).
OverrunBounded == focus = "budget" => Budget!OverrunBounded

\* No request waits for ever on a row (QuotationDesk); the requests are
\* interchangeable, so it is checked of one of them.
RequestEnds == (pc[r1] # "idle") ~> (pc[r1] = "idle")

\* Every closed serial behind fewer hopeless ones than the budget of a day is
\* handed to the worker in the end (ClosedCallSweep).
ListFills == focus = "list" => Closed!ListFills

\* No look-up answers for a serial HP never took to a result page (HpLookup).
AnsweredOnlyLanded == Lookup!AnsweredOnlyLanded
=============================================================================
