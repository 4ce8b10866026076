------------------------------ MODULE HpLookup ------------------------------
(***************************************************************************)
(* One look-up of a serial on HP's warranty form (hpWarrantyClient.ts): its *)
(* stages, what each sees of a page that HP may change between any two of   *)
(* them, and the time each may take.  Every stage has timeouts of its own   *)
(* and there is none on the whole.  The lane that runs it holds a queue row *)
(* whose lock another process takes for abandoned after StaleLock seconds.  *)
(* A stage is quick or as long as its timeouts allow; times are seconds.    *)
(***************************************************************************)
EXTENDS Integers

CONSTANTS
    Timeout,     \* DEFAULT_TIMEOUT_MS
    InnerText,   \* Playwright's own timeout, of innerText (30 s)
    StaleLock    \* WARRANTY_STALE_LOCK_SECONDS

\* What the constants are assumed to be, by the modules that give them values.
LookupAssumption ==
    /\ Timeout \in Nat \ {0}
    /\ InnerText \in Nat \ {0}
    /\ StaleLock \in Nat \ {0}

VARIABLES
    stage,      \* what lookupWarranty does next
    page,       \* what the browser shows
    outcome,    \* what waitForOutcome or waitForResultPage has reported
    answer,     \* the look-up's result
    elapsed,    \* seconds since the row was claimed
    hasProduct, \* does the row carry a product number
    landed      \* history: HP moved to a result address for this serial

vars == <<stage, page, outcome, answer, elapsed, hasProduct, landed>>

\* On the form's address: the form, the form asking for a product number, a
\* challenge, or nothing that can be read.  On a result address (OnResult): the
\* coverage card, HP's word that there is no entitlement, a challenge, a text
\* that has not arrived or cannot be read.
BeforeSubmit == {"form", "challenge", "blank"}
OnResult == {"coverage", "noEntitlement", "resultChallenge", "resultBlank"}
Pages == BeforeSubmit \cup {"prompt"} \cup OnResult
Challenged == {"challenge", "resultChallenge"}

\* The longest a stage waits where it has a timeout.  page.evaluate, which
\* removes the consent overlay (banner and both submits), and keyboard.press
\* (a submit without a button) have none.
Limit == [
    open          |-> Timeout,           \* page.goto
    banner        |-> 6 + 5,             \* wait for the consent widget, click it
    challenge     |-> InnerText,         \* assertNoInteractiveChallenge reads the body
    serialInput   |-> 15,                \* firstVisible
    serialFill    |-> Timeout,
    serialSubmit  |-> 5 + Timeout,       \* firstVisible, then the click
    outcome       |-> Timeout + InnerText, \* the last round may start at the deadline
    challenge2    |-> InnerText,
    productInput  |-> 10,
    productFill   |-> Timeout,
    productSubmit |-> 5 + Timeout,
    resultPage    |-> Timeout,           \* waitForResultPage
    challenge3    |-> InnerText,
    read          |-> InnerText]         \* readResultText

Stages == DOMAIN Limit
\* The stages after the form has been submitted.
Submitted == {"outcome", "challenge2", "productInput", "productFill",
              "productSubmit", "resultPage", "challenge3", "read"}
Ended == {"answered", "threw"}

Init ==
    /\ stage = "open"
    /\ page = "blank"
    /\ outcome = "none"
    /\ answer = "none"
    /\ elapsed = 0
    /\ hasProduct \in BOOLEAN
    /\ landed = FALSE

\* The stage takes no time to speak of or all it may, then control moves on.
Spend(from, to) ==
    /\ stage = from
    /\ stage' = to
    /\ \E d \in {0, Limit[from]} : elapsed' = elapsed + d
    /\ UNCHANGED <<hasProduct, landed>>

Pass(from, to) == Spend(from, to) /\ UNCHANGED <<page, outcome, answer>>
Throw(from) == Pass(from, "threw")

\* HP renders, redirects, asks or blocks whenever it likes; it has a result to
\* show only for a form that was submitted.
HpMoves ==
    /\ stage \in Stages \ {"open"}
    /\ page' \in IF stage \in Submitted THEN Pages ELSE BeforeSubmit
    /\ landed' = (landed \/ page' \in OnResult)
    /\ UNCHANGED <<stage, outcome, answer, elapsed, hasProduct>>

OpenForm ==
    \/ Spend("open", "banner") /\ page' \in BeforeSubmit /\ UNCHANGED <<outcome, answer>>
    \/ Throw("open")

\* dismissCookieBanner never throws.
DismissBanner == Pass("banner", "challenge")

\* assertNoInteractiveChallenge: a body it cannot read is no challenge.
NoChallenge(from, to) == Pass(from, IF page \in Challenged THEN "threw" ELSE to)
CheckForm == NoChallenge("challenge", "serialInput")

\* Mutant: a missing input is reported as a stage of its own that nobody handles.
FindSerialInputLost == Pass("serialInput", IF page = "form" THEN "serialFill" ELSE "noInput")

FindSerialInput == Pass("serialInput", IF page = "form" THEN "serialFill" ELSE "threw")

FillSerial == Pass("serialFill", "serialSubmit") \/ Throw("serialFill")

SubmitSerial == Pass("serialSubmit", "outcome") \/ Throw("serialSubmit")

\* Report what a wait saw: it gives up at its deadline, and goes on at once or
\* late when it has seen something.
Report(from, to, seen) ==
    /\ stage = from
    /\ stage' = to
    /\ outcome' = seen
    /\ elapsed' \in {elapsed + Limit[from]} \cup (IF seen = "none" THEN {} ELSE {elapsed})
    /\ UNCHANGED <<page, answer, hasProduct, landed>>

\* waitForOutcome: the address first, then the words of the prompt.
WaitForOutcome == Report("outcome", "challenge2",
    IF page \in OnResult THEN "result" ELSE IF page = "prompt" THEN "prompt" ELSE "none")

\* The challenge check looks at the page there is now, the verdict goes by the
\* outcome reported earlier.
JudgeOutcome == NoChallenge("challenge2",
    IF outcome = "result" THEN "read"
    ELSE IF outcome = "prompt" /\ hasProduct THEN "productInput" ELSE "threw")

FindProductInput == Pass("productInput", IF page = "prompt" THEN "productFill" ELSE "threw")

FillProduct == Pass("productFill", "productSubmit") \/ Throw("productFill")

SubmitProduct == Pass("productSubmit", "resultPage") \/ Throw("productSubmit")

\* waitForResultPage goes by the address alone.
WaitForResultPage == Report("resultPage", "challenge3",
    IF page \in OnResult THEN "result" ELSE "none")

\* Mutant: whatever follows the product number is read.
JudgeResultBlindly == NoChallenge("challenge3", "read")

\* After the product number only a result address will do.
JudgeResult == NoChallenge("challenge3", IF outcome = "result" THEN "read" ELSE "threw")

\* readResultText and parseWarrantyResult: an end date is an OK, and any other
\* text, an unread one included, is a NOT_FOUND; neither ever throws.
ReadResult ==
    /\ Spend("read", "answered")
    /\ answer' = IF page = "coverage" THEN "OK" ELSE "NOT_FOUND"
    /\ UNCHANGED <<page, outcome>>

Next ==
    \/ HpMoves
    \/ OpenForm \/ DismissBanner \/ CheckForm
    \/ FindSerialInput \/ FillSerial \/ SubmitSerial
    \/ WaitForOutcome \/ JudgeOutcome
    \/ FindProductInput \/ FillProduct \/ SubmitProduct
    \/ WaitForResultPage \/ JudgeResult \/ ReadResult

Spec == Init /\ [][Next]_vars

-----------------------------------------------------------------------------
\* Every variable keeps its type.
TypeOK ==
    /\ stage \in Stages \cup Ended
    /\ page \in Pages
    /\ outcome \in {"none", "prompt", "result"}
    /\ answer \in {"none", "OK", "NOT_FOUND"}
    /\ elapsed \in Nat
    /\ hasProduct \in BOOLEAN
    /\ landed \in BOOLEAN

\* A serial that HP never took to a result page (an ignored form, a challenge, a
\* prompt left standing) is a failure to retry, never a NOT_FOUND that the
\* permanent cache would keep for ever, however the page moves between the
\* outcome the code goes by and the text it reads in the end.
AnsweredOnlyLanded == answer # "none" => landed

\* "A slow-but-alive worker is never robbed of its item" (warrantyWorker.ts:61):
\* a look-up in progress is younger than the stale-lock threshold.
NeverRobbed == stage \in Stages => elapsed < StaleLock
=============================================================================
