---------------------------- MODULE QuotationMail ----------------------------
(***************************************************************************)
(* What happens to a quotation once it is raised: it is mailed to the       *)
(* customer from here or from webmail, the mail worker looks for the mail   *)
(* in the Sent folders, reads the customer's replies and settles what they  *)
(* say is paid, and people settle it, decline it or take a decision back.   *)
(* The worker is one process whose sweeps never overlap; its statements     *)
(* interleave with the API's and with arriving mail.  Time is a counter     *)
(* that moves when a quotation is raised or a mail received; a mail out is  *)
(* dated by it, and CREATED_SLACK_MS is a number of its ticks.              *)
(***************************************************************************)
EXTENDS Integers, Sequences, FiniteSets, SequencesExt

CONSTANTS
    Quotes,        \* quotations, numbered in the order of their dates
    Customers,     \* what each quotation may have for its customer's address
    Partners,      \* senders in our own domains and the partners'
    Order,         \* the work order of each quotation
    Mails,         \* what arrives: from whom, on which work order, saying what
    Addressees,    \* the addresses people mail quotations to from here
    Batch,         \* QUOTATION_SEND_CHECK_BATCH
    Slack,         \* CREATED_SLACK_MS
    NoOne,         \* no address, no work order
    MaxTime,       \* bound: quotations raised and mails received
    MaxSent,       \* bound: mails sent
    MaxDecisions,  \* bound: decisions by hand
    MaxFailures    \* bound: mailbox failures, failed statements, restarts

ASSUME MailAssumption ==
    /\ \A mail \in Mails :
        /\ DOMAIN mail = {"from", "order", "letter"}
        /\ mail.letter \in {"chat", "claim", "proof", "receipt", "short"}
    /\ Quotes \subseteq Nat \ {0}
    /\ Batch \in Nat \ {0} /\ Slack \in Nat
    /\ NoOne \notin Addressees
    /\ MaxTime \in Nat /\ MaxSent \in Nat /\ MaxDecisions \in Nat /\ MaxFailures \in Nat

\* detectPaymentSignal of the words and of there being a picture, and what
\* readScreenshotPayment makes of the picture when it can be read: the whole
\* amount, or a part of it or a failed transfer.
Words == [chat |-> "NONE", claim |-> "WEAK", proof |-> "STRONG",
          receipt |-> "WEAK", short |-> "WEAK"]
Picture == [chat |-> "none", claim |-> "none", proof |-> "none",
            receipt |-> "PAID", short |-> "PARTIAL"]
Rank == [NONE |-> 0, WEAK |-> 1, STRONG |-> 2]

VARIABLES
    now,        \* the clock
    raised,     \* created_at, 0 for not yet
    customer,   \* customer_email
    status,     \* payment_status
    source,     \* payment_source
    seen,       \* reply_seen_at, 0 for NULL
    evidence,   \* payment_evidence_email_id, 0 for NULL
    sentAt,     \* sent_at, 0 for NULL
    sentTo,     \* sent_to
    asked,      \* quotations with a sent_checked_at, the longest unasked first
    recent,     \* those asked within QUOTATION_SEND_RECHECK_HOURS
    inbox,      \* inbound_emails: from, matched work order, letter, time
    sent,       \* mails out: first recipient, the customers a search of the recipients
                \* finds it for, the quotation named, filed in a Sent folder, time
    sending,    \* the address each quotation's mail went to, not recorded yet; one at a time
    step,       \* where the worker's sweep has got to
    pending,    \* quotations of this sweep's Sent-folder check not yet asked
    missed,     \* those asked and not found
    awaiting,   \* quotations still to be watched, as the sweep listed them
    verdict,    \* what the worker is about to record
    decisions,  \* history: decisions by hand
    failures    \* history: failures so far

sendVars == <<sentAt, sentTo, asked, recent>>
payVars == <<status, source, seen, evidence>>
workerVars == <<step, pending, missed, awaiting, verdict>>
histVars == <<decisions, failures>>
vars == <<now, raised, customer, payVars, sendVars, inbox, sent, sending, workerVars, histVars>>

NoVerdict == [quote |-> 0, seen |-> 0, evidence |-> 0, level |-> "NONE"]

Init ==
    /\ now = 1
    /\ raised = [q \in Quotes |-> 0]
    /\ customer = [q \in Quotes |-> NoOne]
    /\ status = [q \in Quotes |-> "PENDING"]
    /\ source = [q \in Quotes |-> "MANUAL"]
    /\ seen = [q \in Quotes |-> 0]
    /\ evidence = [q \in Quotes |-> 0]
    /\ sentAt = [q \in Quotes |-> 0]
    /\ sentTo = [q \in Quotes |-> NoOne]
    /\ asked = <<>>
    /\ recent = {}
    /\ inbox = <<>>
    /\ sent = <<>>
    /\ sending = [q \in Quotes |-> NoOne]
    /\ step = "verify"
    /\ pending = {}
    /\ missed = {}
    /\ awaiting = {}
    /\ verdict = NoVerdict
    /\ decisions = [q \in Quotes |-> 0]
    /\ failures = 0

Tick == now < MaxTime /\ now' = now + 1

(***************************************************************************)
(* The world and the API                                                    *)
(***************************************************************************)

\* A quotation is raised, dated that day (module QuotationDesk); Visit before Part.
Raise(q, address) ==
    /\ raised[q] = 0
    /\ \A p \in Quotes : p < q => raised[p] # 0
    /\ Tick
    /\ raised' = [raised EXCEPT ![q] = now']
    /\ customer' = [customer EXCEPT ![q] = address]
    /\ UNCHANGED <<payVars, sendVars, inbox, sent, sending, workerVars, histVars>>

\* The ingest stores a mail with the work order it could match, or none.
Receive(mail) ==
    /\ Tick
    /\ inbox' = Append(inbox, mail @@ [at |-> now'])
    /\ UNCHANGED <<raised, customer, payVars, sendVars, sent, sending, workerVars, histVars>>

Leaves(mail) ==
    /\ Len(sent) < MaxSent
    /\ sent' = Append(sent, mail @@ [at |-> now])

\* The customers whose search finds a mail whose first recipient is "to": IMAP
\* looks for the address anywhere in any recipient.
FoundBy(to) ==
    LET known == UNION {Customers[q] : q \in Quotes} \ {NoOne}
    IN  {found \in SUBSET known : to \in known => to \in found}

\* Somebody mails a customer from webmail, which files a copy.
SendFromWebmail(to, names) ==
    /\ \E found \in FoundBy(to) \ {{}} :
          Leaves([to |-> to, found |-> found, names |-> names, filed |-> TRUE, here |-> FALSE])
    /\ UNCHANGED <<now, raised, customer, payVars, sendVars, inbox, sending, workerVars, histVars>>

\* sendQuotationController up to sendComposedEmail: the mail has left, named by
\* its Message-ID.  archiveToSentFolder may fail to file the copy.
SendMail(q, to) ==
    /\ raised[q] # 0
    /\ sending[q] = NoOne
    /\ sending' = [sending EXCEPT ![q] = to]
    /\ \E filed \in BOOLEAN, found \in FoundBy(to) :
          Leaves([to |-> to, found |-> found, names |-> q, filed |-> filed, here |-> TRUE])
    /\ UNCHANGED <<now, raised, customer, payVars, sendVars, inbox, workerVars, histVars>>

\* markQuotationSent
MarkSent(q) ==
    /\ sending[q] # NoOne
    /\ sentAt' = [sentAt EXCEPT ![q] = IF @ = 0 THEN now ELSE @]
    /\ sentTo' = [sentTo EXCEPT ![q] = sending[q]]
    /\ sending' = [sending EXCEPT ![q] = NoOne]
    /\ UNCHANGED <<now, raised, customer, payVars, asked, recent, inbox, sent, workerVars, histVars>>

\* The request dies between the mail and the record of it.
SendLost(q) ==
    /\ sending[q] # NoOne
    /\ failures < MaxFailures
    /\ failures' = failures + 1
    /\ sending' = [sending EXCEPT ![q] = NoOne]
    /\ UNCHANGED <<now, raised, customer, payVars, sendVars, inbox, sent, workerVars, decisions>>

\* setQuotationPayment: whatever it was, this is what it is now.
SetPayment(q, to) ==
    /\ raised[q] # 0
    /\ MapThenSumSet(LAMBDA p : decisions[p], Quotes) < MaxDecisions
    /\ decisions' = [decisions EXCEPT ![q] = @ + 1]
    /\ status' = [status EXCEPT ![q] = to]
    /\ source' = [source EXCEPT ![q] = "MANUAL"]
    /\ UNCHANGED <<now, raised, customer, seen, evidence, sendVars, inbox, sent, sending,
                   workerVars, failures>>

(***************************************************************************)
(* The worker: runQuotationSendVerification                                 *)
(***************************************************************************)

NeedsCheck(q) ==
    /\ raised[q] # 0 /\ customer[q] # NoOne
    /\ sentAt[q] = 0 /\ status[q] = "PENDING"
    /\ q \notin recent

\* ORDER BY sent_checked_at NULLS FIRST, quotation_date
Queue == SetToSortSeq({q \in Quotes : NeedsCheck(q) /\ ~Contains(asked, q)}, <)
         \o SelectSeq(asked, NeedsCheck)

\* listQuotationsNeedingSendCheck: the first Batch of them.
FindPending ==
    /\ step = "verify"
    /\ step' = "ask"
    /\ pending' = {Queue[i] : i \in 1..Min({Batch, Len(Queue)})}
    /\ UNCHANGED <<now, raised, customer, payVars, sendVars, inbox, sent, sending,
                   missed, awaiting, verdict, histVars>>

\* Mutant: any mail to the customer since the quotation was raised will do.
CarriedAny(q) == {k \in DOMAIN sent :
    sent[k].filed /\ customer[q] \in sent[k].found /\ sent[k].at >= raised[q] - Slack}

\* pickSentMail: the mails that may have carried it, by its Message-ID, by a
\* number in the subject, or for want of both; one dated up to CREATED_SLACK_MS
\* before the quotation counts.
Carried(q) == {k \in DOMAIN sent :
    /\ sent[k].filed
    /\ customer[q] \in sent[k].found
    /\ sent[k].at >= raised[q] - Slack
    /\ sent[k].names \in {q, 0}}

\* findSentMail, and recordQuotationSendCheck at once when it finds one: the mail's
\* own date and first recipient, on a quotation still not sent.  The earliest mail
\* of the first Sent folder that has one; which folder comes first is left open.
AskSentFolder(q) ==
    /\ q \in pending
    /\ pending' = pending \ {q}
    /\ \/ /\ Carried(q) = {}
          /\ missed' = missed \cup {q}
          /\ UNCHANGED <<sentAt, sentTo>>
       \/ /\ missed' = missed
          /\ \E k \in Carried(q) :
               IF sentAt[q] = 0
               THEN /\ sentAt' = [sentAt EXCEPT ![q] = sent[k].at]
                    /\ sentTo' = [sentTo EXCEPT ![q] = IF @ = NoOne THEN sent[k].to ELSE @]
               ELSE UNCHANGED <<sentAt, sentTo>>
    /\ UNCHANGED <<now, raised, customer, payVars, asked, recent, inbox, sent, sending,
                   step, awaiting, verdict, histVars>>

\* Asked and not found: not asked again for a while, and then after the others.
RecordMiss(q) ==
    /\ pending = {} /\ q \in missed
    /\ missed' = missed \ {q}
    /\ IF sentAt[q] = 0
       THEN asked' = Append(Remove(asked, q), q) /\ recent' = recent \cup {q}
       ELSE UNCHANGED <<asked, recent>>
    /\ UNCHANGED <<now, raised, customer, payVars, sentAt, sentTo, inbox, sent, sending,
                   step, pending, awaiting, verdict, histVars>>

\* QUOTATION_SEND_RECHECK_HOURS have passed.
Recheck(q) ==
    /\ q \in recent
    /\ recent' = recent \ {q}
    /\ UNCHANGED <<now, raised, customer, payVars, sentAt, sentTo, asked, inbox, sent, sending,
                   workerVars, histVars>>

(***************************************************************************)
(* The worker: runQuotationPaymentWatch                                     *)
(***************************************************************************)

Sender(q) == IF sentTo[q] = NoOne THEN customer[q] ELSE sentTo[q]
Open == {q \in Quotes : raised[q] # 0 /\ status[q] = "PENDING" /\ Order[q] # NoOne}

\* Mutant: the Sent folders are not awaited.
ListAwaitingEarly ==
    /\ step = "ask"
    /\ step' = "judge"
    /\ awaiting' = {}
    /\ UNCHANGED <<now, raised, customer, payVars, sendVars, inbox, sent, sending,
                   pending, missed, verdict, histVars>>

\* listQuotationsAwaitingReply, and how many each customer has open.
ListAwaiting ==
    /\ step = "ask" /\ pending = {} /\ missed = {}
    /\ step' = "judge"
    /\ awaiting' = {[quote |-> q,
                     watchFrom |-> IF sentAt[q] = 0 THEN raised[q] ELSE sentAt[q],
                     customer |-> Sender(q),
                     alone |-> /\ Sender(q) # NoOne
                               /\ \A p \in Open : Sender(p) = Sender(q) => p = q,
                     seen |-> seen[q]] : q \in Open}
    /\ UNCHANGED <<now, raised, customer, payVars, sendVars, inbox, sent, sending,
                   pending, missed, verdict, histVars>>

Since(a, order) == {k \in DOMAIN inbox : inbox[k].order = order /\ inbox[k].at > a.watchFrom}

\* Mutant: mail about the work order is taken for the customer's.
RepliesOfAnyone(a) == Since(a, Order[a.quote])

\* isFromCustomer: the quotation's address decides; without one, everybody but
\* ourselves and the partners is given the benefit of the doubt.
IsFromCustomer(from, address) ==
    from # NoOne /\ IF address = NoOne THEN from \notin Partners ELSE from = address

\* Mail about the work order; when there is none, whoever wrote it, mail that
\* names no work order for a customer who has nothing else open; of these only
\* what the customer wrote.
Replies(a) ==
    LET placed == Since(a, Order[a.quote])
        offered == IF placed = {} /\ a.alone THEN Since(a, NoOne) ELSE placed
    IN  {k \in offered : IsFromCustomer(inbox[k].from, a.customer)}

Level(k) == Words[inbox[k].letter]
Pictured(k) == Picture[inbox[k].letter] # "none"
Best(R) == Min({k \in R : \A j \in R : Rank[Level(j)] <= Rank[Level(k)]})

\* What the words say, then what the picture says when the words are not enough;
\* a picture OCR makes nothing of leaves the words.
Judgements(R) ==
    LET best == Best(R)
        shown == {k \in R : Pictured(k)}
        pic == IF best \in shown THEN best ELSE Min(shown)
        words == [evidence |-> IF Level(best) = "NONE" THEN Max(R) ELSE best,
                  level |-> Level(best)]
    IN  IF Level(best) = "STRONG" \/ shown = {} THEN {words}
        ELSE {words, [evidence |-> pic,
                      level |-> IF Picture[inbox[pic].letter] = "PAID"
                                THEN "STRONG" ELSE "WEAK"]}

\* The sweep takes its list in the order of watchFrom.
TakeUp(a) ==
    /\ step = "judge" /\ verdict = NoVerdict
    /\ a \in awaiting
    /\ \A b \in awaiting : a.watchFrom <= b.watchFrom
    /\ awaiting' = awaiting \ {a}

\* Nobody answered: a flag somebody's answer left is to be taken off.
Unflag(a) == verdict' = IF a.seen = 0 THEN NoVerdict ELSE [NoVerdict EXCEPT !.quote = a.quote]

\* One quotation of the list, up to the statement that records the result.
Judge(a) ==
    /\ TakeUp(a)
    /\ LET R == Replies(a) IN
       \/ R = {} /\ Unflag(a)
       \/ /\ R # {}
          /\ \E j \in Judgements(R) :
                verdict' = [quote |-> a.quote, seen |-> inbox[Max(R)].at,
                            evidence |-> j.evidence, level |-> j.level]
    /\ UNCHANGED <<now, raised, customer, payVars, sendVars, inbox, sent, sending,
                   step, pending, missed, histVars>>

\* clearQuotationReplyState, on a quotation still open and flagged.
Clear ==
    /\ verdict # NoVerdict /\ verdict.seen = 0
    /\ LET q == verdict.quote IN
       IF status[q] = "PENDING"
       THEN seen' = [seen EXCEPT ![q] = 0] /\ evidence' = [evidence EXCEPT ![q] = 0]
       ELSE UNCHANGED <<seen, evidence>>
    /\ verdict' = NoVerdict
    /\ UNCHANGED <<now, raised, customer, status, source, sendVars, inbox, sent, sending,
                   step, pending, missed, awaiting, histVars>>

Settle(q) ==
    /\ seen' = [seen EXCEPT ![q] = verdict.seen]
    /\ evidence' = [evidence EXCEPT ![q] = verdict.evidence]
    /\ IF verdict.level = "STRONG"
       THEN /\ status' = [status EXCEPT ![q] = "PAID"]
            /\ source' = [source EXCEPT ![q] = "AUTO"]
       ELSE UNCHANGED <<status, source>>

\* Mutant: the UPDATE names the row by id alone.
RecordAnyway ==
    /\ verdict.seen # 0
    /\ Settle(verdict.quote)
    /\ verdict' = NoVerdict
    /\ UNCHANGED <<now, raised, customer, sendVars, inbox, sent, sending,
                   step, pending, missed, awaiting, histVars>>

\* recordQuotationReplyState: a quotation decided since it was listed is left.
Record ==
    /\ verdict.seen # 0
    /\ IF status[verdict.quote] = "PENDING" THEN Settle(verdict.quote) ELSE UNCHANGED payVars
    /\ verdict' = NoVerdict
    /\ UNCHANGED <<now, raised, customer, sendVars, inbox, sent, sending,
                   step, pending, missed, awaiting, histVars>>

EndSweep ==
    /\ step = "judge" /\ awaiting = {} /\ verdict = NoVerdict
    /\ step' = "verify"
    /\ UNCHANGED <<now, raised, customer, payVars, sendVars, inbox, sent, sending,
                   pending, missed, awaiting, verdict, histVars>>

(***************************************************************************)
(* The worker: what fails                                                   *)
(***************************************************************************)

Fail ==
    /\ failures < MaxFailures
    /\ failures' = failures + 1
    /\ UNCHANGED <<now, raised, customer, payVars, sendVars, inbox, sent, sending, decisions>>

\* A mailbox that does not open or answer, or a record that fails: the
\* quotation counts as asked and not found.
AskFails(q) ==
    /\ q \in pending
    /\ pending' = pending \ {q} /\ missed' = missed \cup {q}
    /\ Fail
    /\ UNCHANGED <<step, awaiting, verdict>>

\* The statement that records a miss fails.
RecordMissFails(q) ==
    /\ pending = {} /\ q \in missed
    /\ missed' = missed \ {q}
    /\ Fail
    /\ UNCHANGED <<step, pending, awaiting, verdict>>

\* The statement that lists what to ask fails: on to the replies.
VerifyFails ==
    /\ step = "verify"
    /\ step' = "ask"
    /\ Fail
    /\ UNCHANGED <<pending, missed, awaiting, verdict>>

\* Reading the replies fails, or recording what they say.
JudgeFails(a) ==
    /\ TakeUp(a)
    /\ Fail
    /\ UNCHANGED <<step, pending, missed, verdict>>

\* Reading the customer's unplaced mail fails: as if there were none.
FallbackFails(a) ==
    /\ TakeUp(a)
    /\ a.alone /\ Since(a, Order[a.quote]) = {}
    /\ Unflag(a)
    /\ Fail
    /\ UNCHANGED <<step, pending, missed>>

RecordFails ==
    /\ verdict # NoVerdict
    /\ verdict' = NoVerdict
    /\ Fail
    /\ UNCHANGED <<step, pending, missed, awaiting>>

\* The worker dies and starts with a new sweep.
Restart ==
    /\ step' = "verify"
    /\ pending' = {} /\ missed' = {} /\ awaiting' = {} /\ verdict' = NoVerdict
    /\ Fail

(***************************************************************************)
(* The specification                                                        *)
(***************************************************************************)

World ==
    \/ \E q \in Quotes : \E address \in Customers[q] : Raise(q, address)
    \/ \E mail \in Mails : Receive(mail)
    \/ \E to \in Addressees, names \in Quotes \cup {0} : SendFromWebmail(to, names)
Api ==
    \/ \E q \in Quotes, to \in Addressees : SendMail(q, to)
    \/ \E q \in Quotes : MarkSent(q) \/ SendLost(q)
    \/ \E q \in Quotes, to \in {"PENDING", "PAID", "DECLINED"} : SetPayment(q, to)
Worker ==
    \/ FindPending
    \/ \E q \in pending : AskSentFolder(q)
    \/ \E q \in missed : RecordMiss(q)
    \/ ListAwaiting
    \/ \E a \in awaiting : Judge(a)
    \/ Clear \/ Record \/ EndSweep
Faults ==
    \/ \E q \in pending : AskFails(q)
    \/ \E q \in missed : RecordMissFails(q)
    \/ VerifyFails
    \/ \E a \in awaiting : JudgeFails(a) \/ FallbackFails(a)
    \/ RecordFails \/ Restart
Next == World \/ Api \/ Worker \/ (\E q \in Quotes : Recheck(q)) \/ Faults

Spec == Init /\ [][Next]_vars

-----------------------------------------------------------------------------
\* Types; the replies are read when the Sent folders have been asked.
TypeOK ==
    /\ now \in 0..MaxTime
    /\ raised \in [Quotes -> 0..now]
    /\ \A q \in Quotes : customer[q] \in Customers[q] \cup {NoOne}
    /\ status \in [Quotes -> {"PENDING", "PAID", "DECLINED"}]
    /\ source \in [Quotes -> {"MANUAL", "AUTO"}]
    /\ seen \in [Quotes -> 0..now]
    /\ evidence \in [Quotes -> 0..Len(inbox)]
    /\ sentAt \in [Quotes -> 0..now]
    /\ IsInjective(asked) /\ recent \subseteq Quotes
    /\ step \in {"verify", "ask", "judge"}
    /\ pending \cup missed # {} => step = "ask"
    /\ awaiting # {} \/ verdict # NoVerdict => step = "judge"

\* "Their decision stands" (quotationPaymentWatch.ts): a quotation paid or declined
\* is changed by nobody but a person, however late the sweep's write lands.
DecisionStands == [][\A q \in Quotes :
    status[q] # "PENDING" /\ decisions'[q] = decisions[q] => status'[q] = status[q]]_vars

\* The mails that took the quotation out from here.
FromHere(q) == {k \in DOMAIN sent : sent[k].here /\ sent[k].names = q}

\* The mails that may be the quotation going out, filed or not.
Outgoing(q) == FromHere(q) \cup {k \in DOMAIN sent :
    customer[q] \in sent[k].found /\ sent[k].names \in {q, 0} /\ sent[k].at >= raised[q] - Slack}

\* What the worker settled was paid by a customer's word or picture, in mail about
\* the quotation's work order or about none, from the address it carries or a
\* mail that may be its own went to, or, if it carries none, from outside; and
\* that mail came later than the quotation, or than a mail that the clock drift
\* allowed may have carried it out just before.
AutoBacked == \A q \in Quotes : source[q] = "AUTO" =>
    /\ status[q] = "PAID"
    /\ evidence[q] \in DOMAIN inbox
    /\ LET mail == inbox[evidence[q]] IN
       /\ \/ IsFromCustomer(mail.from, customer[q])
          \/ mail.from \in {sent[k].to : k \in Outgoing(q)}
       /\ mail.order \in {Order[q], NoOne}
       /\ mail.at > raised[q] \/ \E k \in Outgoing(q) : mail.at > sent[k].at
       /\ Words[mail.letter] = "STRONG" \/ Picture[mail.letter] = "PAID"

\* "Sent now means it with evidence behind it" (quotationWatchRepository.ts): a
\* quotation reads sent at the date of a mail to its customer that does not name
\* another quotation and is no older than the clock drift allowed, or because it
\* was mailed from here.
SentBacked == \A q \in Quotes : sentAt[q] # 0 =>
    \/ FromHere(q) # {}
    \/ \E k \in Outgoing(q) : sent[k].filed /\ sent[k].at = sentAt[q]

\* "Set by hand from here on ... the watcher must not re-decide"
\* (quotationRepository.ts, setQuotationPayment).
HandDecides == [][\A q \in Quotes :
    decisions[q] > 0 /\ decisions'[q] = decisions[q] => status'[q] = status[q]]_vars
=============================================================================
