-------------------------------- MODULE Delivery --------------------------------
(***************************************************************************)
(* The way of a notification: a provider moves a transaction of a customer *)
(* through its life and reports it, reports are delayed, reordered and     *)
(* repeated on the way, the server parses them and applies them to the     *)
(* store of CommerceHistory, and its answer may be lost.                   *)
(*                                                                         *)
(* The providers are no part of the code.  What is assumed of them is what *)
(* ParseWebhook reads: Midtrans names the transaction in each of its       *)
(* reports, or leaves the name out; Xendit gives every report an           *)
(* identifier of its own; a report is repeated until it is answered.       *)
(***************************************************************************)
EXTENDS CommerceHistory

CONSTANTS
    Transactions,   \* the providers' names of transactions
    Vocabulary,     \* bound: the words the providers use
    NoId

VARIABLES
    transaction,   \* the books of the providers
    sent,          \* the reports sent, which may arrive at any time
    answered       \* the reports of payment that were answered with success

world == <<transaction, sent, answered>>
dvars == <<hvars, world>>

\* What reports carry as their identifiers.
ReportIds == Transactions \cup (Transactions \X Vocabulary)

Parsing == INSTANCE Providers WITH Ids <- ReportIds

ParseWebhook(r) == Parsing!ParseWebhook(r)

\* A transaction is open, may be held back for suspected fraud, and ends with
\* the customer's money taken or not.
Phase == {"open", "challenged", "taken", "lost"}
Transaction == [provider : Providers, order : Orders, phase : Phase]

\* How a provider puts the phases.
Wording ==
    [midtrans |-> [open |-> {"pending"}, challenged |-> {"capture"},
                   taken |-> {"settlement", "capture"}, lost |-> {"expire", "deny", "cancel"}],
     xendit |-> [open |-> {"pending"}, challenged |-> {},
                 taken |-> {"paid"}, lost |-> {"expired", "failed"}]]

WordsOf(provider) == Vocabulary \cap UNION {Wording[provider][phase] : phase \in Phase}

\* The reports there are.
Payload ==
    {r \in Parsing!Payload :
        /\ r.provider \in Providers
        /\ r.status \in WordsOf(r.provider)
        /\ r.challenge => r.provider = "midtrans" /\ r.status = "capture"
        /\ IF r.provider = "midtrans" THEN r.id \in Transactions \cup {NoId}
                                     ELSE r.id \in Transactions \X {r.status}}

ASSUME ProvidersAssumption == Providers \subseteq {"midtrans", "xendit"}
ASSUME EventIdsAssumption == \A r \in Payload : ParseWebhook(r).id \in EventIds
ASSUME NoTransactionAssumption == NoRow \notin Transaction
ASSUME VocabularyAssumption == Vocabulary \subseteq Parsing!Words

\* The digest of a payload is the name of no transaction.
ASSUME DigestsAssumption ==
    /\ NoId \notin ReportIds
    /\ \A r \in Parsing!Payload : Parsing!Digest(r) \notin ReportIds

\* The reports that say the money was taken.
Pays(r) == ParseWebhook(r).status = "PAID"
PaymentReports == {r \in Payload : Pays(r)}

IdsFor(t, word) ==
    IF transaction[t].provider = "midtrans" THEN {t, NoId} ELSE {<<t, word>>}

-----------------------------------------------------------------------------
\* The customer opens the page of a payment that waits for money.
OpenTransaction(t, i) ==
    /\ transaction[t] = NoRow
    /\ payment[i] # NoRow
    /\ payment[i].status = "PENDING"
    /\ transaction' = [transaction EXCEPT ![t] =
           [provider |-> payment[i].provider, order |-> payment[i].order, phase |-> "open"]]
    /\ UNCHANGED <<hvars, sent, answered>>

MoveTransaction(t, phase) ==
    /\ transaction[t] # NoRow
    /\ \/ transaction[t].phase = "open" /\ phase \in {"taken", "lost"}
       \/ transaction[t].phase = "open" /\ phase = "challenged"
          /\ transaction[t].provider = "midtrans"
       \/ transaction[t].phase = "challenged" /\ phase \in {"taken", "lost"}
    /\ transaction' = [transaction EXCEPT ![t].phase = phase]
    /\ UNCHANGED <<hvars, sent, answered>>

\* The provider reports the phase a transaction is in.
SendReport(t, word, id) ==
    LET x == transaction[t] IN
    /\ x # NoRow
    /\ word \in Wording[x.provider][x.phase]
    /\ id \in IdsFor(t, word)
    /\ sent' = sent \cup {[provider |-> x.provider, order |-> x.order, status |-> word,
                           challenge |-> x.phase = "challenged", id |-> id]}
    /\ UNCHANGED <<hvars, transaction, answered>>

-----------------------------------------------------------------------------
Recorded(r) ==
    \E e \in event : e.provider = r.provider /\ e.id = ParseWebhook(r).id

\* HandleWebhook, from the payload on.
Apply(r) ==
    LET evt == ParseWebhook(r) IN
    \E i \in PaymentIds :
        /\ payment[i] # NoRow
        /\ payment[i].provider = r.provider
        /\ payment[i].order = evt.order
        /\ HandleWebhook(i, evt.id, evt.status)

\* The report is applied; its answer arrives or is lost.
Accept(r) ==
    /\ Apply(r)
    /\ Observe
    /\ answered' \in {answered, answered \cup ({r} \cap PaymentReports)}
    /\ UNCHANGED <<transaction, sent>>

\* Mutant: a report whose identifier is recorded is answered with success.
AnswerRepetition(r) ==
    /\ Recorded(r)
    /\ answered' = answered \cup ({r} \cap PaymentReports)
    /\ UNCHANGED <<hvars, transaction, sent>>

\* The identifier is recorded already: the INSERT violates the unique index,
\* PostgreSQL fails every later statement of the transaction, the audit row
\* included, and the request is answered with an error.
RefuseRepetition(r) ==
    /\ Recorded(r)
    /\ UNCHANGED dvars

\* Reports stay on the way: any of them may arrive again.
Deliver(r) ==
    /\ r \in sent
    /\ Accept(r) \/ RefuseRepetition(r)

-----------------------------------------------------------------------------
DInit ==
    /\ HInit
    /\ transaction = [t \in Transactions |-> NoRow]
    /\ sent = {}
    /\ answered = {}

ShopStep ==
    /\ \/ AdminStep
       \/ CustomerStep
       \/ \E provider \in Providers : Restart(provider)
    /\ Observe
    /\ UNCHANGED world

DNext ==
    \/ ShopStep
    \/ \E t \in Transactions :
          \/ \E i \in PaymentIds : OpenTransaction(t, i)
          \/ \E phase \in Phase : MoveTransaction(t, phase)
          \/ \E word \in Vocabulary, id \in ReportIds \cup {NoId} : SendReport(t, word, id)
    \/ \E r \in sent : Deliver(r)

DSpec == DInit /\ [][DNext]_dvars

\* A provider repeats a report until it is answered.
DFairSpec == DSpec /\ \A r \in PaymentReports : WF_dvars(Deliver(r))

-----------------------------------------------------------------------------
(***************************************************************************)
(* Properties.                                                             *)
(***************************************************************************)

PaidAt(provider, o) ==
    \E i \in PaymentIds : /\ payment[i] # NoRow
                          /\ payment[i].provider = provider
                          /\ payment[i].order = o
                          /\ payment[i].status = "PAID"

\* A payment is PAID only if the provider took the money of a transaction of
\* that order: not while it is open, and not while a card is challenged,
\* whatever the provider called it (internal/payment/providers.go:53-56).
PaidOnlyIfMoneyTaken ==
    \A i \in PaymentIds :
        (payment[i] # NoRow /\ payment[i].status = "PAID") =>
            \E t \in Transactions : /\ transaction[t] # NoRow
                                    /\ transaction[t].provider = payment[i].provider
                                    /\ transaction[t].order = payment[i].order
                                    /\ transaction[t].phase = "taken"

\* When a report of payment is answered with success, the provider need not
\* repeat it: the payment is paid, unless the order was cancelled.  A report
\* that is taken for a repetition is never answered so
\* (internal/payment/service.go:120-123).
AnsweredReportIsApplied ==
    \A r \in answered :
        "CANCELLED" \notin past[r.order] => PaidAt(r.provider, r.order)

\* What a report of payment is to bring about: the payment is paid, unless the
\* order was cancelled or, at Midtrans, another report of the same transaction
\* came first and took its identifier.
Arrived(r) ==
    \/ PaidAt(r.provider, r.order)
    \/ "CANCELLED" \in past[r.order]
    \/ /\ r.provider = "midtrans"
       /\ \E e \in event : e.id = r.id /\ e.provider = r.provider /\ e.status # "PAID"

\* A report of payment reaches its order in the end, in whatever order the
\* reports come (internal/payment/providers.go:57).
ReportedMoneyArrives ==
    \A r \in PaymentReports : r \in sent ~> Arrived(r)

\* Nothing refuses the report: its identifier is new, and a payment has its
\* reference.
Applicable(r) ==
    /\ ~Recorded(r)
    /\ \E i \in PaymentIds : /\ FirstByReference(i)
                             /\ payment[i].provider = r.provider
                             /\ payment[i].order = r.order

-----------------------------------------------------------------------------
(***************************************************************************)
(* What they need to be inductive, together with the invariants of the     *)
(* store and of its observer.                                              *)
(***************************************************************************)

WorldOK ==
    /\ transaction \in [Transactions -> Transaction \cup {NoRow}]
    /\ sent \subseteq Payload
    /\ answered \subseteq PaymentReports

\* A report is about a transaction, names it or nothing, and speaks of
\* payment only when the money was taken.
ReportsAreTrue ==
    \A r \in sent : \E t \in Transactions :
        /\ transaction[t] # NoRow
        /\ transaction[t].provider = r.provider
        /\ transaction[t].order = r.order
        /\ r.id \in IdsFor(t, r.status)
        /\ Pays(r) => transaction[t].phase = "taken"

\* The reference of a transaction is that of a payment.
TransactionsHavePayments ==
    \A t \in Transactions : transaction[t] # NoRow =>
        \E i \in PaymentIds : /\ payment[i] # NoRow
                              /\ payment[i].provider = transaction[t].provider
                              /\ payment[i].order = transaction[t].order

\* What the store has recorded was reported.
EventsWereReported ==
    \A e \in event : \E r \in sent :
        /\ e.provider = r.provider
        /\ e.order = r.order
        /\ e.id = ParseWebhook(r).id
        /\ e.status = ParseWebhook(r).status

\* What was answered with success is recorded.
AnswersAreRecorded ==
    \A r \in answered : \E e \in event :
        e.provider = r.provider /\ e.order = r.order /\ e.status = "PAID"

DInv ==
    /\ WorldOK
    /\ ReportsAreTrue
    /\ TransactionsHavePayments
    /\ EventsWereReported
    /\ AnswersAreRecorded
    /\ PaidOnlyIfMoneyTaken
=============================================================================
