------------------------------ MODULE Aftermath ------------------------------
(***************************************************************************)
(* What happens to captured money: refunds (Refunds), disputes             *)
(* (payments/disputes/disputes.service.ts), orders paid in several parts   *)
(* at once (payments/splits/split.service.ts), and the figures reported    *)
(* from the same rows (finance/finance.service.ts).  No handler inserts a  *)
(* dispute; those here come from outside (Raise).                          *)
(***************************************************************************)
EXTENDS Refunds, PaymentAccounting

CONSTANTS
    DisputeIds,    \* the dispute ids (UUIDs, so finitely many)
    SplitKeys,     \* the Idempotency-Key header values of split payments
    Part,          \* [SplitKeys \X {0, 1} -> Keys], the text key-part-index
    PartAmounts,   \* the amounts of parts
    MaxCalls       \* a bound: how many calls about disputes arrive

ASSUME AftermathAssumption ==
    /\ IsFiniteSet(DisputeIds)
    /\ SplitKeys \subseteq Keys
    /\ Part \in [SplitKeys \X {0, 1} -> Keys \ SplitKeys]
    /\ \A a, b \in SplitKeys \X {0, 1} : Part[a] = Part[b] => a = b
    /\ PartAmounts \subseteq Amounts
    /\ MaxCalls \in Nat

VARIABLES
    dispute,       \* [DisputeIds -> DisputeRow], the table disputes, committed
    responding,    \* disputes respondToDispute has read PENDING and not updated
    calls          \* calls about disputes so far

disputeVars == <<dispute, responding, calls>>
aftermathVars == <<refundsVars, disputeVars>>

\* The enum dispute_status, and "NONE" for an id no row has been inserted for.
DisputeStatus == {"NONE", "PENDING", "WON", "LOST"}

\* `evidence`: evidence_text and evidence_url have been written.
DisputeRow == [status : DisputeStatus, payment : Payments \cup {NoPayment},
               amount : Nat, evidence : BOOLEAN]

Unraised == [status |-> "NONE", payment |-> NoPayment, amount |-> 0, evidence |-> FALSE]
-----------------------------------------------------------------------------
(* disputes.service.ts *)

\* The card scheme disputes part or all of a captured payment.
Raise(x, p, amount) ==
    /\ dispute[x].status = "NONE"
    /\ Refundable(payment[p])
    /\ amount =< payment[p].amount
    /\ dispute' = [dispute EXCEPT ![x] = [Unraised EXCEPT !.status = "PENDING",
                                              !.payment = p, !.amount = amount]]
    /\ UNCHANGED <<rowVars, refund, job, unmoved, responding, calls>>

\* respondToDispute: findOne, the check ...
RespondSelect(x) ==
    /\ calls < MaxCalls
    /\ calls' = calls + 1
    /\ dispute[x].status = "PENDING"
    /\ responding' = responding \cup {x}
    /\ UNCHANGED <<rowVars, refund, job, unmoved, dispute>>

\* ... and an UPDATE that does not repeat it.
RespondWrite(x) ==
    /\ x \in responding
    /\ dispute' = [dispute EXCEPT ![x].evidence = TRUE]
    /\ responding' = responding \ {x}
    /\ UNCHANGED <<rowVars, refund, job, unmoved, calls>>

\* Mutant of Decide: a WON dispute gives the payment its status back.
DecideRestores(x, to) ==
    /\ dispute[x].status # "NONE"
    /\ calls < MaxCalls
    /\ calls' = calls + 1
    /\ dispute' = [dispute EXCEPT ![x].status = to]
    /\ LET p == dispute[x].payment
       IN  CASE to = "LOST" ->
                  /\ JobMayWrite(p)
                  /\ payment' = [payment EXCEPT ![p].status = "VOIDED"]
                  /\ ledger' = [ledger EXCEPT ![p] = Append(@, Posting("VOIDED", -dispute[x].amount))]
             [] to = "WON" ->
                  payment' = [payment EXCEPT ![p].status = "CAPTURED"] /\ UNCHANGED ledger
             [] OTHER -> UNCHANGED <<payment, ledger>>
    /\ UNCHANGED <<txn, refund, job, unmoved, responding>>

(***************************************************************************)
(* updateDisputeStatus, one transaction that decides nothing on what it    *)
(* has read: whatever the dispute and its payment were, a LOST one voids   *)
(* the payment and posts its amount.                                       *)
(***************************************************************************)
Decide(x, to) ==
    /\ dispute[x].status # "NONE"
    /\ calls < MaxCalls
    /\ calls' = calls + 1
    /\ dispute' = [dispute EXCEPT ![x].status = to]
    /\ LET p == dispute[x].payment
       IN  IF to = "LOST"
           THEN /\ JobMayWrite(p)
                /\ payment' = [payment EXCEPT ![p].status = "VOIDED"]
                /\ ledger' = [ledger EXCEPT ![p] = Append(@, Posting("VOIDED", -dispute[x].amount))]
           ELSE UNCHANGED <<payment, ledger>>
    /\ UNCHANGED <<txn, refund, job, unmoved, responding>>
-----------------------------------------------------------------------------
(* split.service.ts: processSplitTender with two parts. *)

\* The rows are looked up by the bare key, which no part is stored under.
SplitLookup(j, key, first, second) ==
    /\ job[j].step = "new"
    /\ IF key # NoKey /\ \E q \in Payments : payment[q].key = key
       THEN End(j)
       ELSE job' = [job EXCEPT ![j] = [Rest("selected") EXCEPT !.op = "split", !.key = key,
                                           !.amount = first, !.seen = second]]
    /\ UNCHANGED <<rowVars, refund, unmoved>>

PartKey(key, i) == IF key = NoKey THEN NoKey ELSE Part[<<key, i>>]

\* A part is CAPTURED at once, with no fees.
PartRow(amount, key) == [NewRow(amount, "IN_PERSON", key) EXCEPT !.status = "CAPTURED"]

\* Mutant of PartTaken: only the bare key is unique, and no part has it.
BareKeyTaken(j) == KeyTaken(job[j].key)

\* payments.idempotency_key is UNIQUE.
PartTaken(j) == \E i \in {0, 1} : KeyTaken(PartKey(job[j].key, i))

\* Mutant of SplitInsert: no transaction, and it dies after the first part.
SplitInsertFirst(j, p, q) ==
    /\ JobAt(j, "split", "selected")
    /\ p # q /\ ~Exists(p) /\ ~Exists(q)
    /\ ~PartTaken(j)
    /\ payment' = [payment EXCEPT ![p] = PartRow(job[j].amount, PartKey(job[j].key, 0))]
    /\ ledger' = [ledger EXCEPT ![p] = <<Posting("CAPTURED", job[j].amount)>>]
    /\ End(j)
    /\ UNCHANGED <<txn, refund, unmoved>>

\* One transaction: both rows and both ledger entries.
SplitInsert(j, p, q) ==
    /\ JobAt(j, "split", "selected")
    /\ p # q /\ ~Exists(p) /\ ~Exists(q)
    /\ ~PartTaken(j)
    /\ payment' = [payment EXCEPT ![p] = PartRow(job[j].amount, PartKey(job[j].key, 0)),
                                  ![q] = PartRow(job[j].seen, PartKey(job[j].key, 1))]
    /\ ledger' = [ledger EXCEPT ![p] = <<Posting("CAPTURED", job[j].amount)>>,
                                ![q] = <<Posting("CAPTURED", job[j].seen)>>]
    /\ End(j)
    /\ UNCHANGED <<txn, refund, unmoved>>

\* The unique violation answers a retry: with an error, not with the first rows.
SplitConflict(j) ==
    /\ JobAt(j, "split", "selected")
    /\ PartTaken(j)
    /\ End(j)
    /\ UNCHANGED <<rowVars, refund, unmoved>>
-----------------------------------------------------------------------------
AftermathInit ==
    /\ RefundsInit
    /\ dispute = [x \in DisputeIds |-> Unraised]
    /\ responding = {}
    /\ calls = 0

SplitStep ==
    \E j \in Jobs :
       \/ \E k \in SplitKeys \cup {NoKey}, a, b \in PartAmounts : SplitLookup(j, k, a, b)
       \/ \E p, q \in Payments : SplitInsert(j, p, q)
       \/ SplitConflict(j)

DisputeStep ==
    \E x \in DisputeIds :
       \/ \E p \in Payments, a \in Amounts : Raise(x, p, a)
       \/ RespondSelect(x)
       \/ RespondWrite(x)
       \/ \E to \in DisputeStatus \ {"NONE"} : Decide(x, to)

AftermathNext ==
    /\ \/ ClientStep /\ UNCHANGED <<refund, job, unmoved, disputeVars>>
       \/ (RefundStep \/ SplitStep) /\ UNCHANGED disputeVars
       \/ DisputeStep
       \/ RefundsQuiescent /\ UNCHANGED disputeVars
    /\ raced' = raced \cup Contested'

AftermathSpec == AftermathInit /\ [][AftermathNext]_aftermathVars
-----------------------------------------------------------------------------
(* The figures reported *)

Volume(statuses) ==
    SumFunctionOnSet([p \in Payments |-> payment[p].amount],
                     {p \in Payments : payment[p].status \in statuses})

\* Mutant of GrossVolume: a partly refunded payment is left out altogether, as it
\* is in ReportsService.
GrossOfCaptured == Volume({"CAPTURED"})

GrossVolume == Volume({"CAPTURED", "PARTIALLY_REFUNDED"})

TotalRefunded ==
    SumFunctionOnSet(RefundAmount, {x \in RefundIds : refund[x].status = "COMPLETED"})

\* getCompanyWideRevenue, of all dates.
NetRevenue == GrossVolume - TotalRefunded

\* What the ledger says came in, less what went out.
LedgerNet == SumFunction([p \in Payments |-> Total(p, {"CAPTURED", "REFUNDED"})])
-----------------------------------------------------------------------------
(* Properties *)

AftermathTypeOK ==
    /\ RefundsTypeOK
    /\ dispute \in [DisputeIds -> DisputeRow]
    /\ responding \subseteq DisputeIds
    /\ calls \in 0 .. MaxCalls

(***************************************************************************)
(* The ledger follows the money that goes back: its REFUNDED entries are   *)
(* the completed refunds, unless two requests worked on the payment        *)
(* together, and every lost dispute's amount is among its VOIDED entries,  *)
(* whatever else is decided, refunded or reversed beside it                *)
(* (refunds.service.ts:158, disputes.service.ts:102).                      *)
(***************************************************************************)
LedgerFollowsReturns ==
    \A p \in Payments :
        /\ p \notin raced => Total(p, {"REFUNDED"}) = -SumRefunds(p, {"COMPLETED"})
        /\ Total(p, {"VOIDED"}) =<
               -SumFunctionOnSet([x \in DisputeIds |-> dispute[x].amount],
                    {x \in DisputeIds : dispute[x].payment = p /\ dispute[x].status = "LOST"})

(***************************************************************************)
(* A split that is retried, or raced by its retry, is charged once: the    *)
(* parts of one key are there together or not at all, each once, although  *)
(* the lookup by the bare key never finds them (split.service.ts:27).      *)
(***************************************************************************)
SplitChargedOnce ==
    \A k \in SplitKeys :
        LET parts(i) == {p \in Payments : payment[p].key = Part[<<k, i>>]}
        IN  Cardinality(parts(0)) = Cardinality(parts(1)) /\ Cardinality(parts(0)) =< 1

(***************************************************************************)
(* Net revenue is what the ledger says came in less what was refunded      *)
(* (finance.service.ts:121), as long as nobody worked on a payment         *)
(* together with another, and no payment is REFUNDED or VOIDED: the report *)
(* subtracts the refunds of such a payment and leaves out its amount.      *)
(***************************************************************************)
NetRevenueIsLedgerNet ==
    raced = {} /\ Volume({"REFUNDED", "VOIDED"}) = 0 => NetRevenue = LedgerNet
=============================================================================
