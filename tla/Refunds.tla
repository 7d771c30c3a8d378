------------------------------- MODULE Refunds -------------------------------
(***************************************************************************)
(* payments/refunds/refunds.service.ts beside the handlers of              *)
(* PaymentLifecycle.  issueRefund and updateRefundStatus each run one      *)
(* transaction of several SELECTs without a lock; `job` keeps what a       *)
(* running one has read.  issueRefund inserts its refund COMPLETED.  No    *)
(* handler inserts a PENDING one (the column's default): those that        *)
(* updateRefundStatus works on come from outside (RequestRefund).          *)
(***************************************************************************)
EXTENDS PaymentLifecycle, Functions

CONSTANTS
    Jobs,          \* the calls of these handlers, each at most once
    RefundIds,     \* the refund ids (UUIDs, so finitely many)
    NoRefund       \* the refund of a job that has none

ASSUME RefundsAssumption ==
    /\ NoRefund \notin RefundIds
    /\ IsFiniteSet(RefundIds)
    /\ Jobs \cap Requests = {}

VARIABLES
    refund,        \* [RefundIds -> RefundRow], the table refunds, committed
    job,           \* [Jobs -> Job]
    raced,         \* history: payments two requests worked on at the same time
    unmoved        \* history: payments issueRefund was the last to refund

refundVars == <<refund, job, raced, unmoved>>
refundsVars == <<rowVars, refundVars>>

\* The enum refund_status, and "NONE" for an id no row has been inserted for.
RefundStatus == {"NONE", "PENDING", "COMPLETED", "FAILED"}

RefundRow == [status : RefundStatus, payment : Payments \cup {NoPayment}, amount : Nat]

Unissued == [status |-> "NONE", payment |-> NoPayment, amount |-> 0]

JobOps == {"none", "issue", "status", "split"}
JobSteps == {"new", "selected", "summed", "done"}

\* `amount` is the one asked for, `seen` the payment's when it was read, `covers`
\* whether the sum that was read reaches it, `to` the refund status asked for.
\* (A split of module Aftermath keeps its two parts in `amount` and `seen`.)
Job == [op : JobOps, step : JobSteps, on : Payments \cup {NoPayment},
        refund : RefundIds \cup {NoRefund}, seen : Nat, amount : Nat,
        covers : BOOLEAN, to : RefundStatus, key : Keys \cup {NoKey}]

Rest(step) == [op |-> "none", step |-> step, on |-> NoPayment, refund |-> NoRefund,
               seen |-> 0, amount |-> 0, covers |-> FALSE, to |-> "NONE", key |-> NoKey]

End(j) == job' = [job EXCEPT ![j] = Rest("done")]

JobAt(j, op, step) == job[j].op = op /\ job[j].step = step

\* Requests and jobs that have read payment p and not ended.
Workers(p) == {r \in Requests : txn[r].on = p} \cup {j \in Jobs : job[j].on = p}

Contested == {p \in Payments : \E a, b \in Workers(p) : a # b}

\* A job's UPDATE of p, or its foreign key check, waits for FOR UPDATE.
JobMayWrite(p) == \A r \in Requests : ~HoldsForUpdate(r, p)

RefundAmount == [x \in RefundIds |-> refund[x].amount]

RefundsOf(p, statuses) ==
    {x \in RefundIds : refund[x].payment = p /\ refund[x].status \in statuses}

\* SUM(amount) of the refunds of p that have one of the statuses.
SumRefunds(p, statuses) == SumFunctionOnSet(RefundAmount, RefundsOf(p, statuses))

Refundable(row) == row.status \in {"CAPTURED", "PARTIALLY_REFUNDED"}
-----------------------------------------------------------------------------
(* issueRefund *)

IssueSelect(j, p, amount) ==
    /\ job[j].step = "new"
    /\ Exists(p)
    /\ IF Refundable(payment[p])
       THEN job' = [job EXCEPT ![j] = [Rest("selected") EXCEPT !.op = "issue", !.on = p,
                                           !.seen = payment[p].amount, !.amount = amount]]
       ELSE End(j)
    /\ UNCHANGED <<rowVars, refund, unmoved>>

\* Mutant of Remaining: refunds that are still PENDING are not counted.
RemainingAfterCompleted(j) == job[j].seen - SumRefunds(job[j].on, {"COMPLETED"})

Remaining(j) == job[j].seen - SumRefunds(job[j].on, {"PENDING", "COMPLETED"})

IssueSum(j) ==
    /\ JobAt(j, "issue", "selected")
    /\ IF job[j].amount > Remaining(j)
       THEN End(j)
       ELSE job' = [job EXCEPT ![j].step = "summed"]
    /\ UNCHANGED <<rowVars, refund, unmoved>>

\* The refund is COMPLETED at once; the payment's status is left alone.
IssueWrite(j, x) ==
    /\ JobAt(j, "issue", "summed")
    /\ refund[x].status = "NONE"
    /\ LET p == job[j].on
       IN  /\ JobMayWrite(p)
           /\ refund' = [refund EXCEPT ![x] = [status |-> "COMPLETED", payment |-> p,
                                               amount |-> job[j].amount]]
           /\ ledger' = [ledger EXCEPT ![p] = Append(@, Posting("REFUNDED", -job[j].amount))]
           /\ unmoved' = unmoved \cup {p}
    /\ End(j)
    /\ UNCHANGED <<payment, txn>>
-----------------------------------------------------------------------------
(* updateRefundStatus *)

\* Mutant of Terminal: a FAILED refund may be tried again.
TerminalCompleted(status) == status = "COMPLETED"

\* "Once completed or failed, it's terminal"
Terminal(status) == status \in {"COMPLETED", "FAILED"}

StatusSelect(j, x, to) ==
    /\ job[j].step = "new"
    /\ refund[x].status # "NONE"
    /\ IF refund[x].status = to \/ Terminal(refund[x].status)
       THEN End(j)
       ELSE job' = [job EXCEPT ![j] = [Rest("selected") EXCEPT !.op = "status",
                        !.on = refund[x].payment, !.refund = x, !.to = to,
                        !.amount = refund[x].amount]]
    /\ UNCHANGED <<rowVars, refund, unmoved>>

\* Another transaction has updated refund x and not yet committed.
RefundLocked(x) == \E j \in Jobs : JobAt(j, "status", "summed") /\ job[j].refund = x

\* The UPDATE of the refund; unless it is now COMPLETED, that is all.
StatusFail(j) ==
    /\ JobAt(j, "status", "selected")
    /\ job[j].to # "COMPLETED"
    /\ ~RefundLocked(job[j].refund)
    /\ refund' = [refund EXCEPT ![job[j].refund].status = job[j].to]
    /\ End(j)
    /\ UNCHANGED <<rowVars, unmoved>>

\* SUM(amount) of the COMPLETED refunds, the one just updated among them.
TotalCompleted(j) ==
    SumRefunds(job[j].on, {"COMPLETED"})
        + (IF refund[job[j].refund].status = "COMPLETED" THEN 0 ELSE job[j].amount)

\* Mutant of Covers: a remaining balance of one smallest unit is forgotten.
CoversNearly(j) == TotalCompleted(j) + 1 >= payment[job[j].on].amount

Covers(j) == TotalCompleted(j) >= payment[job[j].on].amount

\* The UPDATE of the refund to COMPLETED, which keeps its row until COMMIT, the
\* SELECT of the payment, the ledger entry, and the sum.
StatusSum(j) ==
    /\ JobAt(j, "status", "selected")
    /\ job[j].to = "COMPLETED"
    /\ ~RefundLocked(job[j].refund)
    /\ JobMayWrite(job[j].on)
    /\ job' = [job EXCEPT ![j].step = "summed", ![j].covers = Covers(j)]
    /\ UNCHANGED <<rowVars, refund, unmoved>>

\* Mutant of StatusComplete: the ledger entry is forgotten.
StatusCompleteUnposted(j) ==
    /\ JobAt(j, "status", "summed")
    /\ JobMayWrite(job[j].on)
    /\ refund' = [refund EXCEPT ![job[j].refund].status = "COMPLETED"]
    /\ payment' = [payment EXCEPT ![job[j].on].status =
                      IF job[j].covers THEN "REFUNDED" ELSE "PARTIALLY_REFUNDED"]
    /\ unmoved' = unmoved \ {job[j].on}
    /\ End(j)
    /\ UNCHANGED <<ledger, txn>>

\* The UPDATE of the payment, whatever its status, and COMMIT.
StatusComplete(j) ==
    /\ JobAt(j, "status", "summed")
    /\ LET p == job[j].on
       IN  /\ JobMayWrite(p)
           /\ refund' = [refund EXCEPT ![job[j].refund].status = "COMPLETED"]
           /\ payment' = [payment EXCEPT ![p].status =
                             IF job[j].covers THEN "REFUNDED" ELSE "PARTIALLY_REFUNDED"]
           /\ ledger' = [ledger EXCEPT ![p] = Append(@, Posting("REFUNDED", -job[j].amount))]
           /\ unmoved' = unmoved \ {p}
    /\ End(j)
    /\ UNCHANGED txn
-----------------------------------------------------------------------------
\* A PENDING refund that was inserted from outside, within what is left of a
\* payment nobody is working on.
RequestRefund(x, p, amount) ==
    /\ refund[x].status = "NONE"
    /\ Refundable(payment[p])
    /\ Workers(p) = {}
    /\ amount + SumRefunds(p, {"PENDING", "COMPLETED"}) =< payment[p].amount
    /\ refund' = [refund EXCEPT ![x] = [status |-> "PENDING", payment |-> p, amount |-> amount]]
    /\ UNCHANGED <<rowVars, job, unmoved>>

JobFails(j) ==
    /\ job[j].step \in {"selected", "summed"}
    /\ End(j)
    /\ UNCHANGED <<rowVars, refund, unmoved>>

RefundsInit ==
    /\ RowsInit
    /\ refund = [x \in RefundIds |-> Unissued]
    /\ job = [j \in Jobs |-> Rest("new")]
    /\ raced = {}
    /\ unmoved = {}

RefundStep ==
    \/ \E j \in Jobs :
          \/ \E p \in Payments, a \in Amounts : IssueSelect(j, p, a)
          \/ IssueSum(j)
          \/ \E x \in RefundIds :
                \/ IssueWrite(j, x)
                \/ \E to \in RefundStatus \ {"NONE"} : StatusSelect(j, x, to)
          \/ StatusFail(j)
          \/ StatusSum(j)
          \/ StatusComplete(j)
          \/ JobFails(j)
    \/ \E x \in RefundIds, p \in Payments, a \in Amounts : RequestRefund(x, p, a)

\* Whatever was begun has been answered: the end of a behaviour, not a deadlock.
RefundsQuiescent ==
    /\ InFlight = {}
    /\ \A j \in Jobs : job[j].step \in {"new", "done"}
    /\ UNCHANGED <<rowVars, refund, job, unmoved>>

\* raced remembers every payment that was contested.
RefundsNext ==
    /\ \/ ClientStep /\ UNCHANGED <<refund, job, unmoved>>
       \/ RefundStep
       \/ RefundsQuiescent
    /\ raced' = raced \cup Contested'

RefundsSpec == RefundsInit /\ [][RefundsNext]_refundsVars
-----------------------------------------------------------------------------
(* Properties *)

RefundsTypeOK ==
    /\ TypeOK
    /\ refund \in [RefundIds -> RefundRow]
    /\ job \in [Jobs -> Job]
    /\ raced \subseteq Payments
    /\ unmoved \subseteq Payments

(***************************************************************************)
(* No more is refunded than the payment was, counting refunds still        *)
(* PENDING, unless two requests worked on the payment together             *)
(* (refunds.service.ts:41-56: both sum, and both find enough left).        *)
(***************************************************************************)
RefundsWithinPayment ==
    \A p \in Payments \ raced :
        SumRefunds(p, {"PENDING", "COMPLETED"}) =< payment[p].amount

(***************************************************************************)
(* Once updateRefundStatus has refunded a payment its status says whether  *)
(* all of it was paid back (refunds.service.ts:178), unless two requests   *)
(* worked on it together, or issueRefund, which leaves the status alone,   *)
(* refunded more since.                                                    *)
(***************************************************************************)
StatusTellsRefunds ==
    \A p \in Payments \ (raced \cup unmoved) :
        /\ payment[p].status = "REFUNDED" => SumRefunds(p, {"COMPLETED"}) = payment[p].amount
        /\ payment[p].status = "PARTIALLY_REFUNDED" =>
               SumRefunds(p, {"COMPLETED"}) \in 1 .. payment[p].amount - 1
        /\ Captured(payment[p]) => SumRefunds(p, {"COMPLETED"}) = 0

(***************************************************************************)
(* refunds.service.ts:128, "Once completed or failed, it's terminal": a    *)
(* completed refund never becomes another, and a failed one never moves    *)
(* the money, unless two requests worked on its payment together.          *)
(***************************************************************************)
TerminalRefundIsFinal ==
    [][\A x \in RefundIds :
          refund[x].status \in {"COMPLETED", "FAILED"} /\ refund[x].payment \notin raced'
              => refund'[x] = refund[x]]_refundsVars

(***************************************************************************)
(* Money given up stays given up: a VOIDED payment gets another status     *)
(* only by the completion of a refund that was still PENDING, which looks  *)
(* at no status, unless two requests worked on it together.                *)
(***************************************************************************)
OnlyRefundsRevive ==
    [][\A p \in Payments :
          payment[p].status = "VOIDED" /\ payment'[p].status # "VOIDED" /\ p \notin raced'
              => \E x \in RefundIds : /\ refund[x].payment = p
                                      /\ refund[x].status = "PENDING"
                                      /\ refund'[x].status = "COMPLETED"]_refundsVars
=============================================================================
