---------------------------- MODULE AftermathProofs ----------------------------
(***************************************************************************)
(* Theorems about Aftermath: types; that a decided refund is final and     *)
(* only a refund revives a voided payment; and, from what the rows, the    *)
(* clients and the jobs know of each other (SInv) and what the sums come   *)
(* to (MInv), that refunds stay within their payment, statuses tell them,  *)
(* the ledger follows them, net revenue is the ledger's, and a split is    *)
(* charged once.                                                           *)
(***************************************************************************)
EXTENDS Aftermath, PaymentLifecycleProofs

-----------------------------------------------------------------------------
(* Types of the payment tables, which the steps of Aftermath change in ways *)
(* the invariant of PaymentLifecycleProofs does not allow                   *)

\* A commit on a row that is there, or nowhere, keeps the tables typed.
LEMMA CommitTypes ==
    ASSUME TypeOK, NEW r \in Requests, NEW p, NEW row, NEW entries,
           Commit(r, p, row, entries),
           p \in Payments => row \in Row /\ entries \in Seq(Entry)
    PROVE  TypeOK' /\ Finish(r)
  <1>1. Finish(r)
    BY DEF Commit
  <1>2. txn' \in [Requests -> Txn]
    BY <1>1, ResultsAreTyped DEF Finish, TypeOK, Steps
  <1>3. CASE p \in Payments
    <2>1. ledger[p] \o entries \in Seq(Entry)
      BY <1>3, ConcatProperties DEF TypeOK
    <2> QED
      BY <1>1, <1>2, <1>3, <2>1 DEF TypeOK, Commit
  <1>4. CASE p \notin Payments
    BY <1>1, <1>2, <1>4 DEF TypeOK, Commit
  <1> QED
    BY <1>3, <1>4

LEMMA EndTypes ==
    ASSUME TypeOK, NEW r \in Requests, Finish(r), UNCHANGED <<payment, ledger>>
    PROVE  TypeOK'
  BY ResultsAreTyped DEF Finish, TypeOK, Steps

LEMMA BeginTypes ==
    ASSUME TypeOK, NEW r \in Requests, NEW rec \in Txn, txn' = [txn EXCEPT ![r] = rec],
           UNCHANGED <<payment, ledger>>
    PROVE  TypeOK'
  BY DEF TypeOK

LEMMA SelectTypes ==
    ASSUME TypeOK, NEW r \in Requests, NEW op \in Ops, NEW p \in Payments, NEW arg \in Nat, NEW admitted,
           Select(r, op, p, arg, admitted)
    PROVE  TypeOK'
  <1> DEFINE rec == [op |-> op, step |-> "selected", on |-> p, seen |-> payment[p], arg |-> arg]
  <1>1. rec \in Txn
    BY DEF TypeOK, Txn, Steps
  <1>2. UNCHANGED <<payment, ledger>> /\ (txn' = [txn EXCEPT ![r] = rec] \/ Finish(r))
    BY DEF Select, Begin
  <1> QED
    BY <1>1, <1>2, BeginTypes, EndTypes

LEMMA ReadTypes ==
    ASSUME TypeOK, NEW r \in Requests, Read(r)
    PROVE  TypeOK'
  <1>1. ASSUME NEW a \in Amounts, NEW c \in Channel, NEW k \in Keys \cup {NoKey},
               CreateLookup(r, a, c, k)
        PROVE  TypeOK'
    <2> DEFINE rec == [op |-> "create", step |-> "selected", on |-> NoPayment,
                       seen |-> NewRow(a, c, k), arg |-> 0]
    <2>1. NewRow(a, c, k) \in Row
      BY PaymentTypesAssumption DEF NewRow, Unwritten, Row, Status
    <2>2. rec \in Txn
      BY <2>1 DEF Txn, Steps, Ops
    <2>3. UNCHANGED <<payment, ledger>> /\ (txn' = [txn EXCEPT ![r] = rec] \/ Finish(r))
      BY <1>1 DEF CreateLookup
    <2> QED
      BY <2>2, <2>3, BeginTypes, EndTypes
  <1>2. ASSUME NEW p \in Payments, LockedCaptureSelect(r, p)
        PROVE  TypeOK'
    <2> DEFINE rec == [op |-> "captureLocked", step |-> "locked", on |-> p, seen |-> payment[p], arg |-> 0]
    <2>1. rec \in Txn
      BY DEF TypeOK, Txn, Steps, Ops
    <2>2. UNCHANGED <<payment, ledger>> /\ (txn' = [txn EXCEPT ![r] = rec] \/ Finish(r))
      BY <1>2 DEF LockedCaptureSelect, SelectForUpdate, Begin
    <2> QED
      BY <2>1, <2>2, BeginTypes, EndTypes
  <1>3. \A op \in {"edit", "cancel", "captureCash", "captureCard", "cancelUncaptured", "reverse", "tip", "cancelSession"} : op \in Ops
    BY DEF Ops
  <1>4. 0 \in Nat /\ Amounts \subseteq Nat
    BY PaymentTypesAssumption
  <1>5. ASSUME NEW p \in Payments,
               \/ \E a \in Amounts : EditSelect(r, p, a)
               \/ \E t \in Amounts \cup {0} : TipSelect(r, p, t)
        PROVE  TypeOK'
    BY <1>3, <1>4, <1>5, SelectTypes DEF EditSelect, TipSelect
  <1>6. ASSUME NEW p \in Payments,
               \/ CancelSelect(r, p) \/ CashSelect(r, p) \/ CardSelect(r, p)
               \/ CancelUncapturedSelect(r, p) \/ ReverseSelect(r, p) \/ CancelSessionSelect(r, p)
        PROVE  TypeOK'
    BY <1>3, <1>4, <1>6, SelectTypes
       DEF CancelSelect, CashSelect, CardSelect, CancelUncapturedSelect, ReverseSelect, CancelSessionSelect
  <1> QED
    BY <1>1, <1>2, <1>5, <1>6 DEF Read

LEMMA WriteTypes ==
    ASSUME TypeOK, NEW r \in Requests, Write(r)
    PROVE  TypeOK'
  <1> DEFINE p == txn[r].on
  <1>1. txn[r] \in Txn /\ txn[r].seen \in Row /\ txn[r].arg \in Nat
        /\ txn[r].seen.amount \in Nat /\ txn[r].seen.tip \in Nat
    BY DEF TypeOK, Txn, Row
  <1>2. \A type \in EntryType, amount \in Int : <<Posting(type, amount)>> \in Seq(Entry)
    BY PostingIsEntry
  <1>3. <<>> \in Seq(Entry)
    OBVIOUS
  <1>4. p \in Payments =>
           /\ [payment[p] EXCEPT !.amount = txn[r].arg] \in Row
           /\ [payment[p] EXCEPT !.status = "VOIDED"] \in Row
           /\ [payment[p] EXCEPT !.status = "CAPTURED"] \in Row
           /\ [SnapshotFees(payment[p]) EXCEPT !.status = "CAPTURED"] \in Row
           /\ [payment[p] EXCEPT !.tip = txn[r].arg] \in Row
    BY <1>1 DEF TypeOK, Row, Status, SnapshotFees
  <1>5. ASSUME NEW q \in Payments, CreateInsert(r, q)
        PROVE  TypeOK'
    <2>1. <<Posting("PAYMENT_CREATED", txn[r].seen.amount)>> \in Seq(Entry)
      BY <1>1, <1>2 DEF EntryType
    <2> QED
      BY <1>1, <1>5, <2>1, CommitTypes DEF CreateInsert
  <1>6. CASE CreateConflict(r)
    BY <1>6, EndTypes DEF CreateConflict
  <1>7. CASE EditWrite(r)
    BY <1>3, <1>4, <1>7, CommitTypes DEF EditWrite
  <1>8. ASSUME NEW op, WriteVoid(r, op)
        PROVE  TypeOK'
    <2>1. <<Posting("VOIDED", -txn[r].seen.amount)>> \in Seq(Entry)
      BY <1>1, <1>2 DEF EntryType
    <2> QED
      BY <1>4, <1>8, <2>1, CommitTypes DEF WriteVoid
  <1>9. CASE LockedCaptureWrite(r) \/ CashWrite(r) \/ CardWrite(r)
    <2>1. <<Posting("CAPTURED", txn[r].seen.amount)>> \in Seq(Entry)
      BY <1>1, <1>2 DEF EntryType
    <2>2. CASE LockedCaptureWrite(r)
      BY <1>4, <2>1, <2>2, CommitTypes DEF LockedCaptureWrite, CaptureWithFees
    <2>3. CASE CashWrite(r) \/ CardWrite(r)
      BY <1>4, <2>1, <2>3, CommitTypes DEF CashWrite, CardWrite, CaptureWithoutFees
    <2> QED
      BY <1>9, <2>2, <2>3
  <1>10. CASE TipWrite(r)
    <2>1. <<Posting("TIP_ADDED", txn[r].arg - txn[r].seen.tip)>> \in Seq(Entry)
      BY <1>1, <1>2 DEF EntryType
    <2> QED
      BY <1>4, <1>10, <2>1, CommitTypes DEF TipWrite
  <1> QED
    BY <1>5, <1>6, <1>7, <1>8, <1>9, <1>10
       DEF Write, CancelWrite, CancelUncapturedWrite, ReverseWrite, CancelSessionWrite

LEMMA ClientTypes ==
    ASSUME TypeOK, ClientStep
    PROVE  TypeOK'
  <1>1. PICK r \in Requests : Read(r) \/ Write(r) \/ Rollback(r)
    BY PaymentLifecycleAssumption DEF ClientStep
  <1>2. CASE Rollback(r)
    BY <1>2, EndTypes DEF Rollback
  <1> QED
    BY <1>1, <1>2, ReadTypes, WriteTypes
-----------------------------------------------------------------------------
(* The inductive invariant *)

\* A refund that is there is of a payment.
IssuedOK(x) == refund[x].status # "NONE" => refund[x].payment \in Payments

\* What a job remembers.  One that decides a refund is counted among the workers of
\* its payment, so on a payment nobody raced on the refund is PENDING still.
JobOK(rec) ==
    /\ rec.op = "issue" => rec.on \in Payments
    /\ rec.op = "split" => rec.key \in SplitKeys \cup {NoKey}
    /\ rec.op = "status" =>
          /\ rec.refund \in RefundIds /\ rec.to # "NONE"
          /\ refund[rec.refund].status # "NONE" /\ refund[rec.refund].payment = rec.on
          /\ rec.on \notin raced => refund[rec.refund].status = "PENDING"

RefundPart ==
    /\ refund \in [RefundIds -> RefundRow]
    /\ job \in [Jobs -> Job]
    /\ raced \subseteq Payments
    /\ unmoved \subseteq Payments
    /\ Contested \subseteq raced
    /\ \A x \in RefundIds : IssuedOK(x)
    /\ \A j \in Jobs : JobOK(job[j])

DisputePart ==
    /\ dispute \in [DisputeIds -> DisputeRow]
    /\ responding \subseteq DisputeIds
    /\ calls \in 0 .. MaxCalls

AInv == TypeOK /\ RefundPart /\ DisputePart

\* What every step of AftermathNext does.
Remembered == raced' = raced \cup Contested'

LEMMA RacedGrows ==
    ASSUME RefundPart, Remembered
    PROVE  raced \subseteq raced' /\ raced' \subseteq Payments /\ Contested' \subseteq raced'
  BY DEF RefundPart, Remembered, Contested

LEMMA RestIsJob == \A step \in JobSteps : Rest(step) \in Job /\ JobOK(Rest(step))
  BY DEF Rest, Job, JobOK, JobOps, RefundStatus

\* A job goes on, and the refunds stay.
LEMMA JobMoves ==
    ASSUME RefundPart, Remembered, NEW j \in Jobs, NEW rec \in Job, JobOK(rec),
           job' = [job EXCEPT ![j] = rec], UNCHANGED <<refund, unmoved>>
    PROVE  RefundPart'
  <1>1. raced \subseteq raced' /\ raced' \subseteq Payments /\ Contested' \subseteq raced'
    BY RacedGrows
  <1>2. job' \in [Jobs -> Job] /\ job'[j] = rec /\ \A k \in Jobs \ {j} : job'[k] = job[k]
    BY DEF RefundPart
  <1>3. \A x \in RefundIds : IssuedOK(x)'
    BY DEF RefundPart, IssuedOK
  <1>4. ASSUME NEW k \in Jobs
        PROVE  JobOK(job[k])'
    <2>1. JobOK(job'[k])
      BY <1>2 DEF RefundPart
    <2> QED
      BY <1>1, <2>1 DEF JobOK
  <1> QED
    BY <1>1, <1>2, <1>3, <1>4 DEF RefundPart

LEMMA JobEnds ==
    ASSUME RefundPart, Remembered, NEW j \in Jobs, End(j), UNCHANGED <<refund, unmoved>>
    PROVE  RefundPart'
  <1>1. Rest("done") \in Job /\ JobOK(Rest("done"))
    BY RestIsJob DEF JobSteps
  <1> QED
    BY <1>1, JobMoves DEF End

\* Nothing happens to refunds and jobs: a client, or a dispute.
LEMMA RefundsIdle ==
    ASSUME RefundPart, Remembered, UNCHANGED <<refund, job, unmoved>>
    PROVE  RefundPart'
  <1>1. raced \subseteq raced' /\ raced' \subseteq Payments /\ Contested' \subseteq raced'
    BY RacedGrows
  <1>2. \A x \in RefundIds : IssuedOK(x)'
    BY DEF RefundPart, IssuedOK
  <1>3. ASSUME NEW k \in Jobs
        PROVE  JobOK(job[k])'
    BY <1>1 DEF RefundPart, JobOK
  <1> QED
    BY <1>1, <1>2, <1>3 DEF RefundPart

\* A refund is inserted, where none was.
LEMMA RefundInserted ==
    ASSUME RefundPart, Remembered, NEW x \in RefundIds, NEW row \in RefundRow,
           refund[x].status = "NONE", row.payment \in Payments,
           refund' = [refund EXCEPT ![x] = row],
           UNCHANGED job \/ \E j \in Jobs : End(j),
           unmoved' \subseteq Payments
    PROVE  RefundPart'
  <1>1. raced \subseteq raced' /\ raced' \subseteq Payments /\ Contested' \subseteq raced'
    BY RacedGrows
  <1>2. refund' \in [RefundIds -> RefundRow] /\ refund'[x] = row
        /\ \A y \in RefundIds \ {x} : refund'[y] = refund[y]
    BY DEF RefundPart
  <1>3. Rest("done") \in Job /\ JobOK(Rest("done"))
    BY RestIsJob DEF JobSteps
  <1>4. job' \in [Jobs -> Job] /\ \A k \in Jobs : job'[k] = job[k] \/ job'[k] = Rest("done")
    BY <1>3 DEF RefundPart, End
  <1>5. \A y \in RefundIds : IssuedOK(y)'
    BY <1>2 DEF RefundPart, IssuedOK
  <1>6. ASSUME NEW k \in Jobs
        PROVE  JobOK(job[k])'
    <2>1. JobOK(job'[k])
      BY <1>3, <1>4 DEF RefundPart
    <2> QED
      BY <1>1, <1>2, <2>1 DEF JobOK
  <1> QED
    BY <1>1, <1>2, <1>4, <1>5, <1>6 DEF RefundPart

\* A job decides its refund.
LEMMA RefundDecided ==
    ASSUME RefundPart, Remembered, NEW j \in Jobs, job[j].op = "status",
           NEW to \in RefundStatus \ {"NONE"},
           refund' = [refund EXCEPT ![job[j].refund].status = to], End(j),
           unmoved' \subseteq Payments
    PROVE  RefundPart'
  <1> DEFINE x == job[j].refund
  <1>1. raced \subseteq raced' /\ raced' \subseteq Payments /\ Contested' \subseteq raced'
        /\ Contested \subseteq raced
    BY RacedGrows DEF RefundPart
  <1>2. x \in RefundIds /\ refund[x].status # "NONE" /\ refund[x].payment = job[j].on
    BY DEF RefundPart, JobOK
  <1>3. /\ refund' \in [RefundIds -> RefundRow]
        /\ \A y \in RefundIds \ {x} : refund'[y] = refund[y]
        /\ refund'[x].status = to /\ refund'[x].payment = refund[x].payment
    BY <1>2 DEF RefundPart, RefundRow
  <1>4. Rest("done") \in Job /\ JobOK(Rest("done")) /\ Rest("done").op = "none"
    BY RestIsJob DEF JobSteps, Rest
  <1>5. job' \in [Jobs -> Job] /\ job'[j] = Rest("done") /\ \A k \in Jobs \ {j} : job'[k] = job[k]
    BY <1>4 DEF RefundPart, End
  <1>6. \A y \in RefundIds : IssuedOK(y)'
    BY <1>2, <1>3 DEF RefundPart, IssuedOK
  <1>7. ASSUME NEW k \in Jobs
        PROVE  JobOK(job[k])'
    <2>1. CASE k = j
      BY <1>4, <1>5, <2>1 DEF JobOK, Rest
    <2>2. CASE k # j
      <3>1. JobOK(job[k]) /\ job'[k] = job[k]
        BY <1>5, <2>2 DEF RefundPart
      <3>2. CASE job[k].op # "status" \/ job[k].refund # x
        BY <1>1, <1>3, <3>1, <3>2 DEF JobOK
      <3>3. CASE job[k].op = "status" /\ job[k].refund = x
        <4>1. job[k].on = job[j].on /\ job[j].on \in Payments
          BY <1>2, <3>1, <3>3 DEF JobOK, RefundPart, IssuedOK
        <4>2. job[k].on \in raced'
          <5>1. {j, k} \subseteq Workers(job[j].on)
            BY <4>1 DEF Workers
          <5>2. job[j].on \in Contested
            BY <2>2, <4>1, <5>1 DEF Contested
          <5> QED
            BY <1>1, <4>1, <5>2
        <4> QED
          BY <1>2, <1>3, <3>1, <3>3, <4>2 DEF JobOK
      <3> QED
        BY <3>2, <3>3
    <2> QED
      BY <2>1, <2>2
  <1> QED
    BY <1>1, <1>3, <1>5, <1>6, <1>7 DEF RefundPart
-----------------------------------------------------------------------------
(* The steps *)

\* A handler that is not a client's sets a payment's status and posts one entry.
LEMMA StatusTypes ==
    ASSUME TypeOK, NEW p, NEW status \in Status, NEW type \in EntryType, NEW amount \in Int,
           payment' = [payment EXCEPT ![p].status = status] \/ UNCHANGED payment,
           ledger' = [ledger EXCEPT ![p] = Append(@, Posting(type, amount))], UNCHANGED txn
    PROVE  TypeOK'
  <1>1. CASE p \in Payments
    <2>1. Append(ledger[p], Posting(type, amount)) \in Seq(Entry)
      BY <1>1, PostingIsEntry DEF TypeOK
    <2>2. [payment[p] EXCEPT !.status = status] \in Row
      BY <1>1 DEF TypeOK, Row
    <2> QED
      BY <1>1, <2>1, <2>2 DEF TypeOK
  <1>2. CASE p \notin Payments
    BY <1>2 DEF TypeOK
  <1> QED
    BY <1>1, <1>2

LEMMA RowsIdle ==
    ASSUME TypeOK, UNCHANGED rowVars
    PROVE  TypeOK'
  BY DEF TypeOK, rowVars

LEMMA DisputesIdle ==
    ASSUME DisputePart, UNCHANGED disputeVars
    PROVE  DisputePart'
  BY DEF DisputePart, disputeVars

LEMMA IssueOK ==
    ASSUME AInv, Remembered, NEW j \in Jobs,
           \/ \E p \in Payments, a \in Amounts : IssueSelect(j, p, a)
           \/ IssueSum(j)
           \/ \E x \in RefundIds : IssueWrite(j, x)
    PROVE  TypeOK' /\ RefundPart'
  <1>1. TypeOK /\ RefundPart /\ job[j] \in Job /\ JobOK(job[j])
    BY DEF AInv, RefundPart
  <1>2. ASSUME NEW p \in Payments, NEW a \in Amounts, IssueSelect(j, p, a)
        PROVE  TypeOK' /\ RefundPart'
    <2> DEFINE rec == [Rest("selected") EXCEPT !.op = "issue", !.on = p,
                                           !.seen = payment[p].amount, !.amount = a]
    <2>1. payment[p].amount \in Nat /\ a \in Nat
      BY <1>1, PaymentTypesAssumption DEF TypeOK, Row
    <2>2. rec \in Job /\ JobOK(rec)
      BY <2>1 DEF Rest, Job, JobOps, JobSteps, RefundStatus, JobOK
    <2>3. UNCHANGED <<rowVars, refund, unmoved>> /\ (job' = [job EXCEPT ![j] = rec] \/ End(j))
      BY <1>2 DEF IssueSelect
    <2> HIDE DEF rec
    <2> QED
      BY <1>1, <2>2, <2>3, JobMoves, JobEnds, RowsIdle
  <1>3. CASE IssueSum(j)
    <2> DEFINE rec == [job[j] EXCEPT !.step = "summed"]
    <2>1. rec \in Job /\ JobOK(rec)
      BY <1>1 DEF Job, JobSteps, JobOK
    <2>2. UNCHANGED <<rowVars, refund, unmoved>> /\ (job' = [job EXCEPT ![j] = rec] \/ End(j))
      BY <1>1, <1>3 DEF IssueSum, RefundPart
    <2> HIDE DEF rec
    <2> QED
      BY <1>1, <2>1, <2>2, JobMoves, JobEnds, RowsIdle
  <1>4. ASSUME NEW x \in RefundIds, IssueWrite(j, x)
        PROVE  TypeOK' /\ RefundPart'
    <2> DEFINE p == job[j].on
               row == [status |-> "COMPLETED", payment |-> p, amount |-> job[j].amount]
    <2>1. p \in Payments /\ job[j].amount \in Nat /\ -job[j].amount \in Int
      BY <1>1, <1>4 DEF IssueWrite, JobAt, JobOK, Job
    <2>2. row \in RefundRow /\ row.payment \in Payments
      BY <2>1 DEF RefundRow, RefundStatus
    <2>3. TypeOK'
      <3>1. /\ UNCHANGED <<payment, txn>>
            /\ ledger' = [ledger EXCEPT ![p] = Append(@, Posting("REFUNDED", -job[j].amount))]
        BY <1>4 DEF IssueWrite
      <3>2. "REFUNDED" \in EntryType /\ "REFUNDED" \in Status
        BY DEF EntryType, Status
      <3> QED
        BY <1>1, <2>1, <3>1, <3>2, StatusTypes
    <2>4. unmoved' \subseteq Payments
      BY <1>1, <1>4, <2>1 DEF IssueWrite, RefundPart
    <2>5. refund[x].status = "NONE" /\ refund' = [refund EXCEPT ![x] = row] /\ End(j)
      BY <1>4 DEF IssueWrite
    <2> HIDE DEF row
    <2> QED
      BY <1>1, <2>2, <2>3, <2>4, <2>5, RefundInserted
  <1> QED
    BY <1>2, <1>3, <1>4

LEMMA DecideRefundOK ==
    ASSUME AInv, Remembered, NEW j \in Jobs,
           \/ \E x \in RefundIds, to \in RefundStatus \ {"NONE"} : StatusSelect(j, x, to)
           \/ StatusFail(j) \/ StatusSum(j) \/ StatusComplete(j)
    PROVE  TypeOK' /\ RefundPart'
  <1>1. TypeOK /\ RefundPart /\ job[j] \in Job /\ JobOK(job[j])
    BY DEF AInv, RefundPart
  <1>2. ASSUME NEW x \in RefundIds, NEW to \in RefundStatus \ {"NONE"}, StatusSelect(j, x, to)
        PROVE  TypeOK' /\ RefundPart'
    <2> DEFINE rec == [Rest("selected") EXCEPT !.op = "status", !.on = refund[x].payment,
                           !.refund = x, !.to = to, !.amount = refund[x].amount]
    <2>1. UNCHANGED <<rowVars, refund, unmoved>>
      BY <1>2 DEF StatusSelect
    <2>2. CASE End(j)
      BY <1>1, <2>1, <2>2, JobEnds, RowsIdle
    <2>3. CASE ~End(j)
      <3>1. /\ job' = [job EXCEPT ![j] = rec]
            /\ refund[x].status \notin {"NONE", "COMPLETED", "FAILED"}
        BY <1>2, <2>3 DEF StatusSelect, Terminal
      <3>2. refund[x] \in RefundRow /\ refund[x].payment \in Payments /\ refund[x].amount \in Nat
            /\ refund[x].status = "PENDING"
        BY <1>1, <3>1 DEF RefundPart, RefundRow, RefundStatus, IssuedOK
      <3>3. rec \in Job
        BY <3>2 DEF Rest, Job, JobOps, JobSteps, RefundStatus
      <3>4. JobOK(rec)
        BY <3>2 DEF Rest, JobOK
      <3> HIDE DEF rec
      <3> QED
        BY <1>1, <2>1, <3>1, <3>3, <3>4, JobMoves, RowsIdle
    <2> QED
      BY <2>2, <2>3
  <1>3. CASE StatusFail(j)
    <2>1. job[j].op = "status" /\ job[j].to \in RefundStatus \ {"NONE"}
      BY <1>1, <1>3 DEF StatusFail, JobAt, JobOK, Job
    <2>2. /\ refund' = [refund EXCEPT ![job[j].refund].status = job[j].to] /\ End(j)
          /\ UNCHANGED <<rowVars, unmoved>> /\ unmoved' \subseteq Payments
      BY <1>1, <1>3 DEF StatusFail, RefundPart
    <2> QED
      BY <1>1, <2>1, <2>2, RefundDecided, RowsIdle
  <1>4. CASE StatusSum(j)
    <2> DEFINE rec == [job[j] EXCEPT !.step = "summed", !.covers = Covers(j)]
    <2>1. Covers(j) \in BOOLEAN
      BY DEF Covers
    <2>2. rec \in Job
      BY <1>1, <2>1 DEF Job, JobSteps
    <2>3. JobOK(rec)
      BY <1>1 DEF JobOK, Job
    <2>4. UNCHANGED <<rowVars, refund, unmoved>> /\ job' = [job EXCEPT ![j] = rec]
      BY <1>1, <1>4 DEF StatusSum, RefundPart
    <2> HIDE DEF rec
    <2> QED
      BY <1>1, <2>2, <2>3, <2>4, JobMoves, RowsIdle
  <1>5. CASE StatusComplete(j)
    <2> DEFINE p == job[j].on
               status == IF job[j].covers THEN "REFUNDED" ELSE "PARTIALLY_REFUNDED"
    <2>1. job[j].op = "status" /\ job[j].amount \in Nat /\ -job[j].amount \in Int
      BY <1>1, <1>5 DEF StatusComplete, JobAt, Job
    <2>2. status \in Status /\ "REFUNDED" \in EntryType /\ "COMPLETED" \in RefundStatus \ {"NONE"}
      BY DEF Status, EntryType, RefundStatus
    <2>3. /\ payment' = [payment EXCEPT ![p].status = status] /\ UNCHANGED txn
          /\ ledger' = [ledger EXCEPT ![p] = Append(@, Posting("REFUNDED", -job[j].amount))]
          /\ refund' = [refund EXCEPT ![job[j].refund].status = "COMPLETED"] /\ End(j)
      BY <1>5 DEF StatusComplete
    <2>4. unmoved' \subseteq Payments
      BY <1>1, <1>5 DEF StatusComplete, RefundPart
    <2> HIDE DEF status
    <2>5. TypeOK'
      BY <1>1, <2>1, <2>2, <2>3, StatusTypes
    <2> QED
      BY <1>1, <2>1, <2>2, <2>3, <2>4, <2>5, RefundDecided
  <1> QED
    BY <1>2, <1>3, <1>4, <1>5

LEMMA RefundStepOK ==
    ASSUME AInv, Remembered, RefundStep
    PROVE  TypeOK' /\ RefundPart'
  <1>1. TypeOK /\ RefundPart
    BY DEF AInv
  <1>2. ASSUME NEW j \in Jobs, JobFails(j)
        PROVE  TypeOK' /\ RefundPart'
    BY <1>1, <1>2, JobEnds, RowsIdle DEF JobFails
  <1>3. ASSUME NEW x \in RefundIds, NEW p \in Payments, NEW a \in Amounts, RequestRefund(x, p, a)
        PROVE  TypeOK' /\ RefundPart'
    <2> DEFINE row == [status |-> "PENDING", payment |-> p, amount |-> a]
    <2>1. row \in RefundRow /\ row.payment \in Payments
      BY PaymentTypesAssumption DEF RefundRow, RefundStatus
    <2>2. /\ refund[x].status = "NONE" /\ refund' = [refund EXCEPT ![x] = row]
          /\ UNCHANGED <<rowVars, job, unmoved>> /\ unmoved' \subseteq Payments
      BY <1>1, <1>3 DEF RequestRefund, RefundPart
    <2> HIDE DEF row
    <2> QED
      BY <1>1, <2>1, <2>2, RefundInserted, RowsIdle
  <1> QED
    BY <1>2, <1>3, IssueOK, DecideRefundOK DEF RefundStep

LEMMA SplitStepOK ==
    ASSUME AInv, Remembered, SplitStep
    PROVE  TypeOK' /\ RefundPart'
  <1>1. TypeOK /\ RefundPart
    BY DEF AInv
  <1>2. PICK j \in Jobs : \/ \E k \in SplitKeys \cup {NoKey}, a, b \in PartAmounts : SplitLookup(j, k, a, b)
                          \/ \E p, q \in Payments : SplitInsert(j, p, q)
                          \/ SplitConflict(j)
    BY DEF SplitStep
  <1>3. job[j] \in Job /\ JobOK(job[j])
    BY <1>1 DEF RefundPart
  <1>4. ASSUME NEW k \in SplitKeys \cup {NoKey}, NEW a \in PartAmounts, NEW b \in PartAmounts,
               SplitLookup(j, k, a, b)
        PROVE  TypeOK' /\ RefundPart'
    <2> DEFINE rec == [Rest("selected") EXCEPT !.op = "split", !.key = k, !.amount = a, !.seen = b]
    <2>1. a \in Nat /\ b \in Nat /\ k \in Keys \cup {NoKey}
      BY AftermathAssumption, PaymentTypesAssumption
    <2>2. rec \in Job /\ JobOK(rec)
      BY <2>1 DEF Rest, Job, JobOps, JobSteps, RefundStatus, JobOK
    <2>3. UNCHANGED <<rowVars, refund, unmoved>> /\ (job' = [job EXCEPT ![j] = rec] \/ End(j))
      BY <1>4 DEF SplitLookup
    <2> HIDE DEF rec
    <2> QED
      BY <1>1, <2>2, <2>3, JobMoves, JobEnds, RowsIdle
  <1>5. ASSUME NEW p \in Payments, NEW q \in Payments, SplitInsert(j, p, q)
        PROVE  TypeOK' /\ RefundPart'
    <2>1. /\ job[j].key \in SplitKeys \cup {NoKey}
          /\ job[j].amount \in Nat /\ job[j].seen \in Nat
      BY <1>3, <1>5 DEF SplitInsert, JobAt, JobOK, Job
    <2>2. \A i \in {0, 1} : PartKey(job[j].key, i) \in Keys \cup {NoKey}
      BY <2>1, AftermathAssumption DEF PartKey
    <2>3. \A amount \in Nat, key \in Keys \cup {NoKey} : PartRow(amount, key) \in Row
      BY DEF PartRow, NewRow, Unwritten, Row, Status, Channel
    <2>4. \A amount \in Nat : <<Posting("CAPTURED", amount)>> \in Seq(Entry)
      <3>1. "CAPTURED" \in EntryType
        BY DEF EntryType
      <3> QED
        BY <3>1, PostingIsEntry
    <2>5. TypeOK'
      <3>1. /\ PartRow(job[j].amount, PartKey(job[j].key, 0)) \in Row
            /\ PartRow(job[j].seen, PartKey(job[j].key, 1)) \in Row
            /\ <<Posting("CAPTURED", job[j].amount)>> \in Seq(Entry)
            /\ <<Posting("CAPTURED", job[j].seen)>> \in Seq(Entry)
        BY <2>1, <2>2, <2>3, <2>4
      <3> QED
        BY <1>1, <1>5, <3>1 DEF SplitInsert, TypeOK
    <2> QED
      BY <1>1, <1>5, <2>5, JobEnds DEF SplitInsert
  <1>6. CASE SplitConflict(j)
    BY <1>1, <1>6, JobEnds, RowsIdle DEF SplitConflict
  <1> QED
    BY <1>2, <1>4, <1>5, <1>6

LEMMA DisputeStepOK ==
    ASSUME AInv, Remembered, DisputeStep
    PROVE  AInv'
  <1>1. TypeOK /\ RefundPart /\ DisputePart
    BY DEF AInv
  <1>2. PICK x \in DisputeIds :
           \/ \E p \in Payments, a \in Amounts : Raise(x, p, a)
           \/ RespondSelect(x)
           \/ RespondWrite(x)
           \/ \E to \in DisputeStatus \ {"NONE"} : Decide(x, to)
    BY DEF DisputeStep
  <1>3. UNCHANGED <<refund, job, unmoved>>
    BY <1>2 DEF Raise, RespondSelect, RespondWrite, Decide
  <1>4. RefundPart'
    BY <1>1, <1>3, RefundsIdle
  <1>5. dispute[x] \in DisputeRow /\ -dispute[x].amount \in Int
    BY <1>1 DEF DisputePart, DisputeRow
  <1>6. calls < MaxCalls => calls + 1 \in 0 .. MaxCalls
    BY <1>1, AftermathAssumption DEF DisputePart
  <1>7. ASSUME NEW p \in Payments, NEW a \in Amounts, Raise(x, p, a)
        PROVE  TypeOK' /\ DisputePart'
    <2>1. [Unraised EXCEPT !.status = "PENDING", !.payment = p, !.amount = a] \in DisputeRow
      BY PaymentTypesAssumption DEF Unraised, DisputeRow, DisputeStatus
    <2> QED
      BY <1>1, <1>7, <2>1, RowsIdle DEF Raise, DisputePart
  <1>8. ASSUME RespondSelect(x)
        PROVE  TypeOK' /\ DisputePart'
    BY <1>1, <1>6, <1>8, RowsIdle DEF RespondSelect, DisputePart
  <1>9. ASSUME RespondWrite(x)
        PROVE  TypeOK' /\ DisputePart'
    <2>1. [dispute[x] EXCEPT !.evidence = TRUE] \in DisputeRow
      BY <1>5 DEF DisputeRow
    <2> QED
      BY <1>1, <1>9, <2>1, RowsIdle DEF RespondWrite, DisputePart
  <1>10. ASSUME NEW to \in DisputeStatus \ {"NONE"}, Decide(x, to)
         PROVE  TypeOK' /\ DisputePart'
    <2>1. [dispute[x] EXCEPT !.status = to] \in DisputeRow
      BY <1>5 DEF DisputeRow
    <2>2. DisputePart'
      BY <1>1, <1>6, <1>10, <2>1 DEF Decide, DisputePart
    <2>3. "VOIDED" \in Status /\ "VOIDED" \in EntryType
      BY DEF Status, EntryType
    <2>4. CASE to = "LOST"
      BY <1>1, <1>5, <1>10, <2>2, <2>3, <2>4, StatusTypes DEF Decide
    <2>5. CASE to # "LOST"
      BY <1>1, <1>10, <2>2, <2>5, RowsIdle DEF Decide, rowVars
    <2> QED
      BY <2>4, <2>5
  <1> QED
    BY <1>2, <1>4, <1>7, <1>8, <1>9, <1>10 DEF AInv

LEMMA AftermathNextOK ==
    ASSUME AInv, AftermathNext
    PROVE  AInv'
  <1>1. TypeOK /\ RefundPart /\ DisputePart /\ Remembered
    BY DEF AInv, AftermathNext, Remembered
  <1>2. CASE ClientStep /\ UNCHANGED <<refund, job, unmoved, disputeVars>>
    BY <1>1, <1>2, ClientTypes, RefundsIdle, DisputesIdle DEF AInv
  <1>3. CASE (RefundStep \/ SplitStep) /\ UNCHANGED disputeVars
    BY <1>1, <1>3, RefundStepOK, SplitStepOK, DisputesIdle DEF AInv
  <1>4. CASE DisputeStep
    BY <1>1, <1>4, DisputeStepOK
  <1>5. CASE RefundsQuiescent /\ UNCHANGED disputeVars
    BY <1>1, <1>5, RowsIdle, RefundsIdle, DisputesIdle DEF RefundsQuiescent, AInv
  <1> QED
    BY <1>2, <1>3, <1>4, <1>5 DEF AftermathNext

LEMMA AftermathInitOK ==
    ASSUME AftermathInit
    PROVE  AInv
  <1>1. TypeOK
    <2>1. Unwritten \in Row /\ Resting("new") \in Txn /\ <<>> \in Seq(Entry)
      BY ResultsAreTyped DEF Steps
    <2> QED
      BY <2>1 DEF AftermathInit, RefundsInit, RowsInit, TypeOK
  <1>2. RefundPart
    <2>1. Rest("new") \in Job /\ JobOK(Rest("new")) /\ Rest("new").on = NoPayment
      BY RestIsJob DEF JobSteps, Rest
    <2>2. Unissued \in RefundRow /\ Unissued.status = "NONE"
      BY DEF Unissued, RefundRow, RefundStatus
    <2>3. \A p \in Payments : Workers(p) = {}
      BY <2>1, PaymentTypesAssumption DEF Workers, AftermathInit, RefundsInit, RowsInit, Resting
    <2>4. Contested = {}
      BY <2>3 DEF Contested
    <2> QED
      BY <2>1, <2>2, <2>4 DEF AftermathInit, RefundsInit, RefundPart, IssuedOK
  <1>3. DisputePart
    <2>1. Unraised \in DisputeRow
      BY DEF Unraised, DisputeRow, DisputeStatus
    <2> QED
      BY <2>1, AftermathAssumption DEF AftermathInit, DisputePart
  <1> QED
    BY <1>1, <1>2, <1>3 DEF AInv

LEMMA AftermathStutterOK ==
    ASSUME AInv, UNCHANGED aftermathVars
    PROVE  AInv'
  <1>1. UNCHANGED <<payment, ledger, txn, refund, job, raced, unmoved, dispute, responding, calls>>
    BY DEF aftermathVars, refundsVars, refundVars, disputeVars, rowVars
  <1>2. TypeOK' /\ DisputePart'
    BY <1>1 DEF AInv, TypeOK, DisputePart
  <1>3. Contested' = Contested
    BY <1>1 DEF Contested, Workers
  <1>4. RefundPart'
    BY <1>1, <1>3 DEF AInv, RefundPart, IssuedOK, JobOK
  <1> QED
    BY <1>2, <1>4 DEF AInv

LEMMA AftermathInvariance == AftermathSpec => []AInv
  <1>1. AftermathInit => AInv
    BY AftermathInitOK
  <1>2. AInv /\ [AftermathNext]_aftermathVars => AInv'
    BY AftermathNextOK, AftermathStutterOK
  <1> QED
    BY <1>1, <1>2, PTL DEF AftermathSpec
-----------------------------------------------------------------------------
(* Theorems *)

\* Every row of every table, and what each running job remembers, has its type,
\* whatever is issued, decided, disputed or split beside whatever client.
THEOREM AftermathTypeCorrect == AftermathSpec => []AftermathTypeOK
  <1>1. AInv => AftermathTypeOK
    BY DEF AInv, RefundPart, DisputePart, AftermathTypeOK, RefundsTypeOK
  <1> QED
    BY <1>1, AftermathInvariance, PTL

LEMMA DecidedStays ==
    ASSUME AInv, AftermathNext, NEW x \in RefundIds,
           refund[x].status \in {"COMPLETED", "FAILED"}, refund[x].payment \notin raced'
    PROVE  refund'[x] = refund[x]
  <1>1. RefundPart /\ raced \subseteq raced'
    BY DEF AInv, AftermathNext
  <1>2. CASE UNCHANGED refund
    BY <1>2
  <1>3. ASSUME NEW j \in Jobs, StatusFail(j) \/ StatusComplete(j)
        PROVE  refund'[x] = refund[x]
    <2>1. JobOK(job[j]) /\ job[j].op = "status"
      BY <1>1, <1>3 DEF RefundPart, StatusFail, StatusComplete, JobAt
    <2>2. job[j].refund # x
      BY <1>1, <2>1 DEF JobOK
    <2> QED
      BY <1>1, <1>3, <2>2 DEF RefundPart, StatusFail, StatusComplete
  <1>4. ASSUME NEW y \in RefundIds,
               \/ \E j \in Jobs : IssueWrite(j, y)
               \/ \E p \in Payments, a \in Amounts : RequestRefund(y, p, a)
        PROVE  refund'[x] = refund[x]
    <2>1. refund[y].status = "NONE"
      BY <1>4 DEF IssueWrite, RequestRefund
    <2> QED
      BY <1>1, <1>4, <2>1 DEF RefundPart, IssueWrite, RequestRefund
  <1>5. CASE RefundStep
    <2>1. ASSUME NEW j \in Jobs,
                 \/ \E p \in Payments, a \in Amounts : IssueSelect(j, p, a)
                 \/ \E y \in RefundIds, to \in RefundStatus \ {"NONE"} : StatusSelect(j, y, to)
                 \/ IssueSum(j) \/ StatusSum(j) \/ JobFails(j)
          PROVE  UNCHANGED refund
      BY <2>1 DEF IssueSelect, StatusSelect, IssueSum, StatusSum, JobFails
    <2> QED
      BY <1>2, <1>3, <1>4, <1>5, <2>1 DEF RefundStep
  <1>6. CASE SplitStep \/ DisputeStep \/ RefundsQuiescent
    <2>1. UNCHANGED refund
      BY <1>6 DEF SplitStep, DisputeStep, RefundsQuiescent, SplitLookup, SplitInsert, SplitConflict,
                  Raise, RespondSelect, RespondWrite, Decide
    <2> QED
      BY <1>2, <2>1
  <1> QED
    BY <1>2, <1>5, <1>6 DEF AftermathNext

\* "Once completed or failed, it's terminal" (refunds.service.ts:128): the check is
\* not repeated when the refund is written, and is still right then unless another
\* worked on the payment at the same time.
THEOREM TerminalRefundIsFinalAlways == AftermathSpec => TerminalRefundIsFinal
  <1>1. AInv /\ [AftermathNext]_aftermathVars =>
           [\A x \in RefundIds :
              refund[x].status \in {"COMPLETED", "FAILED"} /\ refund[x].payment \notin raced'
                  => refund'[x] = refund[x]]_refundsVars
    <2>1. CASE UNCHANGED aftermathVars
      BY <2>1 DEF aftermathVars
    <2> QED
      BY <2>1, DecidedStays
  <1> QED
    BY <1>1, AftermathInvariance, PTL DEF AftermathSpec, TerminalRefundIsFinal
-----------------------------------------------------------------------------
(* The sums over a payment's ledger entries, refunds and lost disputes *)

Took(p) == Total(p, {"CAPTURED"})
GaveBack(p) == Total(p, {"REFUNDED"})
WroteOff(p) == Total(p, {"VOIDED"})
Refunded(p) == SumRefunds(p, {"COMPLETED"})
Claimed(p) == SumRefunds(p, {"PENDING", "COMPLETED"})

DisputeAmount == [x \in DisputeIds |-> dispute[x].amount]
LostOn(p) == {x \in DisputeIds : dispute[x].payment = p /\ dispute[x].status = "LOST"}
Lost(p) == SumFunctionOnSet(DisputeAmount, LostOn(p))

\* Every total is an integer.
LEMMA TotalIsInt ==
    ASSUME TypeOK, NEW p \in Payments, NEW types
    PROVE  Total(p, types) \in Int
  <1> DEFINE f == [i \in DOMAIN ledger[p] |-> ledger[p][i].amount]
             S == Entries(p, types)
  <1>1. ledger[p] \in Seq(Entry)
    BY DEF TypeOK
  <1>2. /\ DOMAIN ledger[p] = 1 .. Len(ledger[p]) /\ Len(ledger[p]) \in Nat
        /\ \A i \in 1 .. Len(ledger[p]) : ledger[p][i] \in Entry
    BY <1>1
  <1>3. IsFiniteSet(1 .. Len(ledger[p])) /\ S \subseteq 1 .. Len(ledger[p])
    BY <1>2, FS_Interval DEF Entries
  <1>4. IsFiniteSet(S)
    BY <1>3, FS_Subset
  <1>5. IntOn(f, S)
    BY <1>2, <1>3 DEF IntOn, Entry
  <1> HIDE DEF f, S
  <1>6. SumFunctionOnSet(f, S) \in Int
    BY <1>4, <1>5, SumType
  <1> QED
    BY <1>6 DEF Total, f, S

\* What one posting to the ledger of p does to the totals of every payment.
Posted(p, type, amount) ==
    \A q \in Payments :
        /\ Took(q)' = Took(q) + (IF q = p /\ type = "CAPTURED" THEN amount ELSE 0)
        /\ GaveBack(q)' = GaveBack(q) + (IF q = p /\ type = "REFUNDED" THEN amount ELSE 0)
        /\ WroteOff(q)' = WroteOff(q) + (IF q = p /\ type = "VOIDED" THEN amount ELSE 0)

LEMMA TotalsAreInt ==
    ASSUME TypeOK, NEW p \in Payments
    PROVE  Took(p) \in Int /\ GaveBack(p) \in Int /\ WroteOff(p) \in Int
  BY TotalIsInt DEF Took, GaveBack, WroteOff

LEMMA TotalsStay ==
    ASSUME TypeOK, NEW p \in Payments, ledger'[p] = ledger[p]
    PROVE  Took(p)' = Took(p) /\ GaveBack(p)' = GaveBack(p) /\ WroteOff(p)' = WroteOff(p)
  BY TotalOfSame DEF Took, GaveBack, WroteOff

\* Nothing posted: an entry of no amount.
LEMMA PostedNothing ==
    ASSUME TypeOK, UNCHANGED ledger, NEW p
    PROVE  Posted(p, "TIP_ADDED", 0)
  <1> SUFFICES ASSUME NEW q \in Payments
               PROVE  /\ Took(q)' = Took(q) + 0 /\ GaveBack(q)' = GaveBack(q) + 0
                      /\ WroteOff(q)' = WroteOff(q) + 0
    BY DEF Posted
  <1>1. ledger'[q] = ledger[q]
    OBVIOUS
  <1> QED
    BY <1>1, TotalsStay, TotalsAreInt

LEMMA PostedOne ==
    ASSUME TypeOK, NEW p \in Payments, NEW type \in EntryType, NEW amount \in Int,
           Appended(p, Posting(type, amount)),
           \A q \in Payments \ {p} : ledger'[q] = ledger[q]
    PROVE  Posted(p, type, amount)
  <1> SUFFICES ASSUME NEW q \in Payments
               PROVE  /\ Took(q)' = Took(q) + (IF q = p /\ type = "CAPTURED" THEN amount ELSE 0)
                      /\ GaveBack(q)' = GaveBack(q) + (IF q = p /\ type = "REFUNDED" THEN amount ELSE 0)
                      /\ WroteOff(q)' = WroteOff(q) + (IF q = p /\ type = "VOIDED" THEN amount ELSE 0)
    BY DEF Posted
  <1>1. CASE q # p
    <2>1. ledger'[q] = ledger[q]
      BY <1>1
    <2>2. Took(q) \in Int /\ GaveBack(q) \in Int /\ WroteOff(q) \in Int
      BY TotalsAreInt
    <2> QED
      BY <1>1, <2>1, <2>2, TotalsStay
  <1>2. CASE q = p
    <2>1. Posting(type, amount) \in Entry /\ Posting(type, amount).type = type
          /\ Posting(type, amount).amount = amount
      BY PostingIsEntry
    <2> DEFINE e == Posting(type, amount)
    <2> HIDE DEF e
    <2>2. \A types : Total(p, types)' = Total(p, types) + (IF e.type \in types THEN e.amount ELSE 0)
      BY <2>1, TotalAfterAppend DEF e
    <2>3. e.type = type /\ e.amount = amount
      BY <2>1 DEF e
    <2>4. Took(p)' = Took(p) + (IF type = "CAPTURED" THEN amount ELSE 0)
      BY <2>2, <2>3 DEF Took
    <2>5. GaveBack(p)' = GaveBack(p) + (IF type = "REFUNDED" THEN amount ELSE 0)
      BY <2>2, <2>3 DEF GaveBack
    <2>6. WroteOff(p)' = WroteOff(p) + (IF type = "VOIDED" THEN amount ELSE 0)
      BY <2>2, <2>3 DEF WroteOff
    <2> QED
      BY <1>2, <2>4, <2>5, <2>6
  <1> QED
    BY <1>1, <1>2

\* The two ways the handlers post.
LEMMA ConcatPosts ==
    ASSUME TypeOK, NEW p \in Payments, NEW type \in EntryType, NEW amount \in Int,
           ledger' = [ledger EXCEPT ![p] = @ \o <<Posting(type, amount)>>]
    PROVE  Posted(p, type, amount)
  <1>1. Posting(type, amount) \in Entry
    BY PostingIsEntry
  <1>2. Appended(p, Posting(type, amount))
    BY <1>1, PostAppends
  <1>3. \A q \in Payments \ {p} : ledger'[q] = ledger[q]
    BY DEF TypeOK
  <1> QED
    BY <1>2, <1>3, PostedOne

LEMMA AppendPosts ==
    ASSUME TypeOK, NEW p \in Payments, NEW type \in EntryType, NEW amount \in Int,
           ledger' = [ledger EXCEPT ![p] = Append(@, Posting(type, amount))]
    PROVE  Posted(p, type, amount)
  <1>1. Posting(type, amount) \in Entry /\ ledger[p] \in Seq(Entry)
    BY PostingIsEntry DEF TypeOK
  <1>2. Append(ledger[p], Posting(type, amount)) = ledger[p] \o <<Posting(type, amount)>>
    BY <1>1, AppendIsConcat
  <1>3. ledger' = [ledger EXCEPT ![p] = @ \o <<Posting(type, amount)>>]
    BY <1>2
  <1> QED
    BY <1>3, ConcatPosts

\* A ledger of one capture.
LEMMA FirstEntryTotals ==
    ASSUME NEW p \in Payments, NEW amount \in Int, ledger'[p] = <<Posting("CAPTURED", amount)>>
    PROVE  Took(p)' = amount /\ GaveBack(p)' = 0 /\ WroteOff(p)' = 0
  <1> DEFINE f == [i \in DOMAIN ledger'[p] |-> ledger'[p][i].amount]
  <1>1. /\ DOMAIN ledger'[p] = {1} /\ ledger'[p][1].type = "CAPTURED"
        /\ ledger'[p][1].amount = amount
    BY DEF Posting
  <1>2. /\ Entries(p, {"CAPTURED"})' = {1} /\ Entries(p, {"REFUNDED"})' = {}
        /\ Entries(p, {"VOIDED"})' = {}
    BY <1>1 DEF Entries
  <1>3. f[1] = amount
    BY <1>1
  <1>4. /\ Took(p)' = SumFunctionOnSet(f, {1}) /\ GaveBack(p)' = SumFunctionOnSet(f, {})
        /\ WroteOff(p)' = SumFunctionOnSet(f, {})
    BY <1>2 DEF Took, GaveBack, WroteOff, Total
  <1> HIDE DEF f
  <1>5. SumFunctionOnSet(f, {}) = 0
    BY SumEmpty
  <1>6. IsFiniteSet({}) /\ 1 \notin {} /\ IntOn(f, {} \cup {1}) /\ {} \cup {1} = {1}
    BY <1>3, FS_EmptySet DEF IntOn
  <1>7. SumFunctionOnSet(f, {1}) = SumFunctionOnSet(f, {}) + f[1]
    BY <1>6, SumAdd
  <1> QED
    BY <1>3, <1>4, <1>5, <1>7
\* What refund x counts for in the sum of p's refunds that have one of the statuses.
Counted(x, p, statuses) ==
    IF refund[x].payment = p /\ refund[x].status \in statuses THEN refund[x].amount ELSE 0

RefundsTyped == refund \in [RefundIds -> RefundRow]

LEMMA RefundSumIsNat ==
    ASSUME RefundsTyped, NEW p, NEW statuses
    PROVE  /\ IsFiniteSet(RefundsOf(p, statuses))
           /\ \A x \in RefundIds : RefundAmount[x] = refund[x].amount /\ RefundAmount[x] \in Nat
           /\ SumRefunds(p, statuses) \in Nat
  <1>1. RefundsOf(p, statuses) \subseteq RefundIds /\ IsFiniteSet(RefundIds)
    BY RefundsAssumption DEF RefundsOf
  <1>2. IsFiniteSet(RefundsOf(p, statuses))
    BY <1>1, FS_Subset
  <1>3. \A x \in RefundIds : RefundAmount[x] = refund[x].amount /\ RefundAmount[x] \in Nat
    BY DEF RefundsTyped, RefundRow, RefundAmount
  <1>4. \A x \in RefundsOf(p, statuses) : RefundAmount[x] \in Nat
    BY <1>1, <1>3
  <1> HIDE DEF RefundAmount
  <1>5. SumFunctionOnSet(RefundAmount, RefundsOf(p, statuses)) \in Nat
    BY <1>2, <1>4, SumMonotone
  <1> QED
    BY <1>2, <1>3, <1>5 DEF SumRefunds

\* One row of refunds is written: the sums change by what it counts for.
LEMMA RefundWritten ==
    ASSUME RefundsTyped, RefundsTyped', NEW x \in RefundIds,
           \A y \in RefundIds \ {x} : refund'[y] = refund[y], NEW p, NEW statuses
    PROVE  /\ SumRefunds(p, statuses)' =
                  SumRefunds(p, statuses) - Counted(x, p, statuses) + Counted(x, p, statuses)'
           /\ SumRefunds(p, statuses) \in Int
           /\ Counted(x, p, statuses) \in Nat /\ Counted(x, p, statuses)' \in Nat
  <1> DEFINE S == RefundsOf(p, statuses)
             f == RefundAmount
  <1>0. PICK g, T : g = RefundAmount' /\ T = RefundsOf(p, statuses)'
    OBVIOUS
  <1>1. IsFiniteSet(RefundIds) /\ S \subseteq RefundIds /\ T \subseteq RefundIds
    BY <1>0, RefundsAssumption DEF RefundsOf
  <1>2. IsFiniteSet(S) /\ IsFiniteSet(T)
    BY <1>1, FS_Subset
  <1>3. \A y \in RefundIds : /\ f[y] = refund[y].amount /\ f[y] \in Nat
                             /\ g[y] = refund'[y].amount /\ g[y] \in Nat
    BY <1>0 DEF RefundsTyped, RefundRow, RefundAmount
  <1>4. /\ Counted(x, p, statuses) = (IF x \in S THEN f[x] ELSE 0)
        /\ Counted(x, p, statuses)' = (IF x \in T THEN g[x] ELSE 0)
    BY <1>0, <1>3 DEF Counted, RefundsOf
  <1>5. S \ {x} = T \ {x} /\ \A y \in S \ {x} : f[y] = g[y]
    BY <1>0 DEF RefundsOf, RefundAmount
  <1>6. SumRefunds(p, statuses) = SumFunctionOnSet(f, S) /\ SumRefunds(p, statuses)' = SumFunctionOnSet(g, T)
    BY <1>0 DEF SumRefunds
  <1> HIDE DEF S, f
  <1>7. IntOn(f, S) /\ IntOn(g, T)
    BY <1>1, <1>3 DEF IntOn
  <1>8. /\ SumFunctionOnSet(f, S) = SumFunctionOnSet(f, S \ {x}) + (IF x \in S THEN f[x] ELSE 0)
        /\ SumFunctionOnSet(g, T) = SumFunctionOnSet(g, T \ {x}) + (IF x \in T THEN g[x] ELSE 0)
        /\ SumFunctionOnSet(f, S \ {x}) \in Int
    <2>1. /\ SumFunctionOnSet(f, S) = SumFunctionOnSet(f, S \ {x}) + (IF x \in S THEN f[x] ELSE 0)
          /\ SumFunctionOnSet(f, S \ {x}) \in Int
      BY <1>2, <1>7, SumWithout
    <2>2. /\ SumFunctionOnSet(g, T) = SumFunctionOnSet(g, T \ {x}) + (IF x \in T THEN g[x] ELSE 0)
          /\ SumFunctionOnSet(g, T \ {x}) \in Int
      BY <1>2, <1>7, SumWithout
    <2> QED
      BY <2>1, <2>2
  <1>9. SumFunctionOnSet(f, S \ {x}) = SumFunctionOnSet(g, T \ {x})
    <2>1. IsFiniteSet(S \ {x})
      BY <1>2, FS_RemoveElement
    <2> QED
      BY <1>5, <2>1, SumSame
  <1>10. Counted(x, p, statuses) \in Nat /\ Counted(x, p, statuses)' \in Nat
    BY <1>3, <1>4
  <1> QED
    BY <1>4, <1>6, <1>8, <1>9, <1>10

LEMMA RefundsStay ==
    ASSUME refund' = refund, NEW p, NEW statuses
    PROVE  SumRefunds(p, statuses)' = SumRefunds(p, statuses)
  BY DEF SumRefunds, RefundsOf, RefundAmount

\* What is refunded is part of what is claimed.
LEMMA RefundedIsClaimed ==
    ASSUME RefundsTyped, NEW p
    PROVE  Refunded(p) \in Nat /\ Claimed(p) \in Nat /\ Refunded(p) =< Claimed(p)
  <1>1. RefundsOf(p, {"COMPLETED"}) \in SUBSET RefundsOf(p, {"PENDING", "COMPLETED"})
    BY DEF RefundsOf
  <1>2. /\ IsFiniteSet(RefundsOf(p, {"PENDING", "COMPLETED"}))
        /\ \A x \in RefundIds : RefundAmount[x] \in Nat
    BY RefundSumIsNat
  <1>3. RefundsOf(p, {"PENDING", "COMPLETED"}) \subseteq RefundIds
    BY DEF RefundsOf
  <1> QED
    BY <1>1, <1>2, <1>3, SumMonotone DEF Refunded, Claimed, SumRefunds

\* No refund, nothing claimed.
LEMMA NothingClaimed ==
    ASSUME RefundsTyped, NEW p,
           \A x \in RefundIds : refund[x].status # "NONE" => refund[x].payment # p
    PROVE  Refunded(p) = 0 /\ Claimed(p) = 0
  <1>1. RefundsOf(p, {"COMPLETED"}) = {} /\ RefundsOf(p, {"PENDING", "COMPLETED"}) = {}
    BY DEF RefundsOf
  <1> QED
    BY <1>1, SumEmpty DEF Refunded, Claimed, SumRefunds

DisputesTyped == dispute \in [DisputeIds -> DisputeRow]

LEMMA LostIsNat ==
    ASSUME DisputesTyped, NEW p
    PROVE  /\ IsFiniteSet(LostOn(p)) /\ LostOn(p) \subseteq DisputeIds
           /\ \A x \in DisputeIds : DisputeAmount[x] = dispute[x].amount /\ DisputeAmount[x] \in Nat
           /\ Lost(p) \in Nat
  <1>1. LostOn(p) \subseteq DisputeIds /\ IsFiniteSet(DisputeIds)
    BY AftermathAssumption DEF LostOn
  <1>2. IsFiniteSet(LostOn(p))
    BY <1>1, FS_Subset
  <1>3. \A x \in DisputeIds : DisputeAmount[x] = dispute[x].amount /\ DisputeAmount[x] \in Nat
    BY DEF DisputesTyped, DisputeRow, DisputeAmount
  <1>4. \A x \in LostOn(p) : DisputeAmount[x] \in Nat
    BY <1>1, <1>3
  <1> HIDE DEF DisputeAmount
  <1>5. SumFunctionOnSet(DisputeAmount, LostOn(p)) \in Nat
    BY <1>2, <1>4, SumMonotone
  <1> QED
    BY <1>1, <1>2, <1>3, <1>5 DEF Lost

\* A dispute that is lost adds at most its amount.
LEMMA OneMoreLost ==
    ASSUME DisputesTyped, DisputesTyped', NEW x \in DisputeIds,
           \A y \in DisputeIds \ {x} : dispute'[y] = dispute[y],
           dispute'[x].payment = dispute[x].payment, dispute'[x].amount = dispute[x].amount,
           NEW p
    PROVE  /\ Lost(p)' =< Lost(p) + (IF dispute'[x].status = "LOST" /\ dispute[x].payment = p
                                     THEN dispute[x].amount ELSE 0)
           /\ Lost(p) \in Nat /\ Lost(p)' \in Nat
  <1> DEFINE f == DisputeAmount
             S == LostOn(p) \ {x}
  <1>1. IsFiniteSet(LostOn(p)) /\ LostOn(p) \subseteq DisputeIds
        /\ \A y \in DisputeIds : f[y] = dispute[y].amount /\ f[y] \in Nat
    BY LostIsNat
  <1>2. DisputeAmount' = f
    BY DEF DisputeAmount
  <1>3. LostOn(p)' = IF dispute'[x].status = "LOST" /\ dispute[x].payment = p THEN S \cup {x} ELSE S
    BY DEF LostOn
  <1>4. Lost(p) = SumFunctionOnSet(f, LostOn(p)) /\ Lost(p)' = SumFunctionOnSet(f, LostOn(p)')
    BY <1>2 DEF Lost
  <1>5. IsFiniteSet(S) /\ x \notin S /\ S \in SUBSET LostOn(p) /\ S \cup {x} \subseteq DisputeIds
    BY <1>1, FS_RemoveElement
  <1> HIDE DEF f, S
  <1>6. SumFunctionOnSet(f, S) \in Nat /\ SumFunctionOnSet(f, LostOn(p)) \in Nat
        /\ SumFunctionOnSet(f, S) =< SumFunctionOnSet(f, LostOn(p))
    <2>1. \A y \in LostOn(p) : f[y] \in Nat
      BY <1>1
    <2> QED
      BY <1>1, <1>5, <2>1, SumMonotone
  <1>7. SumFunctionOnSet(f, S \cup {x}) = SumFunctionOnSet(f, S) + f[x]
    <2>1. IntOn(f, S \cup {x})
      BY <1>1, <1>5 DEF IntOn
    <2> QED
      BY <1>5, <2>1, SumAdd
  <1>8. f[x] = dispute[x].amount /\ dispute[x].amount \in Nat
    BY <1>1
  <1> QED
    BY <1>3, <1>4, <1>6, <1>7, <1>8
-----------------------------------------------------------------------------
(* What the rows, the clients and the jobs know of each other *)

\* A payment that was captured or given up: the handlers that check for PENDING or
\* AUTHORIZED do not begin on it.
Taken(p) == payment[p].status \notin {"NONE", "PENDING", "AUTHORIZED"}

Openers == {"edit", "captureLocked", "captureCash", "captureCard"}

RowOK(p) ==
    /\ payment[p].status \notin {"FAILED", "DISPUTED"}
    /\ ~Exists(p) => payment[p].key = NoKey

\* On a payment nobody raced on, the row is still what the client read.
ClientOK(r) ==
    /\ txn[r].op = "create" => txn[r].on = NoPayment /\ txn[r].seen.status = "PENDING"
    /\ txn[r].op \notin {"none", "create"} => txn[r].on \in Payments /\ Exists(txn[r].on)
    /\ (txn[r].op \in Openers /\ txn[r].on \notin raced) =>
           ~Taken(txn[r].on) /\ txn[r].seen.amount = payment[txn[r].on].amount

RefundOK(x) ==
    refund[x].status # "NONE" =>
        /\ refund[x].payment \in Payments /\ Taken(refund[x].payment)
        /\ refund[x].amount \in Amounts

DisputeOK(x) ==
    dispute[x].status # "NONE" => dispute[x].payment \in Payments /\ Taken(dispute[x].payment)

\* What a job holds of the rows it read.
HeldOK(j) ==
    /\ job[j].op = "issue" =>
          /\ Taken(job[j].on) /\ job[j].amount \in Amounts
          /\ job[j].on \notin raced => job[j].seen = payment[job[j].on].amount
    /\ job[j].op = "status" => job[j].amount = refund[job[j].refund].amount

SInv ==
    /\ AInv
    /\ \A p \in Payments : RowOK(p)
    /\ \A r \in Requests : ClientOK(r)
    /\ \A x \in RefundIds : RefundOK(x)
    /\ \A x \in DisputeIds : DisputeOK(x)
    /\ \A j \in Jobs : HeldOK(j)

\* Somebody who worked on p ends.
Acts(p) ==
    \/ \E r \in Requests : txn[r].on = p /\ txn'[r].on # p
    \/ \E j \in Jobs : job[j].on = p /\ job'[j].on # p

\* Who works on a payment nobody raced on, and goes on, is alone there.
LEMMA Solo ==
    ASSUME RefundPart, NEW p \in Payments, p \notin raced,
           \/ \E r \in Requests : txn[r].on = p /\ txn'[r].on = p
           \/ \E j \in Jobs : job[j].on = p /\ job'[j].on = p
    PROVE  ~Acts(p)
  <1> SUFFICES ASSUME Acts(p) PROVE FALSE
    OBVIOUS
  <1>1. PICK a \in Workers(p) : \/ a \in Requests /\ txn'[a].on = p
                                \/ a \in Jobs /\ job'[a].on = p
    BY DEF Workers
  <1>2. PICK b \in Workers(p) : \/ b \in Requests /\ txn[b].on = p /\ txn'[b].on # p
                                \/ b \in Jobs /\ job[b].on = p /\ job'[b].on # p
    BY DEF Workers, Acts
  <1>3. a # b
    BY <1>1, <1>2, RefundsAssumption
  <1>4. p \in Contested
    BY <1>3 DEF Contested
  <1> QED
    BY <1>4 DEF RefundPart

\* What the commit of a client's request does: it inserts a row, or writes the one
\* it read.
ClientInserts(r, p) ==
    /\ txn[r].op = "create"
    /\ ~Exists(p) /\ ~KeyTaken(txn[r].seen.key)
    /\ payment'[p] = txn[r].seen
    /\ Posted(p, "PAYMENT_CREATED", 0)

ClientKeeps(r, p) ==
    /\ payment'[p].status = payment[p].status
    /\ txn[r].op = "edit" \/ payment'[p].amount = payment[p].amount
    /\ Posted(p, "TIP_ADDED", 0)

ClientVoids(r, p) ==
    /\ payment'[p].status = "VOIDED"
    /\ payment'[p].amount = payment[p].amount
    /\ Posted(p, "VOIDED", -txn[r].seen.amount)

ClientCaptures(r, p) ==
    /\ txn[r].op \in Openers
    /\ payment'[p].status = "CAPTURED"
    /\ payment'[p].amount = payment[p].amount
    /\ Posted(p, "CAPTURED", txn[r].seen.amount)

ClientWrites(r, p) ==
    /\ \A q \in Payments \ {p} : payment'[q] = payment[q]
    /\ \/ ClientInserts(r, p)
       \/ /\ txn[r].op \notin {"none", "create"} /\ txn[r].on = p
          /\ payment'[p].key = payment[p].key
          /\ ClientKeeps(r, p) \/ ClientVoids(r, p) \/ ClientCaptures(r, p)

\* A posting of a type no property sums over.
LEMMA PostedOther ==
    ASSUME NEW p, NEW type, type \notin {"CAPTURED", "REFUNDED", "VOIDED"}, NEW amount,
           Posted(p, type, amount), NEW other, other \notin {"CAPTURED", "REFUNDED", "VOIDED"}
    PROVE  Posted(p, other, 0)
  BY DEF Posted

LEMMA WriteWrites ==
    ASSUME TypeOK, NEW r \in Requests, ClientOK(r), Write(r)
    PROVE  /\ Finish(r)
           /\ UNCHANGED <<payment, ledger>> \/ \E p \in Payments : ClientWrites(r, p)
  <1>1. txn[r] \in Txn /\ txn[r].seen \in Row /\ txn[r].arg \in Nat
        /\ txn[r].seen.amount \in Nat /\ txn[r].seen.tip \in Nat
    BY DEF TypeOK, Txn, Row
  <1>2. "CAPTURED" \in EntryType /\ "VOIDED" \in EntryType /\ "TIP_ADDED" \in EntryType
        /\ "PAYMENT_CREATED" \in EntryType
    BY DEF EntryType
  <1>3. ASSUME NEW p \in Payments, NEW row, NEW entries, Commit(r, p, row, entries)
        PROVE  /\ Finish(r) /\ payment'[p] = row
               /\ \A q \in Payments \ {p} : payment'[q] = payment[q]
               /\ ledger' = [ledger EXCEPT ![p] = @ \o entries]
    BY <1>3 DEF Commit, TypeOK
  <1>4. ASSUME NEW p \in Payments, NEW row, NEW type \in EntryType, NEW amount \in Int,
               Commit(r, p, row, <<Posting(type, amount)>>)
        PROVE  Posted(p, type, amount)
    BY <1>3, <1>4, ConcatPosts
  <1>5. ASSUME NEW p \in Payments, CreateInsert(r, p)
        PROVE  Finish(r) /\ ClientWrites(r, p)
    <2>1. Commit(r, p, txn[r].seen, <<Posting("PAYMENT_CREATED", txn[r].seen.amount)>>)
      BY <1>5 DEF CreateInsert
    <2>2. Posted(p, "PAYMENT_CREATED", txn[r].seen.amount)
      BY <1>1, <1>2, <1>4, <2>1
    <2>3. Posted(p, "PAYMENT_CREATED", 0)
      BY <2>2, PostedOther
    <2>4. txn[r].op = "create" /\ ~Exists(p) /\ ~KeyTaken(txn[r].seen.key)
      BY <1>5 DEF CreateInsert, At
    <2> QED
      BY <1>3, <2>1, <2>3, <2>4 DEF ClientWrites, ClientInserts
  <1>6. CASE CreateConflict(r)
    BY <1>6 DEF CreateConflict
  <1>7. ASSUME txn[r].op \notin {"none", "create"}
        PROVE  txn[r].on \in Payments /\ payment[txn[r].on] \in Row /\ ledger[txn[r].on] \in Seq(Entry)
    BY <1>7 DEF ClientOK, TypeOK
  <1>8. CASE EditWrite(r)
    <2>1. txn[r].op = "edit"
      BY <1>8 DEF EditWrite, At
    <2>2. PICK p \in Payments : p = txn[r].on /\ payment[p] \in Row /\ ledger[p] \in Seq(Entry)
      BY <1>7, <2>1
    <2>3. Commit(r, p, [payment[p] EXCEPT !.amount = txn[r].arg], <<>>)
      BY <1>8, <2>2 DEF EditWrite
    <2>4. ledger' = ledger
      <3>1. ledger' = [ledger EXCEPT ![p] = @ \o <<>>] /\ ledger[p] \o <<>> = ledger[p]
        BY <1>3, <2>2, <2>3, ConcatEmptySeq
      <3> QED
        BY <3>1 DEF TypeOK
    <2>5. Posted(p, "TIP_ADDED", 0)
      BY <2>4, PostedNothing
    <2>6. payment'[p] = [payment[p] EXCEPT !.amount = txn[r].arg] /\ Finish(r)
          /\ \A q \in Payments \ {p} : payment'[q] = payment[q]
      BY <1>3, <2>3
    <2>7. payment'[p].status = payment[p].status /\ payment'[p].key = payment[p].key
      BY <2>2, <2>6 DEF Row
    <2> QED
      BY <2>1, <2>2, <2>5, <2>6, <2>7 DEF ClientWrites, ClientKeeps
  <1>9. ASSUME NEW op \in Ops \ {"none", "create"}, WriteVoid(r, op)
        PROVE  Finish(r) /\ \E p \in Payments : ClientWrites(r, p)
    <2>1. txn[r].op = op
      BY <1>9 DEF WriteVoid, At
    <2>2. PICK p \in Payments : p = txn[r].on /\ payment[p] \in Row
      BY <1>7, <2>1
    <2>3. Commit(r, p, [payment[p] EXCEPT !.status = "VOIDED"],
                 <<Posting("VOIDED", -txn[r].seen.amount)>>)
      BY <1>9, <2>2 DEF WriteVoid
    <2>4. Posted(p, "VOIDED", -txn[r].seen.amount)
      BY <1>1, <1>2, <1>4, <2>3
    <2>5. payment'[p] = [payment[p] EXCEPT !.status = "VOIDED"] /\ Finish(r)
          /\ \A q \in Payments \ {p} : payment'[q] = payment[q]
      BY <1>3, <2>3
    <2>6. /\ payment'[p].status = "VOIDED" /\ payment'[p].amount = payment[p].amount
          /\ payment'[p].key = payment[p].key
      BY <2>2, <2>5 DEF Row
    <2> QED
      BY <2>1, <2>2, <2>4, <2>5, <2>6 DEF ClientWrites, ClientVoids
  <1>10. CASE LockedCaptureWrite(r) \/ CashWrite(r) \/ CardWrite(r)
    <2>1. txn[r].op \in Openers /\ txn[r].op \notin {"none", "create"}
      BY <1>10 DEF LockedCaptureWrite, CashWrite, CardWrite, CaptureWithFees, CaptureWithoutFees, At, Openers
    <2>2. PICK p \in Payments : p = txn[r].on /\ payment[p] \in Row
      BY <1>7, <2>1
    <2> DEFINE plain == [payment[p] EXCEPT !.status = "CAPTURED"]
               withFees == [SnapshotFees(payment[p]) EXCEPT !.status = "CAPTURED"]
    <2>3. \E row \in {plain, withFees} :
             Commit(r, p, row, <<Posting("CAPTURED", txn[r].seen.amount)>>)
      BY <1>10, <2>2
         DEF LockedCaptureWrite, CashWrite, CardWrite, CaptureWithFees, CaptureWithoutFees
    <2>4. \A row \in {plain, withFees} :
             /\ row.status = "CAPTURED" /\ row.amount = payment[p].amount /\ row.key = payment[p].key
      BY <2>2 DEF SnapshotFees, Row
    <2> HIDE DEF plain, withFees
    <2>5. PICK row \in {plain, withFees} :
             Commit(r, p, row, <<Posting("CAPTURED", txn[r].seen.amount)>>)
      BY <2>3
    <2>6. Posted(p, "CAPTURED", txn[r].seen.amount)
      BY <1>1, <1>2, <1>4, <2>5
    <2>7. payment'[p] = row /\ Finish(r) /\ \A q \in Payments \ {p} : payment'[q] = payment[q]
      BY <1>3, <2>5
    <2> QED
      BY <2>1, <2>2, <2>4, <2>6, <2>7 DEF ClientWrites, ClientCaptures
  <1>11. CASE TipWrite(r)
    <2>1. txn[r].op = "tip"
      BY <1>11 DEF TipWrite, At
    <2>2. PICK p \in Payments : p = txn[r].on /\ payment[p] \in Row
      BY <1>7, <2>1
    <2>3. Commit(r, p, [payment[p] EXCEPT !.tip = txn[r].arg],
                 <<Posting("TIP_ADDED", txn[r].arg - txn[r].seen.tip)>>)
      BY <1>11, <2>2 DEF TipWrite
    <2>4. Posted(p, "TIP_ADDED", txn[r].arg - txn[r].seen.tip)
      BY <1>1, <1>2, <1>4, <2>3
    <2>5. Posted(p, "TIP_ADDED", 0)
      BY <2>4, PostedOther
    <2>6. payment'[p] = [payment[p] EXCEPT !.tip = txn[r].arg] /\ Finish(r)
          /\ \A q \in Payments \ {p} : payment'[q] = payment[q]
      BY <1>3, <2>3
    <2>7. /\ payment'[p].status = payment[p].status /\ payment'[p].amount = payment[p].amount
          /\ payment'[p].key = payment[p].key
      BY <2>2, <2>6 DEF Row
    <2> QED
      BY <2>1, <2>2, <2>5, <2>6, <2>7 DEF ClientWrites, ClientKeeps
  <1>12. {"cancel", "cancelUncaptured", "reverse", "cancelSession"} \subseteq Ops \ {"none", "create"}
    BY DEF Ops
  <1> QED
    BY <1>5, <1>6, <1>8, <1>9, <1>10, <1>11, <1>12
       DEF Write, CancelWrite, CancelUncapturedWrite, ReverseWrite, CancelSessionWrite
-----------------------------------------------------------------------------
(* How far a step may change a row, and that it keeps SInv *)

\* A row stays once it is there, keeps its key, and is not un-captured; and while
\* nobody who worked on it ends, its amount stays and it is not captured either.
Steady(p) ==
    /\ RowOK(p)'
    /\ Exists(p) => Exists(p)' /\ payment'[p].key = payment[p].key
    /\ Taken(p) => Taken(p)'
    /\ Exists(p) /\ ~Acts(p) =>
           payment'[p].amount = payment[p].amount /\ (Taken(p)' => Taken(p))

RefundKept(x) ==
    IF refund[x].status = "NONE" THEN RefundOK(x)'
    ELSE /\ refund'[x].status # "NONE"
         /\ refund'[x].payment = refund[x].payment /\ refund'[x].amount = refund[x].amount

DisputeKept(x) ==
    IF dispute[x].status = "NONE" THEN DisputeOK(x)'
    ELSE dispute'[x].status # "NONE" /\ dispute'[x].payment = dispute[x].payment

StepOK ==
    /\ \A p \in Payments : Steady(p)
    /\ \A r \in Requests : txn'[r] = txn[r] \/ ClientOK(r)'
    /\ \A x \in RefundIds : RefundKept(x)
    /\ \A x \in DisputeIds : DisputeKept(x)
    /\ \A j \in Jobs : job'[j] = job[j] \/ HeldOK(j)'

LEMMA StepKeepsSInv ==
    ASSUME SInv, AInv', Remembered, StepOK
    PROVE  SInv'
  <1>1. RefundPart /\ raced \subseteq raced'
    BY RacedGrows DEF SInv, AInv
  <1>2. ASSUME NEW r \in Requests
        PROVE  ClientOK(r)'
    <2>1. CASE ClientOK(r)'
      BY <2>1
    <2>2. CASE txn'[r] = txn[r]
      <3>1. ClientOK(r)
        BY DEF SInv
      <3>2. CASE txn[r].op \in {"none", "create"}
        BY <2>2, <3>1, <3>2 DEF ClientOK, Openers
      <3>3. CASE txn[r].op \notin {"none", "create"}
        <4>1. PICK p \in Payments : p = txn[r].on /\ Exists(p)
          BY <3>1, <3>3 DEF ClientOK
        <4>2. Steady(p)
          BY DEF StepOK
        <4>3. p \notin raced => ~Acts(p)
          BY <1>1, <2>2, <4>1, Solo
        <4>4. txn'[r].on = p /\ txn[r].on = p
          BY <2>2, <4>1
        <4> QED
          BY <1>1, <2>2, <3>1, <3>3, <4>1, <4>2, <4>3, <4>4 DEF ClientOK, Steady
      <3> QED
        BY <3>2, <3>3
    <2> QED
      BY <2>1, <2>2 DEF StepOK
  <1>3. ASSUME NEW x \in RefundIds
        PROVE  RefundOK(x)'
    <2>1. RefundOK(x) /\ RefundKept(x) /\ \A p \in Payments : Steady(p)
      BY DEF SInv, StepOK
    <2> QED
      BY <2>1 DEF RefundOK, RefundKept, Steady
  <1>4. ASSUME NEW x \in DisputeIds
        PROVE  DisputeOK(x)'
    <2>1. DisputeOK(x) /\ DisputeKept(x) /\ \A p \in Payments : Steady(p)
      BY DEF SInv, StepOK
    <2> QED
      BY <2>1 DEF DisputeOK, DisputeKept, Steady
  <1>5. ASSUME NEW j \in Jobs
        PROVE  HeldOK(j)'
    <2>1. CASE HeldOK(j)'
      BY <2>1
    <2>2. CASE job'[j] = job[j]
      <3>1. HeldOK(j) /\ JobOK(job[j])
        BY <1>1 DEF SInv, RefundPart
      <3>2. CASE job[j].op = "issue"
        <4>1. PICK p \in Payments : p = job[j].on
          BY <3>1, <3>2 DEF JobOK
        <4>2. Steady(p) /\ Exists(p)
          BY <3>1, <3>2, <4>1 DEF StepOK, HeldOK, Taken, Exists
        <4>3. p \notin raced => ~Acts(p)
          BY <1>1, <2>2, <4>1, Solo
        <4> QED
          BY <1>1, <2>2, <3>1, <3>2, <4>1, <4>2, <4>3 DEF HeldOK, Steady
      <3>3. CASE job[j].op = "status"
        <4>1. PICK x \in RefundIds : x = job[j].refund /\ refund[x].status # "NONE"
          BY <3>1, <3>3 DEF JobOK
        <4>2. RefundKept(x)
          BY DEF StepOK
        <4> QED
          BY <2>2, <3>1, <3>3, <4>1, <4>2 DEF HeldOK, RefundKept
      <3> QED
        BY <2>2, <3>2, <3>3 DEF HeldOK
    <2> QED
      BY <2>1, <2>2 DEF StepOK
  <1> QED
    BY <1>2, <1>3, <1>4, <1>5 DEF SInv, StepOK, Steady

\* The parts of StepOK a step has nothing to do with.
LEMMA SteadyRows ==
    ASSUME SInv, UNCHANGED payment
    PROVE  \A p \in Payments : Steady(p)
  BY DEF SInv, Steady, RowOK, Exists, Taken

LEMMA RefundsKept ==
    ASSUME SInv, UNCHANGED refund
    PROVE  \A x \in RefundIds : RefundKept(x)
  BY DEF SInv, RefundKept, RefundOK

LEMMA DisputesKept ==
    ASSUME SInv, UNCHANGED dispute
    PROVE  \A x \in DisputeIds : DisputeKept(x)
  BY DEF SInv, DisputeKept, DisputeOK

\* What has ended holds nothing.
LEMMA EndedOK ==
    /\ \A r \in Requests : txn'[r] = Resting("done") => ClientOK(r)'
    /\ \A j \in Jobs : job'[j] = Rest("done") => HeldOK(j)'
  BY DEF ClientOK, Resting, HeldOK, Rest, Openers
-----------------------------------------------------------------------------
(* The clients *)

\* A client's SELECT: what it keeps is what is there.
LEMMA ReadKeeps ==
    ASSUME SInv, NEW r \in Requests, Read(r)
    PROVE  /\ UNCHANGED <<payment, ledger>>
           /\ \A s \in Requests \ {r} : txn'[s] = txn[s]
           /\ ClientOK(r)'
  <1>1. TypeOK
    BY DEF SInv, AInv
  <1>2. Finish(r) => ClientOK(r)' /\ \A s \in Requests \ {r} : txn'[s] = txn[s]
    BY <1>1, EndedOK DEF Finish, TypeOK
  <1>3. ASSUME NEW a \in Amounts, NEW c \in Channel, NEW k \in Keys \cup {NoKey},
               CreateLookup(r, a, c, k)
        PROVE  /\ UNCHANGED <<payment, ledger>>
               /\ \A s \in Requests \ {r} : txn'[s] = txn[s]
               /\ ClientOK(r)'
    <2>1. CASE Finish(r)
      BY <1>2, <1>3, <2>1 DEF CreateLookup
    <2>2. CASE ~Finish(r)
      <3>1. NewRow(a, c, k).status = "PENDING"
        BY NewRowIsTyped
      <3> QED
        BY <1>1, <1>3, <2>2, <3>1 DEF CreateLookup, ClientOK, Openers, TypeOK
    <2> QED
      BY <2>1, <2>2
  <1>4. ASSUME NEW op \in Ops \ {"none", "create"}, NEW p \in Payments, NEW arg, NEW step, NEW admitted,
               MayBegin(r), Exists(p), UNCHANGED <<payment, ledger>>,
               IF admitted THEN Begin(r, op, step, p, arg) ELSE Finish(r),
               op \in Openers /\ admitted => ~Taken(p)
        PROVE  /\ UNCHANGED <<payment, ledger>>
               /\ \A s \in Requests \ {r} : txn'[s] = txn[s]
               /\ ClientOK(r)'
    <2>1. CASE Finish(r)
      BY <1>2, <1>4, <2>1
    <2>2. CASE ~Finish(r)
      <3>1. txn' = [txn EXCEPT ![r] = [op |-> op, step |-> step, on |-> p,
                                       seen |-> payment[p], arg |-> arg]]
            /\ (op \in Openers => ~Taken(p))
        BY <1>4, <2>2 DEF Begin
      <3>2. txn'[r].op = op /\ txn'[r].on = p /\ txn'[r].seen = payment[p]
            /\ \A s \in Requests \ {r} : txn'[s] = txn[s]
        BY <1>1, <3>1 DEF TypeOK
      <3>3. Exists(p)' /\ (Taken(p)' <=> Taken(p)) /\ payment'[p] = payment[p]
        BY <1>4 DEF Exists, Taken
      <3> QED
        BY <1>4, <3>1, <3>2, <3>3 DEF ClientOK, Openers
    <2> QED
      BY <2>1, <2>2
  <1>5. \A p \in Payments : /\ Pending(payment[p]) => ~Taken(p)
                            /\ CashCapturable(payment[p]) => ~Taken(p)
                            /\ Uncaptured(payment[p]) => ~Taken(p)
    BY DEF Pending, CashCapturable, Uncaptured, Taken
  <1>6. ASSUME NEW op \in Ops \ {"none", "create"}, NEW p \in Payments, NEW arg, NEW admitted,
               Select(r, op, p, arg, admitted) \/ SelectForUpdate(r, op, p, admitted),
               op \in Openers /\ admitted => ~Taken(p)
        PROVE  /\ UNCHANGED <<payment, ledger>>
               /\ \A s \in Requests \ {r} : txn'[s] = txn[s]
               /\ ClientOK(r)'
    <2>1. CASE Select(r, op, p, arg, admitted)
      <3>1. MayBegin(r) /\ Exists(p) /\ UNCHANGED <<payment, ledger>>
            /\ IF admitted THEN Begin(r, op, "selected", p, arg) ELSE Finish(r)
        BY <2>1 DEF Select
      <3> QED
        BY <1>4, <1>6, <3>1
    <2>2. CASE SelectForUpdate(r, op, p, admitted)
      <3>1. MayBegin(r) /\ Exists(p) /\ UNCHANGED <<payment, ledger>>
            /\ IF admitted THEN Begin(r, op, "locked", p, 0) ELSE Finish(r)
        BY <2>2 DEF SelectForUpdate
      <3> QED
        BY <1>4, <1>6, <3>1
    <2> QED
      BY <1>6, <2>1, <2>2
  <1>7. {"edit", "cancel", "captureLocked", "captureCash", "captureCard", "cancelUncaptured",
         "reverse", "tip", "cancelSession"} \subseteq Ops \ {"none", "create"}
    BY DEF Ops
  <1>8. ASSUME NEW p \in Payments,
               \/ \E a \in Amounts : EditSelect(r, p, a)
               \/ LockedCaptureSelect(r, p) \/ CashSelect(r, p) \/ CardSelect(r, p)
        PROVE  /\ UNCHANGED <<payment, ledger>>
               /\ \A s \in Requests \ {r} : txn'[s] = txn[s]
               /\ ClientOK(r)'
    BY <1>5, <1>6, <1>7, <1>8 DEF EditSelect, LockedCaptureSelect, CashSelect, CardSelect
  <1>9. {"cancel", "cancelUncaptured", "reverse", "tip", "cancelSession"} \cap Openers = {}
    BY DEF Openers
  <1>10. ASSUME NEW p \in Payments,
                \/ CancelSelect(r, p) \/ CancelUncapturedSelect(r, p) \/ ReverseSelect(r, p)
                \/ \E t \in Amounts \cup {0} : TipSelect(r, p, t)
                \/ CancelSessionSelect(r, p)
         PROVE  /\ UNCHANGED <<payment, ledger>>
                /\ \A s \in Requests \ {r} : txn'[s] = txn[s]
                /\ ClientOK(r)'
    BY <1>6, <1>7, <1>9, <1>10
       DEF CancelSelect, CancelUncapturedSelect, ReverseSelect, TipSelect, CancelSessionSelect
  <1> QED
    BY <1>3, <1>8, <1>10 DEF Read

\* Whose request ends, acts on the payment it read.
LEMMA EndedActs ==
    ASSUME TypeOK, NEW r \in Requests, Finish(r)
    PROVE  /\ ClientOK(r)' /\ \A s \in Requests \ {r} : txn'[s] = txn[s]
           /\ txn[r].on \in Payments => Acts(txn[r].on)
  <1>1. txn'[r] = Resting("done") /\ \A s \in Requests \ {r} : txn'[s] = txn[s]
    BY DEF Finish, TypeOK
  <1> QED
    BY <1>1, EndedOK, PaymentTypesAssumption DEF Acts, Resting

LEMMA JobEndedActs ==
    ASSUME RefundPart, NEW j \in Jobs, End(j)
    PROVE  /\ \A k \in Jobs : job'[k] = job[k] \/ HeldOK(k)'
           /\ job[j].on \in Payments => Acts(job[j].on)
  <1>1. job'[j] = Rest("done") /\ \A k \in Jobs \ {j} : job'[k] = job[k]
    BY DEF End, RefundPart
  <1>2. HeldOK(j)'
    BY <1>1, EndedOK
  <1>3. job[j].on \in Payments => Acts(job[j].on)
    BY <1>1, PaymentTypesAssumption DEF Acts, Rest
  <1> QED
    BY <1>1, <1>2, <1>3

LEMMA ClientStepOK ==
    ASSUME SInv, ClientStep, UNCHANGED <<refund, job, dispute>>
    PROVE  StepOK
  <1>1. TypeOK /\ RefundPart /\ \A p \in Payments : RowOK(p)
    BY DEF SInv, AInv
  <1>2. PICK r \in Requests : Read(r) \/ Write(r) \/ Rollback(r)
    BY PaymentLifecycleAssumption DEF ClientStep
  <1>3. \A s \in Requests : txn'[s] = txn[s] \/ ClientOK(s)'
    <2>1. CASE Read(r)
      BY <2>1, ReadKeeps
    <2>2. CASE Write(r) \/ Rollback(r)
      <3>1. Finish(r)
        BY <1>1, <2>2, WriteWrites DEF SInv, Rollback
      <3> QED
        BY <1>1, <3>1, EndedActs
    <2> QED
      BY <1>2, <2>1, <2>2
  <1>4. ASSUME NEW p \in Payments
        PROVE  Steady(p)
    <2>1. CASE payment'[p] = payment[p]
      BY <1>1, <2>1 DEF Steady, RowOK, Exists, Taken
    <2>2. CASE payment'[p] # payment[p]
      <3>1. Write(r)
        BY <1>2, <2>2, ReadKeeps DEF Rollback
      <3>2. Finish(r) /\ ClientWrites(r, p)
        <4>1. Finish(r) /\ \E q \in Payments : ClientWrites(r, q)
          BY <1>1, <2>2, <3>1, WriteWrites DEF SInv
        <4> QED
          BY <2>2, <4>1 DEF ClientWrites
      <3>3. CASE ClientInserts(r, p)
        BY <1>1, <3>3 DEF ClientInserts, Steady, RowOK, Exists, Taken, SInv, ClientOK
      <3>4. CASE ~ClientInserts(r, p)
        <4>1. /\ txn[r].op \notin {"none", "create"} /\ txn[r].on = p
              /\ payment'[p].key = payment[p].key
              /\ ClientKeeps(r, p) \/ ClientVoids(r, p) \/ ClientCaptures(r, p)
          BY <3>2, <3>4 DEF ClientWrites
        <4>2. Acts(p) /\ Exists(p)
          BY <1>1, <3>2, <4>1, EndedActs DEF SInv, ClientOK
        <4>3. RowOK(p) /\ \/ payment'[p].status = payment[p].status
                          \/ payment'[p].status \in {"VOIDED", "CAPTURED"}
          BY <1>1, <4>1 DEF ClientKeeps, ClientVoids, ClientCaptures
        <4> QED
          BY <4>1, <4>2, <4>3 DEF Steady, RowOK, Exists, Taken
      <3> QED
        BY <3>3, <3>4
    <2> QED
      BY <2>1, <2>2
  <1>5. (\A x \in RefundIds : RefundKept(x)) /\ (\A x \in DisputeIds : DisputeKept(x))
    BY RefundsKept, DisputesKept
  <1> QED
    BY <1>3, <1>4, <1>5 DEF StepOK
-----------------------------------------------------------------------------
(* The jobs *)

\* A job goes on: what it holds is what the lemma says, and nobody ends.
LEMMA JobMoved ==
    ASSUME RefundPart, NEW j \in Jobs, NEW rec, job' = [job EXCEPT ![j] = rec]
    PROVE  job'[j] = rec /\ \A k \in Jobs \ {j} : job'[k] = job[k]
  BY DEF RefundPart

LEMMA IssueStepOK ==
    ASSUME SInv, raced \subseteq raced', NEW j \in Jobs, UNCHANGED dispute,
           \/ \E p \in Payments, a \in Amounts : IssueSelect(j, p, a)
           \/ IssueSum(j)
           \/ \E x \in RefundIds : IssueWrite(j, x)
    PROVE  StepOK
  <1>1. TypeOK /\ RefundPart /\ HeldOK(j) /\ JobOK(job[j]) /\ job[j] \in Job
    BY DEF SInv, AInv, RefundPart
  <1>2. /\ UNCHANGED payment /\ \A p \in Payments : Steady(p)
        /\ UNCHANGED txn
        /\ \A x \in DisputeIds : DisputeKept(x)
    BY SteadyRows, DisputesKept DEF IssueSelect, IssueSum, IssueWrite, rowVars
  <1>3. \A x \in RefundIds : RefundKept(x)
    <2>1. CASE UNCHANGED refund
      BY <2>1, RefundsKept
    <2>2. CASE ~UNCHANGED refund
      <3>1. PICK x \in RefundIds : IssueWrite(j, x)
        BY <2>2 DEF IssueSelect, IssueSum
      <3>2. /\ job[j].op = "issue" /\ refund[x].status = "NONE"
            /\ refund'[x] = [status |-> "COMPLETED", payment |-> job[j].on, amount |-> job[j].amount]
            /\ \A y \in RefundIds \ {x} : refund'[y] = refund[y]
        BY <1>1, <3>1 DEF IssueWrite, JobAt, RefundPart
      <3>3. RefundOK(x)'
        BY <1>1, <1>2, <3>2 DEF RefundOK, HeldOK, JobOK, Taken
      <3> QED
        BY <1>2, <3>2, <3>3 DEF RefundKept, SInv, RefundOK, Taken
    <2> QED
      BY <2>1, <2>2
  <1>4. \A k \in Jobs : job'[k] = job[k] \/ HeldOK(k)'
    <2>1. CASE End(j)
      BY <1>1, <2>1, JobEndedActs
    <2>2. CASE ~End(j)
      <3>1. CASE IssueSum(j)
        <4>1. job' = [job EXCEPT ![j].step = "summed"] /\ job[j].op = "issue"
          BY <2>2, <3>1 DEF IssueSum, JobAt
        <4>2. /\ job'[j].op = "issue" /\ job'[j].on = job[j].on /\ job'[j].amount = job[j].amount
              /\ job'[j].seen = job[j].seen
              /\ \A k \in Jobs \ {j} : job'[k] = job[k]
          BY <1>1, <4>1 DEF Job, RefundPart
        <4> QED
          BY <1>1, <1>2, <4>1, <4>2 DEF HeldOK, Taken
      <3>2. ASSUME NEW p \in Payments, NEW a \in Amounts, IssueSelect(j, p, a)
            PROVE  \A k \in Jobs : job'[k] = job[k] \/ HeldOK(k)'
        <4> DEFINE rec == [Rest("selected") EXCEPT !.op = "issue", !.on = p,
                                   !.seen = payment[p].amount, !.amount = a]
        <4>1. job' = [job EXCEPT ![j] = rec] /\ Refundable(payment[p])
          BY <2>2, <3>2 DEF IssueSelect
        <4>2. rec.op = "issue" /\ rec.on = p /\ rec.seen = payment[p].amount /\ rec.amount = a
          BY DEF Rest
        <4> HIDE DEF rec
        <4>3. job'[j] = rec /\ \A k \in Jobs \ {j} : job'[k] = job[k]
          BY <1>1, <4>1, JobMoved
        <4> QED
          BY <1>2, <4>1, <4>2, <4>3 DEF HeldOK, Taken, Refundable
      <3>3. ASSUME NEW x \in RefundIds, IssueWrite(j, x)
            PROVE  End(j)
        BY <3>3 DEF IssueWrite
      <3> QED
        BY <2>2, <3>1, <3>2, <3>3
    <2> QED
      BY <2>1, <2>2
  <1> QED
    BY <1>2, <1>3, <1>4 DEF StepOK

LEMMA StatusStepOK ==
    ASSUME SInv, NEW j \in Jobs, UNCHANGED dispute,
           \/ \E x \in RefundIds, to \in RefundStatus \ {"NONE"} : StatusSelect(j, x, to)
           \/ StatusFail(j) \/ StatusSum(j) \/ StatusComplete(j)
    PROVE  StepOK
  <1>1. TypeOK /\ RefundPart /\ HeldOK(j) /\ JobOK(job[j]) /\ job[j] \in Job
    BY DEF SInv, AInv, RefundPart
  <1>2. UNCHANGED txn /\ \A x \in DisputeIds : DisputeKept(x)
    BY DisputesKept DEF StatusSelect, StatusFail, StatusSum, StatusComplete, rowVars
  <1>3. ASSUME StatusFail(j) \/ StatusComplete(j)
        PROVE  /\ job[j].op = "status" /\ End(j)
               /\ \E x \in RefundIds, to \in RefundStatus \ {"NONE"} :
                     /\ x = job[j].refund /\ refund[x].payment = job[j].on /\ refund[x].status # "NONE"
                     /\ refund' = [refund EXCEPT ![x].status = to]
    <2>1. job[j].op = "status" /\ End(j)
          /\ refund' = [refund EXCEPT ![job[j].refund].status =
                            IF StatusFail(j) THEN job[j].to ELSE "COMPLETED"]
      BY <1>3 DEF StatusFail, StatusComplete, JobAt
    <2>2. job[j].to \in RefundStatus \ {"NONE"} /\ "COMPLETED" \in RefundStatus \ {"NONE"}
      BY <1>1, <2>1 DEF JobOK, Job, RefundStatus
    <2> QED
      BY <1>1, <2>1, <2>2 DEF JobOK
  <1>4. \A x \in RefundIds : RefundKept(x)
    <2>1. CASE UNCHANGED refund
      BY <2>1, RefundsKept
    <2>2. CASE ~UNCHANGED refund
      <3>1. StatusFail(j) \/ StatusComplete(j)
        BY <2>2 DEF StatusSelect, StatusSum
      <3>2. PICK x \in RefundIds, to \in RefundStatus \ {"NONE"} :
               refund[x].status # "NONE" /\ refund' = [refund EXCEPT ![x].status = to]
        BY <1>3, <3>1
      <3>3. /\ refund'[x].status = to /\ refund'[x].payment = refund[x].payment
            /\ refund'[x].amount = refund[x].amount /\ \A y \in RefundIds \ {x} : refund'[y] = refund[y]
        BY <1>1, <3>2 DEF RefundPart, RefundRow
      <3>4. UNCHANGED payment \/ \E p \in Payments : p = job[j].on
        BY <1>1, <1>3, <3>1 DEF JobOK, RefundPart, IssuedOK
      <3>5. ASSUME NEW y \in RefundIds, refund[y].status = "NONE"
            PROVE  RefundOK(y)'
        BY <3>2, <3>3, <3>5 DEF RefundOK
      <3> QED
        BY <3>2, <3>3, <3>5 DEF RefundKept
    <2> QED
      BY <2>1, <2>2
  <1>5. \A p \in Payments : Steady(p)
    <2>1. CASE UNCHANGED payment
      BY <2>1, SteadyRows
    <2>2. CASE ~UNCHANGED payment
      <3>1. StatusComplete(j)
        BY <2>2 DEF StatusSelect, StatusFail, StatusSum, rowVars
      <3>2. PICK x \in RefundIds : x = job[j].refund /\ refund[x].payment = job[j].on /\ refund[x].status # "NONE"
        BY <1>3, <3>1
      <3>3. RefundOK(x)
        BY DEF SInv
      <3>4. PICK p \in Payments : p = job[j].on /\ Taken(p)
        BY <3>2, <3>3 DEF RefundOK
      <3> DEFINE status == IF job[j].covers THEN "REFUNDED" ELSE "PARTIALLY_REFUNDED"
      <3>5. payment' = [payment EXCEPT ![p].status = status]
        BY <3>1, <3>4 DEF StatusComplete
      <3>6. status \in {"REFUNDED", "PARTIALLY_REFUNDED"}
        OBVIOUS
      <3> HIDE DEF status
      <3>7. /\ payment'[p].status = status /\ payment'[p].key = payment[p].key
            /\ payment'[p].amount = payment[p].amount
            /\ \A q \in Payments \ {p} : payment'[q] = payment[q]
        BY <1>1, <3>5 DEF TypeOK, Row
      <3>8. Acts(p)
        BY <1>1, <1>3, <3>1, <3>4, JobEndedActs
      <3>9. Steady(p)
        BY <3>4, <3>6, <3>7, <3>8 DEF Steady, RowOK, Exists, Taken
      <3>10. ASSUME NEW q \in Payments \ {p}
             PROVE  Steady(q)
        BY <3>7 DEF SInv, Steady, RowOK, Exists, Taken
      <3> QED
        BY <3>9, <3>10
    <2> QED
      BY <2>1, <2>2
  <1>6. \A k \in Jobs : job'[k] = job[k] \/ HeldOK(k)'
    <2>1. CASE End(j)
      BY <1>1, <2>1, JobEndedActs
    <2>2. CASE ~End(j)
      <3>1. CASE StatusSum(j)
        <4>1. /\ job[j].op = "status" /\ UNCHANGED refund
              /\ job' = [job EXCEPT ![j].step = "summed", ![j].covers = Covers(j)]
          BY <3>1 DEF StatusSum, JobAt
        <4>2. /\ job'[j].op = "status" /\ job'[j].amount = job[j].amount
              /\ job'[j].refund = job[j].refund
              /\ \A k \in Jobs \ {j} : job'[k] = job[k]
          BY <1>1, <4>1 DEF Job, RefundPart
        <4> QED
          BY <1>1, <4>1, <4>2 DEF HeldOK
      <3>2. ASSUME NEW x \in RefundIds, NEW to \in RefundStatus \ {"NONE"}, StatusSelect(j, x, to)
            PROVE  \A k \in Jobs : job'[k] = job[k] \/ HeldOK(k)'
        <4> DEFINE rec == [Rest("selected") EXCEPT !.op = "status", !.on = refund[x].payment,
                               !.refund = x, !.to = to, !.amount = refund[x].amount]
        <4>1. job' = [job EXCEPT ![j] = rec] /\ UNCHANGED refund
          BY <2>2, <3>2 DEF StatusSelect
        <4>2. rec.op = "status" /\ rec.refund = x /\ rec.amount = refund[x].amount
          BY DEF Rest
        <4> HIDE DEF rec
        <4>3. job'[j] = rec /\ \A k \in Jobs \ {j} : job'[k] = job[k]
          BY <1>1, <4>1, JobMoved
        <4> QED
          BY <4>1, <4>2, <4>3 DEF HeldOK
      <3> QED
        BY <1>3, <2>2, <3>1, <3>2
    <2> QED
      BY <2>1, <2>2
  <1> QED
    BY <1>2, <1>4, <1>5, <1>6 DEF StepOK

LEMMA SplitStepKeeps ==
    ASSUME SInv, SplitStep, UNCHANGED dispute
    PROVE  StepOK
  <1>1. TypeOK /\ RefundPart
    BY DEF SInv, AInv
  <1>2. PICK j \in Jobs : \/ \E k \in SplitKeys \cup {NoKey}, a, b \in PartAmounts : SplitLookup(j, k, a, b)
                          \/ \E p, q \in Payments : SplitInsert(j, p, q)
                          \/ SplitConflict(j)
    BY DEF SplitStep
  <1>3. UNCHANGED <<txn, refund>>
    BY <1>2 DEF SplitLookup, SplitInsert, SplitConflict, rowVars
  <1>4. (\A x \in RefundIds : RefundKept(x)) /\ (\A x \in DisputeIds : DisputeKept(x))
    BY <1>3, RefundsKept, DisputesKept
  <1>5. \A p \in Payments : Steady(p)
    <2>1. CASE UNCHANGED payment
      BY <2>1, SteadyRows
    <2>2. CASE ~UNCHANGED payment
      <3>1. PICK p \in Payments, q \in Payments : SplitInsert(j, p, q)
        BY <1>2, <2>2 DEF SplitLookup, SplitConflict, rowVars
      <3>2. \A amount, key : PartRow(amount, key).status = "CAPTURED"
        BY DEF PartRow, NewRow, Unwritten
      <3>3. /\ p # q /\ ~Exists(p) /\ ~Exists(q)
            /\ payment'[p].status = "CAPTURED" /\ payment'[q].status = "CAPTURED"
            /\ \A s \in Payments \ {p, q} : payment'[s] = payment[s]
        BY <1>1, <3>1, <3>2 DEF SplitInsert, TypeOK
      <3> QED
        BY <3>3 DEF SInv, Steady, RowOK, Exists, Taken
    <2> QED
      BY <2>1, <2>2
  <1>6. \A k \in Jobs : job'[k] = job[k] \/ HeldOK(k)'
    <2>1. CASE End(j)
      BY <1>1, <2>1, JobEndedActs
    <2>2. CASE ~End(j)
      <3>1. PICK key \in SplitKeys \cup {NoKey}, a \in PartAmounts, b \in PartAmounts : SplitLookup(j, key, a, b)
        BY <1>2, <2>2 DEF SplitInsert, SplitConflict
      <3> DEFINE rec == [Rest("selected") EXCEPT !.op = "split", !.key = key, !.amount = a, !.seen = b]
      <3>2. job' = [job EXCEPT ![j] = rec]
        BY <2>2, <3>1 DEF SplitLookup
      <3>3. rec.op = "split"
        BY DEF Rest
      <3> HIDE DEF rec
      <3>4. job'[j] = rec /\ \A k \in Jobs \ {j} : job'[k] = job[k]
        BY <1>1, <3>2, JobMoved
      <3> QED
        BY <3>3, <3>4 DEF HeldOK
    <2> QED
      BY <2>1, <2>2
  <1> QED
    BY <1>3, <1>4, <1>5, <1>6 DEF StepOK

LEMMA DisputeStepKeeps ==
    ASSUME SInv, DisputeStep
    PROVE  StepOK
  <1>1. TypeOK /\ RefundPart /\ DisputePart
    BY DEF SInv, AInv
  <1>2. PICK x \in DisputeIds :
           \/ \E p \in Payments, a \in Amounts : Raise(x, p, a)
           \/ RespondSelect(x)
           \/ RespondWrite(x)
           \/ \E to \in DisputeStatus \ {"NONE"} : Decide(x, to)
    BY DEF DisputeStep
  <1>3. UNCHANGED <<txn, refund, job>> /\ \A y \in RefundIds : RefundKept(y)
    BY <1>2, RefundsKept DEF Raise, RespondSelect, RespondWrite, Decide, rowVars
  <1>4. ASSUME NEW p \in Payments, NEW a \in Amounts, Raise(x, p, a)
        PROVE  \A y \in DisputeIds : DisputeKept(y)
    <2>1. /\ Taken(p) /\ Taken(p)' /\ dispute[x].status = "NONE"
          /\ dispute'[x].payment = p
          /\ \A y \in DisputeIds \ {x} : dispute'[y] = dispute[y]
      BY <1>1, <1>4 DEF Raise, Refundable, Taken, rowVars, Unraised, DisputePart
    <2>2. DisputeOK(x)'
      BY <2>1 DEF DisputeOK
    <2>3. ASSUME NEW y \in DisputeIds \ {x}, dispute[y].status = "NONE"
          PROVE  DisputeOK(y)'
      BY <2>1, <2>3 DEF DisputeOK
    <2> QED
      BY <2>1, <2>2, <2>3 DEF DisputeKept
  <1>5. ASSUME RespondWrite(x)
        PROVE  \A y \in DisputeIds : DisputeKept(y)
    <2>1. /\ dispute'[x].payment = dispute[x].payment /\ dispute'[x].status = dispute[x].status
          /\ \A y \in DisputeIds \ {x} : dispute'[y] = dispute[y]
      BY <1>1, <1>5 DEF RespondWrite, DisputePart, DisputeRow
    <2>2. ASSUME NEW y \in DisputeIds, dispute[y].status = "NONE"
          PROVE  DisputeOK(y)'
      BY <2>1, <2>2 DEF DisputeOK
    <2> QED
      BY <2>1, <2>2 DEF DisputeKept
  <1>6. ASSUME NEW to \in DisputeStatus \ {"NONE"}, Decide(x, to)
        PROVE  \A y \in DisputeIds : DisputeKept(y)
    <2>1. /\ dispute'[x].payment = dispute[x].payment /\ dispute'[x].status = to
          /\ dispute[x].status # "NONE"
          /\ \A y \in DisputeIds \ {x} : dispute'[y] = dispute[y]
      BY <1>1, <1>6 DEF Decide, DisputePart, DisputeRow
    <2>2. ASSUME NEW y \in DisputeIds, dispute[y].status = "NONE"
          PROVE  DisputeOK(y)'
      BY <2>1, <2>2 DEF DisputeOK
    <2> QED
      BY <2>1, <2>2 DEF DisputeKept
  <1>7. RespondSelect(x) => \A y \in DisputeIds : DisputeKept(y)
    BY DisputesKept DEF RespondSelect
  <1>8. \A p \in Payments : Steady(p)
    <2>1. CASE UNCHANGED payment
      BY <2>1, SteadyRows
    <2>2. CASE ~UNCHANGED payment
      <3>1. dispute[x].status # "NONE"
            /\ payment' = [payment EXCEPT ![dispute[x].payment].status = "VOIDED"]
        BY <1>2, <2>2 DEF Raise, RespondSelect, RespondWrite, Decide, rowVars
      <3>2. PICK p \in Payments : p = dispute[x].payment /\ Taken(p)
        BY <3>1 DEF SInv, DisputeOK
      <3>3. /\ payment'[p].status = "VOIDED" /\ payment'[p].key = payment[p].key
            /\ payment'[p].amount = payment[p].amount
            /\ \A q \in Payments \ {p} : payment'[q] = payment[q]
        BY <1>1, <3>1, <3>2 DEF TypeOK, Row
      <3> QED
        BY <3>2, <3>3 DEF SInv, Steady, RowOK, Exists, Taken
    <2> QED
      BY <2>1, <2>2
  <1> QED
    BY <1>2, <1>3, <1>4, <1>5, <1>6, <1>7, <1>8 DEF StepOK

LEMMA OutsideStepOK ==
    ASSUME SInv, UNCHANGED dispute,
           \/ \E x \in RefundIds, p \in Payments, a \in Amounts : RequestRefund(x, p, a)
           \/ \E j \in Jobs : JobFails(j)
           \/ RefundsQuiescent
    PROVE  StepOK
  <1>1. RefundPart
    BY DEF SInv, AInv
  <1>2. /\ UNCHANGED <<payment, txn>> /\ \A p \in Payments : Steady(p)
        /\ \A x \in DisputeIds : DisputeKept(x)
    BY SteadyRows, DisputesKept DEF RequestRefund, JobFails, RefundsQuiescent, rowVars
  <1>3. ASSUME NEW x \in RefundIds, NEW p \in Payments, NEW a \in Amounts, RequestRefund(x, p, a)
        PROVE  \A y \in RefundIds : RefundKept(y)
    <2>1. /\ Taken(p)' /\ refund[x].status = "NONE"
          /\ refund'[x] = [status |-> "PENDING", payment |-> p, amount |-> a]
          /\ \A y \in RefundIds \ {x} : refund'[y] = refund[y]
      BY <1>1, <1>3 DEF RequestRefund, Refundable, Taken, rowVars, RefundPart
    <2>2. ASSUME NEW y \in RefundIds, refund[y].status = "NONE"
          PROVE  RefundOK(y)'
      BY <2>1, <2>2 DEF RefundOK
    <2> QED
      BY <2>1, <2>2 DEF RefundKept
  <1>4. CASE UNCHANGED job /\ \A x \in RefundIds : RefundKept(x)
    BY <1>2, <1>4 DEF StepOK
  <1>5. ASSUME NEW j \in Jobs, JobFails(j)
        PROVE  StepOK
    <2>1. End(j) /\ UNCHANGED refund
      BY <1>5 DEF JobFails
    <2> QED
      BY <1>1, <1>2, <2>1, JobEndedActs, RefundsKept DEF StepOK
  <1>6. RefundsQuiescent => UNCHANGED <<refund, job>>
    BY DEF RefundsQuiescent
  <1>7. \A x \in RefundIds, p \in Payments, a \in Amounts : RequestRefund(x, p, a) => UNCHANGED job
    BY DEF RequestRefund
  <1> QED
    BY <1>3, <1>4, <1>5, <1>6, <1>7, RefundsKept

LEMMA NextStepOK ==
    ASSUME SInv, AftermathNext
    PROVE  StepOK
  <1>1. CASE ClientStep /\ UNCHANGED <<refund, job, unmoved, disputeVars>>
    BY <1>1, ClientStepOK DEF disputeVars
  <1>2. CASE RefundStep /\ UNCHANGED disputeVars
    <2>1. UNCHANGED dispute /\ raced \subseteq raced'
      BY <1>2 DEF disputeVars, AftermathNext
    <2> QED
      BY <1>2, <2>1, IssueStepOK, StatusStepOK, OutsideStepOK DEF RefundStep
  <1>3. CASE SplitStep /\ UNCHANGED disputeVars
    BY <1>3, SplitStepKeeps DEF disputeVars
  <1>4. CASE DisputeStep
    BY <1>4, DisputeStepKeeps
  <1>5. CASE RefundsQuiescent /\ UNCHANGED disputeVars
    BY <1>5, OutsideStepOK DEF disputeVars
  <1> QED
    BY <1>1, <1>2, <1>3, <1>4, <1>5 DEF AftermathNext

LEMMA InitSInv == ASSUME AftermathInit PROVE SInv
  <1>1. AInv
    BY AftermathInitOK
  <1>2. /\ payment = [p \in Payments |-> Unwritten] /\ txn = [r \in Requests |-> Resting("new")]
        /\ refund = [x \in RefundIds |-> Unissued] /\ job = [j \in Jobs |-> Rest("new")]
        /\ dispute = [x \in DisputeIds |-> Unraised]
    BY DEF AftermathInit, RefundsInit, RowsInit
  <1> QED
    BY <1>1, <1>2 DEF SInv, RowOK, ClientOK, RefundOK, DisputeOK, HeldOK, Unwritten, Resting,
                      Unissued, Rest, Unraised, Exists, Openers

LEMMA StutterSInv == ASSUME SInv, UNCHANGED aftermathVars PROVE SInv'
  <1>1. AInv'
    BY AftermathStutterOK DEF SInv
  <1>2. UNCHANGED <<payment, txn, refund, job, dispute, raced>>
    BY DEF aftermathVars, refundsVars, refundVars, disputeVars, rowVars
  <1> QED
    BY <1>1, <1>2 DEF SInv, RowOK, ClientOK, RefundOK, DisputeOK, HeldOK, Exists, Taken

LEMMA NextSInv == ASSUME SInv, AftermathNext PROVE SInv'
  <1>1. AInv' /\ Remembered
    BY AftermathNextOK DEF SInv, AftermathNext, Remembered
  <1> QED
    BY <1>1, NextStepOK, StepKeepsSInv
-----------------------------------------------------------------------------
(* The money of a payment nobody raced on *)

HasRefund(p) == \E x \in RefundIds : refund[x].status # "NONE" /\ refund[x].payment = p

\* The status of the row says what was paid back.
Tells(p) ==
    /\ payment[p].status = "REFUNDED" => Refunded(p) = payment[p].amount
    /\ payment[p].status = "PARTIALLY_REFUNDED" => Refunded(p) \in 1 .. payment[p].amount - 1
    /\ payment[p].status = "CAPTURED" => Refunded(p) = 0

\* The money is taken not at all or in full, in full before any of it goes back, and
\* what went back or may yet is within it.
MoneyOK(p) ==
    /\ ~Taken(p) => Took(p) = 0
    /\ Took(p) \in {0, payment[p].amount}
    /\ payment[p].status \in {"CAPTURED", "PARTIALLY_REFUNDED", "REFUNDED"} \/ HasRefund(p)
           => Took(p) = payment[p].amount
    /\ GaveBack(p) = 0 - Refunded(p)
    /\ Claimed(p) =< payment[p].amount
    /\ p \notin unmoved => Tells(p)

\* What a job has found out about the money is still so.
ClaimOK(j) ==
    /\ job[j].op = "issue" =>
          /\ Took(job[j].on) = payment[job[j].on].amount
          /\ job[j].step = "summed" =>
                job[j].amount + Claimed(job[j].on) =< payment[job[j].on].amount
    /\ job[j].op = "status" /\ job[j].step = "summed" =>
          (job[j].covers <=> Refunded(job[j].on) + job[j].amount >= payment[job[j].on].amount)

VoidedOK(p) == WroteOff(p) + Lost(p) =< 0

MInv ==
    /\ \A p \in Payments \ raced : MoneyOK(p)
    /\ \A j \in Jobs : job[j].on \notin raced => ClaimOK(j)
    /\ \A p \in Payments : VoidedOK(p)

\* Nothing a job may have found out changes while it works on p and nobody there ends.
Quiet(p) ==
    /\ payment'[p].amount = payment[p].amount
    /\ Took(p)' = Took(p) /\ Refunded(p)' = Refunded(p) /\ Claimed(p)' = Claimed(p)

Calm(p) == Taken(p) /\ Workers(p) # {} /\ ~Acts(p) => Quiet(p)

MoneyStep ==
    /\ \A p \in Payments : p \notin raced' => MoneyOK(p)' /\ Calm(p)
    /\ \A j \in Jobs : job'[j] = job[j] \/ (job'[j].on \notin raced' => ClaimOK(j)')
    /\ \A p \in Payments : VoidedOK(p)'

LEMMA StepKeepsMInv ==
    ASSUME SInv, MInv, raced \subseteq raced', MoneyStep
    PROVE  MInv'
  <1>1. RefundPart
    BY DEF SInv, AInv
  <1>2. ASSUME NEW j \in Jobs, job'[j].on \notin raced', job'[j] = job[j]
        PROVE  ClaimOK(j)'
    <2>1. CASE job[j].op \notin {"issue", "status"}
      BY <1>2, <2>1 DEF ClaimOK
    <2>2. CASE job[j].op \in {"issue", "status"}
      <3>1. HeldOK(j) /\ JobOK(job[j]) /\ ClaimOK(j)
        BY <1>1, <1>2 DEF SInv, RefundPart, MInv
      <3>2. PICK p \in Payments : p = job[j].on /\ Taken(p)
        <4>1. CASE job[j].op = "issue"
          BY <3>1, <4>1 DEF HeldOK, JobOK
        <4>2. CASE job[j].op = "status"
          BY <3>1, <4>2 DEF SInv, RefundOK, JobOK
        <4> QED
          BY <2>2, <4>1, <4>2
      <3>3. ~Acts(p)
        BY <1>1, <1>2, <3>2, Solo
      <3>4. j \in Workers(p)
        BY <3>2 DEF Workers
      <3>5. Quiet(p)
        BY <1>2, <3>2, <3>3, <3>4 DEF MoneyStep, Calm
      <3> QED
        BY <1>2, <3>1, <3>2, <3>5 DEF ClaimOK, Quiet
    <2> QED
      BY <2>1, <2>2
  <1> QED
    BY <1>2 DEF MInv, MoneyStep

\* What is not taken has no refund and no dispute.
LEMMA NothingYet ==
    ASSUME SInv, NEW p \in Payments, ~Taken(p)
    PROVE  ~HasRefund(p) /\ Refunded(p) = 0 /\ Claimed(p) = 0 /\ Lost(p) = 0
  <1>1. \A x \in RefundIds : refund[x].status # "NONE" => refund[x].payment # p
    BY DEF SInv, RefundOK
  <1>2. RefundsTyped
    BY DEF SInv, AInv, RefundPart, RefundsTyped
  <1>3. LostOn(p) = {}
    BY DEF SInv, DisputeOK, LostOn
  <1> QED
    BY <1>1, <1>2, <1>3, NothingClaimed, SumEmpty DEF HasRefund, Lost

\* A payment that is not taken stays so, or is taken in full.
LEMMA FreshMoney ==
    ASSUME SInv, SInv', NEW p \in Payments, ~Taken(p), UNCHANGED refund, GaveBack(p)' = 0,
           \/ ~Taken(p)' /\ Took(p)' = 0
           \/ payment'[p].status = "CAPTURED" /\ Took(p)' = payment'[p].amount
    PROVE  MoneyOK(p)' /\ Calm(p)
  <1>1. ~HasRefund(p) /\ Refunded(p) = 0 /\ Claimed(p) = 0
    BY NothingYet
  <1>2. ~HasRefund(p)' /\ Refunded(p)' = 0 /\ Claimed(p)' = 0
    BY <1>1, RefundsStay DEF HasRefund, Refunded, Claimed
  <1>3. payment'[p].amount \in Nat
    BY DEF SInv, AInv, TypeOK, Row
  <1>4. Calm(p)
    BY DEF Calm
  <1>5. ~Taken(p)' => payment'[p].status \notin {"CAPTURED", "PARTIALLY_REFUNDED", "REFUNDED"}
    BY DEF Taken
  <1>6. Tells(p)'
    BY <1>2, <1>5 DEF Tells
  <1>7. GaveBack(p)' = 0 - Refunded(p)' /\ Claimed(p)' =< payment'[p].amount
    BY <1>2, <1>3
  <1>8. (~Taken(p))' => Took(p)' = 0
    BY DEF Taken
  <1> QED
    BY <1>2, <1>4, <1>5, <1>6, <1>7, <1>8 DEF MoneyOK

\* The sums stay, and the status does or becomes VOIDED.
LEMMA SameMoney ==
    ASSUME SInv, NEW p \in Payments, MoneyOK(p),
           Took(p)' = Took(p), GaveBack(p)' = GaveBack(p), Refunded(p)' = Refunded(p),
           Claimed(p)' \in Int, Claimed(p)' =< Claimed(p),
           payment'[p].amount = payment[p].amount,
           payment'[p].status \in {payment[p].status, "VOIDED"},
           HasRefund(p)' => HasRefund(p), p \in unmoved => p \in unmoved'
    PROVE  MoneyOK(p)'
  <1>1. RefundsTyped /\ payment[p].amount \in Nat
    BY DEF SInv, AInv, RefundPart, RefundsTyped, TypeOK, Row
  <1>2. Claimed(p) \in Nat
    BY <1>1, RefundedIsClaimed
  <1>3. p \notin unmoved' => Tells(p)'
    BY DEF MoneyOK, Tells
  <1> QED
    BY <1>1, <1>2, <1>3 DEF MoneyOK, Taken

LEMMA LostStays ==
    ASSUME DisputesTyped, NEW p, LostOn(p)' = LostOn(p),
           \A x \in LostOn(p) : dispute'[x].amount = dispute[x].amount
    PROVE  Lost(p)' = Lost(p)
  <1>0. PICK g : g = DisputeAmount'
    OBVIOUS
  <1>1. /\ IsFiniteSet(LostOn(p)) /\ LostOn(p) \subseteq DisputeIds
        /\ \A x \in DisputeIds : DisputeAmount[x] = dispute[x].amount /\ DisputeAmount[x] \in Nat
    BY LostIsNat
  <1>2. \A x \in LostOn(p) : g[x] = DisputeAmount[x]
    BY <1>0, <1>1 DEF DisputeAmount
  <1>3. IntOn(DisputeAmount, LostOn(p))
    BY <1>1 DEF IntOn
  <1>4. SumFunctionOnSet(DisputeAmount, LostOn(p)) = SumFunctionOnSet(g, LostOn(p))
    BY <1>1, <1>2, <1>3, SumSame
  <1> QED
    BY <1>0, <1>4 DEF Lost

\* Nothing is posted, refunded or decided.
LEMMA StillMoney ==
    ASSUME SInv, MInv, raced \subseteq raced', NEW p \in Payments,
           payment'[p] = payment[p], ledger'[p] = ledger[p], UNCHANGED <<refund, unmoved>>
    PROVE  /\ p \notin raced' => MoneyOK(p)' /\ Calm(p)
           /\ Took(p)' = Took(p) /\ WroteOff(p)' = WroteOff(p)
           /\ Refunded(p)' = Refunded(p) /\ Claimed(p)' = Claimed(p)
  <1>1. TypeOK /\ RefundsTyped
    BY DEF SInv, AInv, RefundPart, RefundsTyped
  <1>2. Took(p)' = Took(p) /\ GaveBack(p)' = GaveBack(p) /\ WroteOff(p)' = WroteOff(p)
    BY <1>1, TotalsStay
  <1>3. Refunded(p)' = Refunded(p) /\ Claimed(p)' = Claimed(p)
    BY RefundsStay DEF Refunded, Claimed
  <1>4. Claimed(p) \in Nat
    BY <1>1, RefundedIsClaimed
  <1>5. HasRefund(p)' <=> HasRefund(p)
    BY DEF HasRefund
  <1>6. ASSUME p \notin raced'
        PROVE  MoneyOK(p)'
    <2>1. MoneyOK(p)
      BY <1>6 DEF MInv
    <2>2. payment'[p].amount = payment[p].amount /\ payment'[p].status = payment[p].status
          /\ Claimed(p)' \in Int /\ Claimed(p)' =< Claimed(p)
      BY <1>3, <1>4
    <2> QED
      BY <1>2, <1>3, <1>5, <2>1, <2>2, SameMoney
  <1> QED
    BY <1>2, <1>3, <1>6 DEF Calm, Quiet
\* A step that leaves the rows, the ledger and the refunds alone.
LEMMA IdleMoney ==
    ASSUME SInv, MInv, raced \subseteq raced', UNCHANGED <<payment, ledger, refund, unmoved>>
    PROVE  /\ \A p \in Payments : p \notin raced' => MoneyOK(p)' /\ Calm(p)
           /\ \A p \in Payments : /\ Took(p)' = Took(p) /\ WroteOff(p)' = WroteOff(p)
                                  /\ Refunded(p)' = Refunded(p) /\ Claimed(p)' = Claimed(p)
  BY StillMoney

LEMMA SameLost ==
    ASSUME SInv, MInv, UNCHANGED dispute, NEW p \in Payments, WroteOff(p)' =< WroteOff(p),
           WroteOff(p)' \in Int
    PROVE  VoidedOK(p)'
  <1>1. DisputesTyped /\ TypeOK
    BY DEF SInv, AInv, DisputePart, DisputesTyped
  <1>2. LostOn(p)' = LostOn(p)
    BY DEF LostOn
  <1>3. Lost(p)' = Lost(p)
    BY <1>1, <1>2, LostStays
  <1>4. Lost(p) \in Nat /\ WroteOff(p) \in Int
    BY <1>1, LostIsNat, TotalsAreInt
  <1> QED
    BY <1>3, <1>4 DEF VoidedOK, MInv

\* A client's commit.
LEMMA CommitMoney ==
    ASSUME SInv, SInv', MInv, raced \subseteq raced', UNCHANGED <<refund, job, unmoved, dispute>>,
           NEW r \in Requests, NEW p \in Payments, Finish(r), ClientWrites(r, p)
    PROVE  MoneyStep
  <1>1. TypeOK /\ RefundPart /\ ClientOK(r) /\ RefundsTyped
    BY DEF SInv, AInv, RefundPart, RefundsTyped
  <1>2. \A q \in Payments : Took(q) \in Int /\ GaveBack(q) \in Int /\ WroteOff(q) \in Int
    BY <1>1, TotalsAreInt
  <1>3. txn[r].seen.amount \in Nat /\ payment[p].amount \in Nat
    BY <1>1 DEF TypeOK, Txn, Row
  <1>4. PICK type \in {"PAYMENT_CREATED", "TIP_ADDED", "VOIDED", "CAPTURED"}, amount \in Int :
           /\ Posted(p, type, amount)
           /\ type = "VOIDED" => amount =< 0
    BY <1>3 DEF ClientWrites, ClientInserts, ClientKeeps, ClientVoids, ClientCaptures
  <1>5. ASSUME NEW q \in Payments
        PROVE  WroteOff(q)' =< WroteOff(q) /\ WroteOff(q)' \in Int /\ GaveBack(q)' = GaveBack(q)
               /\ (q # p => Took(q)' = Took(q))
    BY <1>2, <1>4 DEF Posted
  <1>6. \A q \in Payments : VoidedOK(q)'
    BY <1>5, SameLost
  <1>7. ASSUME NEW q \in Payments
        PROVE  /\ Refunded(q)' = Refunded(q) /\ Claimed(q)' = Claimed(q) /\ Claimed(q) \in Nat
               /\ (HasRefund(q)' <=> HasRefund(q))
    <2>1. Refunded(q)' = Refunded(q) /\ Claimed(q)' = Claimed(q)
      BY RefundsStay DEF Refunded, Claimed
    <2>2. Claimed(q) \in Nat
      BY <1>1, RefundedIsClaimed
    <2> QED
      BY <2>1, <2>2 DEF HasRefund
  <1>8. ASSUME NEW q \in Payments, q \notin raced', Took(q)' = Took(q),
               payment'[q].amount = payment[q].amount,
               payment'[q].status \in {payment[q].status, "VOIDED"}
        PROVE  MoneyOK(q)' /\ Calm(q)
    <2>1. MoneyOK(q)
      BY <1>8 DEF MInv
    <2>2. Claimed(q)' \in Int /\ Claimed(q)' =< Claimed(q)
      BY <1>7
    <2>3. MoneyOK(q)'
      BY <1>5, <1>7, <1>8, <2>1, <2>2, SameMoney
    <2> QED
      BY <1>7, <1>8, <2>3 DEF Calm, Quiet
  <1>9. ASSUME NEW q \in Payments, q \notin raced', q # p
        PROVE  MoneyOK(q)' /\ Calm(q)
    <2>1. payment'[q] = payment[q]
      BY <1>9 DEF ClientWrites
    <2> QED
      BY <1>5, <1>8, <1>9, <2>1
  <1>10. ASSUME p \notin raced'
         PROVE  MoneyOK(p)' /\ Calm(p)
    <2>1. MoneyOK(p) /\ p \notin raced
      BY <1>10 DEF MInv
    <2>2. ASSUME ~Taken(p),
                 \/ ~Taken(p)' /\ Took(p)' = 0
                 \/ payment'[p].status = "CAPTURED" /\ Took(p)' = payment'[p].amount
          PROVE  MoneyOK(p)' /\ Calm(p)
      <3>1. Refunded(p) = 0
        BY <2>2, NothingYet
      <3>2. GaveBack(p)' = 0
        BY <1>5, <2>1, <3>1 DEF MoneyOK
      <3> QED
        BY <2>2, <3>2, FreshMoney
    <2>3. CASE ClientInserts(r, p)
      <3>1. ~Taken(p) /\ payment'[p].status = "PENDING" /\ Took(p)' = Took(p)
        BY <1>1, <1>2, <2>3 DEF ClientInserts, Posted, Exists, Taken, ClientOK
      <3> QED
        BY <2>1, <2>2, <3>1 DEF MoneyOK, Taken
    <2>4. CASE ClientKeeps(r, p) /\ txn[r].on = p
      <3>1. Took(p)' = Took(p) /\ payment'[p].status = payment[p].status
        BY <1>2, <2>4 DEF ClientKeeps, Posted
      <3>2. CASE txn[r].op = "edit"
        <4>1. ~Taken(p)
          BY <1>1, <2>1, <2>4, <3>2 DEF ClientOK, Openers
        <4> QED
          BY <2>1, <2>2, <3>1, <4>1 DEF MoneyOK, Taken
      <3>3. CASE payment'[p].amount = payment[p].amount
        BY <1>8, <1>10, <3>1, <3>3
      <3> QED
        BY <2>4, <3>2, <3>3 DEF ClientKeeps
    <2>5. CASE ClientVoids(r, p)
      <3>1. Took(p)' = Took(p) /\ payment'[p].status = "VOIDED" /\ payment'[p].amount = payment[p].amount
        BY <1>2, <2>5 DEF ClientVoids, Posted
      <3> QED
        BY <1>8, <1>10, <3>1
    <2>6. CASE ClientCaptures(r, p) /\ txn[r].on = p
      <3>1. ~Taken(p) /\ txn[r].seen.amount = payment[p].amount
        BY <1>1, <2>1, <2>6 DEF ClientOK, ClientCaptures
      <3>2. Took(p) = 0 /\ Took(p)' = Took(p) + txn[r].seen.amount
        BY <2>1, <2>6, <3>1 DEF ClientCaptures, Posted, MoneyOK
      <3>3. payment'[p].status = "CAPTURED" /\ payment'[p].amount = payment[p].amount
        BY <2>6 DEF ClientCaptures
      <3>4. Took(p)' = payment'[p].amount
        BY <1>3, <3>1, <3>2, <3>3
      <3> QED
        BY <2>2, <3>1, <3>3, <3>4
    <2> QED
      BY <2>3, <2>4, <2>5, <2>6 DEF ClientWrites
  <1> QED
    BY <1>6, <1>9, <1>10 DEF MoneyStep

LEMMA IdleStep ==
    ASSUME SInv, MInv, raced \subseteq raced',
           UNCHANGED <<payment, ledger, refund, unmoved, dispute>>,
           \A j \in Jobs : job'[j] = job[j] \/ (job'[j].on \notin raced' => ClaimOK(j)')
    PROVE  MoneyStep
  <1>1. \A p \in Payments : p \notin raced' => MoneyOK(p)' /\ Calm(p)
    BY IdleMoney
  <1>2. ASSUME NEW p \in Payments
        PROVE  VoidedOK(p)'
    <2>1. WroteOff(p)' = WroteOff(p) /\ WroteOff(p) \in Int
      BY IdleMoney, TotalsAreInt DEF SInv, AInv
    <2> QED
      BY <2>1, SameLost
  <1> QED
    BY <1>1, <1>2 DEF MoneyStep

LEMMA ClientMoney ==
    ASSUME SInv, SInv', MInv, raced \subseteq raced', UNCHANGED <<refund, job, unmoved, dispute>>,
           ClientStep
    PROVE  MoneyStep
  <1>1. PICK r \in Requests : Read(r) \/ Write(r) \/ Rollback(r)
    BY PaymentLifecycleAssumption DEF ClientStep
  <1>2. CASE UNCHANGED <<payment, ledger>>
    BY <1>2, IdleStep
  <1>3. CASE ~UNCHANGED <<payment, ledger>>
    <2>1. Write(r)
      BY <1>1, <1>3, ReadKeeps DEF Rollback
    <2>2. Finish(r) /\ \E p \in Payments : ClientWrites(r, p)
      BY <1>3, <2>1, WriteWrites DEF SInv, AInv
    <2> QED
      BY <2>2, CommitMoney
  <1> QED
    BY <1>2, <1>3
-----------------------------------------------------------------------------
(* The jobs and the disputes *)

\* What is not an issue or a status job has claimed nothing.
LEMMA RestClaims == \A j \in Jobs : job'[j] = Rest("done") => ClaimOK(j)'
  BY DEF ClaimOK, Rest

LEMMA EndClaims ==
    ASSUME RefundPart, NEW j \in Jobs, End(j)
    PROVE  \A k \in Jobs : job'[k] = job[k] \/ (job'[k].on \notin raced' => ClaimOK(k)')
  <1>1. job'[j] = Rest("done") /\ \A k \in Jobs \ {j} : job'[k] = job[k]
    BY DEF End, RefundPart
  <1> QED
    BY <1>1, RestClaims

\* One row of refunds is written, and at most a REFUNDED entry posted: for the
\* payments it is not about nothing happens.
LEMMA OthersMoney ==
    ASSUME SInv, SInv', MInv, raced \subseteq raced', NEW p \in Payments, NEW amount \in Int,
           Posted(p, "REFUNDED", amount), NEW x \in RefundIds,
           \A y \in RefundIds \ {x} : refund'[y] = refund[y], refund'[x].payment = p,
           refund[x].status = "NONE" \/ refund[x].payment = p,
           \A q \in Payments \ {p} : payment'[q] = payment[q],
           \A q \in Payments \ {p} : q \in unmoved => q \in unmoved',
           UNCHANGED dispute
    PROVE  /\ \A q \in Payments \ {p} : q \notin raced' => MoneyOK(q)' /\ Calm(q)
           /\ \A q \in Payments : VoidedOK(q)'
  <1>1. TypeOK /\ RefundsTyped /\ RefundsTyped'
    BY DEF SInv, AInv, RefundPart, RefundsTyped
  <1>2. \A q \in Payments : Took(q) \in Int /\ GaveBack(q) \in Int /\ WroteOff(q) \in Int
    BY <1>1, TotalsAreInt
  <1>3. ASSUME NEW q \in Payments
        PROVE  VoidedOK(q)'
    <2>1. WroteOff(q)' = WroteOff(q)
      BY <1>2 DEF Posted
    <2> QED
      BY <1>2, <2>1, SameLost
  <1>4. ASSUME NEW q \in Payments \ {p}, q \notin raced'
        PROVE  MoneyOK(q)' /\ Calm(q)
    <2>1. ASSUME NEW statuses, "NONE" \notin statuses
          PROVE  SumRefunds(q, statuses)' = SumRefunds(q, statuses)
      <3>1. Counted(x, q, statuses) = 0 /\ Counted(x, q, statuses)' = 0
        BY <1>4, <2>1 DEF Counted
      <3>2. /\ SumRefunds(q, statuses)' =
                  SumRefunds(q, statuses) - Counted(x, q, statuses) + Counted(x, q, statuses)'
            /\ SumRefunds(q, statuses) \in Int
        BY <1>1, RefundWritten
      <3> QED
        BY <3>1, <3>2
    <2>2. Refunded(q)' = Refunded(q) /\ Claimed(q)' = Claimed(q)
      BY <2>1 DEF Refunded, Claimed
    <2>3. Claimed(q) \in Nat
      BY <1>1, RefundedIsClaimed
    <2>4. Claimed(q)' \in Int /\ Claimed(q)' =< Claimed(q)
      BY <2>2, <2>3
    <2>5. Took(q)' = Took(q) /\ GaveBack(q)' = GaveBack(q)
      BY <1>2, <1>4 DEF Posted
    <2>6. HasRefund(q)' => HasRefund(q)
      BY <1>4 DEF HasRefund
    <2>7. MoneyOK(q) /\ payment'[q] = payment[q] /\ (q \in unmoved => q \in unmoved')
      BY <1>4 DEF MInv
    <2>8. payment'[q].amount = payment[q].amount /\ payment'[q].status \in {payment[q].status, "VOIDED"}
      BY <2>7
    <2>9. MoneyOK(q)'
      BY <2>2, <2>4, <2>5, <2>6, <2>7, <2>8, SameMoney
    <2> QED
      BY <2>2, <2>5, <2>8, <2>9 DEF Calm, Quiet
  <1> QED
    BY <1>3, <1>4

LEMMA IssueMoney ==
    ASSUME SInv, SInv', MInv, raced \subseteq raced', NEW j \in Jobs, UNCHANGED dispute,
           \/ \E p \in Payments, a \in Amounts : IssueSelect(j, p, a)
           \/ IssueSum(j)
           \/ \E x \in RefundIds : IssueWrite(j, x)
    PROVE  MoneyStep
  <1>1. TypeOK /\ RefundPart /\ HeldOK(j) /\ JobOK(job[j]) /\ job[j] \in Job
        /\ RefundsTyped /\ RefundsTyped'
    BY DEF SInv, AInv, RefundPart, RefundsTyped
  <1>2. ASSUME NEW p \in Payments, NEW a \in Amounts, IssueSelect(j, p, a)
        PROVE  MoneyStep
    <2>1. UNCHANGED <<payment, ledger, refund, unmoved, dispute>>
      BY <1>2 DEF IssueSelect, rowVars
    <2>2. CASE End(j)
      BY <1>1, <2>1, <2>2, EndClaims, IdleStep
    <2>3. CASE ~End(j)
      <3> DEFINE rec == [Rest("selected") EXCEPT !.op = "issue", !.on = p,
                                 !.seen = payment[p].amount, !.amount = a]
      <3>1. job' = [job EXCEPT ![j] = rec] /\ Refundable(payment[p])
        BY <1>2, <2>3 DEF IssueSelect
      <3>2. rec.op = "issue" /\ rec.on = p /\ rec.step = "selected"
        BY DEF Rest
      <3> HIDE DEF rec
      <3>3. job'[j] = rec /\ \A k \in Jobs \ {j} : job'[k] = job[k]
        BY <1>1, <3>1, JobMoved
      <3>4. ASSUME p \notin raced'
            PROVE  Took(p)' = payment'[p].amount
        <4>1. MoneyOK(p)
          BY <3>4 DEF MInv
        <4>2. Took(p)' = Took(p)
          BY <2>1, IdleMoney
        <4> QED
          BY <2>1, <3>1, <4>1, <4>2 DEF MoneyOK, Refundable
      <3>5. job'[j].on \notin raced' => ClaimOK(j)'
        BY <3>2, <3>3, <3>4 DEF ClaimOK
      <3> QED
        BY <2>1, <3>3, <3>5, IdleStep
    <2> QED
      BY <2>2, <2>3
  <1>3. CASE IssueSum(j)
    <2>1. UNCHANGED <<payment, ledger, refund, unmoved, dispute>> /\ job[j].op = "issue"
      BY <1>3 DEF IssueSum, rowVars, JobAt
    <2>2. CASE End(j)
      BY <1>1, <2>1, <2>2, EndClaims, IdleStep
    <2>3. CASE ~End(j)
      <3>1. PICK p \in Payments : p = job[j].on
        BY <1>1, <2>1 DEF JobOK
      <3>2. job' = [job EXCEPT ![j].step = "summed"] /\ ~(job[j].amount > Remaining(j))
        BY <1>3, <2>3 DEF IssueSum
      <3>3. /\ job'[j].op = "issue" /\ job'[j].on = p /\ job'[j].amount = job[j].amount
            /\ \A k \in Jobs \ {j} : job'[k] = job[k]
        BY <1>1, <2>1, <3>1, <3>2 DEF Job, RefundPart
      <3>4. ASSUME p \notin raced'
            PROVE  ClaimOK(j)'
        <4>1. ClaimOK(j) /\ job[j].seen = payment[p].amount
          BY <1>1, <2>1, <3>1, <3>4 DEF MInv, HeldOK
        <4>2. Took(p)' = Took(p) /\ Claimed(p)' = Claimed(p) /\ Claimed(p) \in Nat
          BY <1>1, <2>1, IdleMoney, RefundedIsClaimed
        <4>3. Took(p) = payment[p].amount
          BY <2>1, <3>1, <4>1 DEF ClaimOK
        <4>4. Remaining(j) = payment[p].amount - Claimed(p)
          BY <3>1, <4>1 DEF Remaining, Claimed
        <4>5. job[j].amount \in Nat /\ payment[p].amount \in Nat
          BY <1>1 DEF Job, TypeOK, Row
        <4>6. job[j].amount + Claimed(p) =< payment[p].amount
          BY <3>2, <4>2, <4>4, <4>5
        <4>7. payment'[p].amount = payment[p].amount
          BY <2>1
        <4> QED
          BY <3>3, <4>2, <4>3, <4>6, <4>7 DEF ClaimOK
      <3> QED
        BY <2>1, <3>3, <3>4, IdleStep
    <2> QED
      BY <2>2, <2>3
  <1>4. ASSUME NEW x \in RefundIds, IssueWrite(j, x)
        PROVE  MoneyStep
    <2>1. job[j].op = "issue" /\ job[j].step = "summed" /\ refund[x].status = "NONE" /\ End(j)
          /\ UNCHANGED payment
      BY <1>4 DEF IssueWrite, JobAt
    <2>2. PICK p \in Payments : p = job[j].on
      BY <1>1, <2>1 DEF JobOK
    <2>3. PICK a \in Nat : a = job[j].amount
      BY <1>1 DEF Job
    <2>4. /\ refund'[x] = [status |-> "COMPLETED", payment |-> p, amount |-> a]
          /\ \A y \in RefundIds \ {x} : refund'[y] = refund[y]
          /\ unmoved' = unmoved \cup {p}
      BY <1>1, <1>4, <2>2, <2>3 DEF IssueWrite, RefundPart
    <2>5. Posted(p, "REFUNDED", -a)
      <3>1. ledger' = [ledger EXCEPT ![p] = Append(@, Posting("REFUNDED", -a))]
        BY <1>4, <2>2, <2>3 DEF IssueWrite
      <3>2. "REFUNDED" \in EntryType /\ -a \in Int
        BY DEF EntryType
      <3> QED
        BY <1>1, <3>1, <3>2, AppendPosts
    <2>6. ASSUME NEW statuses, "COMPLETED" \in statuses, "NONE" \notin statuses
          PROVE  SumRefunds(p, statuses)' = SumRefunds(p, statuses) + a /\ SumRefunds(p, statuses) \in Int
      <3>1. Counted(x, p, statuses) = 0 /\ Counted(x, p, statuses)' = a
        BY <2>1, <2>4, <2>6 DEF Counted
      <3>2. /\ SumRefunds(p, statuses)' =
                  SumRefunds(p, statuses) - Counted(x, p, statuses) + Counted(x, p, statuses)'
            /\ SumRefunds(p, statuses) \in Int
        BY <1>1, <2>4, RefundWritten
      <3> QED
        BY <3>1, <3>2
    <2>7. /\ Refunded(p)' = Refunded(p) + a /\ Claimed(p)' = Claimed(p) + a
          /\ Refunded(p) \in Int /\ Claimed(p) \in Int
      BY <2>6 DEF Refunded, Claimed
    <2>8. /\ \A q \in Payments \ {p} : q \notin raced' => MoneyOK(q)' /\ Calm(q)
          /\ \A q \in Payments : VoidedOK(q)'
      <3>1. \A q \in Payments \ {p} : payment'[q] = payment[q] /\ (q \in unmoved => q \in unmoved')
        BY <2>1, <2>4
      <3>2. refund'[x].payment = p /\ -a \in Int
        BY <2>4
      <3> QED
        BY <2>1, <2>4, <2>5, <3>1, <3>2, OthersMoney
    <2>9. ASSUME p \notin raced'
          PROVE  MoneyOK(p)' /\ Calm(p)
      <3>1. MoneyOK(p) /\ ClaimOK(j) /\ Taken(p)
        BY <1>1, <2>1, <2>2, <2>9 DEF MInv, HeldOK
      <3>2. Took(p) = payment[p].amount /\ a + Claimed(p) =< payment[p].amount
        BY <2>1, <2>2, <2>3, <3>1 DEF ClaimOK
      <3>3. Took(p)' = Took(p) /\ GaveBack(p)' = GaveBack(p) - a
        <4>1. Took(p) \in Int /\ GaveBack(p) \in Int
          BY <1>1, TotalsAreInt
        <4> QED
          BY <2>5, <4>1 DEF Posted
      <3>4. payment'[p] = payment[p] /\ p \in unmoved' /\ Taken(p)'
        BY <2>1, <2>4, <3>1 DEF Taken
      <3>5. GaveBack(p)' = 0 - Refunded(p)'
        BY <2>7, <3>1, <3>3 DEF MoneyOK
      <3>6. Claimed(p)' =< payment'[p].amount
        BY <2>7, <3>2, <3>4
      <3>7. Took(p)' = payment'[p].amount
        BY <3>2, <3>3, <3>4
      <3>8. Acts(p)
        BY <1>1, <2>1, <2>2, JobEndedActs
      <3> QED
        BY <3>4, <3>5, <3>6, <3>7, <3>8 DEF MoneyOK, Calm
    <2> QED
      BY <1>1, <2>1, <2>8, <2>9, EndClaims DEF MoneyStep
  <1> QED
    BY <1>2, <1>3, <1>4
\* The job of an update of a refund knows which, and what it is about.
LEMMA StatusJob ==
    ASSUME SInv, NEW j \in Jobs, job[j].op = "status"
    PROVE  \E p \in Payments, x \in RefundIds, a \in Nat \ {0} :
              /\ p = job[j].on /\ x = job[j].refund /\ a = job[j].amount
              /\ refund[x].payment = p /\ refund[x].amount = a /\ refund[x].status # "NONE"
              /\ p \notin raced => refund[x].status = "PENDING"
              /\ Taken(p) /\ HasRefund(p)
  <1>1. HeldOK(j) /\ JobOK(job[j]) /\ RefundPart
    BY DEF SInv, AInv, RefundPart
  <1>2. PICK x \in RefundIds : /\ x = job[j].refund /\ refund[x].status # "NONE"
                               /\ refund[x].payment = job[j].on
                               /\ job[j].on \notin raced => refund[x].status = "PENDING"
    BY <1>1 DEF JobOK
  <1>3. refund[x].payment \in Payments /\ Taken(refund[x].payment) /\ refund[x].amount \in Nat \ {0}
    BY <1>2, PaymentTypesAssumption DEF SInv, RefundOK
  <1>4. job[j].amount = refund[x].amount
    BY <1>1, <1>2 DEF HeldOK
  <1>5. HasRefund(job[j].on)
    BY <1>2 DEF HasRefund
  <1> QED
    BY <1>2, <1>3, <1>4, <1>5

LEMMA StatusMoney ==
    ASSUME SInv, SInv', MInv, raced \subseteq raced', NEW j \in Jobs, UNCHANGED dispute,
           \/ \E x \in RefundIds, to \in RefundStatus \ {"NONE"} : StatusSelect(j, x, to)
           \/ StatusFail(j) \/ StatusSum(j) \/ StatusComplete(j)
    PROVE  MoneyStep
  <1>1. TypeOK /\ RefundPart /\ job[j] \in Job /\ RefundsTyped /\ RefundsTyped'
    BY DEF SInv, AInv, RefundPart, RefundsTyped
  <1>2. ASSUME NEW x \in RefundIds, NEW to \in RefundStatus \ {"NONE"}, StatusSelect(j, x, to)
        PROVE  MoneyStep
    <2>1. UNCHANGED <<payment, ledger, refund, unmoved, dispute>>
      BY <1>2 DEF StatusSelect, rowVars
    <2>2. CASE End(j)
      BY <1>1, <2>1, <2>2, EndClaims, IdleStep
    <2>3. CASE ~End(j)
      <3> DEFINE rec == [Rest("selected") EXCEPT !.op = "status", !.on = refund[x].payment,
                             !.refund = x, !.to = to, !.amount = refund[x].amount]
      <3>1. job' = [job EXCEPT ![j] = rec]
        BY <1>2, <2>3 DEF StatusSelect
      <3>2. rec.op = "status" /\ rec.step = "selected"
        BY DEF Rest
      <3> HIDE DEF rec
      <3>3. job'[j] = rec /\ \A k \in Jobs \ {j} : job'[k] = job[k]
        BY <1>1, <3>1, JobMoved
      <3>4. ClaimOK(j)'
        BY <3>2, <3>3 DEF ClaimOK
      <3> QED
        BY <2>1, <3>3, <3>4, IdleStep
    <2> QED
      BY <2>2, <2>3
  <1>3. CASE StatusSum(j)
    <2>1. UNCHANGED <<payment, ledger, refund, unmoved, dispute>> /\ job[j].op = "status"
          /\ job' = [job EXCEPT ![j].step = "summed", ![j].covers = Covers(j)]
      BY <1>3 DEF StatusSum, rowVars, JobAt
    <2>2. PICK p \in Payments, x \in RefundIds, a \in Nat \ {0} :
              /\ p = job[j].on /\ x = job[j].refund /\ a = job[j].amount
              /\ p \notin raced => refund[x].status = "PENDING"
      BY <2>1, StatusJob
    <2>3. /\ job'[j].op = "status" /\ job'[j].on = p /\ job'[j].amount = a
          /\ job'[j].covers = Covers(j)
          /\ \A k \in Jobs \ {j} : job'[k] = job[k]
      BY <1>1, <2>1, <2>2 DEF Job, RefundPart
    <2>4. ASSUME p \notin raced'
          PROVE  ClaimOK(j)'
      <3>1. Refunded(p)' = Refunded(p) /\ payment'[p].amount = payment[p].amount
        BY <2>1, IdleMoney
      <3>2. Covers(j) <=> Refunded(p) + a >= payment[p].amount
        BY <2>2, <2>4 DEF Covers, TotalCompleted, Refunded
      <3> QED
        BY <2>3, <3>1, <3>2 DEF ClaimOK
    <2> QED
      BY <2>1, <2>3, <2>4, IdleStep
  <1>4. CASE StatusFail(j)
    <2>1. /\ UNCHANGED <<payment, ledger, unmoved>> /\ job[j].op = "status" /\ End(j)
          /\ job[j].to # "COMPLETED"
          /\ refund' = [refund EXCEPT ![job[j].refund].status = job[j].to]
      BY <1>4 DEF StatusFail, rowVars, JobAt
    <2>2. PICK p \in Payments, x \in RefundIds, a \in Nat \ {0} :
              /\ p = job[j].on /\ x = job[j].refund /\ a = job[j].amount
              /\ refund[x].payment = p /\ refund[x].amount = a /\ refund[x].status # "NONE"
              /\ p \notin raced => refund[x].status = "PENDING"
              /\ Taken(p) /\ HasRefund(p)
      BY <2>1, StatusJob
    <2>3. /\ refund'[x].status = job[j].to /\ refund'[x].payment = p /\ refund'[x].amount = a
          /\ \A y \in RefundIds \ {x} : refund'[y] = refund[y]
      BY <1>1, <2>1, <2>2 DEF RefundPart, RefundRow
    <2>4. Posted(p, "REFUNDED", 0)
      <3>1. Posted(p, "TIP_ADDED", 0)
        BY <1>1, <2>1, PostedNothing
      <3> QED
        BY <3>1 DEF Posted
    <2>5. /\ \A q \in Payments \ {p} : q \notin raced' => MoneyOK(q)' /\ Calm(q)
          /\ \A q \in Payments : VoidedOK(q)'
      BY <2>1, <2>2, <2>3, <2>4, OthersMoney
    <2>6. ASSUME p \notin raced'
          PROVE  MoneyOK(p)' /\ Calm(p)
      <3>1. refund[x].status = "PENDING"
        BY <2>2, <2>6
      <3>2. Refunded(p)' = Refunded(p)
        <4>1. Counted(x, p, {"COMPLETED"}) = 0 /\ Counted(x, p, {"COMPLETED"})' = 0
          BY <2>1, <2>3, <3>1 DEF Counted
        <4>2. /\ SumRefunds(p, {"COMPLETED"})' = SumRefunds(p, {"COMPLETED"})
                    - Counted(x, p, {"COMPLETED"}) + Counted(x, p, {"COMPLETED"})'
              /\ SumRefunds(p, {"COMPLETED"}) \in Int
          BY <1>1, <2>3, RefundWritten
        <4> QED
          BY <4>1, <4>2 DEF Refunded
      <3>3. Claimed(p)' \in Int /\ Claimed(p)' =< Claimed(p)
        <4>1. /\ Counted(x, p, {"PENDING", "COMPLETED"}) = a
              /\ Counted(x, p, {"PENDING", "COMPLETED"})' \in {0, a}
          BY <2>2, <2>3, <3>1 DEF Counted
        <4>2. /\ SumRefunds(p, {"PENDING", "COMPLETED"})' = SumRefunds(p, {"PENDING", "COMPLETED"})
                    - Counted(x, p, {"PENDING", "COMPLETED"}) + Counted(x, p, {"PENDING", "COMPLETED"})'
              /\ SumRefunds(p, {"PENDING", "COMPLETED"}) \in Int
          BY <1>1, <2>3, RefundWritten
        <4> QED
          BY <4>1, <4>2 DEF Claimed
      <3>4. Took(p)' = Took(p) /\ GaveBack(p)' = GaveBack(p)
        BY <1>1, <2>1, TotalsStay
      <3>5. MoneyOK(p) /\ payment'[p].amount = payment[p].amount
            /\ payment'[p].status \in {payment[p].status, "VOIDED"}
            /\ (p \in unmoved => p \in unmoved')
        BY <2>1, <2>6 DEF MInv
      <3>6. MoneyOK(p)'
        BY <2>2, <3>2, <3>3, <3>4, <3>5, SameMoney
      <3>7. Acts(p)
        BY <1>1, <2>1, <2>2, JobEndedActs
      <3> QED
        BY <3>6, <3>7 DEF Calm
    <2> QED
      BY <1>1, <2>1, <2>5, <2>6, EndClaims DEF MoneyStep
  <1>5. CASE StatusComplete(j)
    <2>1. job[j].op = "status" /\ job[j].step = "summed" /\ End(j)
      BY <1>5 DEF StatusComplete, JobAt
    <2>2. PICK p \in Payments, x \in RefundIds, a \in Nat \ {0} :
              /\ p = job[j].on /\ x = job[j].refund /\ a = job[j].amount
              /\ refund[x].payment = p /\ refund[x].amount = a /\ refund[x].status # "NONE"
              /\ p \notin raced => refund[x].status = "PENDING"
              /\ Taken(p) /\ HasRefund(p)
      BY <2>1, StatusJob
    <2> DEFINE status == IF job[j].covers THEN "REFUNDED" ELSE "PARTIALLY_REFUNDED"
    <2>3. /\ refund' = [refund EXCEPT ![x].status = "COMPLETED"]
          /\ payment' = [payment EXCEPT ![p].status = status]
          /\ ledger' = [ledger EXCEPT ![p] = Append(@, Posting("REFUNDED", -a))]
          /\ unmoved' = unmoved \ {p}
      BY <1>5, <2>2 DEF StatusComplete
    <2>4. job[j].covers \in BOOLEAN /\ status \in {"REFUNDED", "PARTIALLY_REFUNDED"}
          /\ (status = "REFUNDED" <=> job[j].covers)
      BY <1>1 DEF Job
    <2> HIDE DEF status
    <2>5. /\ refund'[x].status = "COMPLETED" /\ refund'[x].payment = p /\ refund'[x].amount = a
          /\ \A y \in RefundIds \ {x} : refund'[y] = refund[y]
      BY <1>1, <2>2, <2>3 DEF RefundPart, RefundRow
    <2>6. /\ payment'[p].status = status /\ payment'[p].amount = payment[p].amount
          /\ \A q \in Payments \ {p} : payment'[q] = payment[q]
      BY <1>1, <2>3 DEF TypeOK, Row
    <2>7. Posted(p, "REFUNDED", -a)
      <3>1. "REFUNDED" \in EntryType /\ -a \in Int
        BY DEF EntryType
      <3> QED
        BY <1>1, <2>3, <3>1, AppendPosts
    <2>8. /\ \A q \in Payments \ {p} : q \notin raced' => MoneyOK(q)' /\ Calm(q)
          /\ \A q \in Payments : VoidedOK(q)'
      <3>1. -a \in Int /\ \A q \in Payments \ {p} : q \in unmoved => q \in unmoved'
        BY <2>3
      <3> QED
        BY <2>2, <2>5, <2>6, <2>7, <3>1, OthersMoney
    <2>9. ASSUME p \notin raced'
          PROVE  MoneyOK(p)' /\ Calm(p)
      <3>1. refund[x].status = "PENDING" /\ MoneyOK(p) /\ ClaimOK(j)
        BY <2>2, <2>9 DEF MInv
      <3>2. Refunded(p)' = Refunded(p) + a
        <4>1. Counted(x, p, {"COMPLETED"}) = 0 /\ Counted(x, p, {"COMPLETED"})' = a
          BY <2>5, <3>1 DEF Counted
        <4>2. /\ SumRefunds(p, {"COMPLETED"})' = SumRefunds(p, {"COMPLETED"})
                    - Counted(x, p, {"COMPLETED"}) + Counted(x, p, {"COMPLETED"})'
              /\ SumRefunds(p, {"COMPLETED"}) \in Int
          BY <1>1, <2>5, RefundWritten
        <4> QED
          BY <4>1, <4>2 DEF Refunded
      <3>3. Claimed(p)' = Claimed(p)
        <4>1. /\ Counted(x, p, {"PENDING", "COMPLETED"}) = a
              /\ Counted(x, p, {"PENDING", "COMPLETED"})' = a
          BY <2>2, <2>5, <3>1 DEF Counted
        <4>2. /\ SumRefunds(p, {"PENDING", "COMPLETED"})' = SumRefunds(p, {"PENDING", "COMPLETED"})
                    - Counted(x, p, {"PENDING", "COMPLETED"}) + Counted(x, p, {"PENDING", "COMPLETED"})'
              /\ SumRefunds(p, {"PENDING", "COMPLETED"}) \in Int
          BY <1>1, <2>5, RefundWritten
        <4> QED
          BY <4>1, <4>2 DEF Claimed
      <3>4. Took(p)' = Took(p) /\ GaveBack(p)' = GaveBack(p) - a
        <4>1. Took(p) \in Int /\ GaveBack(p) \in Int
          BY <1>1, TotalsAreInt
        <4> QED
          BY <2>7, <4>1 DEF Posted
      <3>5. Refunded(p) \in Nat /\ Claimed(p) \in Nat /\ payment[p].amount \in Nat
        BY <1>1, RefundedIsClaimed DEF TypeOK, Row
      <3>6. Refunded(p)' =< Claimed(p)'
        <4>1. PICK f, C, D : /\ f = RefundAmount' /\ C = RefundsOf(p, {"COMPLETED"})'
                             /\ D = RefundsOf(p, {"PENDING", "COMPLETED"})'
          OBVIOUS
        <4>2. IsFiniteSet(RefundIds) /\ C \in SUBSET D /\ D \subseteq RefundIds
          BY <4>1, RefundsAssumption DEF RefundsOf
        <4>3. \A y \in D : f[y] \in Nat
          BY <1>1, <4>1, <4>2 DEF RefundsTyped, RefundRow, RefundAmount
        <4>4. IsFiniteSet(D)
          BY <4>2, FS_Subset
        <4>5. SumFunctionOnSet(f, C) =< SumFunctionOnSet(f, D)
          BY <4>2, <4>3, <4>4, SumMonotone
        <4> QED
          BY <4>1, <4>5 DEF Refunded, Claimed, SumRefunds
      <3>7. Took(p)' = payment'[p].amount /\ Claimed(p)' =< payment'[p].amount
        BY <2>2, <2>6, <3>1, <3>3, <3>4 DEF MoneyOK
      <3>8. GaveBack(p)' = 0 - Refunded(p)'
        BY <3>1, <3>2, <3>4, <3>5 DEF MoneyOK
      <3>9. status = "REFUNDED" <=> Refunded(p) + a >= payment[p].amount
        BY <2>1, <2>2, <2>4, <3>1 DEF ClaimOK
      <3>10. Claimed(p)' \in Nat /\ Refunded(p)' \in Nat
        BY <3>2, <3>3, <3>5
      <3>11. Tells(p)'
        <4>1. CASE status = "REFUNDED"
          <5>1. Refunded(p)' = payment'[p].amount
            BY <2>6, <3>2, <3>5, <3>6, <3>7, <3>9, <3>10, <4>1
          <5> QED
            BY <2>6, <4>1, <5>1 DEF Tells
        <4>2. CASE status = "PARTIALLY_REFUNDED"
          <5>1. Refunded(p)' \in 1 .. payment'[p].amount - 1
            BY <2>6, <3>2, <3>5, <3>9, <4>2
          <5> QED
            BY <2>6, <4>2, <5>1 DEF Tells
        <4> QED
          BY <2>4, <4>1, <4>2
      <3>12. Acts(p) /\ Taken(p)'
        BY <1>1, <2>1, <2>2, <2>4, <2>6, JobEndedActs DEF Taken
      <3> QED
        BY <3>7, <3>8, <3>11, <3>12 DEF MoneyOK, Calm
    <2> QED
      BY <1>1, <2>1, <2>8, <2>9, EndClaims DEF MoneyStep
  <1> QED
    BY <1>2, <1>3, <1>4, <1>5
LEMMA RequestMoney ==
    ASSUME SInv, SInv', MInv, raced \subseteq raced', UNCHANGED dispute,
           NEW x \in RefundIds, NEW p \in Payments, NEW a \in Amounts, RequestRefund(x, p, a)
    PROVE  MoneyStep
  <1>1. TypeOK /\ RefundPart /\ RefundsTyped /\ RefundsTyped' /\ a \in Nat
    BY PaymentTypesAssumption DEF SInv, AInv, RefundPart, RefundsTyped
  <1>2. /\ refund[x].status = "NONE" /\ Refundable(payment[p]) /\ Workers(p) = {}
        /\ a + Claimed(p) =< payment[p].amount
        /\ UNCHANGED <<payment, ledger, job, unmoved>>
        /\ refund' = [refund EXCEPT ![x] = [status |-> "PENDING", payment |-> p, amount |-> a]]
    BY DEF RequestRefund, rowVars, Claimed
  <1>3. /\ refund'[x].status = "PENDING" /\ refund'[x].payment = p /\ refund'[x].amount = a
        /\ \A y \in RefundIds \ {x} : refund'[y] = refund[y]
    BY <1>1, <1>2 DEF RefundPart
  <1>4. Posted(p, "REFUNDED", 0)
    <2>1. Posted(p, "TIP_ADDED", 0)
      BY <1>1, <1>2, PostedNothing
    <2> QED
      BY <2>1 DEF Posted
  <1>5. /\ \A q \in Payments \ {p} : q \notin raced' => MoneyOK(q)' /\ Calm(q)
        /\ \A q \in Payments : VoidedOK(q)'
    BY <1>2, <1>3, <1>4, OthersMoney
  <1>6. ASSUME p \notin raced'
        PROVE  MoneyOK(p)' /\ Calm(p)
    <2>1. MoneyOK(p)
      BY <1>6 DEF MInv
    <2>2. Refunded(p)' = Refunded(p) /\ Refunded(p) \in Int
      <3>1. Counted(x, p, {"COMPLETED"}) = 0 /\ Counted(x, p, {"COMPLETED"})' = 0
        BY <1>2, <1>3 DEF Counted
      <3>2. /\ SumRefunds(p, {"COMPLETED"})' = SumRefunds(p, {"COMPLETED"})
                  - Counted(x, p, {"COMPLETED"}) + Counted(x, p, {"COMPLETED"})'
            /\ SumRefunds(p, {"COMPLETED"}) \in Int
        BY <1>1, <1>3, RefundWritten
      <3> QED
        BY <3>1, <3>2 DEF Refunded
    <2>3. Claimed(p)' = Claimed(p) + a /\ Claimed(p) \in Int
      <3>1. /\ Counted(x, p, {"PENDING", "COMPLETED"}) = 0
            /\ Counted(x, p, {"PENDING", "COMPLETED"})' = a
        BY <1>2, <1>3 DEF Counted
      <3>2. /\ SumRefunds(p, {"PENDING", "COMPLETED"})' = SumRefunds(p, {"PENDING", "COMPLETED"})
                  - Counted(x, p, {"PENDING", "COMPLETED"}) + Counted(x, p, {"PENDING", "COMPLETED"})'
            /\ SumRefunds(p, {"PENDING", "COMPLETED"}) \in Int
        BY <1>1, <1>3, RefundWritten
      <3> QED
        BY <1>1, <3>1, <3>2 DEF Claimed
    <2>4. Took(p)' = Took(p) /\ GaveBack(p)' = GaveBack(p)
      BY <1>1, <1>2, TotalsStay
    <2>5. payment'[p] = payment[p] /\ Taken(p)' /\ (p \in unmoved => p \in unmoved')
      BY <1>2 DEF Taken, Refundable
    <2>6. Took(p) = payment[p].amount
      BY <1>2, <2>1 DEF MoneyOK, Refundable
    <2>7. Claimed(p)' =< payment'[p].amount
      BY <1>1, <1>2, <2>3, <2>5
    <2>8. p \notin unmoved' => Tells(p)'
      BY <2>1, <2>2, <2>5 DEF MoneyOK, Tells
    <2>9. GaveBack(p)' = 0 - Refunded(p)' /\ Took(p)' = payment'[p].amount
      BY <2>1, <2>2, <2>4, <2>5, <2>6 DEF MoneyOK
    <2>10. MoneyOK(p)'
      BY <2>5, <2>7, <2>8, <2>9 DEF MoneyOK
    <2> QED
      BY <1>2, <2>10 DEF Calm
  <1> QED
    BY <1>2, <1>5, <1>6 DEF MoneyStep

LEMMA SplitMoney ==
    ASSUME SInv, SInv', MInv, raced \subseteq raced', UNCHANGED dispute, SplitStep
    PROVE  MoneyStep
  <1>1. TypeOK /\ RefundPart /\ DisputesTyped
    BY DEF SInv, AInv, DisputePart, DisputesTyped
  <1>2. PICK j \in Jobs : \/ \E k \in SplitKeys \cup {NoKey}, a, b \in PartAmounts : SplitLookup(j, k, a, b)
                          \/ \E p, q \in Payments : SplitInsert(j, p, q)
                          \/ SplitConflict(j)
    BY DEF SplitStep
  <1>3. ASSUME NEW key \in SplitKeys \cup {NoKey}, NEW a \in PartAmounts, NEW b \in PartAmounts,
               SplitLookup(j, key, a, b)
        PROVE  MoneyStep
    <2>1. UNCHANGED <<payment, ledger, refund, unmoved, dispute>>
      BY <1>3 DEF SplitLookup, rowVars
    <2>2. CASE End(j)
      BY <1>1, <2>1, <2>2, EndClaims, IdleStep
    <2>3. CASE ~End(j)
      <3> DEFINE rec == [Rest("selected") EXCEPT !.op = "split", !.key = key, !.amount = a, !.seen = b]
      <3>1. job' = [job EXCEPT ![j] = rec]
        BY <1>3, <2>3 DEF SplitLookup
      <3>2. rec.op = "split"
        BY DEF Rest
      <3> HIDE DEF rec
      <3>3. job'[j] = rec /\ \A k \in Jobs \ {j} : job'[k] = job[k]
        BY <1>1, <3>1, JobMoved
      <3>4. ClaimOK(j)'
        BY <3>2, <3>3 DEF ClaimOK
      <3> QED
        BY <2>1, <3>3, <3>4, IdleStep
    <2> QED
      BY <2>2, <2>3
  <1>4. CASE SplitConflict(j)
    <2>1. UNCHANGED <<payment, ledger, refund, unmoved, dispute>> /\ End(j)
      BY <1>4 DEF SplitConflict, rowVars
    <2> QED
      BY <1>1, <2>1, EndClaims, IdleStep
  <1>5. ASSUME NEW p \in Payments, NEW q \in Payments, SplitInsert(j, p, q)
        PROVE  MoneyStep
    <2>1. /\ p # q /\ ~Exists(p) /\ ~Exists(q) /\ End(j) /\ UNCHANGED <<refund, unmoved>>
      BY <1>5 DEF SplitInsert
    <2>2. job[j].amount \in Nat /\ job[j].seen \in Nat
      BY <1>1 DEF RefundPart, Job
    <2>3. \A amount, key : PartRow(amount, key).status = "CAPTURED" /\ PartRow(amount, key).amount = amount
      BY DEF PartRow, NewRow, Unwritten
    <2>4. ASSUME NEW s \in {p, q}
          PROVE  /\ ~Taken(s)
                 /\ payment'[s].status = "CAPTURED" /\ payment'[s].amount \in Nat
                 /\ ledger'[s] = <<Posting("CAPTURED", payment'[s].amount)>>
      <3>1. /\ payment'[p] = PartRow(job[j].amount, PartKey(job[j].key, 0))
            /\ payment'[q] = PartRow(job[j].seen, PartKey(job[j].key, 1))
            /\ ledger'[p] = <<Posting("CAPTURED", job[j].amount)>>
            /\ ledger'[q] = <<Posting("CAPTURED", job[j].seen)>>
        BY <1>1, <1>5, <2>1 DEF SplitInsert, TypeOK
      <3>2. payment'[p].amount = job[j].amount /\ payment'[q].amount = job[j].seen
        BY <2>3, <3>1
      <3> QED
        BY <2>1, <2>2, <2>3, <3>1, <3>2 DEF Exists, Taken
    <2>5. ASSUME NEW s \in {p, q}
          PROVE  MoneyOK(s)' /\ Calm(s) /\ VoidedOK(s)'
      <3>1. s \in Payments /\ payment'[s].amount \in Int
        BY <2>4
      <3>2. Took(s)' = payment'[s].amount /\ GaveBack(s)' = 0 /\ WroteOff(s)' = 0
        BY <2>4, <3>1, FirstEntryTotals
      <3>3. MoneyOK(s)' /\ Calm(s)
        BY <2>1, <2>4, <3>1, <3>2, FreshMoney
      <3>4. Lost(s) = 0
        BY <2>4, <3>1, NothingYet
      <3>5. LostOn(s)' = LostOn(s)
        BY DEF LostOn
      <3>6. Lost(s)' = Lost(s)
        BY <1>1, <3>5, LostStays
      <3> QED
        BY <3>2, <3>3, <3>4, <3>6 DEF VoidedOK
    <2>6. ASSUME NEW s \in Payments \ {p, q}
          PROVE  (s \notin raced' => MoneyOK(s)' /\ Calm(s)) /\ VoidedOK(s)'
      <3>1. payment'[s] = payment[s] /\ ledger'[s] = ledger[s]
        BY <1>1, <1>5 DEF SplitInsert, TypeOK
      <3>2. /\ s \notin raced' => MoneyOK(s)' /\ Calm(s)
            /\ WroteOff(s)' = WroteOff(s)
        BY <2>1, <3>1, StillMoney
      <3>3. WroteOff(s) \in Int
        BY <1>1, TotalsAreInt
      <3> QED
        BY <3>2, <3>3, SameLost
    <2> QED
      BY <1>1, <2>1, <2>5, <2>6, EndClaims DEF MoneyStep
  <1> QED
    BY <1>2, <1>3, <1>4, <1>5

LEMMA DisputeMoney ==
    ASSUME SInv, SInv', MInv, raced \subseteq raced', DisputeStep
    PROVE  MoneyStep
  <1>1. TypeOK /\ RefundsTyped /\ DisputesTyped /\ DisputesTyped'
    BY DEF SInv, AInv, RefundPart, RefundsTyped, DisputePart, DisputesTyped
  <1>2. PICK x \in DisputeIds :
           \/ \E p \in Payments, a \in Amounts : Raise(x, p, a)
           \/ RespondSelect(x)
           \/ RespondWrite(x)
           \/ \E to \in DisputeStatus \ {"NONE"} : Decide(x, to)
    BY DEF DisputeStep
  <1>3. UNCHANGED <<refund, job, unmoved>>
    BY <1>2 DEF Raise, RespondSelect, RespondWrite, Decide
  <1>4. \A p \in Payments : WroteOff(p) \in Int /\ Took(p) \in Int /\ GaveBack(p) \in Int
    BY <1>1, TotalsAreInt
  <1>5. CASE RespondSelect(x)
    <2>1. UNCHANGED <<payment, ledger, dispute>>
      BY <1>5 DEF RespondSelect, rowVars
    <2> QED
      BY <1>3, <2>1, IdleStep
  <1>6. ASSUME UNCHANGED <<payment, ledger>>,
               \A p \in Payments : Lost(p)' =< Lost(p) /\ Lost(p) \in Nat /\ Lost(p)' \in Nat
        PROVE  MoneyStep
    <2>1. /\ \A p \in Payments : p \notin raced' => MoneyOK(p)' /\ Calm(p)
          /\ \A p \in Payments : WroteOff(p)' = WroteOff(p)
      BY <1>3, <1>6, IdleMoney
    <2>2. \A p \in Payments : VoidedOK(p)'
      BY <1>4, <1>6, <2>1 DEF VoidedOK, MInv
    <2> QED
      BY <1>3, <2>1, <2>2 DEF MoneyStep
  <1>7. ASSUME UNCHANGED <<payment, ledger>>,
               \A p \in Payments : /\ LostOn(p)' = LostOn(p)
                                   /\ \A y \in LostOn(p) : dispute'[y].amount = dispute[y].amount
        PROVE  MoneyStep
    <2>1. \A p \in Payments : Lost(p)' = Lost(p) /\ Lost(p) \in Nat
      BY <1>1, <1>7, LostStays, LostIsNat
    <2>2. \A p \in Payments : Lost(p)' =< Lost(p) /\ Lost(p) \in Nat /\ Lost(p)' \in Nat
      BY <2>1
    <2> QED
      BY <1>6, <1>7, <2>2
  <1>8. ASSUME NEW p \in Payments, NEW a \in Amounts, Raise(x, p, a)
        PROVE  MoneyStep
    <2>1. /\ UNCHANGED <<payment, ledger>> /\ dispute[x].status = "NONE"
          /\ dispute'[x].status = "PENDING"
          /\ \A y \in DisputeIds \ {x} : dispute'[y] = dispute[y]
      BY <1>1, <1>8 DEF Raise, rowVars, Unraised, DisputesTyped
    <2>2. ASSUME NEW q \in Payments
          PROVE  /\ LostOn(q)' = LostOn(q)
                 /\ \A y \in LostOn(q) : dispute'[y].amount = dispute[y].amount
      BY <2>1 DEF LostOn
    <2> QED
      BY <1>7, <2>1, <2>2
  <1>9. CASE RespondWrite(x)
    <2>1. /\ UNCHANGED <<payment, ledger>> /\ dispute'[x].status = dispute[x].status
          /\ dispute'[x].payment = dispute[x].payment /\ dispute'[x].amount = dispute[x].amount
          /\ \A y \in DisputeIds \ {x} : dispute'[y] = dispute[y]
      BY <1>1, <1>9 DEF RespondWrite, rowVars, DisputesTyped, DisputeRow
    <2>2. ASSUME NEW q \in Payments
          PROVE  /\ LostOn(q)' = LostOn(q)
                 /\ \A y \in LostOn(q) : dispute'[y].amount = dispute[y].amount
      BY <2>1 DEF LostOn
    <2> QED
      BY <1>7, <2>1, <2>2
  <1>10. ASSUME NEW to \in DisputeStatus \ {"NONE"}, Decide(x, to)
         PROVE  MoneyStep
    <2>1. /\ dispute[x].status # "NONE" /\ dispute'[x].status = to
          /\ dispute'[x].payment = dispute[x].payment /\ dispute'[x].amount = dispute[x].amount
          /\ dispute[x].amount \in Nat
          /\ \A y \in DisputeIds \ {x} : dispute'[y] = dispute[y]
      BY <1>1, <1>10 DEF Decide, DisputesTyped, DisputeRow
    <2>2. PICK p \in Payments : p = dispute[x].payment /\ Taken(p)
      BY <2>1 DEF SInv, DisputeOK
    <2>3. PICK a \in Nat : a = dispute[x].amount
      BY <2>1
    <2>4. \A q \in Payments : /\ Lost(q)' =< Lost(q) + (IF to = "LOST" /\ p = q THEN a ELSE 0)
                              /\ Lost(q) \in Nat /\ Lost(q)' \in Nat
      BY <1>1, <2>1, <2>2, <2>3, OneMoreLost
    <2>5. CASE to # "LOST"
      <3>1. UNCHANGED <<payment, ledger>>
        BY <1>10, <2>5 DEF Decide
      <3>2. \A q \in Payments : Lost(q)' =< Lost(q) /\ Lost(q) \in Nat /\ Lost(q)' \in Nat
        BY <2>4, <2>5
      <3> QED
        BY <1>6, <3>1, <3>2
    <2>6. CASE to = "LOST"
      <3>1. /\ payment' = [payment EXCEPT ![p].status = "VOIDED"]
            /\ ledger' = [ledger EXCEPT ![p] = Append(@, Posting("VOIDED", -a))]
        BY <1>10, <2>2, <2>3, <2>6 DEF Decide
      <3>2. Posted(p, "VOIDED", -a)
        <4>1. "VOIDED" \in EntryType /\ -a \in Int
          BY DEF EntryType
        <4> QED
          BY <1>1, <3>1, <4>1, AppendPosts
      <3>3. \A q \in Payments : VoidedOK(q)'
        BY <1>4, <2>4, <2>6, <3>2 DEF Posted, VoidedOK, MInv
      <3>4. ASSUME NEW q \in Payments \ {p}
            PROVE  q \notin raced' => MoneyOK(q)' /\ Calm(q)
        <4>1. payment'[q] = payment[q] /\ ledger'[q] = ledger[q]
          BY <1>1, <3>1 DEF TypeOK
        <4> QED
          BY <1>3, <4>1, StillMoney
      <3>5. ASSUME p \notin raced'
            PROVE  MoneyOK(p)' /\ Calm(p)
        <4>1. MoneyOK(p)
          BY <3>5 DEF MInv
        <4>2. Took(p)' = Took(p) /\ GaveBack(p)' = GaveBack(p)
          BY <1>4, <3>2 DEF Posted
        <4>3. Refunded(p)' = Refunded(p) /\ Claimed(p)' = Claimed(p) /\ Claimed(p) \in Nat
          BY <1>1, <1>3, RefundsStay, RefundedIsClaimed DEF Refunded, Claimed
        <4>4. Claimed(p)' \in Int /\ Claimed(p)' =< Claimed(p)
          BY <4>3
        <4>5. payment'[p].status = "VOIDED" /\ payment'[p].amount = payment[p].amount
          BY <1>1, <3>1 DEF TypeOK, Row
        <4>6. HasRefund(p)' => HasRefund(p)
          BY <1>3 DEF HasRefund
        <4>7. MoneyOK(p)'
          BY <1>3, <4>1, <4>2, <4>3, <4>4, <4>5, <4>6, SameMoney
        <4> QED
          BY <4>2, <4>3, <4>5, <4>7 DEF Calm, Quiet
      <3> QED
        BY <1>3, <3>3, <3>4, <3>5 DEF MoneyStep
    <2> QED
      BY <2>5, <2>6
  <1> QED
    BY <1>2, <1>5, <1>8, <1>9, <1>10

LEMMA NextMInv ==
    ASSUME SInv, MInv, AftermathNext
    PROVE  MInv'
  <1>1. SInv' /\ raced \subseteq raced' /\ RefundPart
    BY NextSInv DEF AftermathNext, SInv, AInv
  <1>2. CASE ClientStep /\ UNCHANGED <<refund, job, unmoved, disputeVars>>
    <2>1. UNCHANGED <<refund, job, unmoved, dispute>>
      BY <1>2 DEF disputeVars
    <2> QED
      BY <1>1, <1>2, <2>1, ClientMoney, StepKeepsMInv
  <1>3. CASE RefundStep /\ UNCHANGED disputeVars
    <2>1. UNCHANGED dispute
      BY <1>3 DEF disputeVars
    <2>2. ASSUME NEW j \in Jobs, JobFails(j)
          PROVE  MoneyStep
      <3>1. End(j) /\ UNCHANGED <<payment, ledger, refund, unmoved>>
        BY <2>2 DEF JobFails, rowVars
      <3> QED
        BY <1>1, <2>1, <3>1, EndClaims, IdleStep
    <2>3. MoneyStep
      BY <1>1, <1>3, <2>1, <2>2, IssueMoney, StatusMoney, RequestMoney DEF RefundStep
    <2> QED
      BY <1>1, <2>3, StepKeepsMInv
  <1>4. CASE SplitStep /\ UNCHANGED disputeVars
    <2>1. UNCHANGED dispute
      BY <1>4 DEF disputeVars
    <2> QED
      BY <1>1, <1>4, <2>1, SplitMoney, StepKeepsMInv
  <1>5. CASE DisputeStep
    BY <1>1, <1>5, DisputeMoney, StepKeepsMInv
  <1>6. CASE RefundsQuiescent /\ UNCHANGED disputeVars
    <2>1. UNCHANGED <<payment, ledger, refund, job, unmoved, dispute>>
      BY <1>6 DEF RefundsQuiescent, rowVars, disputeVars
    <2>2. MoneyStep
      BY <1>1, <2>1, IdleStep
    <2> QED
      BY <1>1, <2>2, StepKeepsMInv
  <1> QED
    BY <1>2, <1>3, <1>4, <1>5, <1>6 DEF AftermathNext

LEMMA InitMInv == ASSUME AftermathInit PROVE MInv
  <1>1. SInv
    BY InitSInv
  <1>2. /\ payment = [p \in Payments |-> Unwritten] /\ ledger = [p \in Payments |-> <<>>]
        /\ job = [j \in Jobs |-> Rest("new")] /\ raced = {}
    BY DEF AftermathInit, RefundsInit, RowsInit
  <1>3. \A j \in Jobs : ClaimOK(j)
    BY <1>2 DEF ClaimOK, Rest
  <1>4. ASSUME NEW p \in Payments
        PROVE  MoneyOK(p) /\ VoidedOK(p)
    <2>1. payment[p].status = "NONE" /\ payment[p].amount = 0 /\ ~Taken(p)
      BY <1>2 DEF Unwritten, Taken
    <2>2. ~HasRefund(p) /\ Refunded(p) = 0 /\ Claimed(p) = 0 /\ Lost(p) = 0
      BY <1>1, <2>1, NothingYet
    <2>3. \A types : Total(p, types) = 0
      <3>1. \A types : Entries(p, types) = {}
        BY <1>2 DEF Entries
      <3> QED
        BY <3>1, SumEmpty DEF Total
    <2>4. Took(p) = 0 /\ GaveBack(p) = 0 /\ WroteOff(p) = 0
      BY <2>3 DEF Took, GaveBack, WroteOff
    <2>5. GaveBack(p) = 0 - Refunded(p) /\ Claimed(p) =< payment[p].amount /\ WroteOff(p) + Lost(p) =< 0
      BY <2>1, <2>2, <2>4
    <2> QED
      BY <2>1, <2>2, <2>4, <2>5 DEF MoneyOK, VoidedOK, Tells
  <1> QED
    BY <1>3, <1>4 DEF MInv

LEMMA StutterMInv ==
    ASSUME SInv, MInv, UNCHANGED aftermathVars
    PROVE  MInv'
  <1>1. UNCHANGED <<payment, ledger, refund, unmoved, dispute, job, raced>>
    BY DEF aftermathVars, refundsVars, refundVars, disputeVars, rowVars
  <1>2. raced \subseteq raced'
    BY <1>1
  <1>3. MoneyStep
    BY <1>1, <1>2, IdleStep
  <1> QED
    BY <1>2, <1>3, StepKeepsMInv

LEMMA MoneyInvariance == AftermathSpec => [](SInv /\ MInv)
  <1>1. AftermathInit => SInv /\ MInv
    BY InitSInv, InitMInv
  <1>2. SInv /\ MInv /\ [AftermathNext]_aftermathVars => (SInv /\ MInv)'
    BY NextSInv, StutterSInv, NextMInv, StutterMInv
  <1> QED
    BY <1>1, <1>2, PTL DEF AftermathSpec

\* No more is promised back than was taken (refunds.service.ts:41-56), whatever is
\* captured, edited, reversed, disputed or split beside it, as long as no two requests
\* worked on the payment together: what a job summed up is still so when it writes.
THEOREM RefundsStayWithinPayment == AftermathSpec => []RefundsWithinPayment
  <1>1. MInv => RefundsWithinPayment
    BY DEF MInv, MoneyOK, Claimed, RefundsWithinPayment
  <1> QED
    BY <1>1, MoneyInvariance, PTL

\* The status updateRefundStatus leaves behind (refunds.service.ts:178) says what was
\* paid back, until issueRefund pays back more without telling.
THEOREM StatusIsOfRefunds == AftermathSpec => []StatusTellsRefunds
  <1>1. MInv => StatusTellsRefunds
    BY DEF MInv, MoneyOK, Tells, Refunded, StatusTellsRefunds, Captured
  <1> QED
    BY <1>1, MoneyInvariance, PTL

\* The REFUNDED entries of a payment are its completed refunds, and its VOIDED entries
\* cover every dispute it lost, even one that two requests worked on together.
THEOREM LedgerFollowsMoneyBack == AftermathSpec => []LedgerFollowsReturns
  <1>1. ASSUME SInv, MInv
        PROVE  LedgerFollowsReturns
    <2>1. TypeOK /\ RefundsTyped /\ DisputesTyped
      BY <1>1 DEF SInv, AInv, RefundPart, RefundsTyped, DisputePart, DisputesTyped
    <2>2. ASSUME NEW p \in Payments
          PROVE  /\ p \notin raced => GaveBack(p) = -Refunded(p)
                 /\ WroteOff(p) =< -Lost(p)
      <3>1. Refunded(p) \in Nat /\ Lost(p) \in Nat /\ WroteOff(p) \in Int
        BY <2>1, RefundedIsClaimed, LostIsNat, TotalsAreInt
      <3>2. VoidedOK(p) /\ (p \notin raced => MoneyOK(p))
        BY <1>1 DEF MInv
      <3> QED
        BY <3>1, <3>2 DEF MoneyOK, VoidedOK
    <2> QED
      BY <2>2 DEF LedgerFollowsReturns, GaveBack, Refunded, WroteOff, Lost, LostOn, DisputeAmount
  <1> QED
    BY <1>1, MoneyInvariance, PTL
-----------------------------------------------------------------------------
(* Only a refund brings a payment back *)

LEMMA VoidedStays ==
    ASSUME SInv, AftermathNext, NEW p \in Payments,
           payment[p].status = "VOIDED", payment'[p].status # "VOIDED", p \notin raced'
    PROVE  \E x \in RefundIds : /\ refund[x].payment = p
                                /\ refund[x].status = "PENDING"
                                /\ refund'[x].status = "COMPLETED"
  <1>1. TypeOK /\ RefundPart /\ p \notin raced /\ Taken(p) /\ Exists(p)
    BY DEF SInv, AInv, AftermathNext, Taken, Exists
  <1>2. CASE ClientStep
    <2>1. PICK r \in Requests : Read(r) \/ Write(r) \/ Rollback(r)
      BY <1>2, PaymentLifecycleAssumption DEF ClientStep
    <2>2. Write(r)
      BY <2>1, ReadKeeps DEF Rollback
    <2>3. PICK q \in Payments : ClientWrites(r, q)
      BY <1>1, <2>2, WriteWrites DEF SInv
    <2>4. q = p /\ ClientOK(r)
      BY <2>3 DEF ClientWrites, SInv
    <2>5. ClientCaptures(r, p) /\ txn[r].on = p
      BY <1>1, <2>3, <2>4 DEF ClientWrites, ClientInserts, ClientKeeps, ClientVoids
    <2> QED
      BY <1>1, <2>4, <2>5 DEF ClientOK, ClientCaptures
  <1>3. CASE RefundStep
    <2>1. PICK j \in Jobs : StatusComplete(j)
      BY <1>3 DEF RefundStep, IssueSelect, IssueSum, IssueWrite, StatusSelect, StatusFail,
                  StatusSum, JobFails, RequestRefund, rowVars
    <2>2. job[j].op = "status" /\ refund' = [refund EXCEPT ![job[j].refund].status = "COMPLETED"]
          /\ \A q \in Payments : q # job[j].on => payment'[q] = payment[q]
      BY <1>1, <2>1 DEF StatusComplete, JobAt, TypeOK
    <2>3. PICK x \in RefundIds : /\ x = job[j].refund /\ refund[x].payment = job[j].on
                                 /\ job[j].on \notin raced => refund[x].status = "PENDING"
      BY <2>2, StatusJob
    <2>4. job[j].on = p
      BY <2>2
    <2> QED
      BY <1>1, <2>2, <2>3, <2>4 DEF RefundPart, RefundRow
  <1>4. CASE SplitStep
    <2>1. PICK j \in Jobs, q, s \in Payments : SplitInsert(j, q, s)
      BY <1>4 DEF SplitStep, SplitLookup, SplitConflict, rowVars
    <2>2. ~Exists(q) /\ ~Exists(s) /\ \A u \in Payments \ {q, s} : payment'[u] = payment[u]
      BY <1>1, <2>1 DEF SplitInsert, TypeOK
    <2> QED
      BY <1>1, <2>2
  <1>5. CASE DisputeStep
    <2>1. PICK x \in DisputeIds, to \in DisputeStatus \ {"NONE"} : Decide(x, to)
      BY <1>5 DEF DisputeStep, Raise, RespondSelect, RespondWrite, rowVars
    <2>2. UNCHANGED payment \/ payment' = [payment EXCEPT ![dispute[x].payment].status = "VOIDED"]
      BY <2>1 DEF Decide
    <2> QED
      BY <1>1, <2>2 DEF TypeOK, Row
  <1>6. CASE RefundsQuiescent
    BY <1>6 DEF RefundsQuiescent, rowVars
  <1> QED
    BY <1>2, <1>3, <1>4, <1>5, <1>6 DEF AftermathNext

\* Money given up stays given up: nothing but the completion of a refund that was still
\* PENDING gives a VOIDED payment another status, although no UPDATE looks at the one
\* that is there, unless two requests worked on the payment together.
THEOREM OnlyRefundsReviveAlways == AftermathSpec => OnlyRefundsRevive
  <1>1. SInv /\ [AftermathNext]_aftermathVars =>
           [\A p \in Payments :
              payment[p].status = "VOIDED" /\ payment'[p].status # "VOIDED" /\ p \notin raced'
                  => \E x \in RefundIds : /\ refund[x].payment = p
                                          /\ refund[x].status = "PENDING"
                                          /\ refund'[x].status = "COMPLETED"]_refundsVars
    <2>1. CASE UNCHANGED aftermathVars
      BY <2>1 DEF aftermathVars
    <2> QED
      BY <2>1, VoidedStays
  <1> QED
    BY <1>1, MoneyInvariance, PTL DEF AftermathSpec, OnlyRefundsRevive
-----------------------------------------------------------------------------
(* The figures reported *)

\* What a payment counts for in the report and in the ledger.
InGross == {"CAPTURED", "PARTIALLY_REFUNDED"}
AmountOf == [p \in Payments |-> payment[p].amount]
Grossed == [p \in Payments |-> IF payment[p].status \in InGross THEN payment[p].amount ELSE 0]
NetOf == [p \in Payments |-> Total(p, {"CAPTURED", "REFUNDED"})]

\* Captures and refunds together.
LEMMA TotalOfBoth ==
    ASSUME TypeOK, NEW p \in Payments
    PROVE  Total(p, {"CAPTURED", "REFUNDED"}) = Took(p) + GaveBack(p) /\ Took(p) \in Int /\ GaveBack(p) \in Int
  <1> DEFINE f == [i \in DOMAIN ledger[p] |-> ledger[p][i].amount]
             S == Entries(p, {"CAPTURED", "REFUNDED"})
             T == Entries(p, {"CAPTURED"})
  <1>1. ledger[p] \in Seq(Entry)
    BY DEF TypeOK
  <1>2. /\ DOMAIN ledger[p] = 1 .. Len(ledger[p]) /\ Len(ledger[p]) \in Nat
        /\ \A i \in 1 .. Len(ledger[p]) : ledger[p][i] \in Entry
    BY <1>1
  <1>3. IsFiniteSet(1 .. Len(ledger[p])) /\ S \subseteq 1 .. Len(ledger[p])
    BY <1>2, FS_Interval DEF Entries
  <1>4. IsFiniteSet(S)
    BY <1>3, FS_Subset
  <1>5. IntOn(f, S)
    BY <1>2, <1>3 DEF IntOn, Entry
  <1>6. T \subseteq S /\ S \ T = Entries(p, {"REFUNDED"})
    BY DEF Entries
  <1>7. /\ Total(p, {"CAPTURED", "REFUNDED"}) = SumFunctionOnSet(f, S)
        /\ Took(p) = SumFunctionOnSet(f, T) /\ GaveBack(p) = SumFunctionOnSet(f, S \ T)
    BY <1>6 DEF Total, Took, GaveBack
  <1>8. Took(p) \in Int /\ GaveBack(p) \in Int
    BY TotalsAreInt
  <1> HIDE DEF f, S, T
  <1>9. SumFunctionOnSet(f, S) = SumFunctionOnSet(f, T) + SumFunctionOnSet(f, S \ T)
    BY <1>4, <1>5, <1>6, SumParts
  <1> QED
    BY <1>7, <1>8, <1>9
\* A volume of nothing is of payments of nothing.
LEMMA NoVolume ==
    ASSUME TypeOK, NEW statuses, Volume(statuses) = 0, NEW p \in Payments,
           payment[p].status \in statuses
    PROVE  payment[p].amount = 0
  <1> DEFINE S == {q \in Payments : payment[q].status \in statuses}
  <1>1. IsFiniteSet(Payments) /\ S \subseteq Payments /\ p \in S
    BY PaymentTypesAssumption
  <1>2. IsFiniteSet(S)
    BY <1>1, FS_Subset
  <1>3. \A q \in Payments : AmountOf[q] = payment[q].amount /\ AmountOf[q] \in Nat
    BY DEF AmountOf, TypeOK, Row
  <1>4. SumFunctionOnSet(AmountOf, S) = 0
    BY DEF Volume, AmountOf
  <1> HIDE DEF S
  <1>5. /\ SumFunctionOnSet(AmountOf, S) = SumFunctionOnSet(AmountOf, S \ {p}) + AmountOf[p]
        /\ SumFunctionOnSet(AmountOf, S \ {p}) \in Nat
    <2>1. IntOn(AmountOf, S) /\ IsFiniteSet(S \ {p}) /\ \A q \in S \ {p} : AmountOf[q] \in Nat
      BY <1>1, <1>2, <1>3, FS_RemoveElement DEF IntOn
    <2>2. SumFunctionOnSet(AmountOf, S) = SumFunctionOnSet(AmountOf, S \ {p}) + AmountOf[p]
      BY <1>1, <1>2, <2>1, SumRemove
    <2>3. SumFunctionOnSet(AmountOf, S \ {p}) \in Nat
      BY <2>1, SumMonotone
    <2> QED
      BY <2>2, <2>3
  <1> QED
    BY <1>1, <1>3, <1>4, <1>5

\* The gross volume, payment by payment.
LEMMA GrossByPayment ==
    ASSUME TypeOK
    PROVE  GrossVolume = SumFunctionOnSet(Grossed, Payments) /\ IntOn(Grossed, Payments)
  <1> DEFINE S == {p \in Payments : payment[p].status \in InGross}
  <1>1. IsFiniteSet(Payments) /\ S \in SUBSET Payments
    BY PaymentTypesAssumption
  <1>2. \A p \in Payments : AmountOf[p] = payment[p].amount /\ AmountOf[p] \in Int
    BY DEF AmountOf, TypeOK, Row
  <1>3. /\ IntOn(AmountOf, S) /\ IntOn(Grossed, Payments)
        /\ \A p \in S : Grossed[p] = AmountOf[p]
        /\ \A p \in Payments \ S : Grossed[p] = 0
    BY <1>2 DEF IntOn, Grossed
  <1>4. GrossVolume = SumFunctionOnSet(AmountOf, S)
    BY DEF GrossVolume, Volume, AmountOf, InGross
  <1> HIDE DEF S
  <1>5. SumFunctionOnSet(Grossed, Payments) = SumFunctionOnSet(AmountOf, S)
    BY <1>1, <1>3, SumOfPart
  <1> QED
    BY <1>3, <1>4, <1>5

\* The refunds, payment by payment.
LEMMA RefundedByPayment ==
    ASSUME SInv
    PROVE  \E g : /\ TotalRefunded = SumFunctionOnSet(g, Payments) /\ IntOn(g, Payments)
                  /\ \A p \in Payments : g[p] = Refunded(p)
  <1> DEFINE C == {x \in RefundIds : refund[x].status = "COMPLETED"}
             to == [x \in RefundIds |-> refund[x].payment]
             g == Fibers(RefundAmount, to, Payments, C)
  <1>1. RefundsTyped
    BY DEF SInv, AInv, RefundPart, RefundsTyped
  <1>2. IsFiniteSet(RefundIds) /\ C \subseteq RefundIds /\ IsFiniteSet(Payments)
    BY RefundsAssumption, PaymentTypesAssumption
  <1>3. IsFiniteSet(C)
    BY <1>2, FS_Subset
  <1>4. IntOn(RefundAmount, C)
    BY <1>1, <1>2, RefundSumIsNat DEF IntOn
  <1>5. \A x \in C : to[x] \in Payments
    BY DEF SInv, RefundOK
  <1>6. \A p \in Payments : {x \in C : to[x] = p} = RefundsOf(p, {"COMPLETED"})
    BY DEF RefundsOf
  <1>7. \A p \in Payments : g[p] = Refunded(p)
    BY <1>6 DEF Fibers, Refunded, SumRefunds
  <1>8. TotalRefunded = SumFunctionOnSet(RefundAmount, C)
    BY DEF TotalRefunded
  <1> HIDE DEF C, to
  <1>9. SumFunctionOnSet(g, Payments) = SumFunctionOnSet(RefundAmount, C)
    BY <1>2, <1>3, <1>4, <1>5, SumFibers
  <1>10. IntOn(g, Payments)
    <2>1. \A p \in Payments : Refunded(p) \in Int
      BY <1>1, RefundedIsClaimed
    <2> QED
      BY <1>7, <2>1 DEF IntOn
  <1> QED
    BY <1>7, <1>8, <1>9, <1>10

LEMMA NetIsNet ==
    ASSUME SInv, MInv, raced = {}, Volume({"REFUNDED", "VOIDED"}) = 0
    PROVE  NetRevenue = LedgerNet
  <1>1. TypeOK /\ RefundsTyped /\ IsFiniteSet(Payments)
    BY PaymentTypesAssumption DEF SInv, AInv, RefundPart, RefundsTyped
  <1>2. PICK g : /\ TotalRefunded = SumFunctionOnSet(g, Payments) /\ IntOn(g, Payments)
                 /\ \A p \in Payments : g[p] = Refunded(p)
    BY RefundedByPayment
  <1>3. GrossVolume = SumFunctionOnSet(Grossed, Payments) /\ IntOn(Grossed, Payments)
    BY <1>1, GrossByPayment
  <1>4. LedgerNet = SumFunctionOnSet(NetOf, Payments)
    BY DEF LedgerNet, NetOf, SumFunction
  <1>5. ASSUME NEW p \in Payments
        PROVE  NetOf[p] = Grossed[p] - g[p]
    <2>1. MoneyOK(p) /\ RowOK(p)
      BY DEF SInv, MInv
    <2>2. payment[p].status \in Status /\ payment[p].amount \in Nat
      BY <1>1 DEF TypeOK, Row
    <2>3. Took(p) = Grossed[p]
      <3>1. CASE payment[p].status \in InGross
        BY <2>1, <3>1 DEF MoneyOK, InGross, Grossed
      <3>2. CASE ~Taken(p)
        BY <2>1, <3>2 DEF MoneyOK, InGross, Grossed, Taken
      <3>3. CASE payment[p].status \in {"REFUNDED", "VOIDED"}
        <4>1. payment[p].amount = 0
          BY <1>1, <3>3, NoVolume
        <4> QED
          BY <2>1, <3>3, <4>1 DEF MoneyOK, InGross, Grossed
      <3> QED
        BY <2>1, <2>2, <3>1, <3>2, <3>3 DEF RowOK, Status, InGross, Taken
    <2>4. /\ Total(p, {"CAPTURED", "REFUNDED"}) = Took(p) + GaveBack(p)
          /\ Took(p) \in Int /\ GaveBack(p) \in Int
      BY <1>1, TotalOfBoth
    <2>5. Refunded(p) \in Nat /\ GaveBack(p) = 0 - Refunded(p)
      BY <1>1, <2>1, RefundedIsClaimed DEF MoneyOK
    <2>6. NetOf[p] = Total(p, {"CAPTURED", "REFUNDED"})
      BY DEF NetOf
    <2>7. g[p] = Refunded(p)
      BY <1>2
    <2> QED
      BY <2>3, <2>4, <2>5, <2>6, <2>7
  <1>6. SumFunctionOnSet(NetOf, Payments) = SumFunctionOnSet(Grossed, Payments) - SumFunctionOnSet(g, Payments)
    BY <1>1, <1>2, <1>3, <1>5, SumMinus
  <1> QED
    BY <1>2, <1>3, <1>4, <1>6 DEF NetRevenue

\* Net revenue (finance.service.ts:121), which never reads the ledger, is what the
\* ledger says came in less what went out, as long as nobody raced and no payment the
\* report leaves out is of any amount.
THEOREM NetRevenueIsOfLedger == AftermathSpec => []NetRevenueIsLedgerNet
  <1>1. SInv /\ MInv => NetRevenueIsLedgerNet
    BY NetIsNet DEF NetRevenueIsLedgerNet
  <1> QED
    BY <1>1, MoneyInvariance, PTL
-----------------------------------------------------------------------------
(* Splits are charged once *)

\* No request is inserting a row under the key of a part.  Nothing in the code sees to
\* it: the header's value is the client's, and one that sends the text key-part-0 by
\* itself takes the place of the first part of key.
ClientKeysAreBare ==
    \A r \in Requests : txn[r].op = "create" =>
        \A a \in SplitKeys \X {0, 1} : txn[r].seen.key # Part[a]

Stored(key) == \E p \in Payments : payment[p].key = key

PartsTogether == \A k \in SplitKeys : Stored(Part[<<k, 0>>]) <=> Stored(Part[<<k, 1>>])

KeysKept(S) == \A p \in Payments \ S : payment'[p].key = payment[p].key

NewClientKey(p) ==
    /\ KeysKept({p})
    /\ payment[p].key = NoKey
    /\ ~KeyTaken(payment'[p].key)
    /\ \A a \in SplitKeys \X {0, 1} : payment'[p].key # Part[a]

NewParts(k, p, q) ==
    /\ KeysKept({p, q})
    /\ p # q /\ payment[p].key = NoKey /\ payment[q].key = NoKey
    /\ payment'[p].key = Part[<<k, 0>>] /\ payment'[q].key = Part[<<k, 1>>]
    /\ ~Stored(Part[<<k, 0>>]) /\ ~Stored(Part[<<k, 1>>])

KeyStep ==
    \/ KeysKept({})
    \/ \E p \in Payments : NewClientKey(p)
    \/ \E k \in SplitKeys, p, q \in Payments : NewParts(k, p, q)

LEMMA PartIsKey == \A k \in SplitKeys, i \in {0, 1} : Part[<<k, i>>] # NoKey
  <1> SUFFICES ASSUME NEW k \in SplitKeys, NEW i \in {0, 1} PROVE Part[<<k, i>>] # NoKey
    OBVIOUS
  <1>1. Part[<<k, i>>] \in Keys
    BY AftermathAssumption
  <1> QED
    BY <1>1, PaymentTypesAssumption

LEMMA StatusKeepsKeys ==
    ASSUME TypeOK, NEW p, NEW s, payment' = [payment EXCEPT ![p].status = s]
    PROVE  KeysKept({})
  <1>1. \A q \in Payments : payment[q] \in Row
    BY DEF TypeOK
  <1>2. \A q \in Payments : payment'[q] = payment[q] \/ payment'[q] = [payment[q] EXCEPT !.status = s]
    BY DEF TypeOK
  <1> QED
    BY <1>1, <1>2 DEF KeysKept, Row

LEMMA ClientKeyStep ==
    ASSUME SInv, ClientKeysAreBare, ClientStep
    PROVE  KeyStep
  <1>1. PICK r \in Requests : Read(r) \/ Write(r) \/ Rollback(r)
    BY PaymentLifecycleAssumption DEF ClientStep
  <1>2. TypeOK /\ ClientOK(r)
    BY DEF SInv, AInv
  <1>3. CASE UNCHANGED payment
    BY <1>3 DEF KeyStep, KeysKept
  <1>4. CASE ~UNCHANGED payment
    <2>1. Write(r)
      BY <1>1, <1>4, ReadKeeps DEF Rollback
    <2>2. PICK p \in Payments : ClientWrites(r, p)
      BY <1>2, <1>4, <2>1, WriteWrites
    <2>3. CASE ClientInserts(r, p)
      <3>1. payment[p].key = NoKey
        BY <2>3 DEF SInv, RowOK, ClientInserts
      <3>2. NewClientKey(p)
        BY <2>2, <2>3, <3>1 DEF ClientInserts, ClientWrites, NewClientKey, KeysKept, ClientKeysAreBare
      <3> QED
        BY <3>2 DEF KeyStep
    <2>4. CASE ~ClientInserts(r, p)
      BY <2>2, <2>4 DEF ClientWrites, KeyStep, KeysKept
    <2> QED
      BY <2>3, <2>4
  <1> QED
    BY <1>3, <1>4

LEMMA SplitKeyStep ==
    ASSUME SInv, SplitStep
    PROVE  KeyStep
  <1>1. TypeOK /\ \A p \in Payments : RowOK(p)
    BY DEF SInv, AInv
  <1>2. CASE UNCHANGED payment
    BY <1>2 DEF KeyStep, KeysKept
  <1>3. CASE ~UNCHANGED payment
    <2>1. PICK j \in Jobs, p \in Payments, q \in Payments : SplitInsert(j, p, q)
      BY <1>3 DEF SplitStep, SplitLookup, SplitConflict, rowVars
    <2> DEFINE k == job[j].key
    <2>2. k \in SplitKeys \cup {NoKey}
      BY <2>1 DEF SInv, AInv, RefundPart, JobOK, SplitInsert, JobAt
    <2>3. \A amount, key : PartRow(amount, key).key = key
      BY DEF PartRow, NewRow, Unwritten
    <2>4. /\ p # q /\ payment[p].key = NoKey /\ payment[q].key = NoKey
          /\ payment'[p].key = PartKey(k, 0) /\ payment'[q].key = PartKey(k, 1)
          /\ \A s \in Payments \ {p, q} : payment'[s] = payment[s]
      BY <1>1, <2>1, <2>3 DEF SplitInsert, TypeOK, RowOK
    <2>5. ~KeyTaken(PartKey(k, 0)) /\ ~KeyTaken(PartKey(k, 1))
      BY <2>1 DEF SplitInsert, PartTaken
    <2> HIDE DEF k
    <2>6. CASE k = NoKey
      BY <2>4, <2>6 DEF PartKey, KeyStep, KeysKept
    <2>7. CASE k # NoKey
      <3>1. /\ k \in SplitKeys
            /\ PartKey(k, 0) = Part[<<k, 0>>] /\ PartKey(k, 1) = Part[<<k, 1>>]
        BY <2>2, <2>7 DEF PartKey
      <3>2. NewParts(k, p, q)
        BY <2>4, <2>5, <3>1, PartIsKey DEF NewParts, KeysKept, KeyTaken, Stored
      <3> QED
        BY <3>1, <3>2 DEF KeyStep
    <2> QED
      BY <2>6, <2>7
  <1> QED
    BY <1>2, <1>3

LEMMA NextKeyStep ==
    ASSUME SInv, ClientKeysAreBare, AftermathNext
    PROVE  KeyStep
  <1>1. TypeOK
    BY DEF SInv, AInv
  <1>2. CASE ClientStep
    BY <1>2, ClientKeyStep
  <1>3. CASE SplitStep
    BY <1>3, SplitKeyStep
  <1>4. CASE UNCHANGED payment
    BY <1>4 DEF KeyStep, KeysKept
  <1>5. CASE RefundStep /\ ~UNCHANGED payment
    <2>1. PICK j \in Jobs : StatusComplete(j)
      BY <1>5 DEF RefundStep, IssueSelect, IssueSum, IssueWrite, StatusSelect, StatusFail, StatusSum,
                  JobFails, RequestRefund, rowVars
    <2>2. payment' = [payment EXCEPT ![job[j].on].status =
                         IF job[j].covers THEN "REFUNDED" ELSE "PARTIALLY_REFUNDED"]
      BY <2>1 DEF StatusComplete
    <2> QED
      BY <1>1, <2>2, StatusKeepsKeys DEF KeyStep
  <1>6. CASE DisputeStep /\ ~UNCHANGED payment
    <2>1. PICK x \in DisputeIds, to \in DisputeStatus \ {"NONE"} : Decide(x, to)
      BY <1>6 DEF DisputeStep, Raise, RespondSelect, RespondWrite, rowVars
    <2>2. payment' = [payment EXCEPT ![dispute[x].payment].status = "VOIDED"]
      BY <1>6, <2>1 DEF Decide
    <2> QED
      BY <1>1, <2>2, StatusKeepsKeys DEF KeyStep
  <1>7. RefundsQuiescent => UNCHANGED payment
    BY DEF RefundsQuiescent, rowVars
  <1> QED
    BY <1>2, <1>3, <1>4, <1>5, <1>6, <1>7 DEF AftermathNext

\* Keys stay unique, and a part's key is stored with the other part's or not at all.
LEMMA KeyStepKeeps ==
    ASSUME KeyStep, OnePaymentPerKey, PartsTogether
    PROVE  OnePaymentPerKey' /\ PartsTogether'
  <1>1. CASE KeysKept({})
    BY <1>1 DEF KeysKept, OnePaymentPerKey, PartsTogether, Stored
  <1>2. ASSUME NEW p \in Payments, NewClientKey(p)
        PROVE  OnePaymentPerKey' /\ PartsTogether'
    <2>1. ASSUME NEW k \in SplitKeys, NEW i \in {0, 1}
          PROVE  Stored(Part[<<k, i>>])' <=> Stored(Part[<<k, i>>])
      <3>1. payment[p].key # Part[<<k, i>>] /\ payment'[p].key # Part[<<k, i>>]
        BY <1>2, PartIsKey DEF NewClientKey
      <3> QED
        BY <1>2, <3>1 DEF NewClientKey, KeysKept, Stored
    <2>2. OnePaymentPerKey'
      BY <1>2 DEF NewClientKey, KeysKept, KeyTaken, OnePaymentPerKey
    <2> QED
      BY <2>1, <2>2 DEF PartsTogether
  <1>3. ASSUME NEW k \in SplitKeys, NEW p \in Payments, NEW q \in Payments, NewParts(k, p, q)
        PROVE  OnePaymentPerKey' /\ PartsTogether'
    <2>1. Part[<<k, 0>>] # Part[<<k, 1>>]
      <3>1. <<k, 0>> # <<k, 1>> /\ <<k, 0>> \in SplitKeys \X {0, 1} /\ <<k, 1>> \in SplitKeys \X {0, 1}
        OBVIOUS
      <3> QED
        BY <3>1, AftermathAssumption
    <2>2. OnePaymentPerKey'
      BY <1>3, <2>1 DEF NewParts, KeysKept, Stored, OnePaymentPerKey
    <2>3. Stored(Part[<<k, 0>>])' /\ Stored(Part[<<k, 1>>])'
      BY <1>3 DEF NewParts, Stored
    <2>4. ASSUME NEW l \in SplitKeys \ {k}, NEW i \in {0, 1}
          PROVE  Stored(Part[<<l, i>>])' <=> Stored(Part[<<l, i>>])
      <3>1. Part[<<l, i>>] # Part[<<k, 0>>] /\ Part[<<l, i>>] # Part[<<k, 1>>]
        <4>1. /\ <<l, i>> # <<k, 0>> /\ <<l, i>> # <<k, 1>>
              /\ <<l, i>> \in SplitKeys \X {0, 1}
              /\ <<k, 0>> \in SplitKeys \X {0, 1} /\ <<k, 1>> \in SplitKeys \X {0, 1}
          OBVIOUS
        <4> QED
          BY <4>1, AftermathAssumption
      <3>2. Part[<<l, i>>] # NoKey
        BY PartIsKey
      <3> QED
        BY <1>3, <3>1, <3>2 DEF NewParts, KeysKept, Stored
    <2> QED
      BY <2>2, <2>3, <2>4 DEF PartsTogether
  <1> QED
    BY <1>1, <1>2, <1>3 DEF KeyStep

LEMMA TogetherIsOnce ==
    ASSUME OnePaymentPerKey, PartsTogether
    PROVE  SplitChargedOnce
  <1> SUFFICES ASSUME NEW k \in SplitKeys
               PROVE  LET parts(i) == {p \in Payments : payment[p].key = Part[<<k, i>>]}
                      IN  /\ Cardinality(parts(0)) = Cardinality(parts(1))
                          /\ Cardinality(parts(0)) =< 1
    BY DEF SplitChargedOnce
  <1> DEFINE parts(i) == {p \in Payments : payment[p].key = Part[<<k, i>>]}
  <1>1. ASSUME NEW i \in {0, 1}, Stored(Part[<<k, i>>])
        PROVE  Cardinality(parts(i)) = 1
    <2>1. PICK p \in Payments : payment[p].key = Part[<<k, i>>]
      BY <1>1 DEF Stored
    <2>2. parts(i) = {p}
      BY <2>1, PartIsKey DEF OnePaymentPerKey
    <2> HIDE DEF parts
    <2> QED
      BY <2>2, FS_Singleton
  <1>2. ASSUME NEW i \in {0, 1}, ~Stored(Part[<<k, i>>])
        PROVE  Cardinality(parts(i)) = 0
    <2>1. parts(i) = {}
      BY <1>2 DEF Stored
    <2> HIDE DEF parts
    <2> QED
      BY <2>1, FS_EmptySet
  <1>3. Stored(Part[<<k, 0>>]) <=> Stored(Part[<<k, 1>>])
    BY DEF PartsTogether
  <1> HIDE DEF parts
  <1>4. Cardinality(parts(0)) = Cardinality(parts(1)) /\ Cardinality(parts(0)) =< 1
    <2>1. CASE Stored(Part[<<k, 0>>])
      BY <1>1, <1>3, <2>1
    <2>2. CASE ~Stored(Part[<<k, 0>>])
      BY <1>2, <1>3, <2>2
    <2> QED
      BY <2>1, <2>2
  <1> QED
    BY <1>4 DEF parts

\* A split is charged once, both parts or neither, however it is retried and whatever
\* runs beside it (split.service.ts:27-46), if no client uses a part's key for a
\* payment of its own.
THEOREM SplitsAreChargedOnce == AftermathSpec /\ []ClientKeysAreBare => []SplitChargedOnce
  <1> DEFINE KInv == OnePaymentPerKey /\ PartsTogether
  <1>1. AftermathInit => KInv
    <2> SUFFICES ASSUME AftermathInit PROVE KInv
      OBVIOUS
    <2>1. \A p \in Payments : payment[p].key = NoKey
      BY DEF AftermathInit, RefundsInit, RowsInit, Unwritten
    <2> QED
      BY <2>1, PartIsKey DEF OnePaymentPerKey, PartsTogether, Stored
  <1>2. KInv /\ SInv /\ ClientKeysAreBare /\ [AftermathNext]_aftermathVars => KInv'
    <2>1. SInv /\ ClientKeysAreBare /\ AftermathNext => KeyStep
      BY NextKeyStep
    <2>2. UNCHANGED aftermathVars => KeyStep
      BY DEF aftermathVars, refundsVars, rowVars, KeyStep, KeysKept
    <2> QED
      BY <2>1, <2>2, KeyStepKeeps
  <1>3. KInv => SplitChargedOnce
    BY TogetherIsOnce
  <1> HIDE DEF KInv
  <1> QED
    BY <1>1, <1>2, <1>3, MoneyInvariance, PTL DEF AftermathSpec
==============================================================================
