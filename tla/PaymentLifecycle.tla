--------------------------- MODULE PaymentLifecycle ---------------------------
(***************************************************************************)
(* The handlers that move a row of `payments`, other than the webhook:     *)
(*   payments/payments.service.ts            create, edit, cancel, and the *)
(*                                           captures that lock the row    *)
(*   payments/captures/capture.service.ts    captureCash, captureCard,     *)
(*                                           cancelUncaptured, reverse     *)
(*   payments/tips/tips.service.ts           tip                           *)
(*   gateway/gateway.service.ts              cancelSession                 *)
(* Each is a read, a check of what was read, and a transaction's writes.   *)
(* Only captureLocked reads FOR UPDATE, and no UPDATE repeats the check in *)
(* its WHERE clause.                                                       *)
(***************************************************************************)
EXTENDS PaymentRows

CONSTANTS
    Clients,       \* the requests that are not webhook deliveries
    Handlers       \* the handlers a deployment exposes

ASSUME PaymentLifecycleAssumption ==
    /\ Clients \subseteq Requests
    /\ Handlers \subseteq Ops \ {"none", "webhook"}

-----------------------------------------------------------------------------
(* payments.service.ts *)

(***************************************************************************)
(* createPayment: the lookup by Idempotency-Key runs outside the           *)
(* transaction and answers with the row it finds.  Otherwise the values    *)
(* to insert are kept in `seen`.                                           *)
(***************************************************************************)
CreateLookup(r, amount, channel, key) ==
    /\ "create" \in Handlers
    /\ MayBegin(r)
    /\ IF key # NoKey /\ \E q \in Payments : payment[q].key = key
       THEN Finish(r)
       ELSE txn' = [txn EXCEPT ![r] = [op |-> "create", step |-> "selected",
                        on |-> NoPayment, seen |-> NewRow(amount, channel, key),
                        arg |-> 0]]
    /\ UNCHANGED <<payment, ledger>>

\* Mutant of KeyTaken: the column is not UNIQUE.
KeyNotUnique(key) == FALSE

\* payments.idempotency_key is UNIQUE: the INSERT fails if the key is taken.
KeyTaken(key) == key # NoKey /\ \E q \in Payments : payment[q].key = key

CreateInsert(r, p) ==
    /\ At(r, "create", "selected")
    /\ ~Exists(p)
    /\ ~KeyTaken(txn[r].seen.key)
    /\ Commit(r, p, txn[r].seen, <<Posting("PAYMENT_CREATED", txn[r].seen.amount)>>)

CreateConflict(r) ==
    /\ At(r, "create", "selected")
    /\ KeyTaken(txn[r].seen.key)
    /\ Finish(r)
    /\ UNCHANGED <<payment, ledger>>

Pending(row) == row.status = "PENDING"

\* updatePayment: findOne, then an UPDATE outside any transaction.
EditSelect(r, p, amount) ==
    "edit" \in Handlers /\ Select(r, "edit", p, amount, Pending(payment[p]))

EditWrite(r) ==
    /\ At(r, "edit", "selected")
    /\ LET p == txn[r].on
       IN  Commit(r, p, [payment[p] EXCEPT !.amount = txn[r].arg], <<>>)

\* Mutant of WriteVoid: no ledger entry.
WriteVoidUnposted(r, op) ==
    /\ At(r, op, "selected")
    /\ LET p == txn[r].on
       IN  Commit(r, p, [payment[p] EXCEPT !.status = "VOIDED"], <<>>)

\* Status VOIDED, and minus the amount that was read.
WriteVoid(r, op) ==
    /\ At(r, op, "selected")
    /\ LET p == txn[r].on
       IN  Commit(r, p, [payment[p] EXCEPT !.status = "VOIDED"],
                  <<Posting("VOIDED", -txn[r].seen.amount)>>)

\* Mutant of Uncaptured: a captured payment may be cancelled too.
NotOver(row) == row.status \in {"PENDING", "AUTHORIZED", "CAPTURED"}

Uncaptured(row) == row.status \in {"PENDING", "AUTHORIZED"}

CancelSelect(r, p) ==
    "cancel" \in Handlers /\ Select(r, "cancel", p, 0, Uncaptured(payment[p]))

CancelWrite(r) == WriteVoid(r, "cancel")

LockedCaptureSelect(r, p) ==
    "captureLocked" \in Handlers
      /\ SelectForUpdate(r, "captureLocked", p, Pending(payment[p]))

\* ... and, with fees, becomes CAPTURED.
CaptureWithFees(r, op) ==
    /\ At(r, op, "locked")
    /\ LET p == txn[r].on
       IN  Commit(r, p, [SnapshotFees(payment[p]) EXCEPT !.status = "CAPTURED"],
                  <<Posting("CAPTURED", txn[r].seen.amount)>>)

LockedCaptureWrite(r) == CaptureWithFees(r, "captureLocked")
-----------------------------------------------------------------------------
(* captures/capture.service.ts *)

CashCapturable(row) == row.status = "PENDING" /\ row.channel = "IN_PERSON"

CashSelect(r, p) ==
    "captureCash" \in Handlers
      /\ Select(r, "captureCash", p, 0, CashCapturable(payment[p]))

\* No fees are taken here; the amount posted is the one that was read.
CaptureWithoutFees(r, op) ==
    /\ At(r, op, "selected")
    /\ LET p == txn[r].on
       IN  Commit(r, p, [payment[p] EXCEPT !.status = "CAPTURED"],
                  <<Posting("CAPTURED", txn[r].seen.amount)>>)

CashWrite(r) == CaptureWithoutFees(r, "captureCash")

CardSelect(r, p) ==
    "captureCard" \in Handlers
      /\ Select(r, "captureCard", p, 0, Uncaptured(payment[p]))

CardWrite(r) == CaptureWithoutFees(r, "captureCard")

CancelUncapturedSelect(r, p) ==
    "cancelUncaptured" \in Handlers
      /\ Select(r, "cancelUncaptured", p, 0, Uncaptured(payment[p]))

CancelUncapturedWrite(r) == WriteVoid(r, "cancelUncaptured")

Captured(row) == row.status = "CAPTURED"

ReverseSelect(r, p) ==
    "reverse" \in Handlers /\ Select(r, "reverse", p, 0, Captured(payment[p]))

ReverseWrite(r) == WriteVoid(r, "reverse")
-----------------------------------------------------------------------------
(* tips/tips.service.ts *)

\* An unchanged tip is answered without writing.
Tippable(row, tip) == row.status \notin {"VOIDED", "FAILED"} /\ tip # row.tip

TipSelect(r, p, tip) ==
    "tip" \in Handlers /\ Select(r, "tip", p, tip, Tippable(payment[p], tip))

\* Mutant of TipWrite: the ledger gets the new tip instead of the delta.
TipWriteWhole(r) ==
    /\ At(r, "tip", "selected")
    /\ LET p == txn[r].on
       IN  Commit(r, p, [payment[p] EXCEPT !.tip = txn[r].arg],
                  <<Posting("TIP_ADDED", txn[r].arg)>>)

TipWrite(r) ==
    /\ At(r, "tip", "selected")
    /\ LET p == txn[r].on
       IN  Commit(r, p, [payment[p] EXCEPT !.tip = txn[r].arg],
                  <<Posting("TIP_ADDED", txn[r].arg - txn[r].seen.tip)>>)
-----------------------------------------------------------------------------
(* gateway/gateway.service.ts: cancelCheckoutSession, which checks nothing. *)

CancelSessionSelect(r, p) ==
    "cancelSession" \in Handlers /\ Select(r, "cancelSession", p, 0, TRUE)

CancelSessionWrite(r) == WriteVoid(r, "cancelSession")
-----------------------------------------------------------------------------
Init == RowsInit

Read(r) ==
    \/ \E a \in Amounts, c \in Channel, k \in Keys \cup {NoKey} : CreateLookup(r, a, c, k)
    \/ \E p \in Payments :
          \/ \E a \in Amounts : EditSelect(r, p, a)
          \/ CancelSelect(r, p)
          \/ LockedCaptureSelect(r, p)
          \/ CashSelect(r, p)
          \/ CardSelect(r, p)
          \/ CancelUncapturedSelect(r, p)
          \/ ReverseSelect(r, p)
          \/ \E t \in Amounts \cup {0} : TipSelect(r, p, t)
          \/ CancelSessionSelect(r, p)

Write(r) ==
    \/ \E p \in Payments : CreateInsert(r, p)
    \/ CreateConflict(r)
    \/ EditWrite(r)
    \/ CancelWrite(r)
    \/ LockedCaptureWrite(r)
    \/ CashWrite(r)
    \/ CardWrite(r)
    \/ CancelUncapturedWrite(r)
    \/ ReverseWrite(r)
    \/ TipWrite(r)
    \/ CancelSessionWrite(r)

ClientStep == \E r \in Clients : Read(r) \/ Write(r) \/ Rollback(r)

\* Every request has been answered: the end of a behaviour, not a deadlock.
Quiescent ==
    /\ \A r \in Requests : txn[r].step = "done"
    /\ UNCHANGED rowVars

Next == ClientStep \/ Quiescent

Spec == Init /\ [][Next]_rowVars
-----------------------------------------------------------------------------
(* Properties *)

\* The entries of p's ledger that have one of the types.
Entries(p, types) == {i \in DOMAIN ledger[p] : ledger[p][i].type \in types}

\* Types of the committed tables and of the requests' snapshots.
TypeOK ==
    /\ payment \in [Payments -> Row]
    /\ ledger \in [Payments -> Seq(Entry)]
    /\ txn \in [Requests -> Txn]

(***************************************************************************)
(* While a request holds a row FOR UPDATE nobody else holds a lock on it   *)
(* and the row is still the one it read, however many awaits ago: every    *)
(* other handler's UPDATE waits (payments.service.ts:77,                   *)
(* webhooks.service.ts:123).                                               *)
(***************************************************************************)
LockProtectsRow ==
    \A r \in Requests : txn[r].step = "locked" =>
        /\ txn[r].seen = payment[txn[r].on]
        /\ \A s \in Requests \ {r} :
               ~HoldsForUpdate(s, txn[r].on) /\ ~HoldsKeyShare(s, txn[r].on)

(***************************************************************************)
(* A payment that was ever captured has left PENDING for good, and a       *)
(* status that says money moved or was given up is explained by the        *)
(* ledger: every handler commits both or neither, whatever overtakes it.   *)
(***************************************************************************)
LedgerExplainsStatus ==
    \A p \in Payments :
        /\ payment[p].status \in {"NONE", "PENDING"} => Entries(p, {"CAPTURED", "VOIDED"}) = {}
        /\ \A t \in {"CAPTURED", "VOIDED"} : payment[p].status = t => Entries(p, {t}) # {}

(***************************************************************************)
(* The money of a payment is taken once.  It holds when every capture      *)
(* reads FOR UPDATE (payments.service.ts, webhooks.service.ts), whatever   *)
(* unlocked edits, cancels and tips run beside them.                       *)
(***************************************************************************)
CapturedAtMostOnce ==
    \A p \in Payments : \A i, j \in Entries(p, {"CAPTURED"}) : i = j

(***************************************************************************)
(* The fee snapshot of a payment was computed on the amount its capture    *)
(* posted to the ledger, although fees.service.ts reads the amount again   *)
(* and updatePayment may rewrite it at any moment without a lock.          *)
(***************************************************************************)
FeesAreOfCapturedAmount ==
    \A p \in Payments : payment[p].feeBase # 0 =>
        \E i \in Entries(p, {"CAPTURED"}) : ledger[p][i].amount = payment[p].feeBase

(***************************************************************************)
(* One Idempotency-Key never makes two payments, although the lookup runs  *)
(* outside the transaction that inserts (payments.service.ts:31-54).       *)
(***************************************************************************)
OnePaymentPerKey ==
    \A p, q \in Payments :
        payment[p].key = payment[q].key /\ payment[p].key # NoKey => p = q

(***************************************************************************)
(* The interleaved requests look like the indivisible operations of        *)
(* PaymentContract.  It holds for the handlers that read FOR UPDATE.       *)
(***************************************************************************)
Contract == INSTANCE PaymentContract
ImplementsContract == Contract!Spec

(***************************************************************************)
(* Another request has changed a column that r checked, or of which r will *)
(* post the value it read, since r's plain SELECT.                         *)
(***************************************************************************)
Overtaken(r) ==
    /\ txn[r].step = "selected" /\ txn[r].op # "create"
    /\ LET seen == txn[r].seen
           now == payment[txn[r].on]
       IN  \/ now.status # seen.status
           \/ txn[r].op = "tip" /\ now.tip # seen.tip
           \/ txn[r].op \notin {"edit", "tip"} /\ now.amount # seen.amount

(***************************************************************************)
(* Whatever runs beside it, a request departs from the contract only if it *)
(* was itself overtaken between its plain SELECT and its writes, or is a   *)
(* cancelCheckoutSession, which checks nothing: the unlocked edits,        *)
(* cancels, captures, reversals and tips of payments.service.ts:195,       *)
(* capture.service.ts:22-240 and tips.service.ts:20-70 spoil nobody's work *)
(* but their own, and no departure needs a second fault.                   *)
(***************************************************************************)
OnlyOvertakenBreakContract ==
    [][\/ Contract!Next
       \/ UNCHANGED <<payment, ledger>>
       \/ \E r \in Clients : /\ txn'[r].step = "done"
                             /\ Overtaken(r) \/ txn[r].op = "cancelSession"]_rowVars

(***************************************************************************)
(* payments.service.ts:199, "Core Business Rule: Only edit if PENDING".    *)
(***************************************************************************)
EditedOnlyWhilePending ==
    [][\A p \in Payments : Exists(p) /\ payment'[p].amount # payment[p].amount
                                => Pending(payment[p])]_rowVars
=============================================================================
