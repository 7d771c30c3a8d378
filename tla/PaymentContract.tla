--------------------------- MODULE PaymentContract ---------------------------
(***************************************************************************)
(* What the payment handlers promise, one indivisible operation each: the  *)
(* check of the row's status, the new status and the ledger entry happen   *)
(* together, on the row as it is at that instant.  This is each handler    *)
(* executed with nobody else around; PaymentLifecycle says when the        *)
(* program's interleaved requests still look like this.                    *)
(***************************************************************************)
EXTENDS PaymentTypes

VARIABLES
    payment,    \* [Payments -> Row], the table payments
    ledger      \* [Payments -> Seq(Entry)], payment_ledger grouped by payment

contractVars == <<payment, ledger>>

Init ==
    /\ payment = [p \in Payments |-> Unwritten]
    /\ ledger = [p \in Payments |-> <<>>]

Post(p, row, entries) ==
    /\ payment' = [payment EXCEPT ![p] = row]
    /\ ledger' = [ledger EXCEPT ![p] = @ \o entries]

\* A key names at most one payment; without a key every request is new.
Create(p, amount, channel, key) ==
    /\ payment[p].status = "NONE"
    /\ key # NoKey => \A q \in Payments : payment[q].key # key
    /\ Post(p, NewRow(amount, channel, key), <<Posting("PAYMENT_CREATED", amount)>>)

Edit(p, amount) ==
    /\ payment[p].status = "PENDING"
    /\ Post(p, [payment[p] EXCEPT !.amount = amount], <<>>)

Void(p) ==
    /\ payment[p].status \in {"PENDING", "AUTHORIZED"}
    /\ Post(p, [payment[p] EXCEPT !.status = "VOIDED"],
               <<Posting("VOIDED", -payment[p].amount)>>)

\* withFees: the fees are computed on the amount captured.  The captures of
\* captures/capture.service.ts take no fees.
Capture(p, withFees) ==
    /\ payment[p].status \in {"PENDING", "AUTHORIZED"}
    /\ Post(p, [payment[p] EXCEPT !.status = "CAPTURED",
                                  !.feeBase = IF withFees THEN payment[p].amount ELSE @],
               <<Posting("CAPTURED", payment[p].amount)>>)

Fail(p) ==
    /\ payment[p].status = "PENDING"
    /\ Post(p, [payment[p] EXCEPT !.status = "FAILED"], <<>>)

Reverse(p) ==
    /\ payment[p].status = "CAPTURED"
    /\ Post(p, [payment[p] EXCEPT !.status = "VOIDED"],
               <<Posting("VOIDED", -payment[p].amount)>>)

Tip(p, tip) ==
    /\ payment[p].status \notin {"NONE", "VOIDED", "FAILED"}
    /\ tip # payment[p].tip
    /\ Post(p, [payment[p] EXCEPT !.tip = tip],
               <<Posting("TIP_ADDED", tip - payment[p].tip)>>)

Next ==
    \E p \in Payments :
        \/ \E a \in Amounts, c \in Channel, k \in Keys \cup {NoKey} : Create(p, a, c, k)
        \/ \E a \in Amounts : Edit(p, a)
        \/ Void(p)
        \/ \E withFees \in BOOLEAN : Capture(p, withFees)
        \/ Fail(p)
        \/ Reverse(p)
        \/ \E t \in Amounts \cup {0} : Tip(p, t)

Spec == Init /\ [][Next]_contractVars
=============================================================================
