---------------------------- MODULE PaymentTypes ----------------------------
(***************************************************************************)
(* The rows of the tables `payments` and `payment_ledger`, reduced to the  *)
(* columns the handlers branch on or that the properties relate: see       *)
(* db/squashed-migrations.ts.  Amounts are naturals in the smallest        *)
(* currency unit; CreatePaymentDto (@Min(1)) and check_amount_positive     *)
(* exclude zero.                                                           *)
(***************************************************************************)
EXTENDS Integers, Sequences, FiniteSets

CONSTANTS
    Payments,      \* the payment ids the database ever hands out: UUIDs, so
                   \* finitely many
    NoPayment,     \* the target of a request that has no payment row yet
    Amounts,       \* the amounts requests may carry
    Keys,          \* the Idempotency-Key header values clients use
    NoKey          \* no Idempotency-Key header

ASSUME PaymentTypesAssumption ==
    /\ IsFiniteSet(Payments)
    /\ Amounts \subseteq Nat \ {0}
    /\ NoPayment \notin Payments
    /\ NoKey \notin Keys

\* The enum payment_status, and "NONE" for an id no row has been inserted for.
Status == {"NONE", "PENDING", "AUTHORIZED", "CAPTURED", "PARTIALLY_REFUNDED",
           "REFUNDED", "VOIDED", "FAILED", "DISPUTED"}

Channel == {"IN_PERSON", "ONLINE"}

(***************************************************************************)
(* A row of `payments`.  feeBase abstracts the snapshot columns (snap_*,   *)
(* total_fee_deducted, net_payout): it is the gross amount they were       *)
(* computed from, 0 while they are NULL.                                   *)
(***************************************************************************)
Row == [status : Status, amount : Nat, channel : Channel, tip : Nat,
        feeBase : Nat, key : Keys \cup {NoKey}]

Unwritten == [status |-> "NONE", amount |-> 0, channel |-> "ONLINE",
              tip |-> 0, feeBase |-> 0, key |-> NoKey]

\* The enum ledger_entry_type.
EntryType == {"PAYMENT_CREATED", "AUTHORIZED", "CAPTURED", "TIP_ADDED",
              "VOIDED", "REFUNDED", "FEE_DEDUCTED", "DISPUTED"}

Entry == [type : EntryType, amount : Int]

Posting(type, amount) == [type |-> type, amount |-> amount]

\* The row createPayment inserts: status PENDING, no tip, no fee snapshot.
NewRow(amount, channel, key) ==
    [Unwritten EXCEPT !.status = "PENDING", !.amount = amount,
                      !.channel = channel, !.key = key]

\* calculateAndSnapshotFees: it reads the row's amount again, in the transaction
\* it is called from, and fills the snapshot columns from it.
SnapshotFees(row) == [row EXCEPT !.feeBase = row.amount]
=============================================================================
