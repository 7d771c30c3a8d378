-------------------------- MODULE PaymentAccounting --------------------------
(***************************************************************************)
(* What the sums over payment_ledger must say of a payment.                *)
(***************************************************************************)
EXTENDS PaymentLifecycle, Functions

\* The sum of p's ledger entries that have one of the types.
Total(p, types) ==
    SumFunctionOnSet([i \in DOMAIN ledger[p] |-> ledger[p][i].amount], Entries(p, types))

\* How far the TIP_ADDED entries of p are from the tip of its row.
TipDrift(p) == Total(p, {"TIP_ADDED"}) - payment[p].tip

(***************************************************************************)
(* tips.service.ts:57,63: the ledger gets the delta of each adjustment.    *)
(* The entries and the row come apart, or together again, only where an    *)
(* adjustment read a tip that another one has replaced since, and by just  *)
(* what that read missed: whatever else runs beside it, the ledger's sum   *)
(* is wrong by the tips that were lost between two adjustments.            *)
(***************************************************************************)
TipsDriftByStaleReads ==
    [][\A p \in Payments : TipDrift(p)' # TipDrift(p) =>
          \E r \in Clients :
              /\ At(r, "tip", "selected") /\ txn[r].on = p /\ txn'[r].step = "done"
              /\ TipDrift(p)' - TipDrift(p) = payment[p].tip - txn[r].seen.tip]_rowVars
=============================================================================
