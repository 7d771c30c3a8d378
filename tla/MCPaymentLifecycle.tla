------------------------- MODULE MCPaymentLifecycle -------------------------
(***************************************************************************)
(* Instances of PaymentLifecycle for TLC.  Requests are interchangeable,   *)
(* and so are payment ids.                                                 *)
(***************************************************************************)
EXTENDS PaymentAccounting, TLC

MCSymmetry == Permutations(Requests) \cup Permutations(Payments)

\* Every handler of this module.
AllHandlers == {"create", "edit", "cancel", "captureLocked", "captureCash",
                "captureCard", "cancelUncaptured", "reverse", "tip", "cancelSession"}
=============================================================================
