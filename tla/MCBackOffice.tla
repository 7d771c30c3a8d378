----------------------------- MODULE MCBackOffice -----------------------------
(***************************************************************************)
(* Instances of BackOffice for TLC.  With Scale = 10 a rate of 1 is 10 %.  *)
(***************************************************************************)
EXTENDS BackOffice, TLC

MCTerms == {[flat |-> 0, rate |-> 1, vat |-> 0, min |-> 0, max |-> 0],
            [flat |-> 1, rate |-> 3, vat |-> 1, min |-> 2, max |-> 1]}
MCChanges == {[max |-> 0], [flat |-> 4, vat |-> 3], [min |-> 5]}

MCSymmetry == Permutations(Requests)
=============================================================================
