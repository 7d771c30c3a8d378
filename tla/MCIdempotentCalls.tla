--------------------------- MODULE MCIdempotentCalls ---------------------------
(***************************************************************************)
(* Instances of IdempotentCalls for TLC: every call is for the same body.  *)
(***************************************************************************)
EXTENDS IdempotentCalls, TLC

CONSTANTS a1, a2

MCBody == [m \in Marks \cup {NoMark} |-> [from |-> a1, to |-> a2, amount |-> 1]]
=============================================================================
