----------------------------- MODULE MCAftermath -----------------------------
(***************************************************************************)
(* Instances of Aftermath for TLC: one split key and its two parts.        *)
(***************************************************************************)
EXTENDS Aftermath, TLC

CONSTANTS k0, k1, k2

MCPart == <<k0, 0>> :> k1 @@ <<k0, 1>> :> k2

MCHandlers == {"reverse"}

\* Jobs, requests and ids are interchangeable.
MCSymmetry == Permutations(Jobs) \cup Permutations(Requests) \cup Permutations(RefundIds)
                \cup Permutations(Payments)
=============================================================================
