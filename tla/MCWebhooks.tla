----------------------------- MODULE MCWebhooks -----------------------------
(***************************************************************************)
(* Instances of Webhooks for TLC: who carries which notification.          *)
(***************************************************************************)
EXTENDS Webhooks, TLC

CONSTANTS p1, p2, d1, d2, d3, d4, c1, c2, c3

Note(p, id, succeeded) ==
    [payment |-> p, id |-> id, succeeded |-> succeeded, failed |-> ~succeeded]

\* The payment succeeds, twice delivered at once, and a failure of another event.
DuplicateSuccess ==
    d1 :> Note(p1, "a", TRUE) @@ d2 :> Note(p1, "a", TRUE) @@ d3 :> Note(p1, "b", FALSE)

\* A payload without id (payment requests), its duplicate, a failure, and a
\* success of which no payment id could be extracted.
AnonymousSuccess ==
    d1 :> Note(p1, NoId, TRUE) @@ d2 :> Note(p1, NoId, TRUE)
      @@ d3 :> Note(p1, "b", FALSE) @@ d4 :> Note(NoPayment, "a", TRUE)

\* The payment succeeds.
OneSuccess == d1 :> Note(p1, "a", TRUE)

\* Clients are interchangeable; not used where liveness is checked.
MCSymmetry == Permutations(Clients)
=============================================================================
