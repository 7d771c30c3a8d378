--------------------------- MODULE TransferContract ---------------------------
(***************************************************************************)
(* What LedgerService.executeTransfer promises: a transfer is one          *)
(* indivisible movement of money between two wallets, made exactly when    *)
(* the source can afford it.                                               *)
(***************************************************************************)
EXTENDS Integers

CONSTANTS
    Transfers,     \* the calls of executeTransfer
    AccountIds,    \* ids account_snapshots rows may get
    MaxAmount      \* the largest amount of a call

VARIABLES
    open,          \* the ids that have a row in account_snapshots
    balance,       \* [AccountIds -> Nat]
    outcome        \* [Transfers -> Outcome]

\* "refused": insufficient funds.  "rejected": not the caller's account, the same
\* account twice, or no such target.  "failed": the database gave up.
Outcome == {"none", "paid", "refused", "rejected", "failed"}

contractVars == <<open, balance, outcome>>

Open(a) ==
    /\ a \in AccountIds \ open
    /\ open' = open \cup {a}
    /\ UNCHANGED <<balance, outcome>>

Decide(t, result) ==
    /\ outcome[t] = "none"
    /\ outcome' = [outcome EXCEPT ![t] = result]

Pay(t, from, to, amount) ==
    /\ {from, to} \subseteq open
    /\ from # to
    /\ balance[from] >= amount
    /\ balance' = [balance EXCEPT ![from] = @ - amount, ![to] = @ + amount]
    /\ Decide(t, "paid")
    /\ UNCHANGED open

Refuse(t, from, amount) ==
    /\ from \in open
    /\ balance[from] < amount
    /\ Decide(t, "refused")
    /\ UNCHANGED <<open, balance>>

Drop(t) ==
    /\ Decide(t, "rejected") \/ Decide(t, "failed")
    /\ UNCHANGED <<open, balance>>

Next ==
    \/ \E a \in AccountIds : Open(a)
    \/ \E t \in Transfers :
          \/ Drop(t)
          \/ \E from \in AccountIds, amount \in 1 .. MaxAmount :
                \/ Refuse(t, from, amount)
                \/ \E to \in AccountIds : Pay(t, from, to, amount)

\* The accounts that exist at the start, and their money, are any.
Init ==
    /\ open \subseteq AccountIds
    /\ balance \in [AccountIds -> Nat]
    /\ outcome = [t \in Transfers |-> "none"]

Spec == Init /\ [][Next]_contractVars
=============================================================================
