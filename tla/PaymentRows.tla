----------------------------- MODULE PaymentRows -----------------------------
(***************************************************************************)
(* The tables payments and payment_ledger under PostgreSQL's READ          *)
(* COMMITTED, as the handlers use them.                                    *)
(*                                                                         *)
(* A request is one HTTP call served by the program.  What a transaction   *)
(* has written is invisible until it commits, so its writes and its COMMIT *)
(* are one step; what can be seen from outside is when it READS, which row *)
(* locks it holds across its awaits, and when it commits.  `txn` keeps,    *)
(* for each request, the row it read (`seen`) and how far it is (`step`):  *)
(*                                                                         *)
(*   "new"        not begun                                                *)
(*   "selected"   it has run its plain SELECT and holds no lock            *)
(*   "locked"     it holds the row through SELECT ... FOR UPDATE           *)
(*   "unlogged"   a webhook that found no webhook_events row for its event *)
(*   "logged"     a webhook that inserted its webhook_events row: the      *)
(*                foreign key holds the payment row FOR KEY SHARE          *)
(*   "done"       answered, or rolled back                                 *)
(*                                                                         *)
(* FOR UPDATE conflicts with every other lock on the row.  An UPDATE (FOR  *)
(* NO KEY UPDATE) and the foreign key check of an INSERT (FOR KEY SHARE)   *)
(* conflict with FOR UPDATE but not with each other.                       *)
(***************************************************************************)
EXTENDS PaymentTypes

CONSTANTS
    Requests,      \* every request that ever arrives; each runs at most once
    MaxInFlight    \* how many requests may be in flight together

ASSUME PaymentRowsAssumption == MaxInFlight \in Nat \ {0}

VARIABLES
    payment,       \* [Payments -> Row], committed
    ledger,        \* [Payments -> Seq(Entry)], committed
    txn            \* [Requests -> Txn]

rowVars == <<payment, ledger, txn>>

Ops == {"none", "create", "edit", "cancel", "captureLocked", "captureCash",
        "captureCard", "cancelUncaptured", "reverse", "tip", "cancelSession",
        "webhook"}

Steps == {"new", "selected", "locked", "unlogged", "logged", "done"}

Txn == [op : Ops, step : Steps, on : Payments \cup {NoPayment}, seen : Row, arg : Nat]

Resting(step) == [op |-> "none", step |-> step, on |-> NoPayment,
                  seen |-> Unwritten, arg |-> 0]

RowsInit ==
    /\ payment = [p \in Payments |-> Unwritten]
    /\ ledger = [p \in Payments |-> <<>>]
    /\ txn = [r \in Requests |-> Resting("new")]

InFlight == {r \in Requests : txn[r].step \notin {"new", "done"}}

MayBegin(r) ==
    /\ txn[r].step = "new"
    /\ Cardinality(InFlight) < MaxInFlight

At(r, op, step) == txn[r].op = op /\ txn[r].step = step

Exists(p) == payment[p].status # "NONE"

HoldsForUpdate(s, p) == txn[s].step = "locked" /\ txn[s].on = p

HoldsKeyShare(s, p) == txn[s].step = "logged" /\ txn[s].on = p

\* Mutant of MayWrite: the row lock keeps nobody from writing.
MayWriteAnyway(r, p) == TRUE

\* An UPDATE or a foreign key check by r on p waits for the others' FOR UPDATE.
MayWrite(r, p) == \A s \in Requests \ {r} : ~HoldsForUpdate(s, p)

\* Mutant of MayLock: the lock is FOR NO KEY UPDATE, which a key share does not stop.
MayLockNoKey(r, p) == \A s \in Requests \ {r} : ~HoldsForUpdate(s, p)

\* SELECT ... FOR UPDATE waits for every other lock.
MayLock(r, p) ==
    \A s \in Requests \ {r} : ~HoldsForUpdate(s, p) /\ ~HoldsKeyShare(s, p)

Begin(r, op, step, p, arg) ==
    txn' = [txn EXCEPT ![r] = [op |-> op, step |-> step, on |-> p,
                               seen |-> payment[p], arg |-> arg]]

Finish(r) == txn' = [txn EXCEPT ![r] = Resting("done")]

(***************************************************************************)
(* SELECT * FROM payments WHERE id = p, without a lock.  If the handler's  *)
(* check refuses the row (`admitted` is FALSE) it throws, and the request  *)
(* ends with nothing written.                                              *)
(***************************************************************************)
Select(r, op, p, arg, admitted) ==
    /\ MayBegin(r)
    /\ Exists(p)
    /\ IF admitted THEN Begin(r, op, "selected", p, arg) ELSE Finish(r)
    /\ UNCHANGED <<payment, ledger>>

\* SELECT * FROM payments WHERE id = p FOR UPDATE.
SelectForUpdate(r, op, p, admitted) ==
    /\ MayBegin(r)
    /\ Exists(p)
    /\ MayLock(r, p)
    /\ IF admitted THEN Begin(r, op, "locked", p, 0) ELSE Finish(r)
    /\ UNCHANGED <<payment, ledger>>

\* The transaction's writes to p and their COMMIT.
Commit(r, p, row, entries) ==
    /\ MayWrite(r, p)
    /\ payment' = [payment EXCEPT ![p] = row]
    /\ ledger' = [ledger EXCEPT ![p] = @ \o entries]
    /\ Finish(r)

\* A statement fails, or the process dies: the transaction is rolled back.
Rollback(r) ==
    /\ r \in InFlight
    /\ Finish(r)
    /\ UNCHANGED <<payment, ledger>>
=============================================================================
