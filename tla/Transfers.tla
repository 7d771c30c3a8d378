------------------------------- MODULE Transfers -------------------------------
(***************************************************************************)
(* LedgerService.executeTransfer and createAccount (ledger/                *)
(* ledger.service.ts) with LedgerRepository's hash chain.  A transfer      *)
(* reads its source account, locks both accounts FOR UPDATE in the order   *)
(* of their ids, reads the balances under the locks, and then writes and   *)
(* commits.  The tables account_snapshots and ledger_entries are not in    *)
(* the repository's migrations: they are modelled from these statements,   *)
(* with created_at DEFAULT now(), the start of the transaction, as every   *)
(* created_at of db/squashed-migrations.ts has it.                         *)
(***************************************************************************)
EXTENDS Integers, Sequences, Functions

CONSTANTS
    Transfers,     \* the calls of executeTransfer, each at most once
    AccountIds,    \* ids account_snapshots rows may get; the order is that of the ids
    Unknown,       \* ids a caller may name and no account ever gets
    MaxAmount,     \* the largest amount of a call
    Funded,        \* the accounts that exist and hold money at the start
    Funds          \* what each of them holds

ASSUME TransfersAssumption ==
    /\ AccountIds \subseteq Nat
    /\ Unknown \subseteq Nat \ AccountIds
    /\ MaxAmount \in Nat
    /\ Funded \subseteq AccountIds
    /\ Funds \in Nat

VARIABLES
    open,          \* the ids that have a row in account_snapshots
    balance,       \* [AccountIds -> Int], committed
    entries,       \* [AccountIds -> Seq(Entry)], ledger_entries by account
    call,          \* [Transfers -> Call]
    clock          \* counts the transactions begun: no two begin at one instant

vars == <<open, balance, entries, call, clock>>

Steps == {"new", "begun", "one", "both", "checked", "chained", "done"}

Result == {"none", "paid", "refused", "rejected", "failed"}

Genesis == <<"genesis">>

\* current_hash is a function of the transaction id (and of the account, whose
\* chain this is): the transaction stands for it.
Hash(t) == <<"sha256", t>>

Hashes == {Genesis} \cup {Hash(t) : t \in Transfers}

Entry == [tx : Transfers, amount : Int, previous : Hashes, stamp : Nat]

Call == [step : Steps, from : Nat, to : Nat, amount : Nat, began : Nat,
         sent : Hashes, received : Hashes, result : Result]

Fresh == [step |-> "new", from |-> 0, to |-> 0, amount |-> 0, began |-> 0,
          sent |-> Genesis, received |-> Genesis, result |-> "none"]

Init ==
    /\ open = Funded
    /\ balance = [a \in AccountIds |-> IF a \in Funded THEN Funds ELSE 0]
    /\ entries = [a \in AccountIds |-> <<>>]
    /\ call = [t \in Transfers |-> Fresh]
    /\ clock = 0

End(t, result) == call' = [call EXCEPT ![t].step = "done", ![t].result = result]

\* createAccount: a wallet with nothing in it.
CreateAccount(a) ==
    /\ a \in AccountIds \ open
    /\ open' = open \cup {a}
    /\ UNCHANGED <<balance, entries, call, clock>>

(***************************************************************************)
(* BEGIN, and the SELECT of the source account by id and owner (`owned`:   *)
(* it finds the row).  A client knows the id of an existing account, or    *)
(* names one that nobody has.                                              *)
(***************************************************************************)
Begin(t, from, to, amount, owned) ==
    /\ call[t].step = "new"
    /\ from \in open
    /\ to \in open \cup Unknown
    /\ IF owned /\ from # to
       THEN /\ call' = [call EXCEPT ![t] = [Fresh EXCEPT !.step = "begun", !.from = from,
                                !.to = to, !.amount = amount, !.began = clock]]
            /\ clock' = clock + 1
       ELSE End(t, "rejected") /\ UNCHANGED clock
    /\ UNCHANGED <<open, balance, entries>>

Lower(t) == IF call[t].from < call[t].to THEN call[t].from ELSE call[t].to
Higher(t) == IF call[t].from < call[t].to THEN call[t].to ELSE call[t].from

\* Mutant of LockOrder: source first.
LockOrderUnsorted(t) == <<call[t].from, call[t].to>>

\* [sourceAccountId, targetAccountId].sort()
LockOrder(t) == <<Lower(t), Higher(t)>>

\* The accounts t has locked so far; no row, no lock.
Holds(t) ==
    open \cap CASE call[t].step = "one" -> {LockOrder(t)[1]}
                [] call[t].step \in {"both", "checked", "chained"}
                       -> {LockOrder(t)[1], LockOrder(t)[2]}
                [] OTHER -> {}

\* Mutant of Free: the accounts are read without FOR UPDATE.
FreeForAll(t, a) == TRUE

Free(t, a) == \A u \in Transfers \ {t} : a \notin Holds(u)

LockFirst(t) ==
    /\ call[t].step = "begun"
    /\ Free(t, LockOrder(t)[1])
    /\ call' = [call EXCEPT ![t].step = "one"]
    /\ UNCHANGED <<open, balance, entries, clock>>

LockSecond(t) ==
    /\ call[t].step = "one"
    /\ Free(t, LockOrder(t)[2])
    /\ call' = [call EXCEPT ![t].step = "both"]
    /\ UNCHANGED <<open, balance, entries, clock>>

\* Mutants of Affordable: the balance must exceed the amount; the wallet may go
\* one below zero.
AffordableStrictly(t) == balance[call[t].from] > call[t].amount
AffordableOnCredit(t) == balance[call[t].from] + 1 >= call[t].amount

(***************************************************************************)
(* Both rows are locked: read the source's balance, then look for the      *)
(* target's row.  What the checks found is used only after more awaits.    *)
(***************************************************************************)
Affordable(t) == balance[call[t].from] >= call[t].amount

Refuse(t) ==
    /\ call[t].step = "both"
    /\ ~Affordable(t)
    /\ End(t, "refused")
    /\ UNCHANGED <<open, balance, entries, clock>>

NoTarget(t) ==
    /\ call[t].step = "both"
    /\ Affordable(t)
    /\ call[t].to \notin open
    /\ End(t, "rejected")
    /\ UNCHANGED <<open, balance, entries, clock>>

Approve(t) ==
    /\ call[t].step = "both"
    /\ Affordable(t)
    /\ call[t].to \in open
    /\ call' = [call EXCEPT ![t].step = "checked"]
    /\ UNCHANGED <<open, balance, entries, clock>>

\* ORDER BY created_at DESC LIMIT 1: some entry that no other is later than.
LastHashes(a) ==
    IF entries[a] = <<>> THEN {Genesis}
    ELSE {Hash(entries[a][i].tx) : i \in {j \in DOMAIN entries[a] :
             \A k \in DOMAIN entries[a] : entries[a][k].stamp =< entries[a][j].stamp}}

\* Money is moved within the transaction (below, with the commit that shows it);
\* then the last hash of each account is read, and used after another await.
ReadHashes(t) ==
    /\ call[t].step = "checked"
    /\ \E sent \in LastHashes(call[t].from), received \in LastHashes(call[t].to) :
          call' = [call EXCEPT ![t].step = "chained", ![t].sent = sent,
                               ![t].received = received]
    /\ UNCHANGED <<open, balance, entries, clock>>

\* Mutant of Record: the debit is recorded without its sign.
RecordUnsigned(t, previous, amount) ==
    [tx |-> t, amount |-> IF amount < 0 THEN -amount ELSE amount, previous |-> previous,
     stamp |-> call[t].began]

\* created_at is when the transaction began, not when it got its locks.
Record(t, previous, amount) ==
    [tx |-> t, amount |-> amount, previous |-> previous,
     stamp |-> call[t].began]

\* Both UPDATEs are relative (balance - $1); both chains get an entry; COMMIT.
Pay(t) ==
    /\ call[t].step = "chained"
    /\ LET from == call[t].from
           to == call[t].to
           amount == call[t].amount
       IN  /\ balance' = [balance EXCEPT ![from] = @ - amount, ![to] = @ + amount]
           /\ entries' = [entries EXCEPT
                  ![from] = Append(@, Record(t, call[t].sent, -amount)),
                  ![to] = Append(@, Record(t, call[t].received, amount))]
    /\ End(t, "paid")
    /\ UNCHANGED <<open, clock>>

\* Mutant of Rollback: the caller gets a result it does not know.
RollbackAborts(t) ==
    /\ call[t].step \in {"begun", "one", "both", "checked", "chained"}
    /\ End(t, "aborted")
    /\ UNCHANGED <<open, balance, entries, clock>>

\* A statement fails or the connection is lost: ROLLBACK.
Rollback(t) ==
    /\ call[t].step \in {"begun", "one", "both", "checked", "chained"}
    /\ End(t, "failed")
    /\ UNCHANGED <<open, balance, entries, clock>>

Work(t) ==
    \/ LockFirst(t) \/ LockSecond(t)
    \/ Refuse(t) \/ NoTarget(t) \/ Approve(t)
    \/ ReadHashes(t) \/ Pay(t)

AllDone == (\A t \in Transfers : call[t].step = "done") /\ UNCHANGED vars

Next ==
    \/ \E a \in AccountIds : CreateAccount(a)
    \/ \E t \in Transfers :
          \/ \E from \in AccountIds, to \in AccountIds \cup Unknown,
                amount \in 1 .. MaxAmount, owned \in BOOLEAN : Begin(t, from, to, amount, owned)
          \/ Work(t)
          \/ Rollback(t)
    \/ AllDone

Spec == Init /\ [][Next]_vars

\* A transfer that has begun gets its turn.  Weak fairness is enough: each
\* transfer ends, so a lock is contended for finitely often.
FairSpec == Spec /\ \A t \in Transfers : WF_vars(Work(t))
-----------------------------------------------------------------------------
(* Properties *)

TypeOK ==
    /\ open \subseteq AccountIds
    /\ balance \in [AccountIds -> Int]
    /\ entries \in [AccountIds -> Seq(Entry)]
    /\ call \in [Transfers -> Call]
    /\ clock \in Nat

\* An account is locked by one transfer at a time.
LocksExclude ==
    \A t, u \in Transfers : t # u => Holds(t) \cap Holds(u) = {}

(***************************************************************************)
(* No wallet is overdrawn: the balance that was checked is still there     *)
(* when it is deducted, however many transfers leave the wallet at once    *)
(* (ledger.service.ts:65-97, ledger.concurrency.spec.ts:64).               *)
(***************************************************************************)
NoOverdraft == \A a \in AccountIds : balance[a] >= 0

(***************************************************************************)
(* Every transfer is one indivisible movement, and is refused for lack of  *)
(* funds only when the source cannot pay at that instant.                  *)
(***************************************************************************)
Contract == INSTANCE TransferContract WITH outcome <- [t \in Transfers |-> call[t].result]
ImplementsContract == Contract!Spec

\* A transfer that began after i's had recorded its entry of a before i's did.
Overtaken(a, i) == \E k \in 1 .. i - 1 : entries[a][k].stamp > entries[a][i].stamp

(***************************************************************************)
(* Every entry of an account names the one recorded before it, although    *)
(* the last hash is read awaits before the entry is written, by as many    *)
(* transfers as there are: the account's lock holds them apart.  But       *)
(* created_at is when a transaction began.  An entry whose transfer waited *)
(* for the lock while a younger one got it is nobody's predecessor: the    *)
(* next entry names the one that entry named, and there, and only there,   *)
(* the chain forks (ledger.repository.ts:28-46).                           *)
(***************************************************************************)
ChainSkipsOvertaken ==
    \A a \in AccountIds : \A i \in DOMAIN entries[a] :
        entries[a][i].previous =
            IF i = 1 THEN Genesis
            ELSE IF Overtaken(a, i - 1) THEN entries[a][i - 1].previous
            ELSE Hash(entries[a][i - 1].tx)

(***************************************************************************)
(* The entries of each account add up to what its balance has changed by   *)
(* (ledger/reconciliation.service.ts:38 compares the sums over all         *)
(* accounts; the money there from the start has no entries).               *)
(***************************************************************************)
EntriesExplainBalance ==
    \A a \in AccountIds :
        balance[a] = (IF a \in Funded THEN Funds ELSE 0)
                     + SumFunction([i \in DOMAIN entries[a] |-> entries[a][i].amount])

\* A transfer that has begun ends: locks taken in id order never deadlock.
BegunIsDecided ==
    \A t \in Transfers : call[t].step = "begun" ~> call[t].step = "done"
=============================================================================
