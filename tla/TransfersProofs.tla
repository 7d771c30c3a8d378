---------------------------- MODULE TransfersProofs ----------------------------
(***************************************************************************)
(* Theorems about Transfers, for any number of transfers and accounts.     *)
(***************************************************************************)
EXTENDS Transfers, SequenceTheorems, SumTheorems, TLAPS

-----------------------------------------------------------------------------
(* The inductive invariant *)

Active(t) == call[t].step \in {"begun", "one", "both", "checked", "chained"}

\* What a transfer in flight knows of its two accounts.
CallOK(t) ==
    /\ Active(t) \/ call[t].step = "new" => call[t].result = "none"
    /\ Active(t) => /\ call[t].from \in open
                    /\ call[t].to \in open \cup Unknown
                    /\ call[t].from # call[t].to
                    /\ call[t].amount \in 1 .. MaxAmount
    /\ call[t].step \in {"checked", "chained"} =>
          call[t].to \in open /\ balance[call[t].from] >= call[t].amount
    /\ call[t].step = "chained" =>
          /\ call[t].sent \in LastHashes(call[t].from)
          /\ call[t].received \in LastHashes(call[t].to)

CallsOK == \A t \in Transfers : CallOK(t)

IInv == TypeOK /\ CallsOK /\ LocksExclude /\ NoOverdraft
-----------------------------------------------------------------------------
(* Lemmas *)

\* What a transfer holds, step by step: never more than its two accounts.
LEMMA HoldsByStep ==
    ASSUME IInv, NEW t \in Transfers
    PROVE  /\ Holds(t) \subseteq {call[t].from, call[t].to} \cap open
           /\ call[t].step \in {"both", "checked", "chained"} => call[t].from \in Holds(t)
           /\ call[t].step \in {"checked", "chained"} => call[t].to \in Holds(t)
           /\ ~Active(t) \/ call[t].step = "begun" => Holds(t) = {}
  BY DEF IInv, TypeOK, CallsOK, CallOK, Active, Holds, LockOrder, Lower, Higher, Call

\* What a transfer knows stays so while others move no money and record nothing.
LEMMA OtherCallKept ==
    ASSUME NEW u \in Transfers, CallOK(u), call'[u] = call[u], open \subseteq open',
           UNCHANGED <<balance, entries>>
    PROVE  CallOK(u)'
  <1>1. /\ LastHashes(call[u].from)' = LastHashes(call[u].from)
        /\ LastHashes(call[u].to)' = LastHashes(call[u].to)
    BY DEF LastHashes
  <1> QED
    BY <1>1 DEF CallOK, Active

\* A step of one transfer that takes no lock and moves no money.
LEMMA QuietStepKeepsIInv ==
    ASSUME IInv, NEW t \in Transfers, NEW rec \in Call,
           call' = [call EXCEPT ![t] = rec], UNCHANGED <<open, balance, entries>>,
           clock' \in Nat,
           CallOK(t)', Holds(t)' \subseteq Holds(t)
    PROVE  IInv'
  <1>1. \A u \in Transfers \ {t} : call'[u] = call[u]
    BY DEF IInv, TypeOK
  <1>2. TypeOK'
    BY DEF IInv, TypeOK
  <1>3. CallsOK'
    BY <1>1, OtherCallKept DEF IInv, CallsOK
  <1>4. \A u \in Transfers : Holds(u)' \subseteq Holds(u)
    BY <1>1 DEF Holds, LockOrder, Lower, Higher
  <1>5. LocksExclude'
    BY <1>4 DEF IInv, LocksExclude
  <1> QED
    BY <1>2, <1>3, <1>5 DEF IInv, NoOverdraft

\* To end is a quiet step.
LEMMA EndKeepsIInv ==
    ASSUME IInv, NEW t \in Transfers, NEW result \in Result, End(t, result),
           UNCHANGED <<open, balance, entries, clock>>
    PROVE  IInv'
  <1> DEFINE rec == [call[t] EXCEPT !.step = "done", !.result = result]
  <1>1. rec \in Call /\ call' = [call EXCEPT ![t] = rec] /\ call'[t].step = "done"
    BY DEF End, IInv, TypeOK, Call, Steps
  <1>2. CallOK(t)' /\ Holds(t)' = {}
    BY <1>1 DEF CallOK, Active, Holds
  <1> QED
    BY <1>1, <1>2, QuietStepKeepsIInv DEF IInv, TypeOK

\* One more lock, free: the locks still exclude each other.
LEMMA LockKeepsIInv ==
    ASSUME IInv, NEW t \in Transfers, LockFirst(t) \/ LockSecond(t)
    PROVE  IInv'
  <1>1. \A u \in Transfers \ {t} : call'[u] = call[u] /\ Holds(u)' = Holds(u)
    BY DEF LockFirst, LockSecond, IInv, TypeOK, Holds, LockOrder, Lower, Higher
  <1>2. /\ call' \in [Transfers -> Call]
        /\ call'[t].step \in {"one", "both"}
        /\ call'[t].from = call[t].from /\ call'[t].to = call[t].to
        /\ call'[t].amount = call[t].amount /\ call'[t].result = call[t].result
        /\ Active(t) /\ UNCHANGED <<open, balance, entries, clock>>
    BY DEF LockFirst, LockSecond, IInv, TypeOK, Call, Steps, Active
  <1>3. TypeOK' /\ NoOverdraft'
    BY <1>2 DEF IInv, TypeOK, NoOverdraft
  <1>4. CallsOK'
    <2>1. CallOK(t)'
      BY <1>2 DEF IInv, CallsOK, CallOK, Active
    <2> QED
      BY <1>1, <1>2, <2>1, OtherCallKept DEF IInv, CallsOK
  <1>5. PICK a \in {LockOrder(t)[1], LockOrder(t)[2]} :
           Free(t, a) /\ Holds(t)' \subseteq Holds(t) \cup {a}
    <2>1. CASE LockFirst(t)
      BY <2>1, <1>2 DEF LockFirst, Holds, LockOrder, Lower, Higher, IInv, TypeOK
    <2>2. CASE LockSecond(t)
      BY <2>2, <1>2 DEF LockSecond, Holds, LockOrder, Lower, Higher, IInv, TypeOK
    <2> QED
      BY <2>1, <2>2
  <1>6. LocksExclude'
    BY <1>1, <1>5 DEF IInv, LocksExclude, Free
  <1> QED
    BY <1>3, <1>4, <1>6 DEF IInv

\* A new account is nobody's: no transfer in flight names it.
LEMMA CreateKeepsIInv ==
    ASSUME IInv, NEW a \in AccountIds, CreateAccount(a)
    PROVE  IInv'
  <1>1. \A t \in Transfers : Holds(t)' = Holds(t)
    BY TransfersAssumption DEF CreateAccount, IInv, CallsOK, CallOK, Active, Holds,
                               LockOrder, Lower, Higher
  <1>2. TypeOK' /\ NoOverdraft'
    BY DEF CreateAccount, IInv, TypeOK, NoOverdraft
  <1>3. CallsOK'
    BY OtherCallKept DEF CreateAccount, IInv, CallsOK
  <1> QED
    BY <1>1, <1>2, <1>3 DEF IInv, LocksExclude, CreateAccount

\* The hash that is read is one that was written, or the genesis hash.
LEMMA LastHashesAreHashes ==
    ASSUME IInv, NEW a \in AccountIds
    PROVE  LastHashes(a) \subseteq Hashes
  <1>1. CASE entries[a] = <<>>
    BY <1>1 DEF LastHashes, Hashes
  <1>2. CASE entries[a] # <<>>
    <2> SUFFICES ASSUME NEW h \in LastHashes(a) PROVE h \in Hashes
      OBVIOUS
    <2>1. PICK i \in DOMAIN entries[a] : h = Hash(entries[a][i].tx)
      BY <1>2 DEF LastHashes
    <2>2. entries[a] \in Seq(Entry)
      BY DEF IInv, TypeOK
    <2>3. entries[a][i] \in Entry
      BY <2>1, <2>2, ElementOfSeq, LenProperties
    <2> QED
      BY <2>1, <2>3 DEF Entry, Hashes
  <1> QED
    BY <1>1, <1>2

\* An account without a new entry keeps its last hash.
LEMMA LastHashesKept ==
    ASSUME NEW a \in AccountIds, entries'[a] = entries[a]
    PROVE  LastHashes(a)' = LastHashes(a)
  BY DEF LastHashes

\* The entries a transfer records are entries.
LEMMA RecordIsEntry ==
    ASSUME IInv, NEW t \in Transfers, NEW previous \in Hashes, NEW amount \in Int
    PROVE  Record(t, previous, amount) \in Entry
  <1>1. call[t].began \in Nat
    BY DEF IInv, TypeOK, Call
  <1> QED
    BY <1>1 DEF Record, Entry

\* What was checked under the locks is still so when the money moves.
LEMMA PayKeepsIInv ==
    ASSUME IInv, NEW t \in Transfers, Pay(t)
    PROVE  IInv'
  <1> DEFINE from == call[t].from
             to == call[t].to
             amount == call[t].amount
  <1>1. /\ from \in open /\ to \in open /\ from # to
        /\ from \in AccountIds /\ to \in AccountIds
        /\ amount \in 1 .. MaxAmount /\ amount \in Nat /\ balance[from] >= amount
    <2>1. call[t].step = "chained" /\ CallOK(t) /\ open \subseteq AccountIds
      BY DEF Pay, IInv, TypeOK, CallsOK
    <2>2. /\ from \in open /\ to \in open /\ from # to
          /\ amount \in 1 .. MaxAmount /\ balance[from] >= amount
      BY <2>1 DEF CallOK, Active
    <2>3. amount \in Nat
      BY <2>2, TransfersAssumption
    <2> QED
      BY <2>1, <2>2, <2>3
  <1>bal. balance \in [AccountIds -> Int]
    BY DEF IInv, TypeOK
  <1>2. /\ balance' \in [AccountIds -> Int]
        /\ balance'[from] = balance[from] - amount
        /\ balance'[to] = balance[to] + amount
        /\ \A a \in AccountIds \ {from, to} : balance'[a] = balance[a]
    BY <1>1 DEF Pay, IInv, TypeOK
  <1>3. /\ \A u \in Transfers \ {t} : call'[u] = call[u]
        /\ call'[t].step = "done" /\ call' \in [Transfers -> Call]
    <2>1. End(t, "paid") /\ call \in [Transfers -> Call]
      BY DEF Pay, IInv, TypeOK
    <2>2. [call[t] EXCEPT !.step = "done", !.result = "paid"] \in Call
      BY <2>1 DEF Call, Steps, Result
    <2> QED
      BY <2>1, <2>2 DEF End
  <1>4. entries' \in [AccountIds -> Seq(Entry)]
    <2>1. entries' = [entries EXCEPT
                 ![from] = Append(@, Record(t, call[t].sent, -amount)),
                 ![to] = Append(@, Record(t, call[t].received, amount))]
      BY DEF Pay
    <2>2. /\ Record(t, call[t].sent, -amount) \in Entry
          /\ Record(t, call[t].received, amount) \in Entry
      <3>1. call[t].sent \in Hashes /\ call[t].received \in Hashes
        BY DEF IInv, TypeOK, Call
      <3> QED
        BY <1>1, <3>1, RecordIsEntry
    <2>3. entries \in [AccountIds -> Seq(Entry)]
      BY DEF IInv, TypeOK
    <2>4. /\ Append(entries[from], Record(t, call[t].sent, -amount)) \in Seq(Entry)
          /\ Append(entries[to], Record(t, call[t].received, amount)) \in Seq(Entry)
      BY <1>1, <2>2, <2>3, AppendProperties
    <2> QED
      BY <1>1, <2>1, <2>3, <2>4
  <1>5. TypeOK'
    <2>1. open' = open /\ clock' = clock
      BY DEF Pay
    <2> QED
      BY <1>2, <1>3, <1>4, <2>1 DEF IInv, TypeOK
  <1>6. NoOverdraft'
    <2> SUFFICES ASSUME NEW a \in AccountIds PROVE balance'[a] >= 0
      BY DEF NoOverdraft
    <2>1. balance[a] >= 0 /\ balance[a] \in Int
      BY <1>bal DEF IInv, NoOverdraft
    <2> QED
      BY <1>1, <1>2, <1>bal, <2>1
  <1>7. ASSUME NEW u \in Transfers \ {t} PROVE CallOK(u)'
    <2>1. CallOK(u) /\ call'[u] = call[u] /\ open' = open
      BY <1>3 DEF IInv, CallsOK, Pay
    <2>2. ASSUME call[u].step \in {"checked", "chained"}
          PROVE  balance'[call[u].from] >= call[u].amount
      <3>1. call[u].from \in Holds(u) /\ from \in Holds(t)
        BY <2>2, HoldsByStep DEF Pay
      <3>2. call[u].from # from
        BY <3>1 DEF IInv, LocksExclude
      <3>3. /\ call[u].from \in AccountIds /\ call[u].amount \in Nat
            /\ balance[call[u].from] >= call[u].amount
        BY <2>1, <2>2 DEF CallOK, Active, IInv, TypeOK, Call
      <3>4. balance'[call[u].from] >= balance[call[u].from]
        BY <1>1, <1>2, <1>bal, <3>2, <3>3
      <3> QED
        BY <1>2, <1>bal, <3>3, <3>4
    <2>3. ASSUME call[u].step = "chained"
          PROVE  /\ call[u].sent \in LastHashes(call[u].from)'
                 /\ call[u].received \in LastHashes(call[u].to)'
      <3>1. PICK a \in AccountIds, b \in AccountIds :
               a = call[u].from /\ b = call[u].to /\ {a, b} \subseteq Holds(u)
        BY <2>3, HoldsByStep DEF IInv, TypeOK
      <3>2. {from, to} \subseteq Holds(t)
        BY HoldsByStep DEF Pay
      <3>3. a \notin {from, to} /\ b \notin {from, to}
        BY <3>1, <3>2 DEF IInv, LocksExclude
      <3>4. entries'[a] = entries[a] /\ entries'[b] = entries[b]
        BY <1>1, <3>3 DEF Pay, IInv, TypeOK
      <3>5. LastHashes(a)' = LastHashes(a) /\ LastHashes(b)' = LastHashes(b)
        BY <3>4, LastHashesKept
      <3>6. call'[u].from = a /\ call'[u].to = b
        BY <2>1, <3>1
      <3>7. call[u].sent \in LastHashes(a) /\ call[u].received \in LastHashes(b)
        BY <2>1, <2>3, <3>1 DEF CallOK
      <3>8. LastHashes(call[u].from)' = LastHashes(a)' /\ LastHashes(call[u].to)' = LastHashes(b)'
        BY <3>6 DEF LastHashes
      <3> QED
        BY <3>5, <3>7, <3>8
    <2> QED
      BY <2>1, <2>2, <2>3 DEF CallOK, Active
  <1>8. CallsOK'
    BY <1>3, <1>7 DEF CallsOK, CallOK, Active
  <1>9. LocksExclude'
    <2>1. \A u \in Transfers \ {t} : Holds(u)' = Holds(u)
      BY <1>3 DEF Pay, Holds, LockOrder, Lower, Higher
    <2>2. Holds(t)' = {}
      BY <1>3 DEF Holds
    <2> QED
      BY <2>1, <2>2 DEF IInv, LocksExclude
  <1> QED
    BY <1>5, <1>6, <1>8, <1>9 DEF IInv

LEMMA BeginKeepsIInv ==
    ASSUME IInv, NEW t \in Transfers, NEW from \in AccountIds,
           NEW to \in AccountIds \cup Unknown, NEW amount \in 1 .. MaxAmount,
           NEW owned \in BOOLEAN, Begin(t, from, to, amount, owned)
    PROVE  IInv'
  <1>1. CASE owned /\ from # to
    <2> DEFINE rec == [Fresh EXCEPT !.step = "begun", !.from = from, !.to = to,
                                    !.amount = amount, !.began = clock]
    <2>1. from \in Nat /\ to \in Nat /\ amount \in Nat
      BY TransfersAssumption
    <2>2. rec \in Call /\ call' = [call EXCEPT ![t] = rec] /\ clock' \in Nat
      <3>1. clock \in Nat /\ Genesis \in Hashes /\ "begun" \in Steps /\ "none" \in Result
        BY DEF IInv, TypeOK, Hashes, Steps, Result
      <3>2. rec \in Call
        BY <2>1, <3>1 DEF Call, Fresh
      <3> QED
        BY <1>1, <3>1, <3>2 DEF Begin
    <2>3. /\ call'[t] = rec /\ from \in open /\ to \in open \cup Unknown
          /\ UNCHANGED <<open, balance, entries>>
      BY <2>2 DEF Begin, IInv, TypeOK
    <2>4. Active(t)' /\ call'[t].step = "begun" /\ call'[t].from = from /\ call'[t].to = to
            /\ call'[t].amount = amount /\ call'[t].result = "none"
      BY <2>3 DEF Active, Fresh
    <2>5. CallOK(t)' /\ Holds(t)' = {}
      BY <1>1, <2>3, <2>4 DEF CallOK, Holds
    <2> QED
      BY <2>2, <2>3, <2>5, QuietStepKeepsIInv
  <1>2. CASE ~(owned /\ from # to)
    BY <1>2, EndKeepsIInv DEF Begin, Result
  <1> QED
    BY <1>1, <1>2

LEMMA ApproveKeepsIInv ==
    ASSUME IInv, NEW t \in Transfers, Approve(t)
    PROVE  IInv'
  <1> DEFINE rec == [call[t] EXCEPT !.step = "checked"]
  <1>1. rec \in Call /\ call' = [call EXCEPT ![t] = rec] /\ call'[t] = rec
    BY DEF Approve, IInv, TypeOK, Call, Steps
  <1>2. CallOK(t)'
    BY <1>1 DEF Approve, Affordable, IInv, TypeOK, CallsOK, CallOK, Active, Call
  <1>3. Holds(t)' \subseteq Holds(t)
    BY <1>1 DEF Approve, Holds, LockOrder, Lower, Higher, IInv, TypeOK, Call
  <1> QED
    BY <1>1, <1>2, <1>3, QuietStepKeepsIInv DEF Approve, IInv, TypeOK

LEMMA ReadHashesKeepsIInv ==
    ASSUME IInv, NEW t \in Transfers, ReadHashes(t)
    PROVE  IInv'
  <1>1. PICK sent \in LastHashes(call[t].from), received \in LastHashes(call[t].to) :
           call' = [call EXCEPT ![t].step = "chained", ![t].sent = sent, ![t].received = received]
    BY DEF ReadHashes
  <1> DEFINE rec == [call[t] EXCEPT !.step = "chained", !.sent = sent, !.received = received]
  <1>2. call[t] \in Call /\ CallOK(t) /\ call[t].step = "checked"
          /\ UNCHANGED <<open, balance, entries, clock>>
    BY DEF ReadHashes, IInv, TypeOK, CallsOK
  <1>3. call[t].from \in AccountIds /\ call[t].to \in AccountIds
    BY <1>2 DEF CallOK, Active, IInv, TypeOK
  <1>4. sent \in Hashes /\ received \in Hashes
    BY <1>3, LastHashesAreHashes
  <1>5. rec \in Call /\ call' = [call EXCEPT ![t] = rec] /\ call'[t] = rec
    BY <1>1, <1>2, <1>4 DEF IInv, TypeOK, Call, Steps
  <1>6. /\ rec.step = "chained" /\ rec.sent = sent /\ rec.received = received
        /\ rec.from = call[t].from /\ rec.to = call[t].to /\ rec.amount = call[t].amount
        /\ rec.result = call[t].result
    BY <1>2 DEF Call
  <1> HIDE DEF rec
  <1>7. \A a : LastHashes(a)' = LastHashes(a)
    BY <1>2 DEF LastHashes
  <1>8. CallOK(t)'
    <2>1. LastHashes(call[t].from)' = LastHashes(call[t].from)
      BY <1>2, <1>5, <1>6 DEF LastHashes
    <2>2. LastHashes(call[t].to)' = LastHashes(call[t].to)
      BY <1>2, <1>5, <1>6 DEF LastHashes
    <2>3. call'[t].sent \in LastHashes(call[t].from)' /\ call'[t].received \in LastHashes(call[t].to)'
      BY <1>5, <1>6, <2>1, <2>2
    <2> QED
      BY <1>2, <1>5, <1>6, <2>3 DEF CallOK, Active
  <1>9. Holds(t)' \subseteq Holds(t)
    BY <1>2, <1>5, <1>6 DEF Holds, LockOrder, Lower, Higher
  <1> QED
    BY <1>2, <1>5, <1>8, <1>9, QuietStepKeepsIInv DEF IInv, TypeOK

LEMMA StutterKeepsIInv ==
    ASSUME IInv, UNCHANGED vars
    PROVE  IInv'
  <1>1. CallsOK'
    BY OtherCallKept DEF vars, IInv, CallsOK
  <1> QED
    BY <1>1 DEF vars, IInv, TypeOK, LocksExclude, Holds, LockOrder, Lower, Higher, NoOverdraft

LEMMA NextKeepsIInv ==
    ASSUME IInv, [Next]_vars
    PROVE  IInv'
  <1>1. ASSUME NEW t \in Transfers, Work(t) \/ Rollback(t)
        PROVE  IInv'
    <2>1. CASE Refuse(t)
      BY <2>1, EndKeepsIInv DEF Refuse, Result
    <2>2. CASE NoTarget(t)
      BY <2>2, EndKeepsIInv DEF NoTarget, Result
    <2>3. CASE Rollback(t)
      BY <2>3, EndKeepsIInv DEF Rollback, Result
    <2> QED
      BY <1>1, <2>1, <2>2, <2>3, LockKeepsIInv, ApproveKeepsIInv,
         ReadHashesKeepsIInv, PayKeepsIInv DEF Work
  <1> QED
    BY <1>1, CreateKeepsIInv, BeginKeepsIInv, StutterKeepsIInv DEF Next, AllDone

LEMMA InitIInv == ASSUME Init PROVE IInv
  <1>1. TypeOK
    <2>1. <<>> \in Seq(Entry)
      OBVIOUS
    <2> QED
      BY <2>1, TransfersAssumption DEF Init, TypeOK, Call, Steps, Result, Fresh, Hashes
  <1>2. CallsOK /\ LocksExclude /\ NoOverdraft
    BY TransfersAssumption DEF Init, Fresh, CallsOK, CallOK, Active, LocksExclude, Holds,
                               NoOverdraft
  <1> QED
    BY <1>1, <1>2 DEF IInv

\* The inductive invariant of Transfers.
THEOREM Invariance == Spec => []IInv
  BY InitIInv, NextKeepsIInv, PTL DEF Spec
-----------------------------------------------------------------------------
(* Theorems *)

\* Accounts, entries and calls keep their types.
THEOREM TypeCorrect == Spec => []TypeOK
  <1>1. IInv => TypeOK
    BY DEF IInv
  <1> QED
    BY <1>1, Invariance, PTL

\* SELECT ... FOR UPDATE on both accounts excludes every other transfer from them
\* (ledger.service.ts:65-71).
THEOREM LocksAreExclusive == Spec => []LocksExclude
  <1>1. IInv => LocksExclude
    BY DEF IInv
  <1> QED
    BY <1>1, Invariance, PTL

\* No interleaving of any number of transfers overdraws a wallet
\* (ledger.service.ts:73-97).
THEOREM NeverOverdrawn == Spec => []NoOverdraft
  <1>1. IInv => NoOverdraft
    BY DEF IInv
  <1> QED
    BY <1>1, Invariance, PTL

\* To end a transfer that is not decided is to decide it.
LEMMA EndDecides ==
    ASSUME TypeOK, NEW t \in Transfers, NEW result, End(t, result), call[t].result = "none"
    PROVE  Contract!Decide(t, result)
  <1>1. \A u \in Transfers : call'[u].result = IF u = t THEN result ELSE call[u].result
    <2>1. call[t] \in Call /\ call \in [Transfers -> Call]
      BY DEF TypeOK
    <2>2. call'[t].result = result
      BY <2>1 DEF End, Call
    <2> QED
      BY <2>1, <2>2 DEF End
  <1>2. [u \in Transfers |-> call'[u].result]
            = [[u \in Transfers |-> call[u].result] EXCEPT ![t] = result]
    BY <1>1
  <1> QED
    BY <1>2 DEF Contract!Decide

\* Each step is one step of TransferContract, or none: the amount that leaves the
\* source reaches the target at once, or nothing moves (ledger.service.ts:25-149).
THEOREM Refinement == Spec => ImplementsContract
  <1>1. Init => Contract!Init
    BY TransfersAssumption DEF Init, Fresh, Contract!Init
  <1>2. IInv /\ [Next]_vars => [Contract!Next]_(Contract!contractVars)
    <2> SUFFICES ASSUME IInv, [Next]_vars
                 PROVE  [Contract!Next]_(Contract!contractVars)
      OBVIOUS
    <2>0. call \in [Transfers -> Call]
      BY DEF IInv, TypeOK
    <2>1. ASSUME NEW t \in Transfers, NEW result \in {"rejected", "failed"},
                 End(t, result), call[t].result = "none", UNCHANGED <<open, balance>>
          PROVE  Contract!Next
      <3>1. Contract!Decide(t, result)
        BY <2>1, EndDecides DEF IInv
      <3> QED
        BY <2>1, <3>1 DEF Contract!Next, Contract!Drop
    <2>2. ASSUME NEW t \in Transfers, NEW step \in Steps,
                 call' = [call EXCEPT ![t].step = step], UNCHANGED <<open, balance>>
          PROVE  UNCHANGED Contract!contractVars
      BY <2>0, <2>2 DEF Contract!contractVars
    <2>3. ASSUME NEW a \in AccountIds, CreateAccount(a)
          PROVE  Contract!Next
      BY <2>3 DEF CreateAccount, Contract!Next, Contract!Open
    <2>4. ASSUME NEW t \in Transfers, NEW from \in AccountIds,
                 NEW to \in AccountIds \cup Unknown, NEW amount \in 1 .. MaxAmount,
                 NEW owned \in BOOLEAN, Begin(t, from, to, amount, owned)
          PROVE  [Contract!Next]_(Contract!contractVars)
      <3>1. call[t].result = "none"
        BY <2>4 DEF Begin, IInv, CallsOK, CallOK
      <3>2. CASE owned /\ from # to
        BY <2>0, <2>4, <3>1, <3>2 DEF Begin, Fresh, Contract!contractVars
      <3>3. CASE ~(owned /\ from # to)
        BY <2>1, <2>4, <3>1, <3>3 DEF Begin
      <3> QED
        BY <3>2, <3>3
    <2>5. ASSUME NEW t \in Transfers, LockFirst(t) \/ LockSecond(t) \/ Approve(t)
          PROVE  UNCHANGED Contract!contractVars
      BY <2>2, <2>5 DEF LockFirst, LockSecond, Approve, Steps
    <2>10. ASSUME NEW t \in Transfers, ReadHashes(t)
           PROVE  UNCHANGED Contract!contractVars
      BY <2>0, <2>10 DEF ReadHashes, Contract!contractVars
    <2>6. ASSUME NEW t \in Transfers, NoTarget(t) \/ Rollback(t)
          PROVE  Contract!Next
      <3>1. call[t].result = "none"
        BY <2>6 DEF NoTarget, Rollback, IInv, CallsOK, CallOK, Active
      <3> QED
        BY <2>1, <2>6, <3>1 DEF NoTarget, Rollback
    <2>7. ASSUME NEW t \in Transfers, Refuse(t)
          PROVE  Contract!Next
      <3>1. /\ call[t].result = "none" /\ call[t].from \in open
            /\ call[t].amount \in 1 .. MaxAmount
        BY <2>7 DEF Refuse, IInv, CallsOK, CallOK, Active
      <3>2. Contract!Decide(t, "refused")
        BY <2>7, <3>1, EndDecides DEF Refuse, IInv
      <3>3. call[t].from \in AccountIds /\ balance[call[t].from] < call[t].amount
        <4>1. /\ call[t].from \in AccountIds /\ balance[call[t].from] \in Int
              /\ call[t].amount \in Nat
          BY <2>0, <3>1 DEF IInv, TypeOK, Call
        <4> QED
          BY <2>7, <4>1 DEF Refuse, Affordable
      <3>4. Contract!Refuse(t, call[t].from, call[t].amount)
        BY <2>7, <3>1, <3>2, <3>3 DEF Refuse, Contract!Refuse
      <3> QED
        BY <3>1, <3>3, <3>4 DEF Contract!Next
    <2>8. ASSUME NEW t \in Transfers, Pay(t)
          PROVE  Contract!Next
      <3>1. call[t].step = "chained" /\ CallOK(t) /\ open \subseteq AccountIds
        BY <2>8 DEF Pay, IInv, TypeOK, CallsOK
      <3>2. /\ call[t].from \in open /\ call[t].to \in open
            /\ call[t].from # call[t].to /\ call[t].result = "none"
            /\ call[t].amount \in 1 .. MaxAmount /\ balance[call[t].from] >= call[t].amount
        BY <3>1 DEF CallOK, Active
      <3>3. Contract!Decide(t, "paid")
        <4>1. End(t, "paid")
          BY <2>8 DEF Pay
        <4> QED
          BY <3>2, <4>1, EndDecides DEF IInv
      <3>4. Contract!Pay(t, call[t].from, call[t].to, call[t].amount)
        BY <2>8, <3>2, <3>3 DEF Pay, Contract!Pay
      <3>5. call[t].from \in AccountIds /\ call[t].to \in AccountIds
        BY <3>1, <3>2
      <3> QED
        BY <3>2, <3>4, <3>5 DEF Contract!Next
    <2>9. CASE UNCHANGED vars
      BY <2>9 DEF vars, Contract!contractVars
    <2> QED
      BY <2>3, <2>4, <2>5, <2>6, <2>7, <2>8, <2>9, <2>10 DEF Next, Work, AllDone
  <1> QED
    BY <1>1, <1>2, Invariance, PTL DEF Spec, ImplementsContract, Contract!Spec
-----------------------------------------------------------------------------
(* The hash chains *)

\* No two transfers that got past their checks of the caller began at one instant.
Under(t) == Active(t) \/ call[t].result = "paid"

BeganApart ==
    /\ \A t \in Transfers : Under(t) => call[t].began < clock
    /\ \A t, u \in Transfers :
          Under(t) /\ Under(u) /\ t # u => call[t].began # call[u].began

\* An entry bears the stamp of its transfer, which has committed, and is the only one
\* of that transfer in its account.
Stamped ==
    \A a \in AccountIds : \A i \in DOMAIN entries[a] :
        /\ call[entries[a][i].tx].step = "done"
        /\ call[entries[a][i].tx].result = "paid"
        /\ entries[a][i].stamp = call[entries[a][i].tx].began
        /\ \A j \in DOMAIN entries[a] : i # j => entries[a][i].tx # entries[a][j].tx

\* i of the sequence s of entries names the latest of those before it.
NamesLatest(s, i) ==
    IF i = 1 THEN s[i].previous = Genesis
    ELSE \E m \in 1 .. i - 1 : /\ s[i].previous = Hash(s[m].tx)
                               /\ \A k \in 1 .. i - 1 : s[k].stamp =< s[m].stamp

Named == \A a \in AccountIds : \A i \in DOMAIN entries[a] : NamesLatest(entries[a], i)

ChainInv == BeganApart /\ Stamped /\ Named

\* The elements of a sequence of entries, and its domain.
LEMMA EntriesAreTyped ==
    ASSUME NEW s \in Seq(Entry)
    PROVE  /\ Len(s) \in Nat /\ DOMAIN s = 1 .. Len(s)
           /\ \A i \in DOMAIN s : s[i] \in Entry /\ s[i].stamp \in Nat /\ s[i].tx \in Transfers
  <1>1. Len(s) \in Nat /\ DOMAIN s = 1 .. Len(s)
    BY LenProperties
  <1>2. \A i \in DOMAIN s : s[i] \in Entry
    BY <1>1, ElementOfSeq
  <1> QED
    BY <1>1, <1>2 DEF Entry

\* An entry that names the last hash extends an account's entries; the others stay.
LEMMA NamedGrows ==
    ASSUME NEW a \in AccountIds, entries[a] \in Seq(Entry), NEW e \in Entry,
           e.previous \in LastHashes(a),
           \A i \in DOMAIN entries[a] : NamesLatest(entries[a], i),
           NEW i \in DOMAIN Append(entries[a], e)
    PROVE  NamesLatest(Append(entries[a], e), i)
  <1> DEFINE s == entries[a]
             n == Len(s)
             r == Append(s, e)
  <1>1. /\ n \in Nat /\ DOMAIN s = 1 .. n /\ DOMAIN r = 1 .. (n + 1)
        /\ \A k \in 1 .. n : r[k] = s[k]
        /\ r[n + 1] = e
    BY AppendProperties, LenProperties
  <1>2. s = <<>> <=> n = 0
    BY EmptySeq
  <1>3. CASE i \in 1 .. n
    <2>1. NamesLatest(s, i) /\ r[i] = s[i] /\ \A k \in 1 .. i - 1 : k \in 1 .. n
      BY <1>1, <1>3
    <2> HIDE DEF r, s, n
    <2>2. NamesLatest(r, i)
      BY <1>1, <2>1 DEF NamesLatest
    <2> QED
      BY <2>2 DEF r, s
  <1>4. CASE i = n + 1 /\ n = 0
    <2>1. e.previous = Genesis
      BY <1>2, <1>4 DEF LastHashes
    <2> QED
      BY <1>1, <1>4, <2>1 DEF NamesLatest
  <1>5. CASE i = n + 1 /\ n # 0
    <2>1. PICK m \in 1 .. n : /\ e.previous = Hash(s[m].tx)
                              /\ \A k \in 1 .. n : s[k].stamp =< s[m].stamp
      BY <1>1, <1>2, <1>5 DEF LastHashes
    <2>2. i # 1 /\ i - 1 = n /\ r[i] = e
      BY <1>1, <1>5
    <2> HIDE DEF r, s, n
    <2>3. NamesLatest(r, i)
      BY <1>1, <2>1, <2>2 DEF NamesLatest
    <2> QED
      BY <2>3 DEF r, s
  <1> QED
    BY <1>1, <1>3, <1>4, <1>5

\* A payment extends the chains of its two accounts.
LEMMA PayKeepsChainInv ==
    ASSUME IInv, ChainInv, NEW t \in Transfers, Pay(t)
    PROVE  ChainInv'
  <1> DEFINE from == call[t].from
             to == call[t].to
             amount == call[t].amount
             sent == Record(t, call[t].sent, -amount)
             received == Record(t, call[t].received, amount)
  <1>1. /\ call[t].step = "chained" /\ End(t, "paid") /\ clock' = clock
        /\ CallOK(t) /\ open \subseteq AccountIds
        /\ clock \in Nat /\ entries \in [AccountIds -> Seq(Entry)]
        /\ call \in [Transfers -> Call]
    BY DEF Pay, IInv, TypeOK, CallsOK
  <1>2. /\ from \in AccountIds /\ to \in AccountIds /\ from # to
        /\ amount \in Int /\ -amount \in Int
        /\ call[t].sent \in LastHashes(from) /\ call[t].received \in LastHashes(to)
    BY <1>1 DEF CallOK, Active, Call
  <1>3. /\ sent \in Entry /\ sent.tx = t /\ sent.previous = call[t].sent
        /\ sent.stamp = call[t].began
        /\ received \in Entry /\ received.tx = t /\ received.previous = call[t].received
        /\ received.stamp = call[t].began
    <2>1. call[t].sent \in Hashes /\ call[t].received \in Hashes
      BY <1>1 DEF Call
    <2> QED
      BY <1>2, <2>1, RecordIsEntry DEF Record
  <1>4. /\ entries'[from] = Append(entries[from], sent)
        /\ entries'[to] = Append(entries[to], received)
        /\ \A a \in AccountIds \ {from, to} : entries'[a] = entries[a]
    BY <1>1, <1>2 DEF Pay
  <1>5. /\ call'[t].step = "done" /\ call'[t].result = "paid"
        /\ call'[t].began = call[t].began
        /\ \A u \in Transfers \ {t} : call'[u] = call[u]
    BY <1>1 DEF End, Call
  <1> HIDE DEF sent, received
  <1>6. BeganApart'
    <2>1. Under(t) /\ \A u \in Transfers : Under(u)' => Under(u) /\ call'[u].began = call[u].began
      BY <1>1, <1>5 DEF Under, Active
    <2> QED
      BY <1>1, <2>1 DEF ChainInv, BeganApart
  \* Every account's entries are the old ones, or those and one of t.
  <1>7. \A a \in AccountIds :
           \/ entries'[a] = entries[a]
           \/ \E e \in Entry : /\ e.tx = t /\ e.stamp = call[t].began
                               /\ e.previous \in LastHashes(a)
                               /\ entries'[a] = Append(entries[a], e)
    BY <1>2, <1>3, <1>4
  <1> HIDE DEF from, to, amount
  <1>8. ASSUME NEW a \in AccountIds, NEW i \in DOMAIN entries[a]
        PROVE  /\ entries[a][i].tx \in Transfers \ {t}
               /\ call'[entries[a][i].tx] = call[entries[a][i].tx]
    <2>1. entries[a][i].tx \in Transfers
      BY <1>1, <1>8, EntriesAreTyped
    <2>2. call[entries[a][i].tx].step = "done"
      BY <1>8 DEF ChainInv, Stamped
    <2> QED
      BY <1>1, <1>5, <2>1, <2>2
  <1>9. ASSUME NEW a \in AccountIds, NEW i \in DOMAIN entries'[a]
        PROVE  /\ call'[entries'[a][i].tx].step = "done"
               /\ call'[entries'[a][i].tx].result = "paid"
               /\ entries'[a][i].stamp = call'[entries'[a][i].tx].began
               /\ \A j \in DOMAIN entries'[a] : i # j => entries'[a][i].tx # entries'[a][j].tx
               /\ NamesLatest(entries'[a], i)
    <2>0. entries[a] \in Seq(Entry)
      BY <1>1
    <2>1. CASE entries'[a] = entries[a]
      BY <1>8, <1>9, <2>1 DEF ChainInv, Stamped, Named
    <2>2. ASSUME NEW e \in Entry, e.tx = t, e.stamp = call[t].began,
                 e.previous \in LastHashes(a), entries'[a] = Append(entries[a], e)
          PROVE  /\ call'[entries'[a][i].tx].step = "done"
                 /\ call'[entries'[a][i].tx].result = "paid"
                 /\ entries'[a][i].stamp = call'[entries'[a][i].tx].began
                 /\ \A j \in DOMAIN entries'[a] : i # j => entries'[a][i].tx # entries'[a][j].tx
                 /\ NamesLatest(entries'[a], i)
      <3> DEFINE n == Len(entries[a])
      <3>1. /\ n \in Nat /\ DOMAIN entries[a] = 1 .. n /\ DOMAIN entries'[a] = 1 .. (n + 1)
            /\ \A k \in 1 .. n : entries'[a][k] = entries[a][k]
            /\ entries'[a][n + 1] = e
        BY <2>0, <2>2, AppendProperties, LenProperties
      <3>2. NamesLatest(entries'[a], i)
        BY <1>9, <2>0, <2>2, NamedGrows DEF ChainInv, Named
      <3>3. \A k \in 1 .. (n + 1) : k \in 1 .. n \/ k = n + 1
        BY <3>1
      <3>4. \A k \in 1 .. n : /\ entries'[a][k].tx # t
                              /\ call'[entries'[a][k].tx].step = "done"
                              /\ call'[entries'[a][k].tx].result = "paid"
                              /\ entries'[a][k].stamp = call'[entries'[a][k].tx].began
                              /\ \A j \in 1 .. n : k # j => entries'[a][k].tx # entries'[a][j].tx
        BY <1>8, <3>1 DEF ChainInv, Stamped
      <3> QED
        BY <1>5, <1>9, <2>2, <3>1, <3>2, <3>3, <3>4
    <2> QED
      BY <1>7, <2>1, <2>2
  <1> QED
    BY <1>6, <1>9 DEF ChainInv, Stamped, Named

\* A step that records nothing keeps the chains: it decides no transfer as paid, and only
\* Begin takes a stamp, a new one.
LEMMA OtherStepsKeepChainInv ==
    ASSUME IInv, ChainInv, UNCHANGED entries,
           NEW t \in Transfers, \A u \in Transfers \ {t} : call'[u] = call[u],
           call[t].step # "done", call'[t].result # "paid",
           \/ clock' = clock /\ call'[t].began = call[t].began /\ (Active(t)' => Active(t))
           \/ clock' = clock + 1 /\ call'[t].began = clock
    PROVE  ChainInv'
  <1>1. clock \in Nat /\ entries \in [AccountIds -> Seq(Entry)] /\ call \in [Transfers -> Call]
          /\ \A u \in Transfers : call[u].began \in Nat
    BY DEF IInv, TypeOK, Call
  <1>2. \A u \in Transfers \ {t} : Under(u)' = Under(u)
    BY DEF Under, Active
  <1>3. BeganApart'
    <2>1. CASE clock' = clock /\ call'[t].began = call[t].began /\ (Active(t)' => Active(t))
      <3>1. Under(t)' => Under(t)
        BY <2>1 DEF Under
      <3> QED
        BY <1>2, <2>1, <3>1 DEF ChainInv, BeganApart
    <2>2. CASE clock' = clock + 1 /\ call'[t].began = clock
      <3>1. \A u \in Transfers \ {t} : Under(u)' => call'[u].began < clock
        BY <1>2 DEF ChainInv, BeganApart
      <3>2. \A u \in Transfers \ {t} : Under(u)' => call'[u].began < clock + 1 /\ call'[u].began # clock
        BY <1>1, <3>1
      <3>3. call'[t].began < clock + 1
        BY <1>1, <2>2
      <3>4. \A u, v \in Transfers \ {t} : Under(u)' /\ Under(v)' /\ u # v =>
               call'[u].began # call'[v].began
        BY <1>2 DEF ChainInv, BeganApart
      <3> QED
        BY <2>2, <3>2, <3>3, <3>4 DEF BeganApart
    <2> QED
      BY <2>1, <2>2
  <1>4. Stamped'
    <2> SUFFICES ASSUME NEW a \in AccountIds, NEW i \in DOMAIN entries[a]
                 PROVE  call'[entries[a][i].tx] = call[entries[a][i].tx]
      BY DEF ChainInv, Stamped
    <2>1. entries[a][i].tx \in Transfers /\ call[entries[a][i].tx].step = "done"
      BY <1>1, EntriesAreTyped DEF ChainInv, Stamped
    <2> QED
      BY <2>1
  <1>5. Named'
    BY DEF ChainInv, Named
  <1> QED
    BY <1>3, <1>4, <1>5 DEF ChainInv

\* The chain follows from the two facts: of the entries before one, the latest is the last,
\* or, if that was overtaken, the one it named itself.
LEMMA ChainInvIsEnough ==
    ASSUME IInv, ChainInv
    PROVE  ChainSkipsOvertaken
  <1> SUFFICES ASSUME NEW a \in AccountIds, NEW i \in DOMAIN entries[a]
               PROVE  entries[a][i].previous =
                        IF i = 1 THEN Genesis
                        ELSE IF Overtaken(a, i - 1) THEN entries[a][i - 1].previous
                        ELSE Hash(entries[a][i - 1].tx)
    BY DEF ChainSkipsOvertaken
  <1> DEFINE s == entries[a]
  <1>1. /\ Len(s) \in Nat /\ DOMAIN s = 1 .. Len(s)
        /\ \A k \in DOMAIN s : s[k].stamp \in Nat /\ s[k].tx \in Transfers
    BY EntriesAreTyped DEF IInv, TypeOK
  <1>2. \A j, k \in DOMAIN s : s[j].stamp = s[k].stamp => j = k
    <2> SUFFICES ASSUME NEW j \in DOMAIN s, NEW k \in DOMAIN s, j # k
                 PROVE  s[j].stamp # s[k].stamp
      OBVIOUS
    <2>1. /\ s[j].tx # s[k].tx
          /\ s[j].stamp = call[s[j].tx].began /\ s[k].stamp = call[s[k].tx].began
          /\ Under(s[j].tx) /\ Under(s[k].tx)
      BY DEF ChainInv, Stamped, Under
    <2> QED
      BY <1>1, <2>1 DEF ChainInv, BeganApart
  <1>3. \A k \in DOMAIN s : NamesLatest(s, k)
    BY DEF ChainInv, Named
  <1>4. CASE i = 1
    BY <1>3, <1>4 DEF NamesLatest
  <1>5. CASE i # 1
    <2>1. i \in 1 .. Len(s) /\ i - 1 \in 1 .. Len(s) /\ \A k \in 1 .. i - 1 : k \in DOMAIN s
      BY <1>1, <1>5
    <2>2. PICK m \in 1 .. i - 1 : /\ s[i].previous = Hash(s[m].tx)
                                  /\ \A k \in 1 .. i - 1 : s[k].stamp =< s[m].stamp
      BY <1>3, <1>5 DEF NamesLatest
    <2>3. CASE ~Overtaken(a, i - 1)
      <3>1. m \in 1 .. (i - 1) - 1 \/ m = i - 1
        BY <1>1, <2>1, <2>2
      <3>2. ASSUME m # i - 1 PROVE s[m].stamp =< s[i - 1].stamp
        <4>1. ~(s[m].stamp > s[i - 1].stamp)
          BY <2>3, <3>1, <3>2 DEF Overtaken
        <4>2. s[m].stamp \in Nat /\ s[i - 1].stamp \in Nat
          BY <1>1, <2>1
        <4> HIDE DEF s
        <4> QED
          BY <4>1, <4>2
      <3>3. s[i - 1].stamp =< s[m].stamp
        BY <1>1, <2>1, <2>2
      <3>4. m = i - 1
        BY <1>1, <1>2, <2>1, <3>2, <3>3
      <3> QED
        BY <1>5, <2>2, <2>3, <3>4
    <2>4. CASE Overtaken(a, i - 1)
      <3>1. PICK k \in 1 .. (i - 1) - 1 : s[k].stamp > s[i - 1].stamp
        BY <2>4 DEF Overtaken
      <3>2. i - 1 # 1
        BY <1>1, <2>1, <3>1
      <3>3. PICK l \in 1 .. (i - 1) - 1 :
               /\ s[i - 1].previous = Hash(s[l].tx)
               /\ \A j \in 1 .. (i - 1) - 1 : s[j].stamp =< s[l].stamp
        BY <1>1, <1>3, <2>1, <3>2 DEF NamesLatest
      <3>4. /\ k \in DOMAIN s /\ l \in DOMAIN s /\ m \in DOMAIN s /\ i - 1 \in DOMAIN s
            /\ l \in 1 .. i - 1
        BY <1>1, <2>1
      <3>5. s[l].stamp =< s[m].stamp /\ s[k].stamp =< s[l].stamp
        BY <2>2, <3>3, <3>4
      <3>6. m # i - 1
        BY <1>1, <3>1, <3>4, <3>5
      <3>7. s[m].stamp =< s[l].stamp
        BY <1>1, <2>1, <3>3, <3>6
      <3>8. m = l
        BY <1>1, <1>2, <3>4, <3>5, <3>7
      <3> QED
        BY <1>5, <2>2, <2>4, <3>3, <3>8
    <2> QED
      BY <2>3, <2>4
  <1> QED
    BY <1>4, <1>5

\* However many transfers run, the hash chain of an account names one entry after the
\* other and forks only, and always, behind an entry whose transfer a younger one overtook
\* (ledger.repository.ts:28-46, with created_at DEFAULT now()).
THEOREM ChainForksBehindOvertaken == Spec => []ChainSkipsOvertaken
  <1>1. Init => ChainInv
    BY DEF Init, Fresh, ChainInv, BeganApart, Stamped, Named, Under, Active
  <1>2. IInv /\ ChainInv /\ [Next]_vars => ChainInv'
    <2> SUFFICES ASSUME IInv, ChainInv, [Next]_vars PROVE ChainInv'
      OBVIOUS
    <2>0. call \in [Transfers -> Call] /\ \A t \in Transfers : CallOK(t)
      BY DEF IInv, TypeOK, CallsOK
    <2>1. ASSUME NEW t \in Transfers, Pay(t) PROVE ChainInv'
      BY <2>1, PayKeepsChainInv
    <2>2. ASSUME NEW t \in Transfers,
                 \/ LockFirst(t) \/ LockSecond(t) \/ Refuse(t) \/ NoTarget(t)
                 \/ Approve(t) \/ ReadHashes(t) \/ Rollback(t)
          PROVE  ChainInv'
      <3>1. /\ Active(t) /\ call[t].result = "none" /\ call[t].step # "done"
            /\ UNCHANGED <<entries, clock>>
        BY <2>0, <2>2 DEF LockFirst, LockSecond, Refuse, NoTarget, Approve, ReadHashes, Rollback,
                    CallOK, Active
      <3>2. /\ \A u \in Transfers \ {t} : call'[u] = call[u]
            /\ call'[t].began = call[t].began /\ call'[t].result # "paid"
        <4>1. call[t] \in Call /\ call \in [Transfers -> Call]
          BY <2>0
        <4>2. CASE ReadHashes(t)
          <5>1. PICK sent, received :
                   call' = [call EXCEPT ![t].step = "chained", ![t].sent = sent,
                                        ![t].received = received]
            BY <4>2 DEF ReadHashes
          <5> QED
            BY <3>1, <4>1, <5>1 DEF Call
        <4>3. CASE LockFirst(t) \/ LockSecond(t) \/ Approve(t)
          BY <3>1, <4>1, <4>3 DEF LockFirst, LockSecond, Approve, Call
        <4>4. CASE Refuse(t) \/ NoTarget(t) \/ Rollback(t)
          BY <4>1, <4>4 DEF Refuse, NoTarget, Rollback, End, Call
        <4> QED
          BY <2>2, <4>2, <4>3, <4>4
      <3> QED
        BY <3>1, <3>2, OtherStepsKeepChainInv
    <2>3. ASSUME NEW t \in Transfers, NEW from \in AccountIds,
                 NEW to \in AccountIds \cup Unknown, NEW amount \in 1 .. MaxAmount,
                 NEW owned \in BOOLEAN, Begin(t, from, to, amount, owned)
          PROVE  ChainInv'
      <3>1. call[t].step # "done" /\ UNCHANGED entries
              /\ \A u \in Transfers \ {t} : call'[u] = call[u]
        BY <2>0, <2>3 DEF Begin, End
      <3>2. CASE owned /\ from # to
        <4>1. call'[t].began = clock /\ call'[t].result = "none" /\ clock' = clock + 1
          BY <2>0, <2>3, <3>2 DEF Begin, Fresh
        <4> QED
          BY <3>1, <4>1, OtherStepsKeepChainInv
      <3>3. CASE ~(owned /\ from # to)
        <4>1. /\ call'[t].began = call[t].began /\ call'[t].result = "rejected"
              /\ call'[t].step = "done" /\ clock' = clock
          BY <2>0, <2>3, <3>3 DEF Begin, End, Call
        <4>2. ~Active(t)'
          BY <4>1 DEF Active
        <4> QED
          BY <3>1, <4>1, <4>2, OtherStepsKeepChainInv
      <3> QED
        BY <3>2, <3>3
    <2>4. ASSUME UNCHANGED <<call, entries, clock>> PROVE ChainInv'
      BY <2>4 DEF ChainInv, BeganApart, Stamped, Named, Under, Active
    <2> QED
      BY <2>1, <2>2, <2>3, <2>4 DEF Next, Work, CreateAccount, AllDone, vars
  <1>3. IInv /\ ChainInv => ChainSkipsOvertaken
    BY ChainInvIsEnough
  <1> QED
    BY <1>1, <1>2, <1>3, Invariance, PTL DEF Spec
-----------------------------------------------------------------------------
(* The sums of the entries *)

SumOf(s) == SumFunction([i \in DOMAIN s |-> s[i].amount])

\* An entry more adds its amount.
LEMMA SumOfAppend ==
    ASSUME NEW s \in Seq(Entry), NEW e \in Entry
    PROVE  SumOf(s) \in Int /\ SumOf(Append(s, e)) = SumOf(s) + e.amount
  <1> DEFINE n == Len(s) + 1
             r == Append(s, e)
             f == [i \in DOMAIN s |-> s[i].amount]
             g == [i \in DOMAIN r |-> r[i].amount]
  <1>1. /\ Len(s) \in Nat /\ DOMAIN s = 1 .. Len(s) /\ DOMAIN r = 1 .. n
        /\ \A i \in DOMAIN s : r[i] = s[i] /\ s[i] \in Entry
        /\ r[n] = e
    BY AppendProperties, EntriesAreTyped
  <1>2. DOMAIN g = DOMAIN s \cup {n} /\ n \notin DOMAIN s
    BY <1>1
  <1>3. IsFiniteSet(DOMAIN s)
    BY <1>1, FS_Interval
  <1>4. /\ g[n] = e.amount /\ e.amount \in Int
        /\ \A i \in DOMAIN s : f[i] \in Int /\ g[i] = f[i]
    BY <1>1 DEF Entry
  <1>5. /\ SumOf(s) = SumFunctionOnSet(f, DOMAIN s)
        /\ SumOf(r) = SumFunctionOnSet(g, DOMAIN g)
    BY DEF SumOf, SumFunction
  <1> HIDE DEF f, g, n, r
  <1>6. IntOn(f, DOMAIN s) /\ g[n] \in Int
    BY <1>4 DEF IntOn
  <1>7. SumFunctionOnSet(f, DOMAIN s) \in Int
    BY <1>3, <1>6, SumType
  <1>8. SumFunctionOnSet(g, DOMAIN s \cup {n}) = SumFunctionOnSet(f, DOMAIN s) + g[n]
    BY <1>2, <1>3, <1>4, <1>6, SumGrows
  <1> QED
    BY <1>2, <1>4, <1>5, <1>7, <1>8 DEF r

\* Both UPDATEs of a payment are by the amounts of the entries it appends.
LEMMA PayExplains ==
    ASSUME IInv, EntriesExplainBalance, NEW t \in Transfers, Pay(t)
    PROVE  EntriesExplainBalance'
  <1> DEFINE from == call[t].from
             to == call[t].to
             amount == call[t].amount
             Start(a) == IF a \in Funded THEN Funds ELSE 0
  <1> DEFINE sent == call[t].sent
             received == call[t].received
  <1>1. entries' = [entries EXCEPT
               ![from] = Append(@, Record(t, sent, -amount)),
               ![to] = Append(@, Record(t, received, amount))]
    BY DEF Pay
  <1>2. /\ CallOK(t) /\ call[t] \in Call /\ open \subseteq AccountIds
        /\ entries \in [AccountIds -> Seq(Entry)] /\ balance \in [AccountIds -> Int]
    BY DEF Pay, IInv, TypeOK, CallsOK
  <1>3. from \in AccountIds /\ to \in AccountIds /\ from # to /\ amount \in Int /\ -amount \in Int
    BY <1>2 DEF CallOK, Active, Call, Pay
  <1>h. sent \in Hashes /\ received \in Hashes
    BY <1>2 DEF Call
  <1>4. ASSUME NEW a \in AccountIds, NEW h \in Hashes, NEW m \in Int
        PROVE  SumOf(Append(entries[a], Record(t, h, m))) = SumOf(entries[a]) + m
    <2>1. Record(t, h, m) \in Entry /\ Record(t, h, m).amount = m
      BY RecordIsEntry DEF Record
    <2> QED
      BY <1>2, <2>1, SumOfAppend
  <1>5. /\ SumOf(entries'[from]) = SumOf(entries[from]) - amount
        /\ SumOf(entries'[to]) = SumOf(entries[to]) + amount
        /\ \A a \in AccountIds \ {from, to} : entries'[a] = entries[a]
    <2>1. /\ entries'[from] = Append(entries[from], Record(t, sent, -amount))
          /\ entries'[to] = Append(entries[to], Record(t, received, amount))
          /\ \A a \in AccountIds \ {from, to} : entries'[a] = entries[a]
      BY <1>1, <1>2, <1>3
    <2>2. SumOf(entries'[from]) = SumOf(entries[from]) + (-amount)
      BY <1>3, <1>4, <1>h, <2>1
    <2>3. SumOf(entries'[to]) = SumOf(entries[to]) + amount
      BY <1>3, <1>4, <1>h, <2>1
    <2>4. SumOf(entries[from]) \in Int
      <3>1. Record(t, sent, -amount) \in Entry
        BY <1>3, <1>h, RecordIsEntry
      <3> QED
        BY <1>2, <1>3, <3>1, SumOfAppend
    <2> QED
      BY <1>3, <2>1, <2>2, <2>3, <2>4
  <1>6. /\ balance'[from] = balance[from] - amount
        /\ balance'[to] = balance[to] + amount
        /\ \A a \in AccountIds \ {from, to} : balance'[a] = balance[a]
    BY <1>2, <1>3 DEF Pay
  <1>7. \A a \in AccountIds : /\ balance[a] = Start(a) + SumOf(entries[a])
                             /\ SumOf(entries[a]) \in Int /\ Start(a) \in Int
    <2>1. Record(t, sent, -amount) \in Entry
      BY <1>3, <1>h, RecordIsEntry
    <2>2. \A a \in AccountIds : SumOf(entries[a]) \in Int
      BY <1>2, <2>1, SumOfAppend
    <2>3. \A a \in AccountIds : balance[a] = Start(a) + SumOf(entries[a])
      BY Zenon DEF EntriesExplainBalance, SumOf
    <2>4. \A a \in AccountIds : Start(a) \in Int
      BY TransfersAssumption
    <2> QED
      BY <2>2, <2>3, <2>4
  <1>8. ASSUME NEW a \in AccountIds PROVE balance'[a] = Start(a) + SumOf(entries'[a])
    <2> HIDE DEF Start, from, to, amount
    <2> QED
      BY <1>3, <1>5, <1>6, <1>7
  <1> QED
    BY <1>8 DEF EntriesExplainBalance, SumOf

\* The entries of each account add up to what its balance has changed by, however
\* many transfers run (ledger.service.ts:99-149, reconciliation.service.ts:38).
THEOREM BalancesAreExplained == Spec => []EntriesExplainBalance
  <1>1. Init => EntriesExplainBalance
    <2> SUFFICES ASSUME Init, NEW a \in AccountIds
                 PROVE  balance[a] = (IF a \in Funded THEN Funds ELSE 0)
                            + SumFunction([i \in DOMAIN entries[a] |-> entries[a][i].amount])
      BY DEF EntriesExplainBalance
    <2>1. DOMAIN entries[a] = {} /\ balance[a] = IF a \in Funded THEN Funds ELSE 0
      BY DEF Init
    <2>2. SumFunction([i \in DOMAIN entries[a] |-> entries[a][i].amount]) = 0
      BY <2>1, SumEmpty DEF SumFunction
    <2> QED
      BY <2>1, <2>2, TransfersAssumption
  <1>2. IInv /\ EntriesExplainBalance /\ [Next]_vars => EntriesExplainBalance'
    <2> SUFFICES ASSUME IInv, EntriesExplainBalance, [Next]_vars PROVE EntriesExplainBalance'
      OBVIOUS
    <2>1. CASE \E t \in Transfers : Pay(t)
      BY <2>1, PayExplains
    <2>2. CASE ~\E t \in Transfers : Pay(t)
      <3>1. UNCHANGED <<balance, entries>>
        BY <2>2 DEF Next, Work, CreateAccount, Begin, LockFirst, LockSecond, Refuse, NoTarget,
                    Approve, ReadHashes, Rollback, AllDone, vars
      <3> QED
        BY <3>1 DEF EntriesExplainBalance
    <2> QED
      BY <2>1, <2>2
  <1> QED
    BY <1>1, <1>2, Invariance, PTL DEF Spec
=============================================================================
