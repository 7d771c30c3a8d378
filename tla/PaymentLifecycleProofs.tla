----------------------- MODULE PaymentLifecycleProofs -----------------------
(***************************************************************************)
(* Theorems about PaymentLifecycle and Webhooks, for every set of          *)
(* payments, requests, amounts, keys and exposed handlers.  The step       *)
(* lemmas are stated for one request's step, so that they serve beside     *)
(* deliveries too.                                                         *)
(***************************************************************************)
EXTENDS Webhooks, PaymentAccounting, SequenceTheorems, SumTheorems, TLAPS

-----------------------------------------------------------------------------
(* The inductive invariant *)

\* Every capture a deployment exposes reads the row FOR UPDATE.
CapturesLock == Handlers \cap {"captureCash", "captureCard"} = {}

\* The handler's check accepted the row it read.
Admitted(op, row, arg) ==
    /\ op = "edit" => Pending(row) /\ arg \in Amounts
    /\ op \in {"cancel", "cancelUncaptured", "captureCard"} => Uncaptured(row)
    /\ op = "captureCash" => CashCapturable(row)
    /\ op = "reverse" => Captured(row)
    /\ op = "tip" => Tippable(row, arg) /\ arg \in Amounts \cup {0}

\* What the request's earlier steps have established.
RequestOK(r) ==
    /\ txn[r].op \in Handlers \cup {"none", "webhook"}
    /\ txn[r].step = "selected" => txn[r].op \in Handlers \ {"captureLocked"}
    /\ At(r, "create", "selected") =>
          \E a \in Amounts, c \in Channel, k \in Keys \cup {NoKey} :
              txn[r].seen = NewRow(a, c, k)
    /\ txn[r].step = "selected" /\ txn[r].op # "create" =>
          /\ txn[r].on \in Payments
          /\ Exists(txn[r].on)
          /\ Admitted(txn[r].op, txn[r].seen, txn[r].arg)
    /\ txn[r].step \in {"locked", "logged"} => txn[r].on \in Payments /\ Exists(txn[r].on)
    /\ At(r, "captureLocked", "locked") => Pending(txn[r].seen)

RequestsOK == \A r \in Requests : RequestOK(r)

LedgerInv ==
    /\ LedgerExplainsStatus
    /\ FeesAreOfCapturedAmount
    /\ CapturesLock => CapturedAtMostOnce

IInv == TypeOK /\ RequestsOK /\ LockProtectsRow /\ LedgerInv /\ OnePaymentPerKey
-----------------------------------------------------------------------------
(* What a commit may do to the committed tables.  Every handler's, and the *)
(* webhook's, is one of these changes.                                     *)

OthersKept(p) ==
    \A q \in Payments : q # p => payment'[q] = payment[q] /\ ledger'[q] = ledger[q]

\* The ledger of p has one entry more, which is e.
Appended(p, e) ==
    /\ Len(ledger[p]) \in Nat
    /\ DOMAIN ledger[p] = 1 .. Len(ledger[p])
    /\ DOMAIN ledger'[p] = 1 .. (Len(ledger[p]) + 1)
    /\ \A i \in 1 .. Len(ledger[p]) : ledger'[p][i] = ledger[p][i]
    /\ ledger'[p][Len(ledger[p]) + 1] = e

Created(p) ==
    /\ payment[p].status = "NONE"
    /\ payment'[p].status = "PENDING"
    /\ payment'[p].feeBase = 0
    /\ \E e \in Entry : e.type = "PAYMENT_CREATED" /\ Appended(p, e)

SameStatus(p) ==
    /\ payment'[p].status = payment[p].status
    /\ payment'[p].feeBase = payment[p].feeBase
    /\ \/ ledger'[p] = ledger[p]
       \/ \E e \in Entry : e.type = "TIP_ADDED" /\ Appended(p, e)

Voided(p) ==
    /\ payment'[p].status = "VOIDED"
    /\ payment'[p].feeBase = payment[p].feeBase
    /\ \E e \in Entry : e.type = "VOIDED" /\ Appended(p, e)

CapturedUnlocked(p) ==
    /\ ~CapturesLock
    /\ payment'[p].status = "CAPTURED"
    /\ payment'[p].feeBase = payment[p].feeBase
    /\ \E e \in Entry : e.type = "CAPTURED" /\ Appended(p, e)

CapturedLocked(p) ==
    /\ payment[p].status = "PENDING"
    /\ payment'[p].status \in {"CAPTURED", "FAILED"}
    /\ payment'[p].feeBase = payment[p].amount
    /\ \E e \in Entry : /\ e.type = "CAPTURED" /\ e.amount = payment[p].amount
                        /\ Appended(p, e)

Failed(p) ==
    /\ payment'[p].status = "FAILED"
    /\ payment'[p].feeBase = payment[p].feeBase
    /\ ledger'[p] = ledger[p]

\* The row keeps its key, or gets one that no row has.
KeyFresh(p) ==
    \/ payment'[p].key = payment[p].key
    \/ \A q \in Payments : payment'[p].key = NoKey \/ payment[q].key # payment'[p].key

Change(p) ==
    /\ OthersKept(p)
    /\ KeyFresh(p)
    /\ \/ Created(p)
       \/ SameStatus(p)
       \/ Voided(p)
       \/ CapturedUnlocked(p)
       \/ CapturedLocked(p)
       \/ Failed(p)

\* After an append, the entries of the given types are the old ones and, if it
\* is of such a type, the new one.
LEMMA EntriesAfterAppend ==
    ASSUME NEW p \in Payments, NEW e \in Entry, NEW types, Appended(p, e)
    PROVE  /\ \A i \in Entries(p, types)' :
                 i \in Entries(p, types) \/ (i = Len(ledger[p]) + 1 /\ e.type \in types)
           /\ \A i \in Entries(p, types) :
                 /\ i \in Entries(p, types)'
                 /\ i \in 1 .. Len(ledger[p])
                 /\ ledger'[p][i] = ledger[p][i]
           /\ e.type \in types => Len(ledger[p]) + 1 \in Entries(p, types)'
  BY DEF Appended, Entries

\* Every change keeps the ledger's account of the payment.
LEMMA ChangeKeepsLedgerInv ==
    ASSUME TypeOK, LedgerInv, NEW p \in Payments, Change(p)
    PROVE  LedgerInv'
  <1>1. ASSUME NEW q \in Payments, q # p, NEW types
        PROVE  /\ payment'[q] = payment[q]
               /\ ledger'[q] = ledger[q]
               /\ Entries(q, types)' = Entries(q, types)
    BY <1>1 DEF Change, OthersKept, Entries
  <1>2. ASSUME ledger'[p] = ledger[p], NEW types
        PROVE  Entries(p, types)' = Entries(p, types)
    BY <1>2 DEF Entries
  <1>3. Entries(p, {"CAPTURED"}) \subseteq Entries(p, {"CAPTURED", "VOIDED"})
    BY DEF Entries
  <1>4. LedgerExplainsStatus'
    <2> SUFFICES ASSUME NEW q \in Payments
                 PROVE  /\ payment'[q].status \in {"NONE", "PENDING"}
                              => Entries(q, {"CAPTURED", "VOIDED"})' = {}
                        /\ \A t \in {"CAPTURED", "VOIDED"} :
                              payment'[q].status = t => Entries(q, {t})' # {}
      BY DEF LedgerExplainsStatus, Entries
    <2>1. CASE q # p
      BY <2>1, <1>1 DEF LedgerInv, LedgerExplainsStatus
    <2>2. CASE q = p
      <3>1. CASE Created(p)
        BY <2>2, <3>1, EntriesAfterAppend DEF Created, LedgerInv, LedgerExplainsStatus
      <3>2. CASE SameStatus(p)
        BY <2>2, <3>2, <1>2, EntriesAfterAppend DEF SameStatus, LedgerInv, LedgerExplainsStatus
      <3>3. CASE Voided(p)
        BY <2>2, <3>3, EntriesAfterAppend DEF Voided, LedgerInv, LedgerExplainsStatus
      <3>4. CASE CapturedUnlocked(p)
        BY <2>2, <3>4, EntriesAfterAppend DEF CapturedUnlocked, LedgerInv, LedgerExplainsStatus
      <3>5. CASE CapturedLocked(p)
        BY <2>2, <3>5, EntriesAfterAppend DEF CapturedLocked, LedgerInv, LedgerExplainsStatus
      <3>6. CASE Failed(p)
        BY <2>2, <3>6 DEF Failed
      <3> QED
        BY <3>1, <3>2, <3>3, <3>4, <3>5, <3>6 DEF Change
    <2> QED
      BY <2>1, <2>2
  <1>5. FeesAreOfCapturedAmount'
    <2> SUFFICES ASSUME NEW q \in Payments, payment'[q].feeBase # 0
                 PROVE  \E i \in Entries(q, {"CAPTURED"})' :
                           ledger'[q][i].amount = payment'[q].feeBase
      BY DEF FeesAreOfCapturedAmount, Entries
    <2>1. CASE q # p
      BY <2>1, <1>1 DEF LedgerInv, FeesAreOfCapturedAmount
    <2>2. CASE q = p /\ payment'[p].feeBase = payment[p].feeBase
      <3>1. PICK i \in Entries(p, {"CAPTURED"}) : ledger[p][i].amount = payment[p].feeBase
        BY <2>2 DEF LedgerInv, FeesAreOfCapturedAmount
      <3>2. CASE ledger'[p] = ledger[p]
        BY <2>2, <3>1, <3>2, <1>2
      <3>3. CASE \E e \in Entry : Appended(p, e)
        BY <2>2, <3>1, <3>3, EntriesAfterAppend
      <3> QED
        BY <2>2, <3>2, <3>3
           DEF Change, Created, SameStatus, Voided, CapturedUnlocked, CapturedLocked, Failed
    <2>3. CASE q = p /\ CapturedLocked(p)
      BY <2>3, EntriesAfterAppend DEF CapturedLocked, Appended
    <2> QED
      BY <2>1, <2>2, <2>3
         DEF Change, Created, SameStatus, Voided, CapturedUnlocked, CapturedLocked, Failed
  <1>6. ASSUME CapturesLock PROVE CapturedAtMostOnce'
    <2> SUFFICES ASSUME NEW q \in Payments,
                        NEW i \in Entries(q, {"CAPTURED"})', NEW j \in Entries(q, {"CAPTURED"})'
                 PROVE  i = j
      BY DEF CapturedAtMostOnce, Entries
    <2>1. CapturedAtMostOnce
      BY <1>6 DEF LedgerInv
    <2>2. CASE q # p
      BY <2>1, <2>2, <1>1 DEF CapturedAtMostOnce
    <2>3. CASE q = p /\ CapturedLocked(p)
      <3>1. Entries(p, {"CAPTURED"}) = {}
        BY <2>3, <1>3 DEF CapturedLocked, LedgerInv, LedgerExplainsStatus
      <3> QED
        BY <2>3, <3>1, EntriesAfterAppend DEF CapturedLocked
    <2>4. CASE q = p /\ ledger'[p] = ledger[p]
      BY <2>1, <2>4, <1>2 DEF CapturedAtMostOnce
    <2>5. CASE q = p /\ \E e \in Entry : e.type # "CAPTURED" /\ Appended(p, e)
      BY <2>1, <2>5, EntriesAfterAppend DEF CapturedAtMostOnce
    <2> QED
      BY <1>6, <2>2, <2>3, <2>4, <2>5
         DEF Change, Created, SameStatus, Voided, CapturedUnlocked, Failed
  <1> QED
    BY <1>4, <1>5, <1>6 DEF LedgerInv, CapturesLock
\* No change gives a second payment a key.
LEMMA ChangeKeepsKeys ==
    ASSUME OnePaymentPerKey, NEW p \in Payments, Change(p)
    PROVE  OnePaymentPerKey'
  BY DEF OnePaymentPerKey, Change, OthersKept, KeyFresh

\* No change removes a payment, or brings it back to PENDING.
LEMMA ChangeMovesOn ==
    ASSUME NEW p \in Payments, Change(p), NEW q \in Payments
    PROVE  /\ Exists(q) => Exists(q)'
           /\ payment[q].status \notin {"NONE", "PENDING"}
                 => payment'[q].status \notin {"NONE", "PENDING"}
  BY DEF Change, OthersKept, Exists, Created, SameStatus, Voided, CapturedUnlocked,
         CapturedLocked, Failed
-----------------------------------------------------------------------------
(* From Commit to Change *)

\* A posting of a ledger type and an integer is an entry.
LEMMA PostingIsEntry ==
    ASSUME NEW type \in EntryType, NEW amount \in Int
    PROVE  /\ Posting(type, amount) \in Entry
           /\ Posting(type, amount).type = type
           /\ Posting(type, amount).amount = amount
  BY DEF Posting, Entry

\* The columns an UPDATE does not name keep their values; the row stays typed.
LEMMA ResultsAreTyped ==
    /\ Unwritten \in Row
    /\ \A step \in Steps : Resting(step) \in Txn
  BY DEF Unwritten, Row, Status, Channel, Resting, Txn, Ops

\* The row createPayment inserts.
LEMMA NewRowIsTyped ==
    ASSUME NEW a \in Amounts, NEW c \in Channel, NEW k \in Keys \cup {NoKey}
    PROVE  /\ NewRow(a, c, k) \in Row
           /\ NewRow(a, c, k).status = "PENDING"
           /\ NewRow(a, c, k).feeBase = 0
           /\ NewRow(a, c, k).tip = 0
           /\ NewRow(a, c, k).amount = a
           /\ NewRow(a, c, k).key = k
  BY PaymentTypesAssumption DEF NewRow, Unwritten, Row, Status, Channel

\* What r's commit on p leaves: the row, the requests, and the other payments.
Committed(r, p, row) ==
    /\ payment' \in [Payments -> Row]
    /\ ledger' \in [Payments -> Seq(Entry)]
    /\ payment'[p] = row
    /\ OthersKept(p)
    /\ Finish(r)
    /\ MayWrite(r, p)

\* A commit that posts nothing.
LEMMA CommitNothing ==
    ASSUME TypeOK, NEW r \in Requests, NEW p \in Payments, NEW row \in Row,
           Commit(r, p, row, <<>>)
    PROVE  Committed(r, p, row) /\ ledger'[p] = ledger[p]
  <1>1. ledger[p] \in Seq(Entry) /\ ledger[p] \o <<>> = ledger[p]
    BY ConcatEmptySeq DEF TypeOK
  <1> QED
    BY <1>1 DEF Commit, Committed, OthersKept, TypeOK

\* To post one entry is to append it.
LEMMA PostAppends ==
    ASSUME TypeOK, NEW p \in Payments, NEW e \in Entry,
           ledger' = [ledger EXCEPT ![p] = @ \o <<e>>]
    PROVE  ledger' \in [Payments -> Seq(Entry)] /\ Appended(p, e)
  <1>1. <<e>> \in Seq(Entry) /\ ledger[p] \in Seq(Entry) /\ Len(<<e>>) = 1 /\ <<e>>[1] = e
    BY DEF TypeOK
  <1>2. ledger[p] \o <<e>> \in Seq(Entry)
    BY <1>1, ConcatProperties
  <1>3. ledger' \in [Payments -> Seq(Entry)] /\ ledger'[p] = ledger[p] \o <<e>>
    BY <1>2 DEF TypeOK
  <1>4. /\ Len(ledger'[p]) = Len(ledger[p]) + 1
        /\ \A i \in 1 .. Len(ledger[p]) + 1 :
              ledger'[p][i] = IF i <= Len(ledger[p]) THEN ledger[p][i]
                                                     ELSE <<e>>[i - Len(ledger[p])]
    BY <1>1, <1>3, ConcatProperties
  <1>5. /\ DOMAIN ledger[p] = 1 .. Len(ledger[p]) /\ Len(ledger[p]) \in Nat
        /\ DOMAIN ledger'[p] = 1 .. Len(ledger'[p])
    BY <1>1, <1>2, <1>3, LenProperties
  <1>6. ledger'[p][Len(ledger[p]) + 1] = e
    BY <1>1, <1>4, <1>5
  <1> QED
    BY <1>3, <1>4, <1>5, <1>6 DEF Appended

\* A commit that posts one entry.
LEMMA CommitOne ==
    ASSUME TypeOK, NEW r \in Requests, NEW p \in Payments, NEW row \in Row,
           NEW e \in Entry, Commit(r, p, row, <<e>>)
    PROVE  Committed(r, p, row) /\ Appended(p, e)
  BY PostAppends DEF Commit, Committed, OthersKept, TypeOK

\* The request ends and commits nothing, or commits one of the changes.
Ends(r) == Finish(r) /\ UNCHANGED <<payment, ledger>>

Commits(r, p) ==
    /\ payment' \in [Payments -> Row]
    /\ ledger' \in [Payments -> Seq(Entry)]
    /\ Change(p)
    /\ Finish(r)
    /\ MayWrite(r, p)

\* A request that commits leaves every lock holder's row alone.
LEMMA CommitKeepsIInv ==
    ASSUME IInv, NEW r \in Requests, NEW p \in Payments, Commits(r, p)
    PROVE  IInv'
  <1>1. /\ txn'[r] = Resting("done")
        /\ \A s \in Requests \ {r} : txn'[s] = txn[s]
        /\ txn' \in [Requests -> Txn]
    BY ResultsAreTyped DEF Commits, Finish, IInv, TypeOK, Steps
  <1>2. TypeOK'
    BY <1>1 DEF Commits, TypeOK
  <1>3. RequestsOK'
    <2> SUFFICES ASSUME NEW s \in Requests PROVE RequestOK(s)'
      BY DEF RequestsOK
    <2>1. CASE s = r
      BY <1>1, <2>1 DEF RequestOK, At, Resting
    <2>2. CASE s # r
      <3>1. txn'[s] = txn[s] /\ RequestOK(s)
        BY <1>1, <2>2 DEF IInv, RequestsOK
      <3>2. \A q \in Payments : Exists(q) => Exists(q)'
        BY ChangeMovesOn DEF Commits
      <3> QED
        BY <3>1, <3>2 DEF RequestOK, At, Exists
    <2> QED
      BY <2>1, <2>2
  <1>4. LockProtectsRow'
    <2> SUFFICES ASSUME NEW s \in Requests, txn'[s].step = "locked"
                 PROVE  /\ txn'[s].seen = payment'[txn'[s].on]
                        /\ \A u \in Requests \ {s} :
                              /\ ~HoldsForUpdate(u, txn[s].on)'
                              /\ ~HoldsKeyShare(u, txn[s].on)'
      BY DEF LockProtectsRow, HoldsForUpdate, HoldsKeyShare
    <2>1. s # r /\ txn'[s] = txn[s] /\ txn[s].step = "locked"
      BY <1>1 DEF Resting
    <2>2. txn[s].on \in Payments /\ txn[s].on # p
      BY <2>1 DEF IInv, RequestsOK, RequestOK, Commits, MayWrite, HoldsForUpdate
    <2>3. payment'[txn[s].on] = payment[txn[s].on]
      BY <2>2 DEF Commits, Change, OthersKept
    <2>4. \A u \in Requests \ {s} :
             ~HoldsForUpdate(u, txn[s].on)' /\ ~HoldsKeyShare(u, txn[s].on)'
      BY <1>1, <2>1 DEF IInv, LockProtectsRow, HoldsForUpdate, HoldsKeyShare, Resting
    <2> QED
      BY <2>1, <2>3, <2>4 DEF IInv, LockProtectsRow
  <1>5. LedgerInv'
    BY ChangeKeepsLedgerInv DEF Commits, IInv
  <1>6. OnePaymentPerKey'
    BY ChangeKeepsKeys DEF Commits, IInv
  <1> QED
    BY <1>2, <1>3, <1>4, <1>5, <1>6 DEF IInv

\* A request that only moves on, taking a lock or none, keeps the invariant.
LEMMA MoveKeepsIInv ==
    ASSUME IInv, NEW r \in Requests, NEW rec \in Txn,
           txn' = [txn EXCEPT ![r] = rec], UNCHANGED <<payment, ledger>>,
           RequestOK(r)',
           rec.step = "locked" => rec.seen = payment[rec.on] /\ MayLock(r, rec.on),
           rec.step = "logged" => MayWrite(r, rec.on)
    PROVE  IInv'
  <1>1. /\ txn'[r] = rec
        /\ \A s \in Requests \ {r} : txn'[s] = txn[s]
        /\ txn' \in [Requests -> Txn]
    BY DEF IInv, TypeOK
  <1>2. TypeOK'
    BY <1>1 DEF TypeOK, IInv
  <1>3. RequestsOK'
    BY <1>1 DEF RequestsOK, RequestOK, At, Exists, IInv
  <1>4. LockProtectsRow'
    <2> SUFFICES ASSUME NEW s \in Requests, txn'[s].step = "locked"
                 PROVE  /\ txn'[s].seen = payment[txn'[s].on]
                        /\ \A u \in Requests \ {s} :
                              ~(txn'[u].step \in {"locked", "logged"} /\ txn'[u].on = txn'[s].on)
      BY DEF LockProtectsRow, HoldsForUpdate, HoldsKeyShare
    <2>1. txn'[s].seen = payment[txn'[s].on]
      BY <1>1 DEF IInv, LockProtectsRow
    <2>2. ASSUME NEW u \in Requests \ {s},
                 txn'[u].step \in {"locked", "logged"}, txn'[u].on = txn'[s].on
          PROVE  FALSE
      <3>1. CASE s # r /\ u # r
        BY <1>1, <2>2, <3>1 DEF IInv, LockProtectsRow, HoldsForUpdate, HoldsKeyShare
      <3>2. CASE s = r
        BY <1>1, <2>2, <3>2 DEF MayLock, HoldsForUpdate, HoldsKeyShare
      <3>3. CASE u = r
        BY <1>1, <2>2, <3>3 DEF IInv, LockProtectsRow, HoldsForUpdate, HoldsKeyShare,
                                MayLock, MayWrite
      <3> QED
        BY <3>1, <3>2, <3>3
    <2> QED
      BY <2>1, <2>2
  <1>5. LedgerInv'
    BY DEF IInv, LedgerInv, LedgerExplainsStatus, FeesAreOfCapturedAmount,
           CapturedAtMostOnce, CapturesLock, Entries
  <1> QED
    BY <1>2, <1>3, <1>4, <1>5 DEF IInv, OnePaymentPerKey

\* A request that ends without writing keeps the invariant.
LEMMA EndKeepsIInv ==
    ASSUME IInv, NEW r \in Requests, Ends(r)
    PROVE  IInv'
  <1>1. Resting("done") \in Txn
    BY ResultsAreTyped DEF Steps
  <1>2. RequestOK(r)'
    BY DEF Ends, Finish, RequestOK, At, Resting, IInv, TypeOK
  <1> QED
    BY <1>1, <1>2, MoveKeepsIInv DEF Ends, Finish, Resting
\* A step that changes nothing keeps the invariant.
LEMMA StutterKeepsIInv ==
    ASSUME IInv, UNCHANGED rowVars
    PROVE  IInv'
  BY DEF rowVars, IInv, TypeOK, RequestsOK, RequestOK, At, Exists, OnePaymentPerKey,
         LockProtectsRow, HoldsForUpdate,
         HoldsKeyShare, LedgerInv, LedgerExplainsStatus, FeesAreOfCapturedAmount,
         CapturedAtMostOnce, CapturesLock, Entries
-----------------------------------------------------------------------------
(* The steps of a client *)

\* A plain SELECT takes no lock, whatever the handler's check says.
LEMMA SelectKeepsIInv ==
    ASSUME IInv, NEW r \in Requests, NEW op \in Handlers \ {"create", "captureLocked"},
           NEW p \in Payments, NEW arg \in Nat, NEW admitted \in BOOLEAN,
           Select(r, op, p, arg, admitted),
           admitted => Admitted(op, payment[p], arg)
    PROVE  IInv'
  <1>1. CASE ~admitted
    BY <1>1, EndKeepsIInv DEF Select, Ends
  <1>2. CASE admitted
    <2> DEFINE rec == [op |-> op, step |-> "selected", on |-> p, seen |-> payment[p],
                       arg |-> arg]
    <2>1. rec \in Txn
      BY PaymentLifecycleAssumption DEF Txn, Steps, IInv, TypeOK
    <2>2. txn' = [txn EXCEPT ![r] = rec] /\ UNCHANGED <<payment, ledger>>
      BY <1>2 DEF Select, Begin
    <2>3. RequestOK(r)'
      BY <1>2, <2>2 DEF Select, RequestOK, At, Exists, IInv, TypeOK
    <2> QED
      BY <2>1, <2>2, <2>3, MoveKeepsIInv
  <1> QED
    BY <1>1, <1>2

LEMMA ReadKeepsIInv ==
    ASSUME IInv, NEW r \in Clients, Read(r)
    PROVE  IInv'
  <1>0. r \in Requests /\ Amounts \subseteq Nat /\ 0 \in Nat
    BY PaymentLifecycleAssumption, PaymentTypesAssumption
  <1>1. ASSUME NEW a \in Amounts, NEW c \in Channel, NEW k \in Keys \cup {NoKey},
               CreateLookup(r, a, c, k)
        PROVE  IInv'
    <2> DEFINE rec == [op |-> "create", step |-> "selected", on |-> NoPayment,
                       seen |-> NewRow(a, c, k), arg |-> 0]
    <2>1. CASE Finish(r)
      BY <1>0, <1>1, <2>1, EndKeepsIInv DEF CreateLookup, Ends
    <2>2. CASE txn' = [txn EXCEPT ![r] = rec]
      <3>1. NewRow(a, c, k) \in Row
        BY NewRowIsTyped
      <3>2. rec \in Txn
        BY <3>1 DEF Txn, Steps, Ops
      <3>3. RequestOK(r)'
        BY <1>0, <1>1, <2>2 DEF CreateLookup, RequestOK, At, IInv, TypeOK
      <3> QED
        BY <1>0, <1>1, <2>2, <3>2, <3>3, MoveKeepsIInv DEF CreateLookup
    <2> QED
      BY <1>1, <2>1, <2>2 DEF CreateLookup
  <1>2. ASSUME NEW p \in Payments, LockedCaptureSelect(r, p)
        PROVE  IInv'
    <2> DEFINE rec == [op |-> "captureLocked", step |-> "locked", on |-> p,
                       seen |-> payment[p], arg |-> 0]
    <2>1. CASE Finish(r)
      BY <1>0, <1>2, <2>1, EndKeepsIInv DEF LockedCaptureSelect, SelectForUpdate, Ends
    <2>2. CASE Pending(payment[p]) /\ txn' = [txn EXCEPT ![r] = rec]
      <3>1. rec \in Txn
        BY DEF Txn, Steps, Ops, IInv, TypeOK
      <3>2. RequestOK(r)'
        BY <1>0, <1>2, <2>2 DEF LockedCaptureSelect, SelectForUpdate, RequestOK, At, Exists,
                                IInv, TypeOK
      <3> QED
        BY <1>0, <1>2, <2>2, <3>1, <3>2, MoveKeepsIInv
           DEF LockedCaptureSelect, SelectForUpdate
    <2> QED
      BY <1>2, <2>1, <2>2 DEF LockedCaptureSelect, SelectForUpdate, Begin
  <1>3. ASSUME NEW p \in Payments, NEW a \in Amounts, EditSelect(r, p, a)
        PROVE  IInv'
    BY <1>0, <1>3, SelectKeepsIInv DEF EditSelect, Pending, Admitted
  <1>4. ASSUME NEW p \in Payments,
               CancelSelect(r, p) \/ CardSelect(r, p) \/ CancelUncapturedSelect(r, p)
        PROVE  IInv'
    <2>0. Uncaptured(payment[p]) \in BOOLEAN
      BY DEF Uncaptured
    <2>1. CASE CancelSelect(r, p)
      BY <1>0, <2>0, <2>1, SelectKeepsIInv DEF CancelSelect, Admitted
    <2>2. CASE CardSelect(r, p)
      BY <1>0, <2>0, <2>2, SelectKeepsIInv DEF CardSelect, Admitted
    <2>3. CASE CancelUncapturedSelect(r, p)
      BY <1>0, <2>0, <2>3, SelectKeepsIInv DEF CancelUncapturedSelect, Admitted
    <2> QED
      BY <1>4, <2>1, <2>2, <2>3
  <1>5. ASSUME NEW p \in Payments, CashSelect(r, p)
        PROVE  IInv'
    BY <1>0, <1>5, SelectKeepsIInv DEF CashSelect, CashCapturable, Admitted
  <1>6. ASSUME NEW p \in Payments, ReverseSelect(r, p)
        PROVE  IInv'
    BY <1>0, <1>6, SelectKeepsIInv DEF ReverseSelect, Captured, Admitted
  <1>7. ASSUME NEW p \in Payments, NEW t \in Amounts \cup {0}, TipSelect(r, p, t)
        PROVE  IInv'
    BY <1>0, <1>7, SelectKeepsIInv DEF TipSelect, Tippable, Admitted
  <1>8. ASSUME NEW p \in Payments, CancelSessionSelect(r, p)
        PROVE  IInv'
    BY <1>0, <1>8, SelectKeepsIInv DEF CancelSessionSelect, Admitted
  <1> QED
    BY <1>1, <1>2, <1>3, <1>4, <1>5, <1>6, <1>7, <1>8 DEF Read

\* A void appends a VOIDED entry, whatever the row has become since it was read.
LEMMA VoidCommits ==
    ASSUME IInv, NEW r \in Requests, NEW op \in Handlers \ {"create"}, WriteVoid(r, op)
    PROVE  txn[r].on \in Payments /\ Commits(r, txn[r].on)
  <1> DEFINE p == txn[r].on
             e == Posting("VOIDED", -txn[r].seen.amount)
             row == [payment[p] EXCEPT !.status = "VOIDED"]
  <1>1. p \in Payments /\ txn[r].seen.amount \in Int
    BY DEF WriteVoid, At, IInv, RequestsOK, RequestOK, TypeOK, Txn, Row
  <1>2. row \in Row /\ row.status = "VOIDED" /\ row.feeBase = payment[p].feeBase
          /\ row.key = payment[p].key
    BY <1>1 DEF IInv, TypeOK, Row, Status
  <1>3. e \in Entry /\ e.type = "VOIDED"
    BY <1>1, PostingIsEntry DEF EntryType
  <1>4. Commit(r, p, row, <<e>>)
    BY DEF WriteVoid
  <1> HIDE DEF e, row, p
  <1>5. Committed(r, p, row) /\ Appended(p, e)
    BY <1>1, <1>2, <1>3, <1>4, CommitOne DEF IInv
  <1>6. Commits(r, p)
    BY <1>2, <1>3, <1>5 DEF Committed, Commits, Change, KeyFresh, Voided
  <1> QED
    BY <1>1, <1>6 DEF p

\* A capture without lock only happens where CapturesLock is false.
LEMMA UnlockedCaptureCommits ==
    ASSUME IInv, NEW r \in Requests, NEW op \in {"captureCash", "captureCard"},
           CaptureWithoutFees(r, op)
    PROVE  txn[r].on \in Payments /\ Commits(r, txn[r].on)
  <1> DEFINE p == txn[r].on
             e == Posting("CAPTURED", txn[r].seen.amount)
             row == [payment[p] EXCEPT !.status = "CAPTURED"]
  <1>a. txn[r].op = op /\ txn[r].step = "selected"
    BY DEF CaptureWithoutFees, At
  <1>b. op \notin {"none", "webhook", "create"}
    OBVIOUS
  <1>c. txn[r] \in Txn /\ RequestOK(r)
    BY DEF IInv, RequestsOK, TypeOK
  <1>d. op \in Handlers /\ p \in Payments
    BY <1>a, <1>b, <1>c DEF RequestOK
  <1>1. p \in Payments /\ txn[r].seen.amount \in Int /\ ~CapturesLock
    BY <1>c, <1>d DEF Txn, Row, CapturesLock
  <1>2. row \in Row /\ row.status = "CAPTURED" /\ row.feeBase = payment[p].feeBase
          /\ row.key = payment[p].key
    BY <1>1 DEF IInv, TypeOK, Row, Status
  <1>3. e \in Entry /\ e.type = "CAPTURED"
    BY <1>1, PostingIsEntry DEF EntryType
  <1>4. Commit(r, p, row, <<e>>)
    BY DEF CaptureWithoutFees
  <1> HIDE DEF e, row, p
  <1>5. Committed(r, p, row) /\ Appended(p, e)
    BY <1>1, <1>2, <1>3, <1>4, CommitOne DEF IInv
  <1>6. Commits(r, p)
    BY <1>1, <1>2, <1>3, <1>5 DEF Committed, Commits, Change, KeyFresh, CapturedUnlocked
  <1> QED
    BY <1>1, <1>6 DEF p

\* Under the lock the row is still the PENDING one that was read.
LEMMA LockedCaptureCommits ==
    ASSUME IInv, NEW r \in Requests, LockedCaptureWrite(r)
    PROVE  txn[r].on \in Payments /\ Commits(r, txn[r].on)
  <1> DEFINE p == txn[r].on
             e == Posting("CAPTURED", txn[r].seen.amount)
             row == [SnapshotFees(payment[p]) EXCEPT !.status = "CAPTURED"]
  <1>1. p \in Payments /\ txn[r].seen = payment[p] /\ payment[p].status = "PENDING"
    BY DEF LockedCaptureWrite, CaptureWithFees, At, IInv, RequestsOK, RequestOK,
           LockProtectsRow, Pending
  <1>2. /\ row \in Row /\ row.status = "CAPTURED" /\ row.feeBase = payment[p].amount
        /\ row.key = payment[p].key
        /\ txn[r].seen.amount \in Int
    <2>1. payment[p] \in Row
      BY <1>1 DEF IInv, TypeOK
    <2>2. payment[p].amount \in Nat /\ "CAPTURED" \in Status
      BY <2>1 DEF Row, Status
    <2>3. row \in Row /\ row.status = "CAPTURED" /\ row.feeBase = payment[p].amount
            /\ row.key = payment[p].key
      BY <2>1, <2>2 DEF Row, SnapshotFees
    <2> QED
      BY <1>1, <2>2, <2>3
  <1>3. e \in Entry /\ e.type = "CAPTURED" /\ e.amount = payment[p].amount
    BY <1>1, <1>2, PostingIsEntry DEF EntryType
  <1>4. Commit(r, p, row, <<e>>)
    BY DEF LockedCaptureWrite, CaptureWithFees
  <1> HIDE DEF e, row, p
  <1>5. Committed(r, p, row) /\ Appended(p, e)
    BY <1>1, <1>2, <1>3, <1>4, CommitOne DEF IInv
  <1>6. Commits(r, p)
    BY <1>1, <1>2, <1>3, <1>5 DEF Committed, Commits, Change, KeyFresh, CapturedLocked
  <1> QED
    BY <1>1, <1>6 DEF p

\* Every write of a client ends it, and commits one change or none.
LEMMA WriteCommits ==
    ASSUME IInv, NEW r \in Clients, Write(r)
    PROVE  Ends(r) \/ \E q \in Payments : Commits(r, q)
  <1>0. r \in Requests /\ "none" \notin Handlers /\ "webhook" \notin Handlers
    BY PaymentLifecycleAssumption
  <1>op. txn[r].op \in Handlers \cup {"none", "webhook"}
    BY <1>0 DEF IInv, RequestsOK, RequestOK
  <1>1. ASSUME NEW p \in Payments, CreateInsert(r, p)
        PROVE  Commits(r, p)
    <2> DEFINE row == txn[r].seen
               e == Posting("PAYMENT_CREATED", row.amount)
    <2>1. row \in Row /\ row.status = "PENDING" /\ row.feeBase = 0 /\ row.amount \in Int
      <3>1. PICK a \in Amounts, c \in Channel, k \in Keys \cup {NoKey} : row = NewRow(a, c, k)
        BY <1>0, <1>1 DEF CreateInsert, At, IInv, RequestsOK, RequestOK
      <3> QED
        BY <3>1, NewRowIsTyped, PaymentTypesAssumption
    <2>2. e \in Entry /\ e.type = "PAYMENT_CREATED"
      BY <2>1, PostingIsEntry DEF EntryType
    <2>3. Commit(r, p, row, <<e>>) /\ payment[p].status = "NONE" /\ ~KeyTaken(row.key)
      BY <1>1 DEF CreateInsert, Exists
    <2> HIDE DEF e, row
    <2>4. Committed(r, p, row) /\ Appended(p, e)
      BY <1>0, <2>1, <2>2, <2>3, CommitOne DEF IInv
    <2> QED
      BY <2>1, <2>2, <2>3, <2>4 DEF Committed, Commits, Change, Created, KeyFresh, KeyTaken
  <1>2. CASE CreateConflict(r)
    BY <1>2 DEF CreateConflict, Ends
  <1>3. CASE EditWrite(r)
    <2> DEFINE p == txn[r].on
               row == [payment[p] EXCEPT !.amount = txn[r].arg]
    <2>1. p \in Payments /\ txn[r].arg \in Nat
      BY <1>0, <1>3 DEF EditWrite, At, IInv, RequestsOK, RequestOK, TypeOK, Txn
    <2>2. row \in Row /\ row.status = payment[p].status /\ row.feeBase = payment[p].feeBase
          /\ row.key = payment[p].key
      BY <2>1 DEF IInv, TypeOK, Row
    <2>3. Commit(r, p, row, <<>>)
      BY <1>3 DEF EditWrite
    <2> HIDE DEF row, p
    <2>4. Committed(r, p, row) /\ ledger'[p] = ledger[p]
      BY <1>0, <2>1, <2>2, <2>3, CommitNothing DEF IInv
    <2>5. Commits(r, p)
      BY <2>2, <2>4 DEF Committed, Commits, Change, KeyFresh, SameStatus
    <2> QED
      BY <2>1, <2>5
  <1>4. CASE CancelWrite(r)
    BY <1>0, <1>op, <1>4, VoidCommits DEF CancelWrite, WriteVoid, At
  <1>5. CASE LockedCaptureWrite(r)
    BY <1>0, <1>5, LockedCaptureCommits
  <1>6. CASE CashWrite(r)
    BY <1>0, <1>6, UnlockedCaptureCommits DEF CashWrite
  <1>7. CASE CardWrite(r)
    BY <1>0, <1>7, UnlockedCaptureCommits DEF CardWrite
  <1>8. CASE CancelUncapturedWrite(r)
    BY <1>0, <1>op, <1>8, VoidCommits DEF CancelUncapturedWrite, WriteVoid, At
  <1>9. CASE ReverseWrite(r)
    BY <1>0, <1>op, <1>9, VoidCommits DEF ReverseWrite, WriteVoid, At
  <1>10. CASE TipWrite(r)
    <2> DEFINE p == txn[r].on
               e == Posting("TIP_ADDED", txn[r].arg - txn[r].seen.tip)
               row == [payment[p] EXCEPT !.tip = txn[r].arg]
    <2>1. p \in Payments /\ txn[r].arg \in Nat /\ txn[r].arg - txn[r].seen.tip \in Int
      BY <1>0, <1>10 DEF TipWrite, At, IInv, RequestsOK, RequestOK, TypeOK, Txn, Row
    <2>2. row \in Row /\ row.status = payment[p].status /\ row.feeBase = payment[p].feeBase
          /\ row.key = payment[p].key
      BY <2>1 DEF IInv, TypeOK, Row
    <2>3. e \in Entry /\ e.type = "TIP_ADDED"
      BY <2>1, PostingIsEntry DEF EntryType
    <2>4. Commit(r, p, row, <<e>>)
      BY <1>10 DEF TipWrite
    <2> HIDE DEF e, row, p
    <2>5. Committed(r, p, row) /\ Appended(p, e)
      BY <1>0, <2>1, <2>2, <2>3, <2>4, CommitOne DEF IInv
    <2>6. Commits(r, p)
      BY <2>2, <2>3, <2>5 DEF Committed, Commits, Change, KeyFresh, SameStatus
    <2> QED
      BY <2>1, <2>6
  <1>11. CASE CancelSessionWrite(r)
    BY <1>0, <1>op, <1>11, VoidCommits DEF CancelSessionWrite, WriteVoid, At
  <1> QED
    BY <1>1, <1>2, <1>3, <1>4, <1>5, <1>6, <1>7, <1>8, <1>9, <1>10, <1>11 DEF Write

LEMMA WriteKeepsIInv ==
    ASSUME IInv, NEW r \in Clients, Write(r)
    PROVE  IInv'
  BY WriteCommits, CommitKeepsIInv, EndKeepsIInv, PaymentLifecycleAssumption

\* The step of a client, or the end of the behaviour.
LEMMA NextKeepsIInv ==
    ASSUME IInv, Next
    PROVE  IInv'
  <1>1. CASE ClientStep
    <2>1. PICK r \in Clients : Read(r) \/ Write(r) \/ Rollback(r)
      BY <1>1 DEF ClientStep
    <2>2. CASE Rollback(r)
      BY <2>2, EndKeepsIInv, PaymentLifecycleAssumption DEF Rollback, Ends, InFlight
    <2> QED
      BY <2>1, <2>2, ReadKeepsIInv, WriteKeepsIInv
  <1>2. CASE Quiescent
    BY <1>2, StutterKeepsIInv DEF Quiescent
  <1> QED
    BY <1>1, <1>2 DEF Next

\* No payments, no requests: the invariant holds.
LEMMA InitIInv == ASSUME RowsInit PROVE IInv
  <1>1. Unwritten \in Row /\ Resting("new") \in Txn /\ <<>> \in Seq(Entry)
    BY ResultsAreTyped DEF Steps
  <1>2. TypeOK
    BY <1>1 DEF RowsInit, TypeOK
  <1>3. RequestsOK /\ LockProtectsRow
    BY DEF RowsInit, RequestsOK, RequestOK, At, Resting, LockProtectsRow
  <1>4. \A p \in Payments : DOMAIN ledger[p] = {} /\ payment[p] = Unwritten
    BY DEF RowsInit
  <1>5. LedgerInv
    BY <1>4 DEF LedgerInv, LedgerExplainsStatus, FeesAreOfCapturedAmount,
                CapturedAtMostOnce, Entries, Unwritten
  <1>6. OnePaymentPerKey
    BY <1>4 DEF OnePaymentPerKey, Unwritten
  <1> QED
    BY <1>2, <1>3, <1>5, <1>6 DEF IInv

\* The inductive invariant of PaymentLifecycle.
THEOREM Invariance == Spec => []IInv
  <1>1. Init => IInv
    BY InitIInv DEF Init
  <1>2. IInv /\ [Next]_rowVars => IInv'
    BY NextKeepsIInv, StutterKeepsIInv
  <1> QED
    BY <1>1, <1>2, PTL DEF Spec
-----------------------------------------------------------------------------
(* Theorems *)

\* Tables and requests keep their types, whatever the handlers exposed.
THEOREM TypeCorrect == Spec => []TypeOK
  <1>1. IInv => TypeOK
    BY DEF IInv
  <1> QED
    BY <1>1, Invariance, PTL

\* A row held FOR UPDATE is the one that was read, and is held by one request
\* (payments.service.ts:77, 121).
THEOREM LockedRowIsStable == Spec => []LockProtectsRow
  <1>1. IInv => LockProtectsRow
    BY DEF IInv
  <1> QED
    BY <1>1, Invariance, PTL

\* The ledger explains the status, whatever the handlers exposed and however
\* many requests interleave.
THEOREM StatusIsExplained == Spec => []LedgerExplainsStatus
  <1>1. IInv => LedgerExplainsStatus
    BY DEF IInv, LedgerInv
  <1> QED
    BY <1>1, Invariance, PTL

\* The fees that were snapshotted are those of an amount the ledger has as
\* captured (fees.service.ts:98-175 within payments.service.ts:75-159).
THEOREM FeesMatchCapture == Spec => []FeesAreOfCapturedAmount
  <1>1. IInv => FeesAreOfCapturedAmount
    BY DEF IInv, LedgerInv
  <1> QED
    BY <1>1, Invariance, PTL

\* Where every capture reads FOR UPDATE, a payment is captured at most once.
THEOREM CapturedOnce == ASSUME CapturesLock PROVE Spec => []CapturedAtMostOnce
  <1>1. IInv => CapturedAtMostOnce
    BY DEF IInv, LedgerInv
  <1> QED
    BY <1>1, Invariance, PTL

\* One Idempotency-Key never makes two payments: the UNIQUE column stands behind the
\* lookup that runs outside the transaction (payments.service.ts:31-54).
THEOREM KeysAreUnique == Spec => []OnePaymentPerKey
  <1>1. IInv => OnePaymentPerKey
    BY DEF IInv
  <1> QED
    BY <1>1, Invariance, PTL
-----------------------------------------------------------------------------
(* The requests and the contract, whatever interleaves *)

\* To read is to write nothing.
LEMMA ReadWritesNothing ==
    ASSUME NEW r \in Clients, Read(r)
    PROVE  UNCHANGED <<payment, ledger>>
  BY DEF Read, CreateLookup, EditSelect, CancelSelect, LockedCaptureSelect, CashSelect,
         CardSelect, CancelUncapturedSelect, ReverseSelect, TipSelect, CancelSessionSelect,
         Select, SelectForUpdate

\* To write is to end.
LEMMA WriteEnds ==
    ASSUME TypeOK, NEW r \in Clients, Write(r)
    PROVE  txn'[r].step = "done"
  <1>1. Finish(r)
    BY DEF Write, CreateInsert, CreateConflict, EditWrite, CancelWrite, LockedCaptureWrite,
           CashWrite, CardWrite, CancelUncapturedWrite, ReverseWrite, TipWrite,
           CancelSessionWrite, WriteVoid, CaptureWithFees, CaptureWithoutFees, Commit
  <1> QED
    BY <1>1, PaymentLifecycleAssumption DEF Finish, Resting, TypeOK

\* The contract speaks of the same rows and entries.
LEMMA SameWords ==
    /\ Contract!Channel = Channel
    /\ Contract!Unwritten = Unwritten
    /\ \A type, amount : Contract!Posting(type, amount) = Posting(type, amount)
    /\ \A a, c, k : Contract!NewRow(a, c, k) = NewRow(a, c, k)
  BY DEF Contract!Channel, Channel, Contract!Unwritten, Unwritten, Contract!Posting, Posting,
         Contract!NewRow, NewRow

\* The write of a request that nobody overtook is the contract's operation of that name.
LEMMA WriteRefines ==
    ASSUME IInv, NEW r \in Clients, Write(r), ~Overtaken(r), txn[r].op # "cancelSession"
    PROVE  Contract!Next \/ UNCHANGED <<payment, ledger>>
  <1> DEFINE p == txn[r].on
  <1>0. r \in Requests /\ RequestOK(r) /\ txn[r] \in Txn
    BY PaymentLifecycleAssumption DEF IInv, RequestsOK, TypeOK
  <1>1. ASSUME NEW q \in Payments, CreateInsert(r, q)
        PROVE  Contract!Next
    <2>1. PICK a \in Amounts, c \in Channel, k \in Keys \cup {NoKey} :
             txn[r].seen = NewRow(a, c, k)
      BY <1>0, <1>1 DEF CreateInsert, RequestOK
    <2>2. txn[r].seen.amount = a /\ txn[r].seen.key = k
      BY <2>1, NewRowIsTyped
    <2>3. Contract!Create(q, a, c, k)
      BY <1>1, <2>1, <2>2, SameWords
         DEF CreateInsert, Exists, KeyTaken, Commit, Contract!Create, Contract!Post
    <2> QED
      BY <2>3, SameWords DEF Contract!Next
  <1>2. ASSUME NEW op, At(r, op, "selected"), op # "create"
        PROVE  /\ p \in Payments /\ Exists(p) /\ payment[p].status # "NONE"
               /\ txn[r].seen.status = payment[p].status
               /\ op = "tip" => txn[r].seen.tip = payment[p].tip
               /\ op \notin {"edit", "tip"} => txn[r].seen.amount = payment[p].amount
               /\ Admitted(op, txn[r].seen, txn[r].arg)
    BY <1>0, <1>2 DEF At, RequestOK, Overtaken, Exists
  <1>3. CASE EditWrite(r)
    <2>1. p \in Payments /\ Pending(payment[p]) /\ txn[r].arg \in Amounts
      BY <1>2, <1>3 DEF EditWrite, Admitted, Pending
    <2>2. Contract!Edit(p, txn[r].arg)
      BY <1>3, <2>1, SameWords DEF EditWrite, Commit, Pending, Contract!Edit, Contract!Post
    <2> QED
      BY <2>1, <2>2 DEF Contract!Next
  <1>4. ASSUME NEW op \in {"cancel", "cancelUncaptured"}, WriteVoid(r, op)
        PROVE  Contract!Next
    <2>1. p \in Payments /\ Uncaptured(payment[p]) /\ txn[r].seen.amount = payment[p].amount
      BY <1>2, <1>4 DEF WriteVoid, Admitted, Uncaptured
    <2>2. Contract!Void(p)
      BY <1>4, <2>1, SameWords DEF WriteVoid, Commit, Uncaptured, Contract!Void, Contract!Post
    <2> QED
      BY <2>1, <2>2 DEF Contract!Next
  <1>5. CASE LockedCaptureWrite(r)
    <2>1. p \in Payments /\ txn[r].seen = payment[p] /\ Pending(payment[p])
      BY <1>0, <1>5 DEF LockedCaptureWrite, CaptureWithFees, At, RequestOK, IInv, LockProtectsRow
    <2>2. payment[p] \in Row
      BY <2>1 DEF IInv, TypeOK
    <2>3. [SnapshotFees(payment[p]) EXCEPT !.status = "CAPTURED"]
            = [payment[p] EXCEPT !.status = "CAPTURED", !.feeBase = payment[p].amount]
      BY <2>2 DEF SnapshotFees, Row
    <2>4. Contract!Capture(p, TRUE)
      BY <1>5, <2>1, <2>3, SameWords DEF LockedCaptureWrite, CaptureWithFees, Commit, Pending,
                              Contract!Capture, Contract!Post
    <2> QED
      BY <2>1, <2>4 DEF Contract!Next
  <1>6. ASSUME NEW op \in {"captureCash", "captureCard"}, CaptureWithoutFees(r, op)
        PROVE  Contract!Next
    <2>1. /\ p \in Payments /\ txn[r].seen.amount = payment[p].amount
          /\ payment[p].status \in {"PENDING", "AUTHORIZED"}
      BY <1>2, <1>6 DEF CaptureWithoutFees, Admitted, Uncaptured, CashCapturable
    <2>2. payment[p] \in Row
      BY <2>1 DEF IInv, TypeOK
    <2>3. [payment[p] EXCEPT !.status = "CAPTURED"]
            = [payment[p] EXCEPT !.status = "CAPTURED", !.feeBase = payment[p].feeBase]
      BY <2>2 DEF Row
    <2>4. Contract!Capture(p, FALSE)
      BY <1>6, <2>1, <2>3, SameWords DEF CaptureWithoutFees, Commit, Contract!Capture, Contract!Post
    <2> QED
      BY <2>1, <2>4 DEF Contract!Next
  <1>7. CASE ReverseWrite(r)
    <2>1. p \in Payments /\ Captured(payment[p]) /\ txn[r].seen.amount = payment[p].amount
      BY <1>2, <1>7 DEF ReverseWrite, WriteVoid, Admitted, Captured
    <2>2. Contract!Reverse(p)
      BY <1>7, <2>1, SameWords DEF ReverseWrite, WriteVoid, Commit, Captured, Contract!Reverse,
                        Contract!Post
    <2> QED
      BY <2>1, <2>2 DEF Contract!Next
  <1>8. CASE TipWrite(r)
    <2>1. /\ p \in Payments /\ payment[p].status # "NONE" /\ txn[r].seen.tip = payment[p].tip
          /\ Tippable(payment[p], txn[r].arg) /\ txn[r].arg \in Amounts \cup {0}
      BY <1>2, <1>8 DEF TipWrite, Admitted, Tippable
    <2>2. Contract!Tip(p, txn[r].arg)
      BY <1>8, <2>1, SameWords DEF TipWrite, Commit, Tippable, Contract!Tip, Contract!Post
    <2> QED
      BY <2>1, <2>2 DEF Contract!Next
  <1>9. ~CancelSessionWrite(r)
    BY DEF CancelSessionWrite, WriteVoid, At
  <1>10. CreateConflict(r) => UNCHANGED <<payment, ledger>>
    BY DEF CreateConflict
  <1> QED
    BY <1>1, <1>3, <1>4, <1>5, <1>6, <1>7, <1>8, <1>9, <1>10
       DEF Write, CancelWrite, CancelUncapturedWrite, CashWrite, CardWrite

\* A step of the contract, or none, or the write of a request that was overtaken.
ContractOrOvertaken ==
    \/ Contract!Next
    \/ UNCHANGED <<payment, ledger>>
    \/ \E r \in Clients : /\ txn'[r].step = "done"
                          /\ Overtaken(r) \/ txn[r].op = "cancelSession"

LEMMA NextRefines ==
    ASSUME IInv, Next
    PROVE  ContractOrOvertaken
  <1>1. ASSUME NEW r \in Clients, Read(r) \/ Write(r) \/ Rollback(r)
        PROVE  ContractOrOvertaken
    <2>1. CASE Write(r)
      BY <2>1, WriteRefines, WriteEnds DEF ContractOrOvertaken, IInv
    <2> QED
      BY <1>1, <2>1, ReadWritesNothing DEF ContractOrOvertaken, Rollback
  <1> QED
    BY <1>1 DEF Next, ClientStep, Quiescent, rowVars, ContractOrOvertaken

\* However many requests of whatever handlers interleave, only one that was overtaken
\* between its own plain SELECT and its writes, or a session's cancellation, departs from
\* the contract (payments.service.ts:195, capture.service.ts:22-240, tips.service.ts:20-70).
THEOREM OvertakenAloneBreakContract == Spec => OnlyOvertakenBreakContract
  <1>1. IInv /\ [Next]_rowVars => ContractOrOvertaken
    BY NextRefines DEF ContractOrOvertaken, rowVars
  <1> QED
    BY <1>1, Invariance, PTL DEF Spec, OnlyOvertakenBreakContract, ContractOrOvertaken
-----------------------------------------------------------------------------
(* The sums over the ledger *)

\* An append adds the entry's amount to the totals of its type, and to no other.
LEMMA TotalAfterAppend ==
    ASSUME TypeOK, NEW p \in Payments, NEW e \in Entry, NEW types, Appended(p, e)
    PROVE  /\ Total(p, types) \in Int
           /\ Total(p, types)' = Total(p, types) + (IF e.type \in types THEN e.amount ELSE 0)
  <1> DEFINE f == [i \in DOMAIN ledger[p] |-> ledger[p][i].amount]
             g == [i \in DOMAIN ledger'[p] |-> ledger'[p][i].amount]
             S == Entries(p, types)
             n == Len(ledger[p]) + 1
  <1>1. /\ DOMAIN ledger[p] = 1 .. Len(ledger[p]) /\ Len(ledger[p]) \in Nat
        /\ DOMAIN ledger'[p] = 1 .. n
        /\ \A i \in 1 .. Len(ledger[p]) : ledger'[p][i] = ledger[p][i] /\ ledger[p][i] \in Entry
        /\ ledger'[p][n] = e
    BY DEF Appended, TypeOK
  <1>2. S \subseteq 1 .. Len(ledger[p]) /\ IsFiniteSet(S)
    <2>1. S \subseteq 1 .. Len(ledger[p])
      BY <1>1 DEF Entries
    <2>2. IsFiniteSet(1 .. Len(ledger[p]))
      BY <1>1, FS_Interval
    <2> QED
      BY <2>1, <2>2, FS_Subset
  <1>3. n \notin S /\ \A i \in S : f[i] \in Int /\ g[i] = f[i]
    BY <1>1, <1>2 DEF Entry
  <1>4. g[n] = e.amount /\ e.amount \in Int
    BY <1>1 DEF Entry
  <1>5. Entries(p, types)' = IF e.type \in types THEN S \cup {n} ELSE S
    BY <1>1 DEF Entries
  <1>6. Total(p, types) = SumFunctionOnSet(f, S)
          /\ Total(p, types)' = SumFunctionOnSet(g, Entries(p, types)')
    BY DEF Total
  <1> HIDE DEF f, g, S, n
  <1>7. SumFunctionOnSet(f, S) \in Int
    BY <1>2, <1>3, SumType DEF IntOn
  <1>8. SumFunctionOnSet(g, S) = SumFunctionOnSet(f, S)
    BY <1>2, <1>3, SumSame
  <1>9. SumFunctionOnSet(g, S \cup {n}) = SumFunctionOnSet(f, S) + e.amount
    <2>1. IntOn(f, S) /\ g[n] \in Int /\ \A i \in S : g[i] = f[i]
      BY <1>3, <1>4 DEF IntOn
    <2>2. IsFiniteSet(S) /\ n \notin S
      BY <1>2, <1>3
    <2>3. SumFunctionOnSet(g, S \cup {n}) = SumFunctionOnSet(f, S) + g[n]
      BY <2>1, <2>2, SumGrows
    <2> QED
      BY <1>4, <2>3
  <1> QED
    BY <1>5, <1>6, <1>7, <1>8, <1>9

\* A ledger that stays keeps its totals.
LEMMA TotalOfSame ==
    ASSUME NEW p \in Payments, ledger'[p] = ledger[p], NEW types
    PROVE  Total(p, types)' = Total(p, types)
  BY DEF Total, Entries

\* A posting moves the drift by what it posts as a tip, less what the row's tip moves.
LEMMA DriftAfterAppend ==
    ASSUME TypeOK, TypeOK', NEW p \in Payments, NEW e \in Entry, Appended(p, e)
    PROVE  /\ TipDrift(p) \in Int /\ payment[p].tip \in Int /\ payment'[p].tip \in Int
           /\ TipDrift(p)' = TipDrift(p) + (IF e.type = "TIP_ADDED" THEN e.amount ELSE 0)
                                + payment[p].tip - payment'[p].tip
  <1>1. payment[p].tip \in Int /\ payment'[p].tip \in Int /\ e.amount \in Int
    BY DEF TypeOK, Row, Entry
  <1>2. /\ Total(p, {"TIP_ADDED"}) \in Int
        /\ Total(p, {"TIP_ADDED"})' = Total(p, {"TIP_ADDED"})
                              + (IF e.type \in {"TIP_ADDED"} THEN e.amount ELSE 0)
    BY TotalAfterAppend
  <1> QED
    BY <1>1, <1>2 DEF TipDrift

NoRowNoTip == \A p \in Payments : ~Exists(p) => payment[p].tip = 0

\* A step that has nothing to do with the tip of p.
KeepsTip(p) ==
    /\ payment'[p].tip = payment[p].tip
    /\ Exists(p) => Exists(p)'
    /\ \/ ledger'[p] = ledger[p]
       \/ \E e \in Entry : e.type # "TIP_ADDED" /\ Appended(p, e)

LEMMA KeptTipKeepsDrift ==
    ASSUME TypeOK, TypeOK', NEW p \in Payments, KeepsTip(p)
    PROVE  TipDrift(p)' = TipDrift(p)
  <1>1. CASE ledger'[p] = ledger[p]
    BY <1>1, TotalOfSame DEF KeepsTip, TipDrift
  <1>2. ASSUME NEW e \in Entry, e.type # "TIP_ADDED", Appended(p, e)
        PROVE  TipDrift(p)' = TipDrift(p)
    BY <1>2, DriftAfterAppend DEF KeepsTip
  <1> QED
    BY <1>1, <1>2 DEF KeepsTip

\* A commit of a row with the old tip, and of an entry of another type or of none.
LEMMA CommitKeepsTip ==
    ASSUME TypeOK, NEW r \in Requests, NEW p \in Payments, NEW row \in Row,
           row.tip = payment[p].tip, row.status # "NONE",
           \/ Commit(r, p, row, <<>>)
           \/ \E e \in Entry : e.type # "TIP_ADDED" /\ Commit(r, p, row, <<e>>)
    PROVE  \A q \in Payments : KeepsTip(q)
  <1>1. OthersKept(p) /\ payment'[p] = row /\ (\/ ledger'[p] = ledger[p]
                          \/ \E e \in Entry : e.type # "TIP_ADDED" /\ Appended(p, e))
    BY CommitNothing, CommitOne DEF Committed
  <1> QED
    BY <1>1 DEF OthersKept, KeepsTip, Exists

\* Every handler but `adjustTip` leaves the tips alone.
LEMMA WriteKeepsTips ==
    ASSUME IInv, NoRowNoTip, NEW r \in Clients, Write(r), ~TipWrite(r)
    PROVE  \A q \in Payments : KeepsTip(q)
  <1> DEFINE p == txn[r].on
             seen == txn[r].seen
  <1>0. r \in Requests /\ RequestOK(r) /\ txn[r] \in Txn /\ TypeOK
    BY PaymentLifecycleAssumption DEF IInv, RequestsOK, TypeOK
  <1>1. seen.amount \in Int /\ txn[r].arg \in Nat
    BY <1>0 DEF Txn, Row
  <1>2. ASSUME NEW op \in Handlers \ {"create"}, NEW step \in {"selected", "locked"},
               At(r, op, step)
        PROVE  p \in Payments /\ payment[p] \in Row /\ payment[p].status # "NONE"
    BY <1>0, <1>2 DEF At, RequestOK, TypeOK, Exists
  <1>3. \A type \in EntryType, a \in Int :
            Posting(type, a) \in Entry /\ Posting(type, a).type = type
    BY PostingIsEntry
  <1>4. ASSUME NEW q \in Payments, CreateInsert(r, q)
        PROVE  \A v \in Payments : KeepsTip(v)
    <2>1. seen \in Row /\ seen.status = "PENDING" /\ seen.tip = 0
      <3>1. PICK a \in Amounts, c \in Channel, k \in Keys \cup {NoKey} : seen = NewRow(a, c, k)
        BY <1>0, <1>4 DEF CreateInsert, RequestOK
      <3> QED
        BY <3>1, NewRowIsTyped
    <2>2. payment[q].tip = 0
      BY <1>4 DEF CreateInsert, NoRowNoTip
    <2>3. Commit(r, q, seen, <<Posting("PAYMENT_CREATED", seen.amount)>>)
      BY <1>4 DEF CreateInsert
    <2>4. /\ Posting("PAYMENT_CREATED", seen.amount) \in Entry
          /\ Posting("PAYMENT_CREATED", seen.amount).type # "TIP_ADDED"
      BY <1>1, <1>3 DEF EntryType
    <2> HIDE DEF seen
    <2> QED
      BY <1>0, <2>1, <2>2, <2>3, <2>4, CommitKeepsTip
  <1>5. CASE CreateConflict(r)
    BY <1>5 DEF CreateConflict, KeepsTip, Exists
  <1>op. txn[r].op \in Handlers \cup {"none", "webhook"} /\ "none" \notin Handlers
           /\ "webhook" \notin Handlers
    BY <1>0, PaymentLifecycleAssumption DEF RequestOK
  <1>6. CASE EditWrite(r)
    <2>1. p \in Payments /\ payment[p] \in Row /\ payment[p].status # "NONE"
      BY <1>2, <1>6, <1>op DEF EditWrite, At
    <2> DEFINE row == [payment[p] EXCEPT !.amount = txn[r].arg]
    <2>2. row \in Row /\ row.tip = payment[p].tip /\ row.status # "NONE"
      BY <1>1, <2>1 DEF Row
    <2>3. Commit(r, p, row, <<>>)
      BY <1>6 DEF EditWrite
    <2> HIDE DEF row, p
    <2> QED
      BY <1>0, <2>1, <2>2, <2>3, CommitKeepsTip
  <1>7. ASSUME NEW op \in Handlers \ {"create"}, WriteVoid(r, op)
        PROVE  \A q \in Payments : KeepsTip(q)
    <2>1. p \in Payments /\ payment[p] \in Row
      BY <1>2, <1>7 DEF WriteVoid
    <2> DEFINE row == [payment[p] EXCEPT !.status = "VOIDED"]
               e == Posting("VOIDED", -seen.amount)
    <2>2. row \in Row /\ row.tip = payment[p].tip /\ row.status # "NONE"
      BY <2>1 DEF Row, Status
    <2>3. e \in Entry /\ e.type # "TIP_ADDED"
      BY <1>1, <1>3 DEF EntryType
    <2>4. Commit(r, p, row, <<e>>)
      BY <1>7 DEF WriteVoid
    <2> HIDE DEF row, p, e
    <2> QED
      BY <1>0, <2>1, <2>2, <2>3, <2>4, CommitKeepsTip
  <1>8. ASSUME NEW op \in {"captureCash", "captureCard"}, CaptureWithoutFees(r, op)
        PROVE  \A q \in Payments : KeepsTip(q)
    <2>0. op \in Handlers \ {"create"}
      BY <1>8, <1>op DEF CaptureWithoutFees, At
    <2>1. p \in Payments /\ payment[p] \in Row
      BY <1>2, <1>8, <2>0 DEF CaptureWithoutFees
    <2> DEFINE row == [payment[p] EXCEPT !.status = "CAPTURED"]
               e == Posting("CAPTURED", seen.amount)
    <2>2. row \in Row /\ row.tip = payment[p].tip /\ row.status # "NONE"
      BY <2>1 DEF Row, Status
    <2>3. e \in Entry /\ e.type # "TIP_ADDED"
      BY <1>1, <1>3 DEF EntryType
    <2>4. Commit(r, p, row, <<e>>)
      BY <1>8 DEF CaptureWithoutFees
    <2> HIDE DEF row, p, e
    <2> QED
      BY <1>0, <2>1, <2>2, <2>3, <2>4, CommitKeepsTip
  <1>9. CASE LockedCaptureWrite(r)
    <2>1. p \in Payments /\ payment[p] \in Row
      BY <1>2, <1>9, <1>op DEF LockedCaptureWrite, CaptureWithFees, At
    <2> DEFINE row == [SnapshotFees(payment[p]) EXCEPT !.status = "CAPTURED"]
               e == Posting("CAPTURED", seen.amount)
    <2>2. row \in Row /\ row.tip = payment[p].tip /\ row.status # "NONE"
      <3>1. payment[p].amount \in Nat /\ "CAPTURED" \in Status /\ "CAPTURED" # "NONE"
        BY <2>1 DEF Row, Status
      <3> QED
        BY <2>1, <3>1 DEF Row, SnapshotFees
    <2>3. e \in Entry /\ e.type # "TIP_ADDED"
      BY <1>1, <1>3 DEF EntryType
    <2>4. Commit(r, p, row, <<e>>)
      BY <1>9 DEF LockedCaptureWrite, CaptureWithFees
    <2> HIDE DEF row, p, e
    <2> QED
      BY <1>0, <2>1, <2>2, <2>3, <2>4, CommitKeepsTip
  <1>10. CASE \/ CancelWrite(r) \/ CancelUncapturedWrite(r) \/ ReverseWrite(r)
              \/ CancelSessionWrite(r)
    <2>1. PICK op \in {"cancel", "cancelUncaptured", "reverse", "cancelSession"} : WriteVoid(r, op)
      BY <1>10 DEF CancelWrite, CancelUncapturedWrite, ReverseWrite, CancelSessionWrite
    <2>2. op \in Handlers \ {"create"}
      BY <2>1, <1>op DEF WriteVoid, At
    <2> QED
      BY <1>7, <2>1, <2>2
  <1> QED
    BY <1>4, <1>5, <1>6, <1>8, <1>9, <1>10 DEF Write, CashWrite, CardWrite

\* An adjustment moves the drift by what its read missed.
LEMMA TipWriteDrifts ==
    ASSUME IInv, TypeOK', NEW r \in Clients, TipWrite(r)
    PROVE  \E p \in Payments :
              /\ At(r, "tip", "selected") /\ txn[r].on = p
              /\ OthersKept(p) /\ Exists(p)'
              /\ TipDrift(p)' - TipDrift(p) = payment[p].tip - txn[r].seen.tip
  <1> DEFINE e == Posting("TIP_ADDED", txn[r].arg - txn[r].seen.tip)
  <1>0. r \in Requests /\ RequestOK(r) /\ txn[r] \in Txn /\ TypeOK
    BY PaymentLifecycleAssumption DEF IInv, RequestsOK, TypeOK
  <1>a. At(r, "tip", "selected") /\ txn[r].on \in Payments /\ Exists(txn[r].on)
    BY <1>0 DEF TipWrite, At, RequestOK
  <1>1. PICK p \in Payments : p = txn[r].on /\ payment[p].status # "NONE"
    BY <1>a DEF Exists
  <1> DEFINE row == [payment[p] EXCEPT !.tip = txn[r].arg]
  <1>2. payment[p] \in Row /\ txn[r].arg \in Nat /\ txn[r].seen.tip \in Nat
    BY <1>0, <1>1 DEF TypeOK, Txn, Row
  <1>3. row \in Row /\ row.tip = txn[r].arg /\ row.status # "NONE"
    BY <1>1, <1>2 DEF Row
  <1>4. e \in Entry /\ e.type = "TIP_ADDED" /\ e.amount = txn[r].arg - txn[r].seen.tip
    BY <1>2, PostingIsEntry DEF EntryType
  <1>5. Commit(r, p, row, <<e>>)
    BY <1>1 DEF TipWrite
  <1> HIDE DEF row, e
  <1>6. Appended(p, e) /\ OthersKept(p) /\ payment'[p] = row
    BY <1>0, <1>1, <1>3, <1>4, <1>5, CommitOne DEF Committed
  <1>7. /\ TipDrift(p) \in Int /\ payment[p].tip \in Int
        /\ TipDrift(p)' = TipDrift(p) + e.amount + payment[p].tip - txn[r].arg
    BY <1>0, <1>1, <1>3, <1>4, <1>6, DriftAfterAppend
  <1>8. TipDrift(p)' - TipDrift(p) = payment[p].tip - txn[r].seen.tip
    BY <1>2, <1>4, <1>7
  <1> QED
    BY <1>a, <1>1, <1>3, <1>6, <1>8 DEF Exists

\* The drift of a tip moves by what a stale adjustment missed, and only by that.
TipStep ==
    \A p \in Payments : TipDrift(p)' # TipDrift(p) =>
        \E r \in Clients :
            /\ At(r, "tip", "selected") /\ txn[r].on = p /\ txn'[r].step = "done"
            /\ TipDrift(p)' - TipDrift(p) = payment[p].tip - txn[r].seen.tip

LEMMA NextKeepsTipStep ==
    ASSUME IInv, NoRowNoTip, [Next]_rowVars
    PROVE  TipStep /\ NoRowNoTip'
  <1>0. TypeOK /\ TypeOK'
    BY NextKeepsIInv, StutterKeepsIInv DEF IInv
  <1>1. ASSUME \A q \in Payments : KeepsTip(q)
        PROVE  TipStep /\ NoRowNoTip'
    <2>1. \A q \in Payments : TipDrift(q)' = TipDrift(q)
      BY <1>0, <1>1, KeptTipKeepsDrift
    <2>2. NoRowNoTip'
      BY <1>1 DEF KeepsTip, NoRowNoTip, Exists
    <2> QED
      BY <2>1, <2>2 DEF TipStep
  <1>2. UNCHANGED <<payment, ledger>> => \A q \in Payments : KeepsTip(q)
    BY DEF KeepsTip, Exists
  <1>3. ASSUME NEW r \in Clients, TipWrite(r), Write(r)
        PROVE  TipStep /\ NoRowNoTip'
    <2>1. PICK p \in Payments :
             /\ At(r, "tip", "selected") /\ txn[r].on = p
             /\ OthersKept(p) /\ Exists(p)'
             /\ TipDrift(p)' - TipDrift(p) = payment[p].tip - txn[r].seen.tip
      BY <1>0, <1>3, TipWriteDrifts
    <2>2. \A q \in Payments : q # p => KeepsTip(q)
      BY <2>1 DEF OthersKept, KeepsTip, Exists
    <2>3. \A q \in Payments : q # p => TipDrift(q)' = TipDrift(q)
      BY <1>0, <2>2, KeptTipKeepsDrift
    <2>4. txn'[r].step = "done"
      BY <1>0, <1>3, WriteEnds
    <2>5. NoRowNoTip'
      BY <2>1, <2>2 DEF KeepsTip, NoRowNoTip, Exists
    <2>6. TipStep
      BY <2>1, <2>3, <2>4 DEF TipStep
    <2> QED
      BY <2>5, <2>6
  <1>4. ASSUME NEW r \in Clients, Write(r)
        PROVE  TipStep /\ NoRowNoTip'
    BY <1>1, <1>3, <1>4, WriteKeepsTips
  <1> QED
    BY <1>1, <1>2, <1>4, ReadWritesNothing DEF Next, ClientStep, Quiescent, Rollback, rowVars

\* Whatever interleaves, the TIP_ADDED entries leave the tip of the row only by what an
\* adjustment did not see of another (tips.service.ts:20-70).
THEOREM TipsDriftOnlyByStaleReads == Spec => TipsDriftByStaleReads
  <1>1. Init => NoRowNoTip
    BY DEF Init, RowsInit, Unwritten, NoRowNoTip
  <1>2. IInv /\ NoRowNoTip /\ [Next]_rowVars => TipStep /\ NoRowNoTip'
    BY NextKeepsTipStep
  <1> QED
    BY <1>1, <1>2, Invariance, PTL DEF Spec, TipsDriftByStaleReads, TipStep
-----------------------------------------------------------------------------
(* What the steps of a delivery have established *)

Running(d) == txn[d].step \in {"unlogged", "logged", "locked"}

DeliveryOK(d) ==
    /\ Running(d) => /\ txn[d].op = "webhook"
                     /\ txn[d].on = Target(d)
                     /\ eventId[d] \in IdsOf(Carries[d])
    /\ txn[d].step \in {"logged", "locked"} => Target(d) \in Payments
    /\ txn[d].step \in {"new", "done"} => txn[d].op = "none"

DeliveriesOK == \A d \in Deliveries : DeliveryOK(d)

WInv == IInv /\ WTypeOK /\ DeliveriesOK /\ AnsweredIsLogged
-----------------------------------------------------------------------------
(* The steps of a client do not concern a delivery *)

LEMMA ClientLeavesDeliveries ==
    ASSUME TypeOK, Next
    PROVE  \A d \in Deliveries : txn'[d] = txn[d]
  <1>1. ASSUME NEW r \in Clients, Read(r) \/ Write(r) \/ Rollback(r)
        PROVE  \A d \in Requests \ {r} : txn'[d] = txn[d]
    <2>1. CASE Read(r)
      BY <2>1 DEF Read, CreateLookup, EditSelect, CancelSelect, LockedCaptureSelect,
                  CashSelect, CardSelect, CancelUncapturedSelect, ReverseSelect, TipSelect,
                  CancelSessionSelect, Select, SelectForUpdate, Begin, Finish, TypeOK
    <2>2. CASE Write(r)
      BY <2>2 DEF Write, CreateInsert, CreateConflict, EditWrite, CancelWrite,
                  LockedCaptureWrite, CashWrite, CardWrite, CancelUncapturedWrite,
                  ReverseWrite, TipWrite, CancelSessionWrite, WriteVoid, CaptureWithFees,
                  CaptureWithoutFees, Commit, Finish, TypeOK
    <2> QED
      BY <1>1, <2>1, <2>2 DEF Rollback, Finish, TypeOK
  <1>2. \A r \in Clients, d \in Deliveries : d \in Requests \ {r}
    BY WebhooksAssumption
  <1> QED
    BY <1>1, <1>2 DEF Next, ClientStep, Quiescent, rowVars

LEMMA NextKeepsWInv ==
    ASSUME WInv, Next, UNCHANGED webhookVars
    PROVE  WInv'
  <1>1. IInv'
    BY NextKeepsIInv DEF WInv
  <1>2. WTypeOK'
    BY <1>1 DEF WInv, WTypeOK, IInv, webhookVars
  <1>3. DeliveriesOK' /\ AnsweredIsLogged'
    BY ClientLeavesDeliveries
       DEF WInv, IInv, DeliveriesOK, DeliveryOK, Running, AnsweredIsLogged, webhookVars
  <1> QED
    BY <1>1, <1>2, <1>3 DEF WInv
-----------------------------------------------------------------------------
(* The steps of a delivery *)

\* The ids a notification may be given are event ids.
LEMMA IdsAreEventIds ==
    ASSUME NEW d \in Deliveries
    PROVE  /\ IdsOf(Carries[d]) \subseteq EventIds
           /\ Carries[d].id # NoId => IdsOf(Carries[d]) = {<<"id", Carries[d].id>>}
           /\ Target(d) \in Payments \cup {NoPayment}
  BY WebhooksAssumption DEF IdsOf, EventIds, Notification, Target

\* A delivery's step that keeps IInv, moves only its own request, and either does
\* not answer or leaves its event on record.
LEMMA DeliveryStep ==
    ASSUME WInv, NEW d \in Deliveries, IInv',
           \A e \in Deliveries \ {d} : txn'[e] = txn[e] /\ eventId'[e] = eventId[e],
           eventId' \in [Deliveries -> EventIds],
           crashes' \in 0 .. MaxCrashes,
           events \subseteq events', events' \subseteq EventIds,
           DeliveryOK(d)',
           txn'[d].step = "done" => IdsOf(Carries[d]) \cap events' # {}
    PROVE  WInv'
  <1>1. WTypeOK'
    BY DEF WTypeOK, IInv
  <1>2. DeliveriesOK'
    BY DEF WInv, DeliveriesOK, DeliveryOK, Running
  <1>3. AnsweredIsLogged'
    <2> SUFFICES ASSUME NEW e \in Deliveries, txn'[e].step = "done", Carries[e].id # NoId
                 PROVE  <<"id", Carries[e].id>> \in events'
      BY DEF AnsweredIsLogged
    <2>1. CASE e = d
      BY <2>1, IdsAreEventIds
    <2>2. CASE e # d
      BY <2>2 DEF WInv, AnsweredIsLogged
    <2> QED
      BY <2>1, <2>2
  <1> QED
    BY <1>1, <1>2, <1>3 DEF WInv

\* To answer is to end; to be delivered again is to be new.
LEMMA AnswerKeepsWInv ==
    ASSUME WInv, NEW d \in Deliveries, Answer(d), UNCHANGED <<payment, ledger, crashes>>,
           NEW id \in IdsOf(Carries[d]), events' = events \cup {id}
    PROVE  WInv'
  <1>1. d \in Requests /\ IInv'
    BY EndKeepsIInv, WebhooksAssumption DEF Answer, Ends, WInv
  <1>2. txn'[d] = Resting("done") /\ \A e \in Deliveries \ {d} : txn'[e] = txn[e]
    BY <1>1 DEF Answer, Finish, WInv, IInv, TypeOK
  <1>3. DeliveryOK(d)'
    BY <1>2 DEF DeliveryOK, Running, Resting
  <1>4. /\ eventId' \in [Deliveries -> EventIds]
        /\ \A e \in Deliveries \ {d} : eventId'[e] = eventId[e]
    BY DEF Answer, WInv, WTypeOK, EventIds
  <1>5. events \subseteq events' /\ events' \subseteq EventIds /\ crashes' \in 0 .. MaxCrashes
    BY IdsAreEventIds DEF WInv, WTypeOK
  <1> QED
    BY <1>1, <1>2, <1>3, <1>4, <1>5, DeliveryStep

LEMMA RedeliverKeepsWInv ==
    ASSUME WInv, NEW d \in Deliveries, Redeliver(d), UNCHANGED <<payment, ledger, events>>,
           crashes' \in 0 .. MaxCrashes
    PROVE  WInv'
  <1>1. d \in Requests /\ Resting("new") \in Txn
    BY WebhooksAssumption, ResultsAreTyped DEF Steps
  <1>2. txn'[d] = Resting("new") /\ \A e \in Deliveries \ {d} : txn'[e] = txn[e]
    BY <1>1, WebhooksAssumption DEF Redeliver, WInv, IInv, TypeOK
  <1>3. RequestOK(d)' /\ DeliveryOK(d)'
    BY <1>2 DEF RequestOK, At, DeliveryOK, Running, Resting
  <1>4. Resting("new").step = "new"
    BY DEF Resting
  <1>5. IInv'
    BY <1>1, <1>3, <1>4, MoveKeepsIInv DEF Redeliver, WInv
  <1>6. /\ eventId' \in [Deliveries -> EventIds]
        /\ \A e \in Deliveries \ {d} : eventId'[e] = eventId[e]
    BY DEF Redeliver, WInv, WTypeOK, EventIds
  <1> QED
    BY <1>2, <1>3, <1>4, <1>5, <1>6, DeliveryStep DEF WInv, WTypeOK

\* A delivery that moves on: it keeps its request's new record, and its event id.
LEMMA ProceedKeepsWInv ==
    ASSUME WInv, NEW d \in Deliveries, NEW rec \in Txn,
           txn' = [txn EXCEPT ![d] = rec], UNCHANGED <<payment, ledger, events, crashes>>,
           NEW id \in IdsOf(Carries[d]), eventId' = [eventId EXCEPT ![d] = id],
           rec.op = "webhook", rec.on = Target(d),
           rec.step \in {"unlogged", "logged", "locked"},
           rec.step # "unlogged" => Target(d) \in Payments /\ Exists(Target(d)),
           rec.step = "locked" => rec.seen = payment[rec.on] /\ MayLock(d, rec.on),
           rec.step = "logged" => MayWrite(d, rec.on)
    PROVE  WInv'
  <1>1. d \in Requests
    BY WebhooksAssumption
  <1>2. txn'[d] = rec /\ \A e \in Deliveries \ {d} : txn'[e] = txn[e]
    BY <1>1 DEF WInv, IInv, TypeOK
  <1>3. /\ eventId' \in [Deliveries -> EventIds] /\ eventId'[d] = id
        /\ \A e \in Deliveries \ {d} : eventId'[e] = eventId[e]
    BY IdsAreEventIds DEF WInv, WTypeOK
  <1>4. RequestOK(d)' /\ DeliveryOK(d)'
    BY <1>2, <1>3 DEF RequestOK, At, Exists, DeliveryOK, Running
  <1>5. IInv'
    BY <1>1, <1>4, MoveKeepsIInv DEF WInv
  <1> QED
    BY <1>2, <1>3, <1>4, <1>5, DeliveryStep DEF WInv, WTypeOK

LEMMA LookupKeepsWInv ==
    ASSUME WInv, NEW d \in Deliveries, WebhookLookup(d)
    PROVE  WInv'
  <1>1. PICK id \in IdsOf(Carries[d]) :
           IF id \in events
           THEN Answer(d)
           ELSE /\ txn' = [txn EXCEPT ![d] = [op |-> "webhook", step |-> "unlogged",
                               on |-> Target(d), seen |-> Unwritten, arg |-> 0]]
                /\ eventId' = [eventId EXCEPT ![d] = id]
    BY DEF WebhookLookup
  <1>2. CASE id \in events
    <2>1. events' = events \cup {id}
      BY <1>2 DEF WebhookLookup
    <2> QED
      BY <1>1, <1>2, <2>1, AnswerKeepsWInv DEF WebhookLookup
  <1>3. CASE id \notin events
    <2> DEFINE rec == [op |-> "webhook", step |-> "unlogged",
                       on |-> Target(d), seen |-> Unwritten, arg |-> 0]
    <2>1. rec \in Txn
      BY IdsAreEventIds, ResultsAreTyped DEF Txn, Ops, Steps
    <2> QED
      BY <1>1, <1>3, <2>1, ProceedKeepsWInv DEF WebhookLookup
  <1> QED
    BY <1>2, <1>3

LEMMA InsertKeepsWInv ==
    ASSUME WInv, NEW d \in Deliveries, WebhookInsert(d)
    PROVE  WInv'
  <1> DEFINE rec == [txn[d] EXCEPT !.step = "logged"]
  <1>1. d \in Requests /\ txn[d] \in Txn /\ DeliveryOK(d)
    BY WebhooksAssumption DEF WInv, IInv, TypeOK, DeliveriesOK
  <1>2. /\ txn[d].op = "webhook" /\ txn[d].step = "unlogged" /\ txn[d].on = Target(d)
        /\ eventId[d] \in IdsOf(Carries[d])
    BY <1>1 DEF WebhookInsert, MayLog, At, DeliveryOK, Running
  <1>3. rec \in Txn /\ rec.op = "webhook" /\ rec.step = "logged" /\ rec.on = Target(d)
    BY <1>1, <1>2 DEF Txn, Steps
  <1>4. txn' = [txn EXCEPT ![d] = rec]
    BY <1>1 DEF WebhookInsert
  <1>5. eventId' = [eventId EXCEPT ![d] = eventId[d]]
    BY DEF WebhookInsert, webhookVars, WInv, WTypeOK
  <1>6. Target(d) \in Payments /\ Exists(Target(d))
    BY IdsAreEventIds DEF WebhookInsert, HasTarget
  <1>7. UNCHANGED <<payment, ledger, events, crashes>> /\ MayWrite(d, rec.on)
    BY <1>3 DEF WebhookInsert, webhookVars
  <1> HIDE DEF rec
  <1> QED
    BY <1>2, <1>3, <1>4, <1>5, <1>6, <1>7, ProceedKeepsWInv

LEMMA LockKeepsWInv ==
    ASSUME WInv, NEW d \in Deliveries, WebhookLock(d)
    PROVE  WInv'
  <1> DEFINE rec == [txn[d] EXCEPT !.step = "locked", !.seen = payment[Target(d)]]
  <1>1. d \in Requests /\ txn[d] \in Txn /\ DeliveryOK(d)
    BY WebhooksAssumption DEF WInv, IInv, TypeOK, DeliveriesOK
  <1>2. /\ txn[d].op = "webhook" /\ txn[d].step = "logged" /\ txn[d].on = Target(d)
        /\ eventId[d] \in IdsOf(Carries[d]) /\ Target(d) \in Payments
        /\ Exists(Target(d))
    BY <1>1 DEF WebhookLock, At, DeliveryOK, Running, WInv, IInv, RequestsOK, RequestOK
  <1>3. CASE Captured(payment[Target(d)])
    BY <1>2, <1>3, AnswerKeepsWInv DEF WebhookLock
  <1>4. CASE ~Captured(payment[Target(d)])
    <2>1. payment[Target(d)] \in Row
      BY <1>2 DEF WInv, IInv, TypeOK
    <2>2. /\ rec \in Txn /\ rec.op = "webhook" /\ rec.step = "locked"
          /\ rec.on = Target(d) /\ rec.seen = payment[rec.on]
      BY <1>1, <1>2, <2>1 DEF Txn, Steps
    <2>3. txn' = [txn EXCEPT ![d] = rec]
      BY <1>1, <1>4 DEF WebhookLock
    <2>4. eventId' = [eventId EXCEPT ![d] = eventId[d]]
      BY <1>4 DEF WebhookLock, WInv, WTypeOK
    <2> QED
      BY <1>2, <1>4, <2>2, <2>3, <2>4, ProceedKeepsWInv DEF WebhookLock
  <1> QED
    BY <1>3, <1>4

\* What WebhookApply commits is a change: the payment it writes is the PENDING one
\* it locked, or keeps its status.
LEMMA ApplyCommits ==
    ASSUME WInv, NEW d \in Deliveries, WebhookApply(d)
    PROVE  Target(d) \in Payments /\ Commits(d, Target(d))
  <1> DEFINE p == Target(d)
             e == Posting("CAPTURED", txn[d].seen.amount)
             base == IF Captures(d) THEN SnapshotFees(payment[p]) ELSE payment[p]
             row == [base EXCEPT !.status = StatusAfter(d, base)]
  <1>1. d \in Requests /\ DeliveryOK(d)
    BY WebhooksAssumption DEF WInv, DeliveriesOK
  <1>2. p \in Payments /\ txn[d].step = "locked" /\ txn[d].on = p
    BY <1>1 DEF WebhookApply, At, DeliveryOK, Running
  <1>3. txn[d].seen = payment[p] /\ payment[p] \in Row
    BY <1>1, <1>2 DEF WInv, IInv, TypeOK, LockProtectsRow
  <1>4. payment[p].amount \in Nat /\ payment[p].status \in Status
    BY <1>3 DEF Row
  <1>5. /\ base \in Row
        /\ base.status = payment[p].status
        /\ base.feeBase = IF Captures(d) THEN payment[p].amount ELSE payment[p].feeBase
        /\ base.key = payment[p].key
    BY <1>3, <1>4 DEF Row, SnapshotFees
  <1>6. /\ row \in Row
        /\ row.status = StatusAfter(d, payment[p])
        /\ row.feeBase = IF Captures(d) THEN payment[p].amount ELSE payment[p].feeBase
        /\ row.key = payment[p].key
    <2>1. StatusAfter(d, base) = StatusAfter(d, payment[p])
      BY <1>5 DEF StatusAfter
    <2>2. StatusAfter(d, base) \in Status
      BY <1>4, <2>1 DEF StatusAfter, Status
    <2> QED
      BY <1>5, <2>1, <2>2 DEF Row
  <1>7. e \in Entry /\ e.type = "CAPTURED" /\ e.amount = payment[p].amount
    BY <1>3, <1>4, PostingIsEntry DEF EntryType
  <1>8. Commit(d, p, row, IF Captures(d) THEN <<e>> ELSE <<>>)
    BY DEF WebhookApply
  <1>9. Captures(d) => payment[p].status = "PENDING" /\ row.status \in {"CAPTURED", "FAILED"}
    BY <1>3, <1>6 DEF Captures, Pending, StatusAfter
  <1>10. ~Captures(d) => row.status \in {"FAILED", payment[p].status}
    BY <1>6 DEF StatusAfter
  <1> HIDE DEF e, row, p
  <1>11. CASE Captures(d)
    <2>1. Committed(d, p, row) /\ Appended(p, e)
      BY <1>1, <1>2, <1>6, <1>7, <1>8, <1>11, CommitOne DEF WInv, IInv
    <2>2. CapturedLocked(p)
      BY <1>6, <1>7, <1>9, <1>11, <2>1 DEF Committed, CapturedLocked
    <2> QED
      BY <1>2, <1>6, <2>1, <2>2 DEF Committed, Commits, Change, KeyFresh, p
  <1>12. CASE ~Captures(d)
    <2>1. Committed(d, p, row) /\ ledger'[p] = ledger[p]
      BY <1>1, <1>2, <1>6, <1>8, <1>12, CommitNothing DEF WInv, IInv
    <2>2. Failed(p) \/ SameStatus(p)
      BY <1>6, <1>10, <1>12, <2>1 DEF Committed, Failed, SameStatus
    <2> QED
      BY <1>2, <1>6, <2>1, <2>2 DEF Committed, Commits, Change, KeyFresh, p
  <1> QED
    BY <1>11, <1>12

LEMMA ApplyKeepsWInv ==
    ASSUME WInv, NEW d \in Deliveries, WebhookApply(d)
    PROVE  WInv'
  <1>1. d \in Requests /\ DeliveryOK(d)
    BY WebhooksAssumption DEF WInv, DeliveriesOK
  <1>2. eventId[d] \in IdsOf(Carries[d])
    BY <1>1 DEF WebhookApply, At, DeliveryOK, Running
  <1>3. IInv' /\ Finish(d)
    BY <1>1, ApplyCommits, CommitKeepsIInv DEF WInv, Commits
  <1>4. txn'[d] = Resting("done") /\ \A e \in Deliveries \ {d} : txn'[e] = txn[e]
    BY <1>1, <1>3 DEF Finish, WInv, IInv, TypeOK
  <1>5. DeliveryOK(d)'
    BY <1>4 DEF DeliveryOK, Running, Resting
  <1>6. /\ eventId' \in [Deliveries -> EventIds]
        /\ \A e \in Deliveries \ {d} : eventId'[e] = eventId[e]
    BY DEF WebhookApply, WInv, WTypeOK, EventIds
  <1>7. events \subseteq events' /\ events' \subseteq EventIds /\ eventId[d] \in events'
          /\ crashes' \in 0 .. MaxCrashes
    BY <1>2, IdsAreEventIds DEF WebhookApply, WInv, WTypeOK
  <1> QED
    BY <1>2, <1>3, <1>4, <1>5, <1>6, <1>7, DeliveryStep

LEMMA DeliverKeepsWInv ==
    ASSUME WInv, NEW d \in Deliveries, Deliver(d) \/ Crash(d)
    PROVE  WInv'
  <1>1. CASE WebhookInsertFails(d)
    BY <1>1, RedeliverKeepsWInv DEF WebhookInsertFails, WInv, WTypeOK
  <1>2. CASE WebhookLogOnly(d)
    <2>1. eventId[d] \in IdsOf(Carries[d])
      BY <1>2 DEF WebhookLogOnly, MayLog, At, WInv, DeliveriesOK, DeliveryOK, Running
    <2> QED
      BY <1>2, <2>1, AnswerKeepsWInv DEF WebhookLogOnly
  <1>3. CASE DeadlockVictim(d)
    BY <1>3, RedeliverKeepsWInv DEF DeadlockVictim, WInv, WTypeOK
  <1>4. CASE Crash(d)
    <2>1. crashes' \in 0 .. MaxCrashes
      BY <1>4, WebhooksAssumption DEF Crash, WInv, WTypeOK
    <2> QED
      BY <1>4, <2>1, RedeliverKeepsWInv DEF Crash
  <1> QED
    BY <1>1, <1>2, <1>3, <1>4, LookupKeepsWInv, InsertKeepsWInv, LockKeepsWInv,
       ApplyKeepsWInv DEF Deliver
-----------------------------------------------------------------------------
(* Theorems *)

\* The inductive invariant of Webhooks.
THEOREM WInvariance == WSpec => []WInv
  <1>1. WInit => WInv
    <2> SUFFICES ASSUME WInit PROVE WInv
      OBVIOUS
    <2>1. IInv
      BY InitIInv DEF WInit
    <2>2. WTypeOK
      BY <2>1, WebhooksAssumption DEF WInit, WTypeOK, IInv, EventIds
    <2>3. DeliveriesOK /\ AnsweredIsLogged
      BY WebhooksAssumption DEF WInit, RowsInit, Resting, DeliveriesOK, DeliveryOK, Running,
                                AnsweredIsLogged
    <2> QED
      BY <2>1, <2>2, <2>3 DEF WInv
  <1>2. WInv /\ [WNext]_vars => WInv'
    <2> SUFFICES ASSUME WInv, [WNext]_vars PROVE WInv'
      OBVIOUS
    <2>1. CASE UNCHANGED vars
      <3>1. IInv'
        BY <2>1, StutterKeepsIInv DEF vars, WInv
      <3> QED
        BY <2>1, <3>1 DEF vars, rowVars, webhookVars, WInv, WTypeOK, IInv, DeliveriesOK,
                          DeliveryOK, Running, AnsweredIsLogged
    <2> QED
      BY <2>1, NextKeepsWInv, DeliverKeepsWInv DEF WNext
  <1> QED
    BY <1>1, <1>2, PTL DEF WSpec

\* Types, with the deliveries running.
THEOREM WTypeCorrect == WSpec => []WTypeOK
  <1>1. WInv => WTypeOK
    BY DEF WInv
  <1> QED
    BY <1>1, WInvariance, PTL

\* The lock the webhook takes protects its row as the captures' does
\* (webhooks.service.ts:123).
THEOREM WebhookLocksRow == WSpec => []LockProtectsRow
  <1>1. WInv => LockProtectsRow
    BY DEF WInv, IInv
  <1> QED
    BY <1>1, WInvariance, PTL

\* However deliveries are duplicated, repeated and reordered, with whatever event
\* ids, and whatever clients do beside them, a payment is captured at most once.
THEOREM WebhooksCaptureOnce == ASSUME CapturesLock PROVE WSpec => []CapturedAtMostOnce
  <1>1. WInv => CapturedAtMostOnce
    BY DEF WInv, IInv, LedgerInv
  <1> QED
    BY <1>1, WInvariance, PTL

\* The fees a webhook takes are those of the amount it captured.
THEOREM WebhookFeesMatch == WSpec => []FeesAreOfCapturedAmount
  <1>1. WInv => FeesAreOfCapturedAmount
    BY DEF WInv, IInv, LedgerInv
  <1> QED
    BY <1>1, WInvariance, PTL

\* A notification with an event id is answered only once the event is on record.
THEOREM AnswersAreLogged == WSpec => []AnsweredIsLogged
  <1>1. WInv => AnsweredIsLogged
    BY DEF WInv
  <1> QED
    BY <1>1, WInvariance, PTL

\* The ledger explains the status with deliveries beside the clients, too
\* (webhooks.service.ts:138-181).
THEOREM WebhookStatusIsExplained == WSpec => []LedgerExplainsStatus
  <1>1. WInv => LedgerExplainsStatus
    BY DEF WInv, IInv, LedgerInv
  <1> QED
    BY <1>1, WInvariance, PTL

\* Deliveries add no payment with a key that is taken.
THEOREM WebhookKeysAreUnique == WSpec => []OnePaymentPerKey
  <1>1. WInv => OnePaymentPerKey
    BY DEF WInv, IInv
  <1> QED
    BY <1>1, WInvariance, PTL
-----------------------------------------------------------------------------
(* The handlers that read FOR UPDATE implement the contract *)

\* No payload counts as a success and as a failure.
OneOutcome == \A d \in Deliveries : ~(Carries[d].succeeded /\ Carries[d].failed)

\* What a delivery commits is a capture, a failure, or the row as it is.
LEMMA ApplyRefines ==
    ASSUME WInv, OneOutcome, NEW d \in Deliveries, WebhookApply(d)
    PROVE  Contract!Next \/ UNCHANGED <<payment, ledger>>
  <1> DEFINE p == Target(d)
  <1>1. d \in Requests /\ DeliveryOK(d)
    BY WebhooksAssumption DEF WInv, DeliveriesOK
  <1>2. p \in Payments /\ txn[d].seen = payment[p] /\ payment[p] \in Row
    BY <1>1 DEF WebhookApply, At, DeliveryOK, Running, WInv, IInv, TypeOK, LockProtectsRow
  <1>3. CASE Captures(d)
    <2>1. Pending(payment[p]) /\ ~Fails(d)
      BY <1>2, <1>3 DEF Captures, Fails, OneOutcome
    <2>2. StatusAfter(d, SnapshotFees(payment[p])) = "CAPTURED"
      BY <1>3, <2>1 DEF StatusAfter
    <2>3. [SnapshotFees(payment[p]) EXCEPT !.status = "CAPTURED"]
            = [payment[p] EXCEPT !.status = "CAPTURED", !.feeBase = payment[p].amount]
      BY <1>2 DEF SnapshotFees, Row
    <2>4. Contract!Capture(p, TRUE)
      BY <1>2, <1>3, <2>1, <2>2, <2>3, SameWords
         DEF WebhookApply, Commit, Pending, Contract!Capture, Contract!Post
    <2> QED
      BY <1>2, <2>4, SameWords DEF Contract!Next
  <1>4. CASE ~Captures(d) /\ Fails(d)
    <2>1. Pending(payment[p]) /\ StatusAfter(d, payment[p]) = "FAILED"
      BY <1>2, <1>4 DEF Fails, StatusAfter
    <2>2. Contract!Fail(p)
      BY <1>2, <1>4, <2>1 DEF WebhookApply, Commit, Pending, Contract!Fail, Contract!Post
    <2> QED
      BY <1>2, <2>2, SameWords DEF Contract!Next
  <1>5. CASE ~Captures(d) /\ ~Fails(d)
    <2>1. [payment[p] EXCEPT !.status = StatusAfter(d, payment[p])] = payment[p]
      BY <1>2, <1>5 DEF StatusAfter, Row
    <2>2. ledger[p] \o <<>> = ledger[p]
      BY <1>2, ConcatEmptySeq DEF WInv, IInv, TypeOK
    <2> QED
      BY <1>2, <1>5, <2>1, <2>2 DEF WebhookApply, Commit, WInv, IInv, TypeOK
  <1> QED
    BY <1>3, <1>4, <1>5

\* The steps of clients and deliveries, interleaved.
LEMMA WNextRefines ==
    ASSUME WInv, OneOutcome, [WNext]_vars
    PROVE  ContractOrOvertaken
  <1>1. CASE Next
    BY <1>1, NextRefines DEF WInv
  <1>2. ASSUME NEW d \in Deliveries, Deliver(d) \/ Crash(d)
        PROVE  Contract!Next \/ UNCHANGED <<payment, ledger>>
    BY <1>2, ApplyRefines
       DEF Deliver, Crash, WebhookLookup, WebhookInsertFails, WebhookInsert, WebhookLogOnly,
           WebhookLock, DeadlockVictim
  <1> QED
    BY <1>1, <1>2 DEF WNext, vars, rowVars, ContractOrOvertaken

\* A delivery is never the one that departs from the contract, whatever handlers interleave
\* with it, and overtakes nobody but an unlocked handler (webhooks.service.ts:120-180).
THEOREM DeliveriesKeepContract ==
    ASSUME OneOutcome
    PROVE  WSpec => OnlyOvertakenBreakContract
  <1>1. WInv /\ [WNext]_vars => ContractOrOvertaken
    BY WNextRefines
  <1> QED
    BY <1>1, WInvariance, PTL DEF WSpec, OnlyOvertakenBreakContract, ContractOrOvertaken

\* Creations, locked captures and deliveries, interleaved in whatever way, are the
\* contract's indivisible operations.
THEOREM LockedImplementsContract ==
    ASSUME Handlers \subseteq {"create", "captureLocked"}, OneOutcome
    PROVE  WSpec => ImplementsContract
  <1>1. WInit => Contract!Init
    BY SameWords DEF WInit, RowsInit, Contract!Init
  <1>2. WInv /\ [WNext]_vars => [Contract!Next]_(Contract!contractVars)
    <2> SUFFICES ASSUME WInv, [WNext]_vars
                 PROVE  Contract!Next \/ UNCHANGED <<payment, ledger>>
      BY DEF Contract!contractVars
    <2>1. \A r \in Clients : ~Overtaken(r) /\ txn[r].op # "cancelSession"
      BY PaymentLifecycleAssumption DEF WInv, IInv, RequestsOK, RequestOK, Overtaken
    <2> QED
      BY <2>1, WNextRefines DEF ContractOrOvertaken
  <1> QED
    BY <1>1, <1>2, WInvariance, PTL DEF WSpec, ImplementsContract, Contract!Spec
-----------------------------------------------------------------------------
(* An answered success has been processed *)

\* An event id stands for one event: deliveries that may get the same one are about one
\* payment and agree on the outcome.
OneEventPerId ==
    \A d, e \in Deliveries :
        IdsOf(Carries[d]) \cap IdsOf(Carries[e]) # {} =>
            Target(d) = Target(e) /\ Carries[d].succeeded = Carries[e].succeeded

\* p exists and has left PENDING.
Left(p) == payment[p].status \notin {"NONE", "PENDING"}

\* The success d carries has an event on record, or has been answered.
Heard(d) == IdsOf(Carries[d]) \cap events # {} \/ txn[d].step = "done"

Processed ==
    \A d \in Deliveries : Carries[d].succeeded /\ HasTarget(d) /\ Heard(d) => Left(Target(d))

\* No step of a client brings a payment back.
LEMMA ClientsMoveOn ==
    ASSUME IInv, Next, NEW p \in Payments, Left(p)
    PROVE  Left(p)'
  <1>1. CASE UNCHANGED <<payment, ledger>>
    BY <1>1 DEF Left
  <1>2. CASE \E q \in Payments : Change(q)
    BY <1>2, ChangeMovesOn DEF Left
  <1> QED
    BY <1>1, <1>2, WriteCommits, ReadWritesNothing
       DEF IInv, Next, ClientStep, Quiescent, Rollback, rowVars, Ends, Commits

\* A delivery leaves payments alone, or commits a change.
LEMMA DeliveriesMoveOn ==
    ASSUME WInv, NEW d \in Deliveries, Deliver(d) \/ Crash(d), NEW p \in Payments, Left(p)
    PROVE  Left(p)'
  <1>1. CASE WebhookApply(d)
    BY <1>1, ApplyCommits, ChangeMovesOn DEF Commits, Left
  <1>2. CASE payment' = payment
    BY <1>2 DEF Left
  <1> QED
    BY <1>1, <1>2
       DEF Deliver, Crash, WebhookLookup, WebhookInsertFails, WebhookInsert, WebhookLogOnly,
           WebhookLock, DeadlockVictim

\* The step that answers a success, or records its event, leaves the payment processed.
LEMMA AnswerIsProcessed ==
    ASSUME WInv, Processed, NEW d \in Deliveries, Deliver(d) \/ Crash(d),
           Carries[d].succeeded, HasTarget(d),
           txn'[d].step = "done" \/ events' # events
    PROVE  Left(Target(d))'
  <1>1. d \in Requests /\ DeliveryOK(d) /\ RequestOK(d)
    BY WebhooksAssumption DEF WInv, DeliveriesOK, IInv, RequestsOK
  <1>2. Target(d) \in Payments
    BY IdsAreEventIds DEF HasTarget
  <1>3. ~(Redeliver(d) /\ UNCHANGED events)
    BY <1>1 DEF Redeliver, Resting, WInv, IInv, TypeOK
  <1>4. CASE WebhookLookup(d)
    <2>1. PICK id \in IdsOf(Carries[d]) :
             IF id \in events
             THEN TRUE
             ELSE txn' = [txn EXCEPT ![d] = [op |-> "webhook", step |-> "unlogged",
                              on |-> Target(d), seen |-> Unwritten, arg |-> 0]]
      BY <1>4 DEF WebhookLookup
    <2>2. id \in events
      BY <1>1, <1>4, <2>1 DEF WebhookLookup, WInv, IInv, TypeOK
    <2> QED
      BY <1>2, <1>4, <2>1, <2>2, DeliveriesMoveOn DEF Processed, Heard
  <1>5. ~WebhookInsert(d)
    BY <1>1 DEF WebhookInsert, webhookVars, WInv, IInv, TypeOK, Txn
  <1>6. CASE WebhookLock(d)
    <2>1. Captured(payment[Target(d)])
      BY <1>1, <1>6 DEF WebhookLock, WInv, IInv, TypeOK, Txn
    <2> QED
      BY <1>6, <2>1 DEF WebhookLock, Captured, Left
  <1>7. CASE WebhookApply(d)
    <2> DEFINE p == Target(d)
               base == IF Captures(d) THEN SnapshotFees(payment[p]) ELSE payment[p]
    <2>1. p \in Payments /\ txn[d].seen = payment[p] /\ payment[p] \in Row /\ Exists(p)
      BY <1>1, <1>7
         DEF WebhookApply, At, DeliveryOK, Running, RequestOK, WInv, IInv, TypeOK, LockProtectsRow
    <2>2. base \in Row /\ base.status = payment[p].status
      BY <2>1 DEF SnapshotFees, Row
    <2>3. payment'[p].status = StatusAfter(d, base)
      BY <1>7, <2>1, <2>2 DEF WebhookApply, Commit, Row, WInv, IInv, TypeOK
    <2>4. StatusAfter(d, base) \notin {"NONE", "PENDING"}
      BY <2>1, <2>2 DEF StatusAfter, Captures, Pending, Exists
    <2> QED
      BY <2>3, <2>4 DEF Left
  <1> QED
    BY <1>3, <1>4, <1>5, <1>6, <1>7
       DEF Deliver, Crash, WebhookInsertFails, WebhookLogOnly, DeadlockVictim

\* A delivery moves its own request, and records its own event.
LEMMA DeliveryMovesItself ==
    ASSUME WInv, NEW d \in Deliveries, Deliver(d) \/ Crash(d)
    PROVE  /\ \A e \in Deliveries \ {d} : txn'[e] = txn[e]
           /\ events' \subseteq events \cup IdsOf(Carries[d])
  <1>1. d \in Requests /\ DeliveryOK(d)
    BY WebhooksAssumption DEF WInv, DeliveriesOK
  <1>2. \A e \in Deliveries \ {d} : txn'[e] = txn[e]
    <2>1. ASSUME Finish(d) \/ Redeliver(d) \/ \E rec : txn' = [txn EXCEPT ![d] = rec]
          PROVE  \A e \in Deliveries \ {d} : txn'[e] = txn[e]
      BY <1>1, <2>1, WebhooksAssumption DEF Finish, Redeliver, WInv, IInv, TypeOK
    <2>2. ASSUME WebhookInsert(d) \/ WebhookLock(d)
          PROVE  \A e \in Deliveries \ {d} : txn'[e] = txn[e]
      BY <1>1, <2>2, WebhooksAssumption
         DEF WebhookInsert, WebhookLock, Answer, Finish, WInv, IInv, TypeOK
    <2>3. WebhookLookup(d) => Finish(d) \/ \E rec : txn' = [txn EXCEPT ![d] = rec]
      BY DEF WebhookLookup, Answer
    <2> QED
      BY <2>1, <2>2, <2>3 DEF Deliver, Crash, WebhookInsertFails, WebhookLogOnly,
         WebhookApply, DeadlockVictim, Answer, Commit
  <1>3. events' \subseteq events \cup {eventId[d]}
    BY DEF Deliver, Crash, WebhookLookup, WebhookInsertFails, WebhookInsert, WebhookLogOnly,
           WebhookLock, WebhookApply, DeadlockVictim, webhookVars
  <1>4. events' # events => Running(d)
    BY DEF Deliver, Crash, WebhookLookup, WebhookInsertFails, WebhookInsert, WebhookLogOnly,
           MayLog, WebhookLock, WebhookApply, DeadlockVictim, webhookVars, At, Running
  <1> QED
    BY <1>1, <1>2, <1>3, <1>4 DEF DeliveryOK

LEMMA WNextKeepsProcessed ==
    ASSUME OneEventPerId, WInv, Processed, [WNext]_vars
    PROVE  Processed'
  <1>0. \A d \in Deliveries : HasTarget(d) => Target(d) \in Payments
    BY IdsAreEventIds DEF HasTarget
  <1>1. CASE UNCHANGED vars
    BY <1>1 DEF vars, rowVars, webhookVars, Processed, Heard, Left
  <1>2. CASE Next /\ UNCHANGED webhookVars
    <2>1. \A d \in Deliveries : txn'[d] = txn[d] /\ events' = events
      BY <1>2, ClientLeavesDeliveries DEF WInv, IInv, webhookVars
    <2> QED
      BY <1>0, <1>2, <2>1, ClientsMoveOn DEF WInv, Processed, Heard
  <1>3. ASSUME NEW d \in Deliveries, Deliver(d) \/ Crash(d)
        PROVE  Processed'
    <2> SUFFICES ASSUME NEW e \in Deliveries, Carries[e].succeeded, HasTarget(e), Heard(e)'
                 PROVE  Left(Target(e))'
      BY DEF Processed
    <2>1. CASE Heard(e)
      BY <1>0, <1>3, <2>1, DeliveriesMoveOn DEF Processed
    <2>2. CASE ~Heard(e) /\ e = d
      BY <1>3, <2>2, AnswerIsProcessed DEF Heard
    <2>3. CASE ~Heard(e) /\ e # d
      <3>1. PICK id \in IdsOf(Carries[e]) : id \in events' /\ id \notin events
        BY <1>3, <2>3, DeliveryMovesItself DEF Heard
      <3>2. id \in IdsOf(Carries[d]) /\ events' # events
        BY <1>3, <3>1, DeliveryMovesItself
      <3>3. Target(d) = Target(e) /\ Carries[d].succeeded /\ HasTarget(d)
        BY <3>1, <3>2 DEF OneEventPerId, HasTarget
      <3> QED
        BY <1>3, <3>2, <3>3, AnswerIsProcessed
    <2> QED
      BY <2>1, <2>2, <2>3
  <1> QED
    BY <1>1, <1>2, <1>3 DEF WNext

\* Where event ids tell events apart, an answered success has moved its payment out of
\* PENDING (webhooks.service.ts:102 answers 'Already processed').
THEOREM SuccessIsProcessed == ASSUME OneEventPerId PROVE WSpec => []AnsweredSuccessIsProcessed
  <1>1. WInit => Processed
    BY WebhooksAssumption DEF WInit, RowsInit, Resting, Processed, Heard
  <1>2. WInv /\ Processed /\ [WNext]_vars => Processed'
    BY WNextKeepsProcessed
  <1>3. Processed => AnsweredSuccessIsProcessed
    BY DEF Processed, Heard, Left, Pending, AnsweredSuccessIsProcessed
  <1> QED
    BY <1>1, <1>2, <1>3, WInvariance, PTL DEF WSpec
=============================================================================
