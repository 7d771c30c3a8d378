------------------------- MODULE GatewaySessionsProofs -------------------------
(***************************************************************************)
(* Theorems about GatewaySessions, for any number of payments, sessions    *)
(* and calls.  What makes them inductive: while a payment is not spoiled,  *)
(* each session that may still bring money for it, and each call about to  *)
(* ask for one, has the amount of its row, and the row is PENDING.         *)
(***************************************************************************)
EXTENDS GatewaySessions, TLAPS

-----------------------------------------------------------------------------
(* The inductive invariant *)

CallOK(c) ==
    /\ call[c].step \in {"looked", "expired", "priced", "voiding"} => call[c].on \in Payments
    /\ call[c].step = "looked" => call[c].session \in Sessions

InFlight(s) == session[s].status = "OPEN" \/ (session[s].status = "PAID" /\ ~session[s].notified)

Settled(s) == session[s].status = "PAID" /\ session[s].notified

SessionOK(s) ==
    /\ session[s].status # "NONE" => session[s].payment \in Payments
    /\ session[s].status = "NONE" => session[s].payment = NoPayment
    /\ session[s].status \in {"NONE", "OPEN"} => ~session[s].notified

\* The row of p is as it was when amount was read from it.
Waits(p, amount) == payment[p].status = "PENDING" /\ payment[p].amount = amount

Posted(p, amount) == \E i \in DOMAIN ledger[p] : ledger[p][i] = Posting("CAPTURED", amount)

PaymentOK(p) ==
    /\ \A s \in Of(p) :
          /\ InFlight(s) => Waits(p, session[s].amount)
          /\ Settled(s) => Posted(p, session[s].amount) /\ payment[p].status \notin {"NONE", "PENDING"}
    /\ \A c \in Calls : call[c].step = "priced" /\ call[c].on = p => Waits(p, call[c].amount)
    /\ \A s, t \in Of(p) : Settled(s) /\ Settled(t) => s = t

TypeInv ==
    /\ SessionsTypeOK
    /\ \A c \in Calls : CallOK(c)
    /\ \A s \in Sessions : SessionOK(s)

IInv == TypeInv /\ \A p \in Payments \ spoiled : PaymentOK(p)

-----------------------------------------------------------------------------
(* The contract's operations *)

\* What every operation on the row of p does: the other rows stay, no entry is
\* lost, and a payment that has left PENDING does not come back.
Changes(p) ==
    /\ payment' \in [Payments -> Row]
    /\ ledger' \in [Payments -> Seq(Entry)]
    /\ \A q \in Payments \ {p} : payment'[q] = payment[q] /\ ledger'[q] = ledger[q]
    /\ \A amount \in Nat : Posted(p, amount) => Posted(p, amount)'
    /\ payment[p].status \notin {"NONE", "PENDING"} => payment'[p].status \notin {"NONE", "PENDING"}

LEMMA PostChanges ==
    ASSUME SessionsTypeOK, NEW p \in Payments, NEW row \in Row, NEW entries \in Seq(Entry),
           Post(p, row, entries),
           payment[p].status \notin {"NONE", "PENDING"} => row.status \notin {"NONE", "PENDING"}
    PROVE  Changes(p) /\ payment'[p] = row /\ ledger'[p] = ledger[p] \o entries
  <1>1. /\ payment' \in [Payments -> Row] /\ payment'[p] = row
        /\ \A q \in Payments \ {p} : payment'[q] = payment[q] /\ ledger'[q] = ledger[q]
        /\ ledger'[p] = ledger[p] \o entries /\ ledger[p] \in Seq(Entry)
    BY DEF Post, SessionsTypeOK
  <1>2. ledger[p] \o entries \in Seq(Entry)
    BY <1>1
  <1>3. ledger' \in [Payments -> Seq(Entry)]
    BY <1>2 DEF Post, SessionsTypeOK
  <1>4. \A i \in DOMAIN ledger[p] : i \in DOMAIN ledger'[p] /\ ledger'[p][i] = ledger[p][i]
    BY <1>1
  <1>5. \A amount \in Nat : Posted(p, amount) => Posted(p, amount)'
    BY <1>4 DEF Posted
  <1> QED
    BY <1>1, <1>3, <1>5 DEF Changes

LEMMA Entries ==
    /\ <<>> \in Seq(Entry)
    /\ \A type \in EntryType, amount \in Int : <<Posting(type, amount)>> \in Seq(Entry)
  <1>1. \A type \in EntryType, amount \in Int : Posting(type, amount) \in Entry
    BY DEF Posting, Entry
  <1> QED
    BY <1>1

LEMMA RowFields ==
    ASSUME SessionsTypeOK, NEW p \in Payments
    PROVE  /\ payment[p] \in Row /\ payment[p].amount \in Nat
           /\ -payment[p].amount \in Int
           /\ \A status \in Status : /\ [payment[p] EXCEPT !.status = status] \in Row
                                     /\ [payment[p] EXCEPT !.status = status].status = status
  <1>1. payment[p] \in Row /\ payment[p].amount \in Nat
    BY DEF SessionsTypeOK, Row
  <1>2. ASSUME NEW status \in Status
        PROVE  /\ [payment[p] EXCEPT !.status = status] \in Row
               /\ [payment[p] EXCEPT !.status = status].status = status
    BY <1>1 DEF Row
  <1> QED
    BY <1>1, <1>2

LEMMA ClerkChanges ==
    ASSUME SessionsTypeOK, NEW p \in Payments, Clerk(p)
    PROVE  Changes(p)
  <1> USE PaymentTypesAssumption, RowFields, Entries
  <1>1. ASSUME NEW a \in Amounts, NEW channel \in Channel, Create(p, a, channel, NoKey)
        PROVE  Changes(p)
    <2>1. NewRow(a, channel, NoKey) \in Row
      BY DEF NewRow, Unwritten, Row, Status, Channel
    <2>2. <<Posting("PAYMENT_CREATED", a)>> \in Seq(Entry)
      BY DEF EntryType
    <2>3. payment[p].status = "NONE" /\ Post(p, NewRow(a, channel, NoKey), <<Posting("PAYMENT_CREATED", a)>>)
      BY <1>1 DEF Create
    <2> QED
      BY <2>1, <2>2, <2>3, PostChanges
  <1>2. ASSUME NEW a \in Amounts, Edit(p, a)
        PROVE  Changes(p)
    <2>1. [payment[p] EXCEPT !.amount = a] \in Row
      BY DEF Row
    <2> QED
      BY <1>2, <2>1, PostChanges DEF Edit
  <1>3. CASE Void(p)
    <2>1. /\ [payment[p] EXCEPT !.status = "VOIDED"] \in Row
          /\ [payment[p] EXCEPT !.status = "VOIDED"].status = "VOIDED"
          /\ <<Posting("VOIDED", -payment[p].amount)>> \in Seq(Entry)
      BY DEF Status, EntryType
    <2>2. Post(p, [payment[p] EXCEPT !.status = "VOIDED"], <<Posting("VOIDED", -payment[p].amount)>>)
      BY <1>3 DEF Void
    <2> QED
      BY <2>1, <2>2, PostChanges
  <1>4. CASE Capture(p, TRUE)
    <2>1. /\ [payment[p] EXCEPT !.status = "CAPTURED", !.feeBase = payment[p].amount] \in Row
          /\ [payment[p] EXCEPT !.status = "CAPTURED", !.feeBase = payment[p].amount].status = "CAPTURED"
      BY DEF Row, Status
    <2>2. <<Posting("CAPTURED", payment[p].amount)>> \in Seq(Entry)
      BY DEF EntryType
    <2>3. Post(p, [payment[p] EXCEPT !.status = "CAPTURED", !.feeBase = payment[p].amount],
                  <<Posting("CAPTURED", payment[p].amount)>>)
      BY <1>4 DEF Capture
    <2> QED
      BY <2>1, <2>2, <2>3, PostChanges
  <1> QED
    BY <1>1, <1>2, <1>3, <1>4 DEF Clerk

-----------------------------------------------------------------------------
(* Steps *)

LEMMA InitIInv == SessionsInit => IInv
  <1> SUFFICES ASSUME SessionsInit
               PROVE  IInv
    OBVIOUS
  <1> USE PaymentTypesAssumption, SessionsAssumption DEF SessionsInit, Init
  <1>1. Unwritten \in Row /\ NotCreated \in Session /\ NotCalled \in Call
    BY DEF Unwritten, Row, Status, Channel, NotCreated, Session, NotCalled, Call
  <1>2. SessionsTypeOK
    BY <1>1, Entries DEF SessionsTypeOK
  <1>3. \A c \in Calls : call[c].step = "new"
    BY DEF NotCalled
  <1>4. \A s \in Sessions : /\ session[s].status = "NONE" /\ session[s].payment = NoPayment
                            /\ ~session[s].notified
    BY DEF NotCreated
  <1>5. \A c \in Calls : CallOK(c)
    BY <1>3 DEF CallOK
  <1>6. \A s \in Sessions : SessionOK(s)
    BY <1>4 DEF SessionOK
  <1>7. \A p \in Payments : PaymentOK(p)
    BY <1>3, <1>4 DEF PaymentOK, Of
  <1> QED
    BY <1>2, <1>5, <1>6, <1>7 DEF IInv, TypeInv

\* A payment nothing was on its way for, whose row changes.
LEMMA RowStep ==
    ASSUME IInv, NEW p \in Payments, Changes(p), Spoils(p, NoSession), session' = session,
           call' \in [Calls -> Call], \A c \in Calls : CallOK(c)',
           \A c \in Calls : call'[c] = call[c] \/ call'[c].step # "priced"
    PROVE  IInv'
  <1>1. TypeInv'
    BY DEF IInv, TypeInv, SessionsTypeOK, Changes, Spoils, SessionOK
  <1>2. ASSUME NEW q \in Payments \ spoiled'
        PROVE  PaymentOK(q)'
    <2>1. PaymentOK(q) /\ \A s \in Sessions : session[s].amount \in Nat
      BY <1>2 DEF IInv, Spoils, TypeInv, SessionsTypeOK, Session
    <2>2. /\ Of(q)' = Of(q)
          /\ \A s \in Sessions : (InFlight(s)' <=> InFlight(s)) /\ (Settled(s)' <=> Settled(s))
      BY DEF Of, InFlight, Settled
    <2>3. CASE q # p
      BY <2>1, <2>2, <2>3 DEF PaymentOK, Changes, Waits, Posted, Of
    <2>4. CASE q = p
      <3>1. ~OnTheWay(p, NoSession)
        BY <2>4 DEF Spoils
      <3>2. /\ \A s \in Of(p) : ~InFlight(s)
            /\ \A c \in Calls : ~(call[c].step = "priced" /\ call[c].on = p)
        BY <3>1, SessionsAssumption DEF OnTheWay, InFlight, Of
      <3> QED
        BY <2>1, <2>2, <2>4, <3>2 DEF PaymentOK, Changes, Of
    <2> QED
      BY <2>3, <2>4
  <1> QED
    BY <1>1, <1>2 DEF IInv

LEMMA ClerkStep == ASSUME IInv, NEW p \in Payments, Clerk(p) PROVE IInv'
  <1>1. SessionsTypeOK /\ Spoils(p, NoSession) /\ session' = session /\ call' = call
    BY DEF IInv, TypeInv, Clerk
  <1>2. call' \in [Calls -> Call] /\ \A c \in Calls : CallOK(c)'
    BY <1>1 DEF IInv, TypeInv, SessionsTypeOK, CallOK
  <1> QED
    BY <1>1, <1>2, ClerkChanges, RowStep

LEMMA CancelVoidStep == ASSUME IInv, NEW c \in Calls, CancelVoid(c) PROVE IInv'
  <1> DEFINE p == call[c].on
             row == [payment[p] EXCEPT !.status = "VOIDED"]
             entries == <<Posting("VOIDED", -payment[p].amount)>>
  <1>1. SessionsTypeOK /\ p \in Payments
    BY DEF IInv, TypeInv, CancelVoid, CallOK
  <1>2. Post(p, row, entries) /\ Spoils(p, NoSession) /\ session' = session
    BY DEF CancelVoid
  <1>3. row \in Row /\ row.status = "VOIDED" /\ entries \in Seq(Entry)
    BY <1>1, RowFields, Entries DEF Status, EntryType
  <1>4. Changes(p)
    BY <1>1, <1>2, <1>3, PostChanges
  <1>5. /\ call' \in [Calls -> Call] /\ call'[c].step = "answered"
        /\ \A d \in Calls \ {c} : call'[d] = call[d]
    BY <1>1 DEF CancelVoid, SessionsTypeOK, Call
  <1>6. \A d \in Calls : CallOK(d)'
    BY <1>5 DEF IInv, TypeInv, CallOK
  <1> QED
    BY <1>1, <1>2, <1>4, <1>5, <1>6, RowStep

\* A step that leaves the tables alone: sessions may end, and a call may have read
\* a row.
LEMMA QuietStep ==
    ASSUME IInv, UNCHANGED <<payment, ledger, spoiled>>,
           session' \in [Sessions -> Session], call' \in [Calls -> Call],
           \A c \in Calls : CallOK(c)',
           \A s \in Sessions :
              \/ session'[s] = session[s]
              \/ /\ session[s].status = "OPEN" /\ session'[s].status \in {"PAID", "EXPIRED"}
                 /\ session'[s].payment = session[s].payment
                 /\ session'[s].amount = session[s].amount
                 /\ session'[s].notified = session[s].notified,
           \A c \in Calls :
              call'[c] = call[c] \/ (call'[c].step = "priced" => Waits(call'[c].on, call'[c].amount))
    PROVE  IInv'
  <1>1. \A s \in Sessions : SessionOK(s)'
    BY DEF IInv, TypeInv, SessionOK
  <1>2. TypeInv'
    BY <1>1 DEF IInv, TypeInv, SessionsTypeOK
  <1>3. ASSUME NEW p \in Payments \ spoiled'
        PROVE  PaymentOK(p)'
    <2>1. PaymentOK(p)
      BY DEF IInv
    <2>2. \A s \in Sessions : /\ InFlight(s)' => InFlight(s)
                              /\ Settled(s)' => Settled(s)
                              /\ session'[s].amount = session[s].amount
                              /\ s \in Of(p)' <=> s \in Of(p)
      BY DEF IInv, TypeInv, SessionOK, InFlight, Settled, Of
    <2>3. \A s \in Of(p)' : s \in Of(p) /\ s \in Sessions
      BY <2>2 DEF Of
    <2>4. \A s \in Of(p)' :
             /\ InFlight(s)' => Waits(p, session[s].amount)'
             /\ Settled(s)' => Posted(p, session[s].amount)' /\ payment'[p].status \notin {"NONE", "PENDING"}
      BY <2>1, <2>2, <2>3 DEF PaymentOK, Waits, Posted
    <2>5. ASSUME NEW c \in Calls, call'[c].step = "priced", call'[c].on = p
          PROVE  Waits(p, call[c].amount)'
      BY <2>1, <2>5 DEF PaymentOK, Waits
    <2>6. \A s, t \in Of(p)' : Settled(s)' /\ Settled(t)' => s = t
      BY <2>1, <2>2, <2>3 DEF PaymentOK
    <2> QED
      BY <2>4, <2>5, <2>6 DEF PaymentOK
  <1> QED
    BY <1>2, <1>3 DEF IInv

\* Price, in either of its two calls.
LEMMA PriceStep ==
    ASSUME IInv, NEW c \in Calls, NEW op \in {"create", "retry"}, NEW p \in Payments,
           Price(c, op, p), UNCHANGED <<payment, ledger, session, spoiled>>
    PROVE  IInv'
  <1>1. SessionsTypeOK /\ call[c] \in Call /\ payment[p].amount \in Nat
    BY RowFields DEF IInv, TypeInv, SessionsTypeOK
  <1>2. /\ \A d \in Calls \ {c} : call'[d] = call[d]
        /\ call'[c] \in Call /\ call'[c].on = p /\ call'[c].step \in {"priced", "refused"}
        /\ call'[c].step = "priced" => Sellable(payment[p]) /\ call'[c].amount = payment[p].amount
    BY <1>1 DEF Price, SessionsTypeOK, Call
  <1>3. call' \in [Calls -> Call]
    BY <1>1, <1>2 DEF Price, SessionsTypeOK
  <1>4. \A d \in Calls : CallOK(d)'
    BY <1>2 DEF IInv, TypeInv, CallOK
  <1>5. call'[c].step = "priced" => Waits(call'[c].on, call'[c].amount)
    BY <1>2 DEF Sellable, Waits
  <1> QED
    BY <1>1, <1>2, <1>3, <1>4, <1>5, QuietStep DEF SessionsTypeOK

LEMMA LookupStep ==
    ASSUME IInv, NEW c \in Calls, NEW op \in {"cancel", "retry"}, NEW p \in Payments,
           SessionLookup(c, op, p)
    PROVE  IInv'
  <1>1. SessionsTypeOK /\ UNCHANGED <<payment, ledger, session, spoiled>>
    BY DEF IInv, TypeInv, SessionLookup, contractVars
  <1>2. /\ \A d \in Calls \ {c} : call'[d] = call[d]
        /\ call'[c] \in Call /\ call'[c].on = p /\ call'[c].step \in {"looked", "refused"}
        /\ call'[c].step = "looked" => call'[c].session \in Sessions
    <2>1. CASE \E s \in Invoices(p) :
                  call' = [call EXCEPT ![c] = [NotCalled EXCEPT !.op = op, !.step = "looked",
                               !.on = p, !.session = s, !.open = (session[s].status = "OPEN")]]
      <3>1. PICK s \in Sessions :
                  call' = [call EXCEPT ![c] = [NotCalled EXCEPT !.op = op, !.step = "looked",
                               !.on = p, !.session = s, !.open = (session[s].status = "OPEN")]]
        BY <2>1 DEF Invoices, Of
      <3> QED
        BY <1>1, <3>1 DEF NotCalled, Call, SessionsTypeOK
    <2>2. CASE call' = [call EXCEPT ![c] = [NotCalled EXCEPT !.op = op, !.step = "refused", !.on = p]]
      BY <1>1, <2>2 DEF NotCalled, Call, SessionsTypeOK
    <2> QED
      BY <2>1, <2>2 DEF SessionLookup
  <1>3. call' \in [Calls -> Call]
    <2>1. DOMAIN call' = Calls
      BY <1>1 DEF SessionLookup, SessionsTypeOK
    <2>2. call' = [d \in Calls |-> call'[d]]
      BY <1>1, <2>1 DEF SessionLookup, SessionsTypeOK
    <2>3. \A d \in Calls : call'[d] \in Call
      BY <1>1, <1>2 DEF SessionsTypeOK
    <2> QED
      BY <2>2, <2>3
  <1>4. \A d \in Calls : CallOK(d)'
    BY <1>2 DEF IInv, TypeInv, CallOK
  <1> QED
    BY <1>1, <1>2, <1>3, <1>4, QuietStep DEF SessionsTypeOK

LEMMA FailStep == ASSUME IInv, NEW c \in Calls, CallFails(c) PROVE IInv'
  <1>1. SessionsTypeOK /\ UNCHANGED <<payment, ledger, session, spoiled>>
    BY DEF IInv, TypeInv, CallFails, contractVars
  <1>2. /\ \A d \in Calls \ {c} : call'[d] = call[d]
        /\ call' \in [Calls -> Call] /\ call'[c].step = "failed"
    <2>1. [call[c] EXCEPT !.step = "failed"] \in Call
      BY <1>1 DEF SessionsTypeOK, Call
    <2>2. call' = [call EXCEPT ![c] = [call[c] EXCEPT !.step = "failed"]]
      BY <1>1 DEF CallFails, SessionsTypeOK
    <2> QED
      BY <1>1, <2>1, <2>2 DEF SessionsTypeOK, Call
  <1>3. \A d \in Calls : CallOK(d)'
    BY <1>2 DEF IInv, TypeInv, CallOK
  <1> QED
    BY <1>1, <1>2, <1>3, QuietStep DEF SessionsTypeOK

LEMMA ExpireStep == ASSUME IInv, NEW c \in Calls, Expire(c) PROVE IInv'
  <1> DEFINE s0 == call[c].session
  <1>1. /\ SessionsTypeOK /\ UNCHANGED <<payment, ledger, spoiled>> /\ s0 \in Sessions
        /\ call[c].step = "looked" /\ call[c].on \in Payments
    BY DEF IInv, TypeInv, Expire, contractVars, CallOK
  <1>2. /\ \A d \in Calls \ {c} : call'[d] = call[d]
        /\ call' \in [Calls -> Call] /\ call'[c].step \in {"expired", "voiding"}
        /\ call'[c].on = call[c].on
    <2>1. PICK step \in {"expired", "voiding"} :
             call' = [call EXCEPT ![c] = [call[c] EXCEPT !.step = step]]
      BY <1>1 DEF Expire, SessionsTypeOK
    <2>2. call[c] \in Call /\ [call[c] EXCEPT !.step = step] \in Call
      BY <1>1, <2>1 DEF SessionsTypeOK, Call
    <2> QED
      BY <1>1, <2>1, <2>2 DEF SessionsTypeOK, Call
  <1>3. \A d \in Calls : CallOK(d)'
    BY <1>1, <1>2 DEF IInv, TypeInv, CallOK
  <1>4. \/ session' = session
        \/ /\ session[s0].status = "OPEN"
           /\ session' = [session EXCEPT ![s0] = [session[s0] EXCEPT !.status = "EXPIRED"]]
    BY <1>1 DEF Expire, SessionsTypeOK
  <1>5. session[s0] \in Session /\ [session[s0] EXCEPT !.status = "EXPIRED"] \in Session
    <2>1. session[s0] \in Session
      BY <1>1 DEF SessionsTypeOK
    <2> QED
      BY <2>1 DEF Session
  <1>6. /\ session' \in [Sessions -> Session]
        /\ \A s \in Sessions :
              \/ session'[s] = session[s]
              \/ /\ session[s].status = "OPEN"
                 /\ session'[s] = [session[s] EXCEPT !.status = "EXPIRED"]
    BY <1>1, <1>4, <1>5 DEF SessionsTypeOK
  <1>7. \A s \in Sessions : session[s] \in Session
    BY <1>1 DEF SessionsTypeOK
  <1>8. \A s \in Sessions :
           \/ session'[s] = session[s]
           \/ /\ session[s].status = "OPEN" /\ session'[s].status \in {"PAID", "EXPIRED"}
              /\ session'[s].payment = session[s].payment
              /\ session'[s].amount = session[s].amount
              /\ session'[s].notified = session[s].notified
    BY <1>6, <1>7 DEF Session
  <1> QED
    BY <1>1, <1>2, <1>3, <1>6, <1>8, QuietStep

LEMMA EndStep ==
    ASSUME IInv, NEW s \in Sessions, CustomerPays(s) \/ Lapses(s)
    PROVE  IInv'
  <1>1. /\ SessionsTypeOK /\ UNCHANGED <<payment, ledger, call, spoiled>>
        /\ session[s].status = "OPEN" /\ session[s] \in Session
    BY DEF IInv, TypeInv, SessionsTypeOK, CustomerPays, Lapses, contractVars
  <1>2. PICK status \in {"PAID", "EXPIRED"} :
           session' = [session EXCEPT ![s] = [session[s] EXCEPT !.status = status]]
    BY <1>1 DEF CustomerPays, Lapses, SessionsTypeOK
  <1>3. [session[s] EXCEPT !.status = status] \in Session
    BY <1>1, <1>2 DEF Session
  <1>4. /\ session' \in [Sessions -> Session]
        /\ \A t \in Sessions \ {s} : session'[t] = session[t]
        /\ session'[s].status \in {"PAID", "EXPIRED"} /\ session'[s].payment = session[s].payment
        /\ session'[s].amount = session[s].amount /\ session'[s].notified = session[s].notified
    BY <1>1, <1>2, <1>3 DEF SessionsTypeOK, Session
  <1>5. \A c \in Calls : CallOK(c)'
    BY <1>1 DEF IInv, TypeInv, CallOK
  <1> QED
    BY <1>1, <1>4, <1>5, QuietStep DEF SessionsTypeOK

LEMMA CreateSendStep ==
    ASSUME IInv, NEW c \in Calls, NEW s \in Sessions, NEW kind \in {"invoice", "direct"},
           NEW result \in {"answered", "failed"}, CreateSend(c, s, kind, result)
    PROVE  IInv'
  <1> DEFINE p == call[c].on
             new == [NotCreated EXCEPT !.status = "OPEN", !.kind = kind,
                         !.payment = p, !.amount = call[c].amount]
  <1>1. /\ SessionsTypeOK /\ UNCHANGED <<payment, ledger, spoiled>> /\ p \in Payments
        /\ call[c].step = "priced" /\ call[c] \in Call /\ call[c].amount \in Nat
        /\ session[s].payment = NoPayment
    BY DEF IInv, TypeInv, SessionsTypeOK, CreateSend, contractVars, CallOK, SessionOK, Call
  <1>2. new \in Session /\ new.status = "OPEN" /\ new.payment = p /\ new.amount = call[c].amount
        /\ ~new.notified
    BY <1>1 DEF NotCreated, Session
  <1>3. /\ session' \in [Sessions -> Session] /\ session'[s] = new
        /\ \A t \in Sessions \ {s} : session'[t] = session[t]
    BY <1>1, <1>2 DEF CreateSend, SessionsTypeOK
  <1>4. [call[c] EXCEPT !.step = result] \in Call
    BY <1>1 DEF Call
  <1>5. /\ call' \in [Calls -> Call] /\ call'[c].step = result
        /\ \A d \in Calls \ {c} : call'[d] = call[d]
    BY <1>1, <1>4 DEF CreateSend, SessionsTypeOK, Call
  <1>6. TypeInv'
    <2>1. \A d \in Calls : CallOK(d)'
      BY <1>5 DEF IInv, TypeInv, CallOK
    <2>2. \A t \in Sessions : SessionOK(t)'
      BY <1>1, <1>2, <1>3 DEF IInv, TypeInv, SessionOK
    <2> QED
      BY <1>1, <1>3, <1>5, <2>1, <2>2 DEF TypeInv, SessionsTypeOK
  <1>7. ASSUME NEW q \in Payments \ spoiled'
        PROVE  PaymentOK(q)'
    <2>1. PaymentOK(q)
      BY <1>1 DEF IInv
    <2>2. /\ \A t \in Of(q)' : t = s \/ (t \in Of(q) /\ t \in Sessions \ {s})
          /\ s \in Of(q)' => q = p
          /\ InFlight(s)' /\ ~Settled(s)'
      BY <1>1, <1>2, <1>3 DEF Of, InFlight, Settled
    <2>3. \A t \in Sessions \ {s} : /\ InFlight(t)' <=> InFlight(t)
                                    /\ Settled(t)' <=> Settled(t)
                                    /\ session'[t].amount = session[t].amount
      BY <1>3 DEF InFlight, Settled
    <2>4. q = p => Waits(q, session[s].amount)'
      BY <1>1, <1>2, <1>3, <2>1 DEF PaymentOK, Waits
    <2>5. \A t \in Of(q)' :
             /\ InFlight(t)' => Waits(q, session[t].amount)'
             /\ Settled(t)' => Posted(q, session[t].amount)' /\ payment'[q].status \notin {"NONE", "PENDING"}
      BY <1>1, <2>1, <2>2, <2>3, <2>4 DEF PaymentOK, Waits, Posted
    <2>6. ASSUME NEW d \in Calls, call'[d].step = "priced", call'[d].on = q
          PROVE  Waits(q, call[d].amount)'
      BY <1>1, <1>5, <2>1, <2>6 DEF PaymentOK, Waits
    <2>7. \A t, u \in Of(q)' : Settled(t)' /\ Settled(u)' => t = u
      BY <2>1, <2>2, <2>3 DEF PaymentOK
    <2> QED
      BY <2>5, <2>6, <2>7 DEF PaymentOK
  <1> QED
    BY <1>6, <1>7 DEF IInv

LEMMA PaysLateStep == ASSUME IInv, NEW s \in Sessions, PaysLate(s) PROVE IInv'
  <1> DEFINE p == session[s].payment
  <1>1. /\ SessionsTypeOK /\ UNCHANGED <<payment, ledger, call>> /\ p \in Payments
        /\ session[s] \in Session /\ spoiled' = spoiled \cup {p}
    BY DEF IInv, TypeInv, SessionsTypeOK, PaysLate, contractVars, SessionOK
  <1>2. [session[s] EXCEPT !.status = "PAID", !.notified = FALSE] \in Session
    BY <1>1 DEF Session
  <1>3. session' = [session EXCEPT ![s] = [session[s] EXCEPT !.status = "PAID", !.notified = FALSE]]
    BY <1>1 DEF PaysLate, SessionsTypeOK
  <1>4. /\ session' \in [Sessions -> Session]
        /\ session'[s].status = "PAID" /\ session'[s].payment = p
        /\ \A t \in Sessions \ {s} : session'[t] = session[t]
    BY <1>1, <1>2, <1>3 DEF SessionsTypeOK, Session
  <1>5. TypeInv'
    BY <1>1, <1>4 DEF IInv, TypeInv, SessionsTypeOK, CallOK, SessionOK
  <1>6. ASSUME NEW q \in Payments \ spoiled'
        PROVE  PaymentOK(q)'
    <2>1. PaymentOK(q) /\ q # p
      BY <1>1 DEF IInv
    <2>2. \A t \in Of(q)' : t \in Of(q) /\ session'[t] = session[t]
      BY <1>4, <2>1 DEF Of
    <2> QED
      BY <1>1, <2>1, <2>2 DEF PaymentOK, InFlight, Settled, Waits, Posted
  <1> QED
    BY <1>5, <1>6 DEF IInv

\* The end of a session reaches the program.
LEMMA NotifyStep == ASSUME IInv, NEW s \in Sessions, Notify(s) PROVE IInv'
  <1>0. PICK p \in Payments : p = session[s].payment
    BY DEF IInv, TypeInv, SessionOK, Notify
  <1>1. /\ SessionsTypeOK /\ call' = call /\ session[s] \in Session /\ s \in Of(p)
        /\ session[s].status \in {"PAID", "EXPIRED"} /\ ~session[s].notified
    BY <1>0 DEF IInv, TypeInv, SessionsTypeOK, Notify, Of
  <1>2. /\ session' \in [Sessions -> Session]
        /\ session'[s].status = session[s].status /\ session'[s].payment = p
        /\ session'[s].amount = session[s].amount /\ session'[s].notified
        /\ \A t \in Sessions \ {s} : session'[t] = session[t]
    <2>1. [session[s] EXCEPT !.notified = TRUE] \in Session
      BY <1>1 DEF Session
    <2>2. session' = [session EXCEPT ![s] = [session[s] EXCEPT !.notified = TRUE]]
      BY <1>1 DEF Notify, SessionsTypeOK
    <2> QED
      BY <1>0, <1>1, <2>1, <2>2 DEF SessionsTypeOK, Session
  <1>3. \A q \in Payments : \A t \in Of(q)' : t \in Of(q)
    BY <1>0, <1>2 DEF Of
  <1>4. CASE payment[p].status # "PENDING"
    <2>1. UNCHANGED <<payment, ledger, spoiled>>
      BY <1>0, <1>4 DEF Notify, contractVars
    <2>2. TypeInv'
      BY <1>1, <1>2, <2>1 DEF IInv, TypeInv, SessionsTypeOK, CallOK, SessionOK
    <2>3. ASSUME NEW q \in Payments \ spoiled'
          PROVE  PaymentOK(q)'
      <3>1. PaymentOK(q)
        BY <2>1 DEF IInv
      <3>2. q = p => session[s].status = "EXPIRED"
        BY <1>1, <1>4, <3>1 DEF PaymentOK, InFlight, Waits
      <3>3. \A t \in Of(q)' : /\ InFlight(t)' => InFlight(t)
                              /\ Settled(t)' => Settled(t)
                              /\ session'[t].amount = session[t].amount
        BY <1>0, <1>2, <1>3, <3>2 DEF InFlight, Settled, Of
      <3> QED
        BY <1>1, <1>3, <2>1, <3>1, <3>3 DEF PaymentOK, Waits, Posted
    <2> QED
      BY <2>2, <2>3 DEF IInv
  <1>5. CASE payment[p].status = "PENDING"
    <2>1. Settle(s, p) /\ Spoils(p, s)
      BY <1>0, <1>5 DEF Notify
    <2>2. /\ Changes(p) /\ payment'[p].status \notin {"NONE", "PENDING"}
          /\ session[s].status = "PAID" =>
                \E i \in DOMAIN ledger'[p] : ledger'[p][i] = Posting("CAPTURED", payment[p].amount)
      <3>1. CASE Fail(p)
        <4>1. session[s].status # "PAID" \/ Capture(p, TRUE)
          BY <2>1 DEF Settle
        <4>2. Post(p, [payment[p] EXCEPT !.status = "FAILED"], <<>>)
          BY <3>1 DEF Fail
        <4>3. /\ [payment[p] EXCEPT !.status = "FAILED"] \in Row
              /\ [payment[p] EXCEPT !.status = "FAILED"].status = "FAILED"
          BY <1>1, RowFields DEF Status
        <4>4. Changes(p) /\ payment'[p].status = "FAILED"
          BY <1>1, <4>2, <4>3, PostChanges, Entries
        <4>5. ~Capture(p, TRUE)
          <5>1. Capture(p, TRUE) => payment'[p].status = "CAPTURED"
            BY <1>1, RowFields DEF Capture, Post, SessionsTypeOK, Row
          <5> QED
            BY <4>4, <5>1
        <4> QED
          BY <4>1, <4>4, <4>5
      <3>2. CASE Capture(p, TRUE)
        <4> DEFINE row == [payment[p] EXCEPT !.status = "CAPTURED", !.feeBase = payment[p].amount]
                   entries == <<Posting("CAPTURED", payment[p].amount)>>
        <4>1. Post(p, row, entries)
          BY <3>2 DEF Capture
        <4>2. row \in Row /\ row.status = "CAPTURED"
          <5>1. payment[p] \in Row /\ payment[p].amount \in Nat
            BY <1>1, RowFields
          <5> QED
            BY <5>1 DEF Row, Status
        <4>3. entries \in Seq(Entry) /\ Posting("CAPTURED", payment[p].amount) \in Entry
          BY <1>1, RowFields, Entries DEF EntryType, Posting, Entry
        <4>4. Changes(p) /\ payment'[p] = row /\ ledger'[p] = ledger[p] \o entries
          BY <1>1, <4>1, <4>2, <4>3, PostChanges
        <4>5. /\ Len(ledger[p]) + 1 \in DOMAIN ledger'[p]
              /\ ledger'[p][Len(ledger[p]) + 1] = Posting("CAPTURED", payment[p].amount)
          BY <1>1, <4>3, <4>4 DEF SessionsTypeOK
        <4> QED
          BY <4>2, <4>4, <4>5
      <3> QED
        BY <2>1, <3>1, <3>2 DEF Settle
    <2>3. TypeInv'
      BY <1>1, <1>2, <2>1, <2>2 DEF IInv, TypeInv, SessionsTypeOK, CallOK, SessionOK, Changes, Spoils
    <2>4. ASSUME NEW q \in Payments \ spoiled', q # p
          PROVE  PaymentOK(q)'
      <3>1. PaymentOK(q) /\ payment'[q] = payment[q] /\ ledger'[q] = ledger[q]
        BY <2>1, <2>2, <2>4 DEF IInv, Spoils, Changes
      <3>2. \A t \in Of(q)' : t \in Of(q) /\ session'[t] = session[t]
        BY <1>0, <1>2, <1>3, <2>4 DEF Of
      <3> QED
        BY <1>1, <3>1, <3>2 DEF PaymentOK, InFlight, Settled, Waits, Posted
    <2>5. ASSUME p \notin spoiled'
          PROVE  PaymentOK(p)'
      <3>1. PaymentOK(p) /\ ~OnTheWay(p, s)
        BY <1>1, <2>1, <2>5 DEF IInv, Spoils
      <3>2. \A c \in Calls : ~(call[c].step = "priced" /\ call[c].on = p)
        BY <3>1 DEF OnTheWay
      <3>3. \A t \in Of(p) \ {s} : ~InFlight(t) /\ ~Settled(t)
        BY <1>5, <3>1 DEF PaymentOK, OnTheWay, InFlight
      <3>4. \A t \in Of(p)' : t # s => ~InFlight(t)' /\ ~Settled(t)'
        BY <1>2, <1>3, <3>3 DEF InFlight, Settled, Of
      <3>5. ~InFlight(s)'
        BY <1>1, <1>2 DEF InFlight
      <3>6. session[s].status = "PAID" => session[s].amount = payment[p].amount
        BY <1>1, <3>1 DEF PaymentOK, Waits, InFlight
      <3>7. Settled(s)' => Posted(p, session[s].amount)'
        <4>1. Settled(s)' => session[s].status = "PAID" /\ session'[s].amount = payment[p].amount
          BY <1>2, <3>6 DEF Settled
        <4> QED
          BY <2>2, <4>1 DEF Posted
      <3> QED
        BY <1>1, <2>2, <3>2, <3>4, <3>5, <3>7 DEF PaymentOK
    <2> QED
      BY <2>3, <2>4, <2>5 DEF IInv
  <1> QED
    BY <1>4, <1>5

LEMMA NextIInv == IInv /\ [SessionsNext]_vars => IInv'
  <1> SUFFICES ASSUME IInv, [SessionsNext]_vars
               PROVE  IInv'
    OBVIOUS
  <1>1. CASE UNCHANGED vars
    <2>1. UNCHANGED <<payment, ledger, session, call, spoiled>>
      BY <1>1 DEF vars, contractVars, sessionVars
    <2>2. session' \in [Sessions -> Session] /\ call' \in [Calls -> Call] /\ \A c \in Calls : CallOK(c)'
      BY <2>1 DEF IInv, TypeInv, SessionsTypeOK, CallOK
    <2> QED
      BY <2>1, <2>2, QuietStep
  <1>2. ASSUME NEW p \in Payments, NEW c \in Calls, CreateSelect(c, p)
        PROVE  IInv'
    BY <1>2, PriceStep DEF CreateSelect, contractVars
  <1>3. ASSUME NEW c \in Calls, RetrySelect(c)
        PROVE  IInv'
    <2>1. call[c].on \in Payments
      BY <1>3 DEF IInv, TypeInv, CallOK, RetrySelect
    <2> QED
      BY <1>3, <2>1, PriceStep DEF RetrySelect, contractVars
  <1> QED
    BY <1>1, <1>2, <1>3, ClerkStep, LookupStep, FailStep, CreateSendStep, ExpireStep,
       CancelVoidStep, EndStep, PaysLateStep, NotifyStep DEF SessionsNext, Handle

LEMMA IInvHolds == SessionsSpec => []IInv
  BY InitIInv, NextIInv, PTL DEF SessionsSpec

-----------------------------------------------------------------------------
(* Theorems *)

(***************************************************************************)
(* The tables, the sessions and the calls keep their types.                *)
(***************************************************************************)
THEOREM SessionsTypeCorrect == SessionsSpec => []SessionsTypeOK
  <1>1. IInv => SessionsTypeOK
    BY DEF IInv, TypeInv
  <1> QED
    BY IInvHolds, <1>1, PTL

(***************************************************************************)
(* When the end of a paid session has been notified, exactly the amount    *)
(* the customer paid is posted to its payment, unless the row changed      *)
(* while money may have been on its way (gateway.service.ts:63).           *)
(***************************************************************************)
THEOREM PaidIsPostedAlways == SessionsSpec => []PaidIsPosted
  <1>1. IInv => PaidIsPosted
    <2> SUFFICES ASSUME IInv, NEW s \in Sessions, session[s].status = "PAID", session[s].notified,
                        session[s].payment \notin spoiled
                 PROVE  \E i \in DOMAIN ledger[session[s].payment] :
                           ledger[session[s].payment][i] = Posting("CAPTURED", session[s].amount)
      BY DEF PaidIsPosted
    <2>1. session[s].payment \in Payments \ spoiled /\ s \in Of(session[s].payment)
      BY DEF IInv, TypeInv, SessionOK, Of
    <2>2. Posted(session[s].payment, session[s].amount)
      BY <2>1 DEF IInv, PaymentOK, Settled
    <2> QED
      BY <2>2 DEF Posted
  <1> QED
    BY IInvHolds, <1>1, PTL

(***************************************************************************)
(* A customer who has paid once is not charged by a second session of the  *)
(* same payment (gateway.service.ts:90), unless it is spoiled.             *)
(***************************************************************************)
THEOREM NoSecondChargeAlways == SessionsSpec => []NoSecondCharge
  <1>1. IInv => NoSecondCharge
    <2> SUFFICES ASSUME IInv, NEW s \in Sessions, NEW u \in Sessions, Settled(s), Settled(u),
                        session[s].payment = session[u].payment, session[s].payment \notin spoiled
                 PROVE  s = u
      BY DEF NoSecondCharge, Settled
    <2>1. /\ session[s].payment \in Payments \ spoiled
          /\ s \in Of(session[s].payment) /\ u \in Of(session[s].payment)
      BY DEF IInv, TypeInv, SessionOK, Settled, Of
    <2> QED
      BY <2>1 DEF IInv, PaymentOK
  <1> QED
    BY IInvHolds, <1>1, PTL
==============================================================================
