---------------------------- MODULE GatewaySessions ----------------------------
(***************************************************************************)
(* gateway/gateway.service.ts: the checkout sessions a payment is paid     *)
(* through.  A session lives at the gateway (external), of which this      *)
(* program keeps no record: it asks the gateway for the invoices that name *)
(* the payment.  A handler is a read of the payment or of the gateway, and *)
(* what follows from it some awaits later.  The payment's own handlers,    *)
(* and the webhook that tells how a session ended, are the indivisible     *)
(* operations of PaymentContract, which Webhooks implements.               *)
(***************************************************************************)
EXTENDS PaymentContract

CONSTANTS
    Sessions,      \* the session ids the gateway ever hands out
    NoSession,     \* the session of a call that has none
    Calls          \* the calls of these handlers, each at most once

ASSUME SessionsAssumption == NoSession \notin Sessions

VARIABLES
    session,       \* [Sessions -> Session], kept by the gateway
    call,          \* [Calls -> Call]
    spoiled        \* history: payments whose row changed while money for it may
                   \* have been on its way, or that were paid after an expiry

sessionVars == <<session, call, spoiled>>
vars == <<contractVars, sessionVars>>

\* An invoice is a hosted page; a "direct" session is a payment request.
Session == [status : {"NONE", "OPEN", "PAID", "EXPIRED"}, kind : {"invoice", "direct"},
            payment : Payments \cup {NoPayment}, amount : Nat, notified : BOOLEAN]

NotCreated == [status |-> "NONE", kind |-> "invoice", payment |-> NoPayment,
               amount |-> 0, notified |-> FALSE]

Call == [op : {"none", "create", "cancel", "retry"},
         step : {"new", "looked", "expired", "priced", "voiding", "answered", "refused", "failed"},
         on : Payments \cup {NoPayment}, session : Sessions \cup {NoSession},
         open : BOOLEAN, amount : Nat]

NotCalled == [op |-> "none", step |-> "new", on |-> NoPayment, session |-> NoSession,
              open |-> FALSE, amount |-> 0]

SessionsInit ==
    /\ Init
    /\ session = [s \in Sessions |-> NotCreated]
    /\ call = [c \in Calls |-> NotCalled]
    /\ spoiled = {}

Exists(p) == payment[p].status # "NONE"

Of(p) == {s \in Sessions : session[s].payment = p}

\* Sessions of p, but for s, that may still bring money, and calls about to ask.
OnTheWay(p, s) ==
    \/ \E t \in Of(p) \ {s} : \/ session[t].status = "OPEN"
                              \/ session[t].status = "PAID" /\ ~session[t].notified
    \/ \E c \in Calls : call[c].step = "priced" /\ call[c].on = p

\* The row of p changes, for another reason than session s.
Spoils(p, s) == spoiled' = IF OnTheWay(p, s) THEN spoiled \cup {p} ELSE spoiled
-----------------------------------------------------------------------------
(* createCheckoutSession *)

\* Mutants of Sellable: the status is not checked; a captured payment is sold again.
SellableAny(row) == row.channel = "ONLINE"

SellableAgain(row) == row.channel = "ONLINE" /\ row.status \in {"PENDING", "CAPTURED"}

Sellable(row) == row.channel = "ONLINE" /\ row.status = "PENDING"

\* The SELECT of the payment: its amount is the one that will be sent.
Price(c, op, p) ==
    call' = [call EXCEPT ![c] =
               IF Sellable(payment[p])
               THEN [@ EXCEPT !.op = op, !.step = "priced", !.on = p,
                              !.amount = payment[p].amount]
               ELSE [@ EXCEPT !.op = op, !.step = "refused", !.on = p]]

CreateSelect(c, p) ==
    /\ call[c].step = "new"
    /\ Exists(p)
    /\ Price(c, "create", p)
    /\ UNCHANGED <<contractVars, session, spoiled>>

(***************************************************************************)
(* The request to the gateway, as an invoice or directly on a channel.     *)
(* It makes a session; the answer may be lost ("failed").                  *)
(***************************************************************************)
CreateSend(c, s, kind, outcome) ==
    /\ call[c].step = "priced"
    /\ session[s].status = "NONE"
    /\ session' = [session EXCEPT ![s] = [NotCreated EXCEPT !.status = "OPEN", !.kind = kind,
                       !.payment = call[c].on, !.amount = call[c].amount]]
    /\ call' = [call EXCEPT ![c].step = outcome]
    /\ UNCHANGED <<contractVars, spoiled>>
-----------------------------------------------------------------------------
(* getCheckoutSession, cancelCheckoutSession, retryCheckoutSession *)

\* invoices[0] of the gateway's list, in whatever order; direct sessions are not
\* in it.
Invoices(p) == {s \in Of(p) : session[s].kind = "invoice"}

SessionLookup(c, op, p) ==
    /\ call[c].step = "new"
    /\ Exists(p)
    /\ \/ \E s \in Invoices(p) :
             call' = [call EXCEPT ![c] = [NotCalled EXCEPT !.op = op, !.step = "looked",
                          !.on = p, !.session = s, !.open = (session[s].status = "OPEN")]]
       \/ /\ Invoices(p) = {}
          /\ call' = [call EXCEPT ![c] = [NotCalled EXCEPT !.op = op, !.step = "refused",
                                              !.on = p]]
    /\ UNCHANGED <<contractVars, session, spoiled>>

\* A session that was open when it was looked up is asked to expire.  Whether the
\* gateway did is not looked at.
Expire(c) ==
    /\ call[c].step = "looked"
    /\ LET s == call[c].session
       IN  \/ UNCHANGED session
           \/ /\ call[c].open
              /\ session[s].status = "OPEN"
              /\ session' = [session EXCEPT ![s].status = "EXPIRED"]
    /\ call' = [call EXCEPT ![c].step = IF call[c].op = "retry" THEN "expired" ELSE "voiding"]
    /\ UNCHANGED <<contractVars, spoiled>>

\* A retry goes on as createCheckoutSession.
RetrySelect(c) ==
    /\ call[c].step = "expired"
    /\ Price(c, "retry", call[c].on)
    /\ UNCHANGED <<contractVars, session, spoiled>>

\* A cancellation voids the payment, whatever its status.
CancelVoid(c) ==
    /\ call[c].step = "voiding"
    /\ LET p == call[c].on
       IN  /\ Post(p, [payment[p] EXCEPT !.status = "VOIDED"],
                      <<Posting("VOIDED", -payment[p].amount)>>)
           /\ Spoils(p, NoSession)
    /\ call' = [call EXCEPT ![c].step = "answered"]
    /\ UNCHANGED session

\* No active configuration, no client, a method the channel does not fit, or a
\* gateway or a database that refuses.
CallFails(c) ==
    /\ call[c].step \in {"looked", "expired", "priced", "voiding"}
    /\ call' = [call EXCEPT ![c].step = "failed"]
    /\ UNCHANGED <<contractVars, session, spoiled>>
-----------------------------------------------------------------------------
(* The gateway, and the webhook *)

CustomerPays(s) ==
    /\ session[s].status = "OPEN"
    /\ session' = [session EXCEPT ![s].status = "PAID"]
    /\ UNCHANGED <<contractVars, call, spoiled>>

Lapses(s) ==
    /\ session[s].status = "OPEN"
    /\ session' = [session EXCEPT ![s].status = "EXPIRED"]
    /\ UNCHANGED <<contractVars, call, spoiled>>

\* payments/webhooks/.note.md: "Notifies if customer pays late after expiration".
PaysLate(s) ==
    /\ session[s].status = "EXPIRED"
    /\ session' = [session EXCEPT ![s].status = "PAID", ![s].notified = FALSE]
    /\ spoiled' = spoiled \cup {session[s].payment}
    /\ UNCHANGED <<contractVars, call>>

\* Mutant of Settle: an expired session is not told to its payment.
SettlePaid(s, p) ==
    IF session[s].status = "PAID" THEN Capture(p, TRUE) ELSE UNCHANGED contractVars

\* What handleGatewayWebhook does with the end of session s of a PENDING payment.
Settle(s, p) == IF session[s].status = "PAID" THEN Capture(p, TRUE) ELSE Fail(p)

Notify(s) ==
    /\ session[s].status \in {"PAID", "EXPIRED"}
    /\ ~session[s].notified
    /\ session' = [session EXCEPT ![s].notified = TRUE]
    /\ LET p == session[s].payment
       IN  IF payment[p].status = "PENDING"
           THEN Settle(s, p) /\ Spoils(p, s)
           ELSE UNCHANGED <<contractVars, spoiled>>
    /\ UNCHANGED call
-----------------------------------------------------------------------------
\* createPayment, updatePayment, cancelPayment, and a capture at the counter, which
\* does not look at the channel.
Clerk(p) ==
    /\ \/ \E a \in Amounts, channel \in Channel : Create(p, a, channel, NoKey)
       \/ \E a \in Amounts : Edit(p, a)
       \/ Void(p)
       \/ Capture(p, TRUE)
    /\ Spoils(p, NoSession)
    /\ UNCHANGED <<session, call>>

Handle(c) ==
    \/ \E s \in Sessions, kind \in {"invoice", "direct"}, outcome \in {"answered", "failed"} :
          CreateSend(c, s, kind, outcome)
    \/ Expire(c)
    \/ RetrySelect(c)
    \/ CancelVoid(c)

SessionsNext ==
    \/ \E p \in Payments :
          \/ Clerk(p)
          \/ \E c \in Calls :
                \/ CreateSelect(c, p)
                \/ \E op \in {"cancel", "retry"} : SessionLookup(c, op, p)
    \/ \E c \in Calls : Handle(c) \/ CallFails(c)
    \/ \E s \in Sessions : CustomerPays(s) \/ Lapses(s) \/ PaysLate(s) \/ Notify(s)

SessionsSpec == SessionsInit /\ [][SessionsNext]_vars

\* The gateway repeats a notification until it is answered (Webhooks).
FairSessionsSpec == SessionsSpec /\ \A s \in Sessions : WF_vars(Notify(s))
-----------------------------------------------------------------------------
(* Properties *)

SessionsTypeOK ==
    /\ payment \in [Payments -> Row]
    /\ ledger \in [Payments -> Seq(Entry)]
    /\ session \in [Sessions -> Session]
    /\ call \in [Calls -> Call]
    /\ spoiled \subseteq Payments

(***************************************************************************)
(* When the end of a paid session has been notified, exactly the amount    *)
(* the customer paid is posted to its payment, unless the payment's row    *)
(* changed meanwhile (an edit after gateway.service.ts:63 read the amount, *)
(* a cancellation, a capture at the counter, another session paid or       *)
(* expired), or the money came after the expiry.                           *)
(***************************************************************************)
PaidIsPosted ==
    \A s \in Sessions :
        LET p == session[s].payment
        IN  session[s].status = "PAID" /\ session[s].notified /\ p \notin spoiled =>
                \E i \in DOMAIN ledger[p] : ledger[p][i] = Posting("CAPTURED", session[s].amount)

(***************************************************************************)
(* Two sessions of one payment bring money only when it is spoiled: the    *)
(* customer who has paid once is not asked again (gateway.service.ts:90).  *)
(***************************************************************************)
NoSecondCharge ==
    \A s, t \in Sessions :
        /\ session[s].status = "PAID" /\ session[t].status = "PAID"
        /\ session[s].payment = session[t].payment
        /\ session[s].notified /\ session[t].notified
        => s = t \/ session[s].payment \in spoiled

(***************************************************************************)
(* A payment whose session was paid or has expired leaves PENDING.         *)
(***************************************************************************)
EndedSessionSettles ==
    \A s \in Sessions, p \in Payments :
        (s \in Of(p) /\ session[s].status \in {"PAID", "EXPIRED"})
            ~> (payment[p].status # "PENDING")
=============================================================================
