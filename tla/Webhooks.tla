------------------------------- MODULE Webhooks -------------------------------
(***************************************************************************)
(* payments/webhooks/webhooks.service.ts beside the handlers of            *)
(* PaymentLifecycle: the gateway (external) delivers each notification at  *)
(* least once, perhaps several times together, and repeats a delivery that *)
(* is not answered 2xx.                                                    *)
(*                                                                         *)
(* A delivery runs one transaction:                                        *)
(*   SELECT webhook_events by event_id;  if found, answer;                 *)
(*   INSERT webhook_events   (UNIQUE event_id; its foreign key takes the   *)
(*                            payment row FOR KEY SHARE);                  *)
(*   SELECT the payment FOR UPDATE;                                        *)
(*   UPDATE the payment, fees, ledger; COMMIT.                             *)
(* Two deliveries with different event ids for one payment can both hold   *)
(* the key share and wait for each other; PostgreSQL's deadlock detector   *)
(* rolls one back (SQLSTATE 40P01, answered 500).                          *)
(***************************************************************************)
EXTENDS PaymentLifecycle

CONSTANTS
    Deliveries,      \* the deliveries, each a request of its own
    Carries,         \* [Deliveries -> Notification]
    Millis,          \* the instants Date.now() may return
    ProviderIds,     \* the values of `id` or `event_id` in payloads
    NoId,            \* a payload without `id` and `event_id`
    MaxCrashes       \* bound on rollbacks of deliveries other than deadlock victims

Notification == [payment : Payments \cup {NoPayment}, id : ProviderIds \cup {NoId},
                 succeeded : BOOLEAN, failed : BOOLEAN]

ASSUME WebhooksAssumption ==
    /\ Deliveries \subseteq Requests \ Clients
    /\ NoId \notin ProviderIds
    /\ Carries \in [Deliveries -> Notification]
    /\ MaxCrashes \in Nat

VARIABLES
    events,        \* the committed event_ids of webhook_events
    eventId,       \* [Deliveries -> EventIds], `eventId` of a running delivery
    crashes        \* how many deliveries were lost to a crash or an I/O error

webhookVars == <<events, eventId, crashes>>
vars == <<rowVars, webhookVars>>

NoEvent == <<"none">>
EventIds == {NoEvent} \cup ({"id"} \X ProviderIds) \cup ({"ms"} \X Millis)

WInit ==
    /\ RowsInit
    /\ events = {}
    /\ eventId = [d \in Deliveries |-> NoEvent]
    /\ crashes = 0

\* payload.id || payload.event_id || `ev_${Date.now()}`
IdsOf(n) == IF n.id = NoId THEN {"ms"} \X Millis ELSE {<<"id", n.id>>}

Target(d) == Carries[d].payment

Answer(d) ==
    /\ Finish(d)
    /\ eventId' = [eventId EXCEPT ![d] = NoEvent]

\* Mutant of Redeliver: the error is caught and answered 200.
RedeliverSwallowed(d) == Answer(d)

\* Not a 2xx: the gateway will deliver it again.
Redeliver(d) ==
    /\ txn' = [txn EXCEPT ![d] = Resting("new")]
    /\ eventId' = [eventId EXCEPT ![d] = NoEvent]

\* Mutant of WebhookLookup: no idempotency check.
WebhookNoLookup(d) ==
    /\ MayBegin(d)
    /\ \E id \in IdsOf(Carries[d]) :
          /\ txn' = [txn EXCEPT ![d] = [op |-> "webhook", step |-> "unlogged",
                         on |-> Target(d), seen |-> Unwritten, arg |-> 0]]
          /\ eventId' = [eventId EXCEPT ![d] = id]
    /\ UNCHANGED <<payment, ledger, events, crashes>>

(***************************************************************************)
(* Idempotency check by event id.                                          *)
(***************************************************************************)
WebhookLookup(d) ==
    /\ MayBegin(d)
    /\ \E id \in IdsOf(Carries[d]) :
          IF id \in events
          THEN Answer(d)
          ELSE /\ txn' = [txn EXCEPT ![d] = [op |-> "webhook", step |-> "unlogged",
                              on |-> Target(d), seen |-> Unwritten, arg |-> 0]]
               /\ eventId' = [eventId EXCEPT ![d] = id]
    /\ UNCHANGED <<payment, ledger, events, crashes>>

\* Another transaction has inserted this event id and not yet committed: the
\* INSERT waits for its outcome.
EventPending(d) ==
    \E e \in Deliveries \ {d} :
        txn[e].step \in {"logged", "locked"} /\ eventId[e] = eventId[d]

HasTarget(d) == Target(d) # NoPayment

\* The INSERT violates UNIQUE (event_id) or the foreign key on payment_id.
WebhookInsertFails(d) ==
    /\ At(d, "webhook", "unlogged")
    /\ ~EventPending(d)
    /\ \/ eventId[d] \in events
       \/ HasTarget(d) /\ ~Exists(Target(d))
    /\ Redeliver(d)
    /\ UNCHANGED <<payment, ledger, events, crashes>>

MayLog(d) ==
    /\ At(d, "webhook", "unlogged")
    /\ ~EventPending(d)
    /\ eventId[d] \notin events

\* Mutant of WebhookInsert: the event is committed before the payment is.
WebhookInsertEarly(d) ==
    /\ MayLog(d)
    /\ HasTarget(d)
    /\ Exists(Target(d))
    /\ MayWrite(d, Target(d))
    /\ txn' = [txn EXCEPT ![d].step = "logged"]
    /\ events' = events \cup {eventId[d]}
    /\ UNCHANGED <<payment, ledger, eventId, crashes>>

WebhookInsert(d) ==
    /\ MayLog(d)
    /\ HasTarget(d)
    /\ Exists(Target(d))
    /\ MayWrite(d, Target(d))
    /\ txn' = [txn EXCEPT ![d].step = "logged"]
    /\ UNCHANGED <<payment, ledger, webhookVars>>

\* No payment id could be extracted: the event is logged and that is all.
WebhookLogOnly(d) ==
    /\ MayLog(d)
    /\ ~HasTarget(d)
    /\ events' = events \cup {eventId[d]}
    /\ Answer(d)
    /\ UNCHANGED <<payment, ledger, crashes>>

\* "Lock & Select Payment Row": a CAPTURED payment is answered at once.
WebhookLock(d) ==
    /\ At(d, "webhook", "logged")
    /\ MayLock(d, Target(d))
    /\ IF Captured(payment[Target(d)])
       THEN /\ events' = events \cup {eventId[d]}
            /\ Answer(d)
       ELSE /\ txn' = [txn EXCEPT ![d].step = "locked", ![d].seen = payment[Target(d)]]
            /\ UNCHANGED <<events, eventId>>
    /\ UNCHANGED <<payment, ledger, crashes>>

\* Mutant of Captures: a payment that is not PENDING is captured too.
CapturesAny(d) == Carries[d].succeeded

Captures(d) == Carries[d].succeeded /\ Pending(txn[d].seen)
Fails(d) == Carries[d].failed /\ Pending(txn[d].seen)

\* Mutant of StatusAfter: the gateway's word, which the enum does not have.
StatusAsReported(d, row) ==
    IF Fails(d) THEN "EXPIRED" ELSE IF Captures(d) THEN "CAPTURED" ELSE row.status

\* Both tests look at the row as it was read, so an event that counts as a
\* success and as a failure captures and then fails.
StatusAfter(d, row) ==
    IF Fails(d) THEN "FAILED" ELSE IF Captures(d) THEN "CAPTURED" ELSE row.status

WebhookApply(d) ==
    /\ At(d, "webhook", "locked")
    /\ LET p == Target(d)
           row == IF Captures(d) THEN SnapshotFees(payment[p]) ELSE payment[p]
       IN  Commit(d, p, [row EXCEPT !.status = StatusAfter(d, row)],
                  IF Captures(d) THEN <<Posting("CAPTURED", txn[d].seen.amount)>> ELSE <<>>)
    /\ events' = events \cup {eventId[d]}
    /\ eventId' = [eventId EXCEPT ![d] = NoEvent]
    /\ UNCHANGED crashes

\* Two key shares on one row, each waiting for the other to go.
DeadlockVictim(d) ==
    /\ At(d, "webhook", "logged")
    /\ \E e \in Deliveries \ {d} : HoldsKeyShare(e, Target(d))
    /\ Redeliver(d)
    /\ UNCHANGED <<payment, ledger, events, crashes>>

Crash(d) ==
    /\ d \in InFlight
    /\ crashes < MaxCrashes
    /\ crashes' = crashes + 1
    /\ Redeliver(d)
    /\ UNCHANGED <<payment, ledger, events>>

Deliver(d) ==
    \/ WebhookLookup(d)
    \/ WebhookInsertFails(d)
    \/ WebhookInsert(d)
    \/ WebhookLogOnly(d)
    \/ WebhookLock(d)
    \/ WebhookApply(d)
    \/ DeadlockVictim(d)

WNext ==
    \/ Next /\ UNCHANGED webhookVars
    \/ \E d \in Deliveries : Deliver(d) \/ Crash(d)

WSpec == WInit /\ [][WNext]_vars

(***************************************************************************)
(* Fairness: a request the program has begun gets its turn (Node's event   *)
(* loop, and answers from the database), and the gateway repeats a         *)
(* delivery until it is answered.  PostgreSQL serves the waiters of a row  *)
(* lock, and of a unique key, in order, so one that can get it again and   *)
(* again does: that is strong fairness.  Nothing forces a client to send a *)
(* request, a rollback or a crash to happen.                               *)
(***************************************************************************)
Fairness ==
    /\ \A r \in Clients : WF_vars(Write(r) /\ UNCHANGED webhookVars)
    /\ \A d \in Deliveries :
          /\ WF_vars(Deliver(d))
          /\ SF_vars(WebhookInsert(d))
          /\ SF_vars(WebhookLock(d))

FairWSpec == WSpec /\ Fairness
-----------------------------------------------------------------------------
(* Properties, beside those of PaymentLifecycle *)

WTypeOK ==
    /\ TypeOK
    /\ events \subseteq EventIds
    /\ eventId \in [Deliveries -> EventIds]
    /\ crashes \in 0 .. MaxCrashes

(***************************************************************************)
(* A notification is answered only once its event is on record, through    *)
(* crashes, deadlock victims and duplicates (webhooks.service.ts:94-114).  *)
(***************************************************************************)
AnsweredIsLogged ==
    \A d \in Deliveries :
        txn[d].step = "done" /\ Carries[d].id # NoId => <<"id", Carries[d].id>> \in events

(***************************************************************************)
(* An answered success has moved its payment out of PENDING, or found it   *)
(* moved: webhooks.service.ts:102 answers 'Already processed' because the  *)
(* event id is known.                                                      *)
(***************************************************************************)
AnsweredSuccessIsProcessed ==
    \A d \in Deliveries :
        txn[d].step = "done" /\ Carries[d].succeeded /\ HasTarget(d)
            => ~Pending(payment[Target(d)])

(***************************************************************************)
(* Every notification of a payment the database knows is answered in the   *)
(* end, although deliveries deadlock and are repeated.                     *)
(***************************************************************************)
KnownPaymentIsAnswered ==
    \A d \in Deliveries :
        (HasTarget(d) => Exists(Target(d))) ~> txn[d].step = "done"
=============================================================================
