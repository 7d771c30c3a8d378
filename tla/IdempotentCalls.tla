---------------------------- MODULE IdempotentCalls ----------------------------
(***************************************************************************)
(* POST /api/payments/ledger with everything in front of executeTransfer:  *)
(* the bearer token (auth.guard.ts), the Redis marker under the caller's   *)
(* Idempotency-Key (idempotency.interceptor.ts), and the answer            *)
(* (all-exceptions.filter.ts).  The transfer itself is the indivisible     *)
(* operation of TransferContract, which Transfers implements; each call    *)
(* that gets as far is one transfer.  A client repeats a call, with the    *)
(* same key and the same body, whenever it likes.                          *)
(***************************************************************************)
EXTENDS TransferContract, FiniteSets

CONSTANTS
    Marks,         \* the markers `idempotency:<user>:<key>`
    NoMark,        \* a call without the header
    Body,          \* [Marks \cup {NoMark} -> the accounts and the amount]
    MaxBalance     \* a bound: the money a wallet has at the start

Calls == Transfers

ASSUME IdempotentCallsAssumption ==
    /\ NoMark \notin Marks
    /\ MaxBalance \in Nat
    /\ Body \in [Marks \cup {NoMark} ->
                   [from : AccountIds, to : AccountIds, amount : 1 .. MaxAmount]]

VARIABLES
    marker,        \* [Marks -> Marker], in Redis
    call,          \* [Calls -> Call]
    overlapped,    \* history: marks two calls looked up before either set it
    lapsed         \* history: marks whose marker expired on a call at work, or
                   \* on one that has paid

frontVars == <<marker, call, overlapped, lapsed>>
vars == <<contractVars, frontVars>>

\* The HTTP status the client gets, 0 for none yet or none ever.
Answers == {0, 200, 400, 401, 404, 500}

\* "missed": the marker was not there.  "handling": in the controller.
Call == [step : {"new", "missed", "handling", "paid", "done"},
         mark : Marks \cup {NoMark}, answer : Answers]

Marker == [status : {"NONE", "PROCESSING", "COMPLETED"}, code : Answers]

NoMarker == [status |-> "NONE", code |-> 0]

FrontInit ==
    /\ open = AccountIds
    /\ balance \in [AccountIds -> 0 .. MaxBalance]
    /\ outcome = [c \in Calls |-> "none"]
    /\ marker = [m \in Marks |-> NoMarker]
    /\ call = [c \in Calls |-> [step |-> "new", mark |-> NoMark, answer |-> 0]]
    /\ overlapped = {}
    /\ lapsed = {}

Answer(c, code) == call' = [call EXCEPT ![c].step = "done", ![c].answer = code]
-----------------------------------------------------------------------------
(* auth.guard.ts and the interceptor up to next.handle() *)

\* No token, or one whose signature or payload is wrong.
Unauthorized(c) ==
    /\ call[c].step = "new"
    /\ Answer(c, 401)
    /\ UNCHANGED <<contractVars, marker, overlapped, lapsed>>

Unmarked(c) ==
    /\ call[c].step = "new"
    /\ call' = [call EXCEPT ![c].step = "handling"]
    /\ UNCHANGED <<contractVars, marker, overlapped, lapsed>>

\* Mutant of Busy: only a COMPLETED marker is looked at.
BusyNever(m) == FALSE

Busy(m) == marker[m].status = "PROCESSING"

\* redis.get, and what it decides.
Lookup(c, m) ==
    /\ call[c].step = "new"
    /\ call' = [call EXCEPT ![c] =
                  CASE Busy(m) -> [step |-> "done", mark |-> m, answer |-> 400]
                    [] marker[m].status = "COMPLETED" ->
                         [step |-> "done", mark |-> m, answer |-> marker[m].code]
                    [] OTHER -> [step |-> "missed", mark |-> m, answer |-> 0]]
    /\ overlapped' = IF \E d \in Calls : call[d].step = "missed" /\ call[d].mark = m
                     THEN overlapped \cup {m} ELSE overlapped
    /\ UNCHANGED <<contractVars, marker, lapsed>>

Processing == [status |-> "PROCESSING", code |-> 0]

Completed == [status |-> "COMPLETED", code |-> 200]

\* redis.set replaces whatever is there by now.
SetProcessing(c) ==
    /\ call[c].step = "missed"
    /\ marker' = [marker EXCEPT ![call[c].mark] = Processing]
    /\ call' = [call EXCEPT ![c].step = "handling"]
    /\ UNCHANGED <<contractVars, overlapped, lapsed>>
-----------------------------------------------------------------------------
(* The controller, and the answer *)

BodyOf(c) == Body[call[c].mark]

\* Without a marker to complete the answer goes out at once.
Paid(c) ==
    /\ call[c].step = "handling"
    /\ Pay(c, BodyOf(c).from, BodyOf(c).to, BodyOf(c).amount)
    /\ IF call[c].mark = NoMark THEN Answer(c, 200)
                                ELSE call' = [call EXCEPT ![c].step = "paid"]
    /\ UNCHANGED <<marker, overlapped, lapsed>>

\* The filter's status for what executeTransfer throws: it wraps everything that
\* is not an HttpException, so no SQLSTATE reaches the filter's table.
StatusOf(result) ==
    CASE result = "refused"  -> {400}
      [] result = "rejected" -> {400, 404}
      [] result = "failed"   -> {500}

\* Mutant of Refused: an error is stored like an answer, as 200.
RefusedStored(c) ==
    /\ call[c].step = "handling"
    /\ \/ Refuse(c, BodyOf(c).from, BodyOf(c).amount)
       \/ Drop(c)
    /\ \E code \in StatusOf(outcome'[c]) : Answer(c, code)
    /\ marker' = IF call[c].mark = NoMark THEN marker
                 ELSE [marker EXCEPT ![call[c].mark] = Completed]
    /\ UNCHANGED <<overlapped, lapsed>>

\* An error passes the interceptor by: the marker stays PROCESSING.
Refused(c) ==
    /\ call[c].step = "handling"
    /\ \/ Refuse(c, BodyOf(c).from, BodyOf(c).amount)
       \/ Drop(c)
    /\ \E code \in StatusOf(outcome'[c]) : Answer(c, code)
    /\ UNCHANGED <<marker, overlapped, lapsed>>

\* Mutant of SetCompleted: nobody awaits the SET, and it is lost.
SetCompletedLost(c) ==
    /\ call[c].step = "paid"
    /\ Answer(c, 200)
    /\ UNCHANGED <<contractVars, marker, overlapped, lapsed>>

SetCompleted(c) ==
    /\ call[c].step = "paid"
    /\ marker' = [marker EXCEPT ![call[c].mark] = Completed]
    /\ Answer(c, 200)
    /\ UNCHANGED <<contractVars, overlapped, lapsed>>

\* Redis gives up: before the transfer or after it, the call is answered 500.
RedisFails(c) ==
    /\ call[c].step \in {"missed", "paid"}
    /\ Answer(c, 500)
    /\ UNCHANGED <<contractVars, marker, overlapped, lapsed>>

\* The process dies, or the client is gone: no answer.  A transfer is made or not.
Crash(c) ==
    /\ call[c].step \in {"missed", "handling", "paid"}
    /\ Answer(c, 0)
    /\ UNCHANGED <<contractVars, marker, overlapped, lapsed>>

\* c has the marker to itself: it is in the controller, or has paid.
Past(c, m) == call[c].mark = m /\ (call[c].step \in {"handling", "paid"} \/ outcome[c] = "paid")

\* 120 seconds, or 24 hours, have passed: every marker is set with EX.
Lapse(m) ==
    /\ marker[m].status # "NONE"
    /\ marker' = [marker EXCEPT ![m] = NoMarker]
    /\ lapsed' = IF \E c \in Calls : Past(c, m) THEN lapsed \cup {m} ELSE lapsed
    /\ UNCHANGED <<contractVars, call, overlapped>>

Handle(c) ==
    \/ SetProcessing(c)
    \/ Paid(c)
    \/ Refused(c)
    \/ SetCompleted(c)

FrontNext ==
    \/ \E c \in Calls :
          \/ Unauthorized(c)
          \/ Unmarked(c)
          \/ \E m \in Marks : Lookup(c, m)
          \/ Handle(c)
          \/ RedisFails(c)
          \/ Crash(c)
    \/ \E m \in Marks : Lapse(m)

FrontSpec == FrontInit /\ [][FrontNext]_vars
-----------------------------------------------------------------------------
(* Properties *)

FrontTypeOK ==
    /\ open = AccountIds
    /\ balance \in [AccountIds -> Nat]
    /\ outcome \in [Calls -> Outcome]
    /\ marker \in [Marks -> Marker]
    /\ call \in [Calls -> Call]
    /\ overlapped \subseteq Marks
    /\ lapsed \subseteq Marks

PaidFor(m) == {c \in Calls : call[c].mark = m /\ outcome[c] = "paid"}

(***************************************************************************)
(* The transfer of one key is made once, through retries after every kind  *)
(* of answer, lost answers and failures of Redis, also when the marker of  *)
(* a failed call has expired (idempotency.interceptor.ts:39-56); unless    *)
(* two calls looked the key up before either set its marker, or a marker   *)
(* expired on a call at work or on one that has paid.                      *)
(***************************************************************************)
MadeOncePerKey ==
    \A m \in Marks \ (overlapped \cup lapsed) : Cardinality(PaidFor(m)) =< 1

(***************************************************************************)
(* A client that is told success, by the transfer or by a replay, can rely *)
(* on it: a transfer of its key has been made.                             *)
(***************************************************************************)
SuccessWasMade ==
    \A c \in Calls : call[c].answer = 200 =>
        \/ outcome[c] = "paid"
        \/ call[c].mark \in Marks /\ PaidFor(call[c].mark) # {}

\* c ended without success after its transfer was decided, or without an answer.
Failed(c) ==
    /\ call[c].step = "done"
    /\ call[c].answer # 200
    /\ call[c].answer = 0 \/ outcome[c] # "none"

(***************************************************************************)
(* A key is blocked for a reason: as long as a call of it is at work, or   *)
(* after one has failed; never on account of calls that have all been told *)
(* success, in whatever order two of them set the marker                   *)
(* (idempotency.interceptor.ts:54).                                        *)
(***************************************************************************)
BlockedForAReason ==
    \A m \in Marks : marker[m].status = "PROCESSING" =>
        \E c \in Calls :
            /\ call[c].mark = m
            /\ call[c].step \in {"handling", "paid"} \/ Failed(c)
=============================================================================
