-------------------------------- MODULE Tills --------------------------------
(***************************************************************************)
(* One location's cash drawers:                                            *)
(*   shifts/shifts.service.ts           open, cash drops, close,           *)
(*                                      force-close, audit                 *)
(*   reconciliation/reconciliation.service.ts   the close of a day         *)
(*   packages/databases                 the pool of connections            *)
(* A request is one HTTP call.  Inside a transaction it holds a connection *)
(* of the pool; outside one, each of its statements borrows one.  Nothing  *)
(* here reads FOR UPDATE, and no UPDATE repeats the status check in its    *)
(* WHERE clause.  closeDailyReconciliation reads its summary through a     *)
(* second connection while its transaction holds the first.                *)
(***************************************************************************)
EXTENDS Integers, FiniteSets

CONSTANTS
    Shifts,        \* the shift ids (UUIDs) the database ever hands out
    NoShift,       \* the target of a request that names no shift
    Cashiers,      \* the cashiers of the location
    Days,          \* the dates that pass, or that a request may name
    Floats,        \* the floats a shift may start with
    MaxCash,       \* bound on a drop, a count and a shift's sales
    Requests,      \* every request that ever arrives; each runs at most once
    PoolSize       \* pool.max; 25 in the code

ASSUME TillsAssumption ==
    /\ NoShift \notin Shifts
    /\ Cashiers # {}
    /\ Days \subseteq Nat
    /\ \E d \in Days : \A e \in Days : d =< e
    /\ Floats \subseteq Nat
    /\ MaxCash \in Nat
    /\ PoolSize \in Nat \ {0}

VARIABLES
    shift,         \* [Shifts -> ShiftRow], the table shifts, committed
    drops,         \* [Shifts -> Nat], SUM(amount) of each shift's cash_drops
    sales,         \* [Shifts -> Nat], SUM(amount) of its CAPTURED cash payments
    daily,         \* [Days -> DayRow], the table daily_reconciliations
    today,         \* the date now() has
    req,           \* [Requests -> Request]
    overlap,       \* history: shifts two requests worked on at the same time
    drawer         \* history: [Shifts -> Drawer], the cash of each shift's sales

vars == <<shift, drops, sales, daily, today, req, overlap, drawer>>

Cash == 0 .. MaxCash

\* ending_cash_expected, ending_cash_actual and variance: all NULL, or all set.
Uncounted == [counted |-> FALSE, expected |-> 0, actual |-> 0]
Count(expected, actual) == [counted |-> TRUE, expected |-> expected, actual |-> actual]
CountType == [counted : BOOLEAN, expected : Int, actual : Nat]

ShiftStatus == {"NONE", "OPEN", "CLOSED", "FORCE_CLOSED"}

\* `day` is DATE(opened_at).  The column total_cash_drops is left out: no
\* statement of the repository ever writes it.
ShiftRow == [status : ShiftStatus, cashier : Cashiers, day : Days, float : Nat,
             count : CountType]

\* The totals getDailyReconciliation returns, and daily_reconciliations keeps,
\* stand for the rows they add up: the shifts `of` the day, and their counts.
Summary == [of : SUBSET Shifts, counts : [Shifts -> CountType]]

\* The cash its sales have brought, less what was paid back of them; how much that
\* was when a close last summed the sales; and whether each payment that left the
\* sum was paid back whole, and none that stayed in it.
Drawer == [cash : Nat, summed : Nat, even : BOOLEAN]

NoSummary == [of |-> {}, counts |-> [s \in Shifts |-> Uncounted]]

DayRow == [closed : BOOLEAN, summary : Summary]

Steps == {"new", "selected", "opened", "summedDrops", "summedSales", "auditing",
          "looked", "begun", "forced", "summarised", "done"}

Request == [op : {"none", "drop", "close", "force", "audit", "day"}, step : Steps,
            on : Shifts \cup {NoShift}, day : Days, arg : Nat,
            drops : Nat, sales : Nat, opens : SUBSET Shifts,
            summary : Summary]

FirstDay == CHOOSE d \in Days : \A e \in Days : d =< e

Unopened == [status |-> "NONE", cashier |-> CHOOSE c \in Cashiers : TRUE,
             day |-> FirstDay, float |-> 0, count |-> Uncounted]

NoRequest == [op |-> "none", step |-> "new", on |-> NoShift, day |-> FirstDay,
              arg |-> 0, drops |-> 0, sales |-> 0, opens |-> {}, summary |-> NoSummary]

Init ==
    /\ shift = [s \in Shifts |-> Unopened]
    /\ drops = [s \in Shifts |-> 0]
    /\ sales = [s \in Shifts |-> 0]
    /\ daily = [d \in Days |-> [closed |-> FALSE, summary |-> NoSummary]]
    /\ today = FirstDay
    /\ req = [r \in Requests |-> NoRequest]
    /\ overlap = {}
    /\ drawer = [s \in Shifts |-> [cash |-> 0, summed |-> 0, even |-> TRUE]]

tables == <<shift, drops, sales, daily, today>>
history == <<overlap, drawer>>
-----------------------------------------------------------------------------
(* Connections and row locks *)

\* A transaction keeps its connection from BEGIN to COMMIT.
Connected(r) == req[r].step \in {"opened", "summedDrops", "summedSales", "auditing",
                                 "begun", "forced", "summarised"}

Free == Cardinality({r \in Requests : Connected(r)}) < PoolSize

\* Mutant of TimesOut: connectionTimeoutMillis is left at its default, for ever.
NeverTimesOut(r) == FALSE

\* The next statement of r needs a connection, and there is none for 5 seconds.
TimesOut(r) == req[r].step \in {"selected", "looked", "forced"} /\ ~Free

\* The UPDATE of closeDailyReconciliation keeps its rows until COMMIT.
Locked(s) == \E r \in Requests : req[r].step \in {"forced", "summarised"} /\ s \in req[r].opens

\* r has read shift s, or found it open, and has not ended.
WorksOn(r, s) == req[r].on = s \/ s \in req[r].opens

\* r has looked for the open shifts up to day d, and has not ended.
ClosesDay(r, d) == req[r].step \in {"begun", "forced", "summarised"} /\ req[r].day >= d

\* r begins to work on the shifts S.
Joins(r, S) ==
    overlap' = overlap \cup {s \in S : \E q \in Requests \ {r} : WorksOn(q, s)}

Finish(r) == req' = [req EXCEPT ![r] = [NoRequest EXCEPT !.step = "done"]]

\* SELECT * FROM shifts WHERE id = s; another status than `status` is a 409.
ReadShift(r, op, step, s, status, arg) ==
    /\ req[r].step = "new"
    /\ Free
    /\ shift[s].status # "NONE"
    /\ IF shift[s].status = status
       THEN /\ req' = [req EXCEPT ![r] = [NoRequest EXCEPT !.op = op, !.step = step,
                                              !.on = s, !.arg = arg]]
            /\ Joins(r, {s})
       ELSE Finish(r) /\ UNCHANGED overlap
    /\ UNCHANGED <<tables, drawer>>
-----------------------------------------------------------------------------
(* shifts.service.ts *)

\* idx_one_open_shift_per_location_cashier.
HasOpenShift(c) == \E s \in Shifts : shift[s].status = "OPEN" /\ shift[s].cashier = c

\* openShift is one INSERT; the unique index refuses a second open shift.
OpenShift(s, c, float) ==
    /\ Free
    /\ shift[s].status = "NONE"
    /\ ~HasOpenShift(c)
    /\ shift' = [shift EXCEPT ![s] = [status |-> "OPEN", cashier |-> c, day |-> today,
                                      float |-> float, count |-> Uncounted]]
    /\ overlap' = IF \E r \in Requests : ClosesDay(r, today) THEN overlap \cup {s}
                                                            ELSE overlap
    /\ UNCHANGED <<drops, sales, daily, today, req, drawer>>

\* A cash payment of the shift becomes CAPTURED (PaymentLifecycle): neither
\* createPayment nor a capture looks at the status of the shift.
CashSale(s, amount) ==
    /\ shift[s].status # "NONE"
    /\ sales[s] + amount =< MaxCash
    /\ drawer[s].cash + amount =< MaxCash
    /\ sales' = [sales EXCEPT ![s] = @ + amount]
    /\ drawer' = [drawer EXCEPT ![s].cash = @ + amount]
    /\ UNCHANGED <<shift, drops, daily, today, req, overlap>>

\* issueRefund pays back, and leaves the payment as it is: CAPTURED, and in the
\* sum, or PARTIALLY_REFUNDED.
SaleRefunded(s, paid) ==
    /\ paid =< drawer[s].cash
    /\ drawer' = [drawer EXCEPT ![s].cash = @ - paid, ![s].even = FALSE]
    /\ UNCHANGED <<shift, drops, sales, daily, today, req, overlap>>

\* A captured payment becomes PARTIALLY_REFUNDED or REFUNDED (updateRefundStatus)
\* or VOIDED (a reversal, a lost dispute, a cancelled session), whoever works on
\* the shift: its whole amount leaves the sum, whatever was `paid` back.
SaleUndone(s, amount, paid) ==
    /\ amount =< sales[s]
    /\ paid =< amount
    /\ paid =< drawer[s].cash
    /\ sales' = [sales EXCEPT ![s] = @ - amount]
    /\ drawer' = [drawer EXCEPT ![s].cash = @ - paid, ![s].even = @ /\ paid = amount]
    /\ UNCHANGED <<shift, drops, daily, today, req, overlap>>

\* recordCashDrop: a SELECT, then an INSERT, on whatever connections.
DropSelect(r, s, amount) == ReadShift(r, "drop", "selected", s, "OPEN", amount)

DropInsert(r) ==
    /\ req[r].op = "drop"
    /\ Free
    /\ drops' = [drops EXCEPT ![req[r].on] = @ + req[r].arg]
    /\ Finish(r)
    /\ UNCHANGED <<shift, sales, daily, today, history>>

\* closeShift: one transaction.  The status ...
CloseSelect(r, s) == ReadShift(r, "close", "opened", s, "OPEN", 0)

\* ... the sum of the drops ...
CloseSumDrops(r) ==
    /\ req[r].step = "opened"
    /\ req' = [req EXCEPT ![r].step = "summedDrops", ![r].drops = drops[req[r].on]]
    /\ UNCHANGED <<tables, history>>

\* ... the sum of the CAPTURED cash sales ...
CloseSumSales(r) ==
    /\ req[r].step = "summedDrops"
    /\ req' = [req EXCEPT ![r].step = "summedSales", ![r].sales = sales[req[r].on]]
    /\ drawer' = [drawer EXCEPT ![req[r].on].summed = drawer[req[r].on].cash]
    /\ UNCHANGED <<tables, overlap>>

\* Mutant of ExpectedCash: the drops are left in the drawer.
ExpectedWithDrops(r) == shift[req[r].on].float + req[r].sales

\* "Float + Sales - Drops = What should be in the drawer right now"
ExpectedCash(r) == shift[req[r].on].float + req[r].sales - req[r].drops

\* ... and the UPDATE, and COMMIT.  dto.actual_cash is used nowhere before.
CloseWrite(r, actual) ==
    /\ req[r].step = "summedSales"
    /\ ~Locked(req[r].on)
    /\ shift' = [shift EXCEPT ![req[r].on].status = "CLOSED",
                              ![req[r].on].count = Count(ExpectedCash(r), actual)]
    /\ Finish(r)
    /\ UNCHANGED <<drops, sales, daily, today, history>>

\* forceClose: a SELECT, then an UPDATE that leaves the count NULL.
ForceSelect(r, s) == ReadShift(r, "force", "selected", s, "OPEN", 0)

\* Mutant of ForceWrite: the drawer counts as balanced.
ForceWriteCounted(r) ==
    /\ req[r].op = "force"
    /\ Free
    /\ ~Locked(req[r].on)
    /\ shift' = [shift EXCEPT ![req[r].on].status = "FORCE_CLOSED",
                              ![req[r].on].count = Count(@.expected, @.expected)]
    /\ Finish(r)
    /\ UNCHANGED <<drops, sales, daily, today, history>>

ForceWrite(r) ==
    /\ req[r].op = "force"
    /\ Free
    /\ ~Locked(req[r].on)
    /\ shift' = [shift EXCEPT ![req[r].on].status = "FORCE_CLOSED"]
    /\ Finish(r)
    /\ UNCHANGED <<drops, sales, daily, today, history>>

(***************************************************************************)
(* auditShift: reads a FORCE_CLOSED shift, sums, UPDATEs it, and INSERTs   *)
(* into journal_entries.  No migration creates that table: the INSERT      *)
(* fails (SQLSTATE 42P01) and the transaction is rolled back.              *)
(***************************************************************************)
AuditSelect(r, s) == ReadShift(r, "audit", "auditing", s, "FORCE_CLOSED", 0)

AuditFails(r) ==
    /\ req[r].op = "audit"
    /\ ~Locked(req[r].on)
    /\ Finish(r)
    /\ UNCHANGED <<tables, history>>
-----------------------------------------------------------------------------
(* reconciliation.service.ts: closeDailyReconciliation *)

\* The lookup of an earlier close, outside the transaction.
DayLookup(r, d) ==
    /\ req[r].step = "new"
    /\ Free
    /\ IF daily[d].closed
       THEN Finish(r)
       ELSE req' = [req EXCEPT ![r] = [NoRequest EXCEPT !.op = "day", !.step = "looked", !.day = d]]
    /\ UNCHANGED <<tables, history>>

\* Mutant of Abandoned: the day's own shifts are missed.
AbandonedBefore(d) == {s \in Shifts : shift[s].status = "OPEN" /\ shift[s].day < d}

\* Status OPEN and DATE(opened_at) <= d.
Abandoned(d) == {s \in Shifts : shift[s].status = "OPEN" /\ shift[s].day =< d}

\* BEGIN, and the SELECT of the abandoned shifts.
DayBegin(r) ==
    /\ req[r].step = "looked"
    /\ Free
    /\ LET opens == Abandoned(req[r].day)
       IN  /\ req' = [req EXCEPT ![r].step = "begun", ![r].opens = opens]
           /\ Joins(r, opens)
    /\ UNCHANGED <<tables, drawer>>

\* UPDATE ... WHERE id IN opens: it waits for, and keeps, the rows.
DayForce(r) ==
    /\ req[r].step = "begun"
    /\ \A s \in req[r].opens : ~Locked(s)
    /\ req' = [req EXCEPT ![r].step = "forced"]
    /\ UNCHANGED <<tables, history>>

\* DATE(opened_at) = d.
OfDay(d) == {s \in Shifts : shift[s].status # "NONE" /\ shift[s].day = d}

\* getDailyReconciliation, on whatever connection: the committed rows.
DailySummary(d) ==
    [of |-> OfDay(d),
     counts |-> [s \in Shifts |-> IF s \in OfDay(d) THEN shift[s].count ELSE Uncounted]]

\* It runs on another connection than the transaction, and so does not see the
\* transaction's own UPDATE.
DaySummary(r) ==
    /\ req[r].step = "forced"
    /\ Free
    /\ req' = [req EXCEPT ![r].step = "summarised",
                          ![r].summary = DailySummary(req[r].day)]
    /\ UNCHANGED <<tables, history>>

\* Mutant of DayTaken: there is no unique constraint.
DayNeverTaken(d) == FALSE

\* uq_location_reconciliation_date.
DayTaken(d) == daily[d].closed

DayInsert(r) ==
    /\ req[r].step = "summarised"
    /\ ~DayTaken(req[r].day)
    /\ shift' = [s \in Shifts |-> IF s \in req[r].opens
                                  THEN [shift[s] EXCEPT !.status = "FORCE_CLOSED"]
                                  ELSE shift[s]]
    /\ daily' = [daily EXCEPT ![req[r].day] = [closed |-> TRUE, summary |-> req[r].summary]]
    /\ Finish(r)
    /\ UNCHANGED <<drops, sales, today, history>>

\* The unique violation rolls the force-closing back too.
DayConflict(r) ==
    /\ req[r].step = "summarised"
    /\ DayTaken(req[r].day)
    /\ Finish(r)
    /\ UNCHANGED <<tables, history>>
-----------------------------------------------------------------------------
\* No connection within connectionTimeoutMillis: the call fails, and what its
\* transaction holds is rolled back.
Timeout(r) ==
    /\ TimesOut(r)
    /\ Finish(r)
    /\ UNCHANGED <<tables, history>>

\* A statement fails, or the process dies.
Rollback(r) ==
    /\ req[r].step \notin {"new", "done"}
    /\ Finish(r)
    /\ UNCHANGED <<tables, history>>

Midnight ==
    /\ today + 1 \in Days
    /\ today' = today + 1
    /\ UNCHANGED <<shift, drops, sales, daily, req, history>>

Call(r) ==
    \/ \E s \in Shifts :
          \/ \E amount \in Cash \ {0} : DropSelect(r, s, amount)
          \/ CloseSelect(r, s)
          \/ ForceSelect(r, s)
          \/ AuditSelect(r, s)
    \/ \E d \in Days : DayLookup(r, d)

Work(r) ==
    \/ DropInsert(r)
    \/ CloseSumDrops(r)
    \/ CloseSumSales(r)
    \/ \E actual \in Cash : CloseWrite(r, actual)
    \/ ForceWrite(r)
    \/ AuditFails(r)
    \/ DayBegin(r)
    \/ DayForce(r)
    \/ DaySummary(r)
    \/ DayInsert(r)
    \/ DayConflict(r)
    \/ Timeout(r)

\* Every request has been answered, and the dates are over: the end of a
\* behaviour, not a deadlock.
Idle == (\A r \in Requests : req[r].step = "done") /\ UNCHANGED vars

Next ==
    \/ \E s \in Shifts :
          \/ \E c \in Cashiers, float \in Floats : OpenShift(s, c, float)
          \/ \E amount \in Cash \ {0} :
                \/ CashSale(s, amount)
                \/ SaleRefunded(s, amount)
                \/ \E paid \in Cash : SaleUndone(s, amount, paid)
    \/ Midnight
    \/ \E r \in Requests : Call(r) \/ Work(r) \/ Rollback(r)
    \/ Idle

Spec == Init /\ [][Next]_vars

\* A request the program has begun gets its turn, and the pool's timer fires.
\* Weak fairness is enough: each request ends, so a row lock or the last
\* connection is contended for finitely often.
FairSpec == Spec /\ \A r \in Requests : WF_vars(Work(r))
-----------------------------------------------------------------------------
(* Properties *)

TypeOK ==
    /\ shift \in [Shifts -> ShiftRow]
    /\ drops \in [Shifts -> Nat]
    /\ sales \in [Shifts -> Nat]
    /\ daily \in [Days -> DayRow]
    /\ today \in Days
    /\ req \in [Requests -> Request]
    /\ overlap \subseteq Shifts
    /\ drawer \in [Shifts -> Drawer]

\* The expected cash of a shift that was closed is what its drawer held: the
\* float, the cash of the sales when they were summed, less every drop.
ExpectsItsCash(s) ==
    shift[s].status = "CLOSED" =>
        shift[s].count.expected = shift[s].float + drawer[s].summed - drops[s]

(***************************************************************************)
(* "Float + Sales - Drops = What should be in the drawer right now"        *)
(* (shifts.service.ts:157): of a shift no two requests worked on together  *)
(* the close counts every drop, and the sales as the drawer has them,      *)
(* though it reads them from the status of payments that are captured,     *)
(* refunded and voided meanwhile; unless a sale was paid back by another   *)
(* amount than left the sum.                                               *)
(***************************************************************************)
CountIsOfTheDrawer ==
    \A s \in Shifts \ overlap : drawer[s].even => ExpectsItsCash(s)

\* getDiscrepancies: a non-zero variance, or none.
Discrepancies ==
    {s \in Shifts : /\ shift[s].status \in {"CLOSED", "FORCE_CLOSED"}
                    /\ shift[s].count.counted => shift[s].count.actual # shift[s].count.expected}

(***************************************************************************)
(* "Leaving actual_cash and variance null deliberately so audits flag this *)
(* record" (shifts.service.ts:192): a shift that was force-closed, by      *)
(* itself or with its day, is listed as a discrepancy, unless another      *)
(* request worked on it at the same time (a close that commits between     *)
(* the check and the UPDATE leaves its count, and no discrepancy).         *)
(***************************************************************************)
ForceClosedIsFlagged ==
    \A s \in Shifts \ overlap : shift[s].status = "FORCE_CLOSED" => s \in Discrepancies

(***************************************************************************)
(* The totals of a closed day still are the sums over its shifts, although *)
(* the summary is read on a connection that does not see the force-closing *)
(* (reconciliation.service.ts:202), unless something worked on one of them *)
(* beside the close.                                                       *)
(***************************************************************************)
DayRecordAddsUp ==
    \A d \in Days : daily[d].closed => \A s \in daily[d].summary.of \ overlap :
        /\ shift[s].count = daily[d].summary.counts[s]
        /\ shift[s].status # "OPEN"

(***************************************************************************)
(* A day is closed once: the record of an earlier close is never replaced, *)
(* although it is looked up outside the transaction                        *)
(* (reconciliation.service.ts:165).                                        *)
(***************************************************************************)
DayIsClosedOnce ==
    [][\A d \in Days : daily[d].closed => daily'[d] = daily[d]]_vars

(***************************************************************************)
(* Every request is answered, although the close of a day holds one        *)
(* connection, and row locks, while it waits for a second connection that  *)
(* others, waiting for those rows, may hold.                               *)
(***************************************************************************)
BegunIsAnswered ==
    \A r \in Requests : (req[r].step # "new") ~> (req[r].step = "done")
=============================================================================
