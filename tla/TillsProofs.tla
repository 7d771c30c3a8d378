------------------------------ MODULE TillsProofs ------------------------------
(***************************************************************************)
(* Theorems about Tills, for any numbers of shifts, cashiers, days,        *)
(* requests and connections.  The argument is the one the `overlap`        *)
(* history makes precise: on a shift outside it at most one request works  *)
(* at a time, so what that request has read is still so when it writes.    *)
(***************************************************************************)
EXTENDS Tills, TLAPS

-----------------------------------------------------------------------------
(* Types *)

OfShift == {"drop", "close", "force", "audit"}

\* Where a request with operation q.op may be, and what it may hold there.
Sane(q) ==
    /\ q.op \in OfShift <=> q.on \in Shifts
    /\ q.op = "none" <=> q.step \in {"new", "done"}
    /\ q.op \in {"drop", "force"} => q.step = "selected"
    /\ q.op = "close" <=> q.step \in {"opened", "summedDrops", "summedSales"}
    /\ q.op = "audit" <=> q.step = "auditing"
    /\ q.op = "day" <=> q.step \in {"looked", "begun", "forced", "summarised"}
    /\ q.opens # {} => q.step \in {"begun", "forced", "summarised"}

SaneRequest == {q \in Request : Sane(q)}

\* ... and the sum of a shift is the cash of its sales while returns are even.
TypeInv ==
    /\ TypeOK
    /\ req \in [Requests -> SaneRequest]
    /\ \A s \in Shifts : drawer[s].even => sales[s] = drawer[s].cash

LEMMA NoRequestIsSane ==
    /\ NoRequest \in SaneRequest
    /\ [NoRequest EXCEPT !.step = "done"] \in SaneRequest
  <1>1. FirstDay \in Days
    BY TillsAssumption DEF FirstDay
  <1>2. NoSummary \in Summary
    BY DEF NoSummary, Summary, Uncounted, CountType
  <1> QED
    BY <1>1, <1>2, TillsAssumption DEF NoRequest, Request, Steps, SaneRequest, Sane, OfShift

LEMMA InitTypes == Init => TypeInv
  <1>1. FirstDay \in Days /\ (CHOOSE c \in Cashiers : TRUE) \in Cashiers
    BY TillsAssumption DEF FirstDay
  <1>2. Unopened \in ShiftRow
    BY <1>1 DEF Unopened, ShiftRow, ShiftStatus, Uncounted, CountType
  <1>3. NoSummary \in Summary
    BY DEF NoSummary, Summary, Uncounted, CountType
  <1> QED
    BY <1>1, <1>2, <1>3, NoRequestIsSane DEF Init, TypeInv, TypeOK, DayRow, SaneRequest, Drawer

\* A step that leaves the tables alone, and one request sane.
LEMMA RequestTypes ==
    ASSUME TypeInv, NEW r \in Requests, NEW q \in SaneRequest, req' = [req EXCEPT ![r] = q]
    PROVE  req' \in [Requests -> Request] /\ req' \in [Requests -> SaneRequest]
  BY DEF TypeInv, TypeOK, SaneRequest

LEMMA FinishTypes ==
    ASSUME TypeInv, NEW r \in Requests, Finish(r)
    PROVE  req' \in [Requests -> Request] /\ req' \in [Requests -> SaneRequest]
  BY NoRequestIsSane, RequestTypes DEF Finish

LEMMA ReadTypes ==
    ASSUME TypeInv, NEW r \in Requests, NEW s \in Shifts, NEW amount \in Nat,
           NEW op \in OfShift, NEW step \in Steps, NEW status \in ShiftStatus,
           op \in {"drop", "force"} => step = "selected",
           op = "close" <=> step = "opened", op = "audit" <=> step = "auditing",
           step \in {"selected", "opened", "auditing"},
           ReadShift(r, op, step, s, status, amount)
    PROVE  TypeInv'
  <1> DEFINE q == [NoRequest EXCEPT !.op = op, !.step = step, !.on = s, !.arg = amount]
  <1>1. q \in Request
    BY NoRequestIsSane DEF Request, NoRequest, OfShift, SaneRequest
  <1>2. Sane(q)
    BY NoRequestIsSane DEF NoRequest, OfShift, SaneRequest, Sane
  <1>3. req' \in [Requests -> Request] /\ req' \in [Requests -> SaneRequest]
    BY <1>1, <1>2, FinishTypes, RequestTypes DEF ReadShift, SaneRequest
  <1>4. overlap' \subseteq Shifts
    BY DEF ReadShift, Joins, TypeInv, TypeOK
  <1> QED
    BY <1>3, <1>4 DEF ReadShift, TypeInv, TypeOK, tables

LEMMA CallTypes ==
    ASSUME TypeInv, NEW r \in Requests, Call(r)
    PROVE  TypeInv'
  <1> USE TillsAssumption DEF Steps, ShiftStatus, OfShift
  <1>1. CASE \E s \in Shifts, amount \in Cash \ {0} : DropSelect(r, s, amount)
    BY <1>1, ReadTypes DEF DropSelect, Cash
  <1>2. CASE \E s \in Shifts : CloseSelect(r, s)
    BY <1>2, ReadTypes DEF CloseSelect
  <1>3. CASE \E s \in Shifts : ForceSelect(r, s)
    BY <1>3, ReadTypes DEF ForceSelect
  <1>4. CASE \E s \in Shifts : AuditSelect(r, s)
    BY <1>4, ReadTypes DEF AuditSelect
  <1>5. ASSUME NEW d \in Days, DayLookup(r, d)
        PROVE  TypeInv'
    <2>1. [NoRequest EXCEPT !.op = "day", !.step = "looked", !.day = d] \in SaneRequest
      BY NoRequestIsSane DEF Request, NoRequest, SaneRequest, Sane
    <2>2. req' \in [Requests -> Request] /\ req' \in [Requests -> SaneRequest]
      BY <1>5, <2>1, FinishTypes, RequestTypes DEF DayLookup
    <2> QED
      BY <1>5, <2>2 DEF DayLookup, TypeInv, TypeOK, tables, history
  <1> QED
    BY <1>1, <1>2, <1>3, <1>4, <1>5 DEF Call

LEMMA SummaryType == ASSUME TypeOK, NEW d \in Days PROVE DailySummary(d) \in Summary
  BY DEF DailySummary, OfDay, Summary, TypeOK, ShiftRow, Uncounted, CountType

LEMMA WorkTypes ==
    ASSUME TypeInv, NEW r \in Requests, Work(r)
    PROVE  TypeInv'
  <1> USE TillsAssumption DEF tables, history
  <1>0. req[r] \in SaneRequest /\ req[r] \in Request /\ Sane(req[r]) /\ TypeOK
    BY DEF TypeInv, SaneRequest
  <1>1. CASE DropInsert(r)
    <2>1. req[r].on \in Shifts /\ req[r].arg \in Nat
      BY <1>0, <1>1 DEF DropInsert, Sane, OfShift, Request
    <2>2. drops' \in [Shifts -> Nat]
      BY <1>0, <1>1, <2>1 DEF DropInsert, TypeOK
    <2> QED
      BY <1>0, <1>1, <2>2, FinishTypes DEF DropInsert, TypeInv, TypeOK
  <1>2. CASE CloseSumDrops(r)
    <2>1. drops[req[r].on] \in Nat
      BY <1>0, <1>2 DEF CloseSumDrops, TypeOK, Sane, OfShift
    <2>2. [req[r] EXCEPT !.step = "summedDrops", !.drops = drops[req[r].on]] \in SaneRequest
      BY <1>0, <1>2, <2>1 DEF CloseSumDrops, SaneRequest, Request, Sane, Steps
    <2>3. req' = [req EXCEPT ![r] = [req[r] EXCEPT !.step = "summedDrops", !.drops = drops[req[r].on]]]
      BY <1>0, <1>2 DEF CloseSumDrops, TypeOK
    <2> QED
      BY <1>0, <1>2, <2>2, <2>3, RequestTypes DEF CloseSumDrops, TypeInv, TypeOK
  <1>3. CASE CloseSumSales(r)
    <2>1. req[r].on \in Shifts /\ sales[req[r].on] \in Nat
      BY <1>0, <1>3 DEF CloseSumSales, TypeOK, Sane, OfShift
    <2>2. [req[r] EXCEPT !.step = "summedSales", !.sales = sales[req[r].on]] \in SaneRequest
      BY <1>0, <1>3, <2>1 DEF CloseSumSales, SaneRequest, Request, Sane, Steps
    <2>3. req' = [req EXCEPT ![r] = [req[r] EXCEPT !.step = "summedSales", !.sales = sales[req[r].on]]]
      BY <1>0, <1>3 DEF CloseSumSales, TypeOK
    <2>4. drawer' = [drawer EXCEPT ![req[r].on].summed = drawer[req[r].on].cash]
      BY <1>3 DEF CloseSumSales
    <2>5. /\ drawer' \in [Shifts -> Drawer]
          /\ \A s \in Shifts : drawer'[s].even = drawer[s].even /\ drawer'[s].cash = drawer[s].cash
      BY <1>0, <2>1, <2>4 DEF TypeOK, Drawer
    <2> QED
      BY <1>0, <1>3, <2>2, <2>3, <2>5, RequestTypes DEF CloseSumSales, TypeInv, TypeOK
  <1>4. ASSUME NEW actual \in Cash, CloseWrite(r, actual)
        PROVE  TypeInv'
    <2>1. req[r].on \in Shifts /\ req[r].sales \in Nat /\ req[r].drops \in Nat
      BY <1>0, <1>4 DEF CloseWrite, Sane, OfShift, Request
    <2>2. shift[req[r].on] \in ShiftRow
      BY <1>0, <2>1 DEF TypeOK
    <2>3. ExpectedCash(r) \in Int
      BY <2>1, <2>2 DEF ExpectedCash, ShiftRow
    <2>4. Count(ExpectedCash(r), actual) \in CountType
      BY <2>3 DEF Count, CountType, Cash
    <2>5. shift' \in [Shifts -> ShiftRow]
      BY <1>0, <1>4, <2>1, <2>2, <2>4 DEF CloseWrite, TypeOK, ShiftRow, ShiftStatus
    <2> QED
      BY <1>0, <1>4, <2>5, FinishTypes DEF CloseWrite, TypeInv, TypeOK
  <1>5. CASE ForceWrite(r)
    <2>1. shift' \in [Shifts -> ShiftRow]
      BY <1>0, <1>5 DEF ForceWrite, TypeOK, ShiftRow, ShiftStatus, Sane, OfShift
    <2> QED
      BY <1>0, <1>5, <2>1, FinishTypes DEF ForceWrite, TypeInv, TypeOK
  <1>6. CASE AuditFails(r) \/ DayConflict(r) \/ Timeout(r)
    BY <1>0, <1>6, FinishTypes DEF AuditFails, DayConflict, Timeout, TypeInv, TypeOK
  <1>7. CASE DayBegin(r)
    <2> DEFINE opens == Abandoned(req[r].day)
    <2>1. [req[r] EXCEPT !.step = "begun", !.opens = opens] \in SaneRequest
      BY <1>0, <1>7 DEF DayBegin, SaneRequest, Request, Sane, Steps, Abandoned
    <2>2. req' = [req EXCEPT ![r] = [req[r] EXCEPT !.step = "begun", !.opens = opens]]
      BY <1>0, <1>7 DEF DayBegin, TypeOK
    <2>3. overlap' \subseteq Shifts
      BY <1>0, <1>7 DEF DayBegin, Joins, Abandoned, TypeOK
    <2> QED
      BY <1>0, <1>7, <2>1, <2>2, <2>3, RequestTypes DEF DayBegin, TypeInv, TypeOK
  <1>8. CASE DayForce(r)
    <2>1. [req[r] EXCEPT !.step = "forced"] \in SaneRequest
      BY <1>0, <1>8 DEF DayForce, SaneRequest, Request, Sane, Steps
    <2>2. req' = [req EXCEPT ![r] = [req[r] EXCEPT !.step = "forced"]]
      BY <1>0, <1>8 DEF DayForce, TypeOK
    <2> QED
      BY <1>0, <1>8, <2>1, <2>2, RequestTypes DEF DayForce, TypeInv, TypeOK
  <1>9. CASE DaySummary(r)
    <2> DEFINE sum == DailySummary(req[r].day)
    <2>1. sum \in Summary
      BY <1>0, SummaryType DEF Request
    <2>2. [req[r] EXCEPT !.step = "summarised", !.summary = sum] \in SaneRequest
      BY <1>0, <1>9, <2>1 DEF DaySummary, SaneRequest, Request, Sane, Steps
    <2>3. req' = [req EXCEPT ![r] = [req[r] EXCEPT !.step = "summarised", !.summary = sum]]
      BY <1>0, <1>9 DEF DaySummary, TypeOK
    <2> QED
      BY <1>0, <1>9, <2>2, <2>3, RequestTypes DEF DaySummary, TypeInv, TypeOK
  <1>10. CASE DayInsert(r)
    <2>1. shift' \in [Shifts -> ShiftRow]
      BY <1>0, <1>10 DEF DayInsert, TypeOK, ShiftRow, ShiftStatus
    <2>2. daily' \in [Days -> DayRow]
      BY <1>0, <1>10 DEF DayInsert, TypeOK, DayRow, Request
    <2> QED
      BY <1>0, <1>10, <2>1, <2>2, FinishTypes DEF DayInsert, TypeInv, TypeOK
  <1> QED
    BY <1>1, <1>2, <1>3, <1>4, <1>5, <1>6, <1>7, <1>8, <1>9, <1>10 DEF Work

\* What a sale and a return change.
LEMMA DrawerStep ==
    ASSUME TypeInv, NEW s \in Shifts, NEW amount \in Cash \ {0}, NEW paid \in Cash,
           CashSale(s, amount) \/ SaleRefunded(s, amount) \/ SaleUndone(s, amount, paid)
    PROVE  /\ UNCHANGED <<shift, drops, daily, today, req, overlap>>
           /\ sales' \in [Shifts -> Nat] /\ drawer' \in [Shifts -> Drawer]
           /\ \A x \in Shifts :
                 /\ drawer'[x].summed = drawer[x].summed
                 /\ drawer'[x].even => drawer[x].even
                 /\ drawer'[x].even => sales'[x] = drawer'[x].cash
  <1>0. /\ amount \in Nat /\ paid \in Nat /\ TypeOK
        /\ sales[s] \in Nat /\ drawer[s] \in Drawer /\ drawer[s].cash \in Nat
        /\ drawer[s].even \in BOOLEAN
    BY TillsAssumption DEF Cash, TypeInv, TypeOK, Drawer
  <1>1. UNCHANGED <<shift, drops, daily, today, req, overlap>>
    BY DEF CashSale, SaleRefunded, SaleUndone
  <1>2. PICK n \in Nat, c \in Nat, e \in BOOLEAN :
            /\ sales' = [sales EXCEPT ![s] = n]
            /\ drawer' = [drawer EXCEPT ![s] = [drawer[s] EXCEPT !.cash = c, !.even = e]]
            /\ e => drawer[s].even
            /\ e /\ sales[s] = drawer[s].cash => n = c
    <2>1. CASE CashSale(s, amount)
      <3>1. /\ sales' = [sales EXCEPT ![s] = sales[s] + amount]
            /\ drawer' = [drawer EXCEPT ![s] = [drawer[s] EXCEPT
                              !.cash = drawer[s].cash + amount, !.even = drawer[s].even]]
        BY <1>0, <2>1 DEF CashSale, TypeOK, Drawer
      <3>2. sales[s] + amount \in Nat /\ drawer[s].cash + amount \in Nat
        BY <1>0
      <3> QED
        BY <1>0, <3>1, <3>2, Zenon
    <2>2. CASE SaleRefunded(s, amount)
      <3>1. /\ sales' = [sales EXCEPT ![s] = sales[s]]
            /\ drawer' = [drawer EXCEPT ![s] = [drawer[s] EXCEPT
                              !.cash = drawer[s].cash - amount, !.even = FALSE]]
        BY <1>0, <2>2 DEF SaleRefunded, TypeOK
      <3>2. drawer[s].cash - amount \in Nat
        BY <1>0, <2>2 DEF SaleRefunded
      <3> QED
        BY <1>0, <3>1, <3>2
    <2>3. CASE SaleUndone(s, amount, paid)
      <3>1. /\ sales' = [sales EXCEPT ![s] = sales[s] - amount]
            /\ drawer' = [drawer EXCEPT ![s] = [drawer[s] EXCEPT
                              !.cash = drawer[s].cash - paid, !.even = (drawer[s].even /\ paid = amount)]]
        BY <1>0, <2>3 DEF SaleUndone, TypeOK
      <3>2. drawer[s].cash - paid \in Nat /\ sales[s] - amount \in Nat
        BY <1>0, <2>3 DEF SaleUndone
      <3>3. (drawer[s].even /\ paid = amount) \in BOOLEAN
        OBVIOUS
      <3>4. (drawer[s].even /\ paid = amount) /\ sales[s] = drawer[s].cash
                => sales[s] - amount = drawer[s].cash - paid
        BY <1>0
      <3> QED
        BY <3>1, <3>2, <3>3, <3>4
    <2> QED
      BY <2>1, <2>2, <2>3
  <1>3. /\ sales' \in [Shifts -> Nat] /\ sales'[s] = n
        /\ \A x \in Shifts \ {s} : sales'[x] = sales[x]
    BY <1>0, <1>2 DEF TypeOK
  <1>4. /\ drawer' \in [Shifts -> Drawer]
        /\ drawer'[s].cash = c /\ drawer'[s].even = e /\ drawer'[s].summed = drawer[s].summed
        /\ \A x \in Shifts \ {s} : drawer'[x] = drawer[x]
    BY <1>0, <1>2 DEF TypeOK, Drawer
  <1> QED
    BY <1>1, <1>2, <1>3, <1>4 DEF TypeInv

LEMMA NextTypes == TypeInv /\ [Next]_vars => TypeInv'
  <1> SUFFICES ASSUME TypeInv, [Next]_vars
               PROVE  TypeInv'
    OBVIOUS
  <1> USE TillsAssumption DEF tables, history
  <1>1. CASE UNCHANGED vars
    BY <1>1 DEF vars, TypeInv, TypeOK
  <1>2. ASSUME NEW s \in Shifts, NEW c \in Cashiers, NEW float \in Floats, OpenShift(s, c, float)
        PROVE  TypeInv'
    <2>1. [status |-> "OPEN", cashier |-> c, day |-> today, float |-> float,
           count |-> Uncounted] \in ShiftRow
      BY DEF ShiftRow, ShiftStatus, Uncounted, CountType, TypeInv, TypeOK
    <2> QED
      BY <1>2, <2>1 DEF OpenShift, TypeInv, TypeOK
  <1>3. ASSUME NEW s \in Shifts, NEW amount \in Cash \ {0}, NEW paid \in Cash,
               CashSale(s, amount) \/ SaleRefunded(s, amount) \/ SaleUndone(s, amount, paid)
        PROVE  TypeInv'
    BY <1>3, DrawerStep DEF TypeInv, TypeOK
  <1>4. CASE Midnight
    BY <1>4 DEF Midnight, TypeInv, TypeOK
  <1>5. ASSUME NEW r \in Requests, Rollback(r)
        PROVE  TypeInv'
    BY <1>5, FinishTypes DEF Rollback, TypeInv, TypeOK
  <1> QED
    BY <1>1, <1>2, <1>3, <1>4, <1>5, CallTypes, WorkTypes DEF Next, Idle

(***************************************************************************)
(* The tables, the requests and the histories keep their types.            *)
(***************************************************************************)
THEOREM TypeCorrect == Spec => []TypeOK
  <1>1. TypeInv => TypeOK
    BY DEF TypeInv
  <1> QED
    BY InitTypes, NextTypes, <1>1, PTL DEF Spec
-----------------------------------------------------------------------------
(* What holds on a shift no two requests have worked on together *)

\* At most one request works on it ...
Lone(s) == \A q, r \in Requests : WorksOn(q, s) /\ WorksOn(r, s) => q = r

\* ... and finds it open, until the request is over.
WorkedIsOpen(s) ==
    \A r \in Requests : WorksOn(r, s) /\ req[r].op # "audit" => shift[s].status = "OPEN"

\* Only a close counts.
CountIsOfAClose(s) == shift[s].status # "CLOSED" => shift[s].count = Uncounted

\* The sums a close has read.
SumsAreCurrent(s) ==
    \A r \in Requests : req[r].on = s =>
        /\ req[r].step \in {"summedDrops", "summedSales"} => req[r].drops = drops[s]
        /\ req[r].step = "summedSales" /\ drawer[s].even => req[r].sales = drawer[s].summed

CountIsExact(s) ==
    drawer[s].even /\ shift[s].status = "CLOSED" =>
        shift[s].count.expected = shift[s].float + drawer[s].summed - drops[s]

\* A close of the day has found it, if it is open.
DayFindsIt(s) ==
    \A r \in Requests :
        ClosesDay(r, shift[s].day) /\ shift[s].status = "OPEN" => s \in req[r].opens

\* The summary a close has read says what it will commit.
SummaryIsCurrent(s) ==
    \A r \in Requests : req[r].step = "summarised" /\ s \in req[r].summary.of =>
        /\ shift[s].count = req[r].summary.counts[s]
        /\ shift[s].status # "NONE"
        /\ shift[s].day = req[r].day

RecordIsCurrent(s) ==
    \A d \in Days : daily[d].closed /\ s \in daily[d].summary.of =>
        /\ shift[s].count = daily[d].summary.counts[s]
        /\ shift[s].status \notin {"NONE", "OPEN"}

ShiftOK(s) ==
    /\ Lone(s)
    /\ WorkedIsOpen(s)
    /\ CountIsOfAClose(s)
    /\ SumsAreCurrent(s)
    /\ CountIsExact(s)
    /\ DayFindsIt(s)
    /\ SummaryIsCurrent(s)
    /\ RecordIsCurrent(s)

IInv == TypeInv /\ \A s \in Shifts \ overlap : ShiftOK(s)

\* What a request that has not begun, or has ended, holds.
LEMMA NoRequestHolds ==
    /\ NoRequest.op = "none" /\ NoRequest.step = "new"
    /\ NoRequest.on = NoShift /\ NoRequest.opens = {}
  BY DEF NoRequest

LEMMA InitIInv == Init => IInv
  <1> SUFFICES ASSUME Init
               PROVE  IInv
    OBVIOUS
  <1> SUFFICES ASSUME NEW s \in Shifts
               PROVE  ShiftOK(s)
    BY InitTypes DEF IInv
  <1>1. \A r \in Requests : /\ req[r].op = "none" /\ req[r].step = "new"
                           /\ req[r].on = NoShift /\ req[r].opens = {}
    BY NoRequestHolds DEF Init
  <1>2. shift[s].status = "NONE" /\ shift[s].count = Uncounted
    BY DEF Init, Unopened
  <1>3. \A d \in Days : daily[d].closed = FALSE
    BY DEF Init
  <1>4. Lone(s) /\ WorkedIsOpen(s)
    BY <1>1, TillsAssumption DEF Lone, WorkedIsOpen, WorksOn
  <1>5. CountIsOfAClose(s) /\ CountIsExact(s) /\ RecordIsCurrent(s)
    BY <1>2, <1>3 DEF CountIsOfAClose, CountIsExact, RecordIsCurrent
  <1>6. SumsAreCurrent(s) /\ DayFindsIt(s) /\ SummaryIsCurrent(s)
    BY <1>1, <1>2 DEF SumsAreCurrent, DayFindsIt, SummaryIsCurrent, ClosesDay
  <1> QED
    BY <1>4, <1>5, <1>6 DEF ShiftOK

\* A step after which a request works on s no more, or on the same as before,
\* and which changes nothing else about s.
LEMMA LeavesShift ==
    ASSUME TypeInv, NEW r \in Requests, NEW s \in Shifts, ShiftOK(s),
           Finish(r), shift'[s] = shift[s], drops'[s] = drops[s], sales'[s] = sales[s],
           drawer'[s] = drawer[s], daily' = daily
    PROVE  ShiftOK(s)'
  <1>1. /\ \A q \in Requests \ {r} : req'[q] = req[q]
        /\ req'[r] = [NoRequest EXCEPT !.step = "done"]
    BY DEF Finish, TypeInv, TypeOK
  <1>2. \A q \in Requests : WorksOn(q, s)' => q # r /\ WorksOn(q, s)
    BY <1>1, TillsAssumption DEF WorksOn, NoRequest
  <1>3. Lone(s)' /\ WorkedIsOpen(s)' /\ CountIsOfAClose(s)' /\ CountIsExact(s)'
    BY <1>1, <1>2 DEF ShiftOK, Lone, WorkedIsOpen, CountIsOfAClose, CountIsExact
  <1>4. SumsAreCurrent(s)' /\ DayFindsIt(s)' /\ SummaryIsCurrent(s)' /\ RecordIsCurrent(s)'
    BY <1>1, TillsAssumption
       DEF ShiftOK, SumsAreCurrent, DayFindsIt, ClosesDay, SummaryIsCurrent, RecordIsCurrent, NoRequest
  <1> QED
    BY <1>3, <1>4 DEF ShiftOK

\* A request reads shift s, found in status `status`; nothing else changes.
LEMMA ReadKeepsIInv ==
    ASSUME IInv, TypeInv', NEW r \in Requests, NEW x \in Shifts, NEW amount \in Nat,
           NEW op \in OfShift, NEW step, NEW status \in ShiftStatus,
           step \in {"selected", "opened", "auditing"},
           op # "audit" => status = "OPEN",
           ReadShift(r, op, step, x, status, amount)
    PROVE  IInv'
  <1> SUFFICES ASSUME NEW s \in Shifts \ overlap'
               PROVE  ShiftOK(s)'
    BY DEF IInv
  <1>0. UNCHANGED <<shift, drops, sales, daily, drawer>>
    BY DEF ReadShift, tables
  <1>1. ShiftOK(s) /\ s \notin overlap
    BY DEF IInv, ReadShift, Joins
  <1>2. CASE shift[x].status # status
    BY <1>0, <1>1, <1>2, LeavesShift DEF ReadShift, IInv
  <1>3. CASE shift[x].status = status
    <2>1. /\ \A q \in Requests \ {r} : req'[q] = req[q]
          /\ req'[r] = [NoRequest EXCEPT !.op = op, !.step = step, !.on = x, !.arg = amount]
      BY <1>3 DEF ReadShift, IInv, TypeInv, TypeOK
    <2>2. req'[r].op = op /\ req'[r].step = step /\ req'[r].on = x /\ req'[r].opens = {}
      BY <2>1 DEF NoRequest
    <2>3. s = x => \A q \in Requests \ {r} : ~WorksOn(q, s)
      BY <1>3, <1>1 DEF ReadShift, Joins
    <2>4. Lone(s)'
      BY <1>1, <2>1, <2>2, <2>3 DEF ShiftOK, Lone, WorksOn
    <2>5. WorkedIsOpen(s)'
      BY <1>0, <1>1, <1>3, <2>1, <2>2 DEF ShiftOK, WorkedIsOpen, WorksOn
    <2>6. SumsAreCurrent(s)'
      BY <1>0, <1>1, <2>1, <2>2 DEF ShiftOK, SumsAreCurrent
    <2>7. DayFindsIt(s)'
      BY <1>0, <1>1, <2>1, <2>2 DEF ShiftOK, DayFindsIt, ClosesDay
    <2>8. SummaryIsCurrent(s)'
      BY <1>0, <1>1, <2>1, <2>2 DEF ShiftOK, SummaryIsCurrent
    <2> QED
      BY <1>0, <1>1, <2>4, <2>5, <2>6, <2>7, <2>8
         DEF ShiftOK, CountIsOfAClose, CountIsExact, RecordIsCurrent
  <1> QED
    BY <1>2, <1>3

LEMMA CallKeepsIInv ==
    ASSUME IInv, NEW r \in Requests, Call(r)
    PROVE  IInv'
  <1>0. TypeInv'
    BY CallTypes DEF IInv
  <1> USE TillsAssumption DEF OfShift, ShiftStatus
  <1>1. CASE \E s \in Shifts, amount \in Cash \ {0} : DropSelect(r, s, amount)
    BY <1>0, <1>1, ReadKeepsIInv DEF DropSelect, Cash
  <1>2. CASE \E s \in Shifts : CloseSelect(r, s)
    BY <1>0, <1>2, ReadKeepsIInv DEF CloseSelect
  <1>3. CASE \E s \in Shifts : ForceSelect(r, s)
    BY <1>0, <1>3, ReadKeepsIInv DEF ForceSelect
  <1>4. CASE \E s \in Shifts : AuditSelect(r, s)
    BY <1>0, <1>4, ReadKeepsIInv DEF AuditSelect
  <1>5. ASSUME NEW d \in Days, DayLookup(r, d), ~Finish(r)
        PROVE  IInv'
    <2> SUFFICES ASSUME NEW s \in Shifts \ overlap
                 PROVE  ShiftOK(s)'
      BY <1>0, <1>5 DEF IInv, DayLookup, history
    <2>1. /\ \A q \in Requests \ {r} : req'[q] = req[q]
          /\ req'[r] = [NoRequest EXCEPT !.op = "day", !.step = "looked", !.day = d]
          /\ UNCHANGED <<shift, drops, sales, daily, drawer>>
      BY <1>5 DEF DayLookup, IInv, TypeInv, TypeOK, tables, history
    <2>2. req'[r].step = "looked" /\ req'[r].on = NoShift /\ req'[r].opens = {}
      BY <2>1 DEF NoRequest
    <2>3. \A q \in Requests : WorksOn(q, s)' => q # r /\ WorksOn(q, s)
      BY <2>1, <2>2 DEF WorksOn
    <2>4. ShiftOK(s)
      BY DEF IInv
    <2>5. Lone(s)' /\ WorkedIsOpen(s)' /\ CountIsOfAClose(s)' /\ CountIsExact(s)'
      BY <2>1, <2>3, <2>4 DEF ShiftOK, Lone, WorkedIsOpen, CountIsOfAClose, CountIsExact
    <2>6. SumsAreCurrent(s)' /\ DayFindsIt(s)'
      <3>1. SumsAreCurrent(s)'
        BY <2>1, <2>2, <2>4 DEF ShiftOK, SumsAreCurrent
      <3>2. DayFindsIt(s)'
        BY <2>1, <2>2, <2>4 DEF ShiftOK, DayFindsIt, ClosesDay
      <3> QED
        BY <3>1, <3>2
    <2>7. SummaryIsCurrent(s)' /\ RecordIsCurrent(s)'
      BY <2>1, <2>2, <2>4 DEF ShiftOK, SummaryIsCurrent, RecordIsCurrent
    <2> QED
      BY <2>4, <2>5, <2>6, <2>7 DEF ShiftOK
  <1>6. ASSUME NEW d \in Days, DayLookup(r, d), Finish(r)
        PROVE  IInv'
    <2> SUFFICES ASSUME NEW s \in Shifts \ overlap
                 PROVE  ShiftOK(s)'
      BY <1>0, <1>6 DEF IInv, DayLookup, history
    <2>1. TypeInv /\ ShiftOK(s) /\ UNCHANGED <<shift, drops, sales, daily, drawer>>
      BY <1>6 DEF DayLookup, IInv, tables, history
    <2> QED
      BY <1>6, <2>1, LeavesShift
  <1> QED
    BY <1>1, <1>2, <1>3, <1>4, <1>5, <1>6 DEF Call

\* What the request that works on an open shift s leaves behind when it ends:
\* s with another status, and its count if it was a close.
LEMMA EndsShift ==
    ASSUME TypeInv, NEW r \in Requests, NEW s \in Shifts, ShiftOK(s), Finish(r),
           WorksOn(r, s), req[r].op # "audit",
           shift'[s].day = shift[s].day, shift'[s].status \in {"CLOSED", "FORCE_CLOSED"},
           shift'[s].status # "CLOSED" => shift'[s].count = shift[s].count,
           shift'[s].status = "CLOSED" =>
              /\ req[r].op = "close"
              /\ drawer'[s].even =>
                    shift'[s].count.expected = shift'[s].float + drawer'[s].summed - drops'[s],
           daily' = daily
    PROVE  ShiftOK(s)'
  <1>1. /\ \A q \in Requests \ {r} : req'[q] = req[q] /\ ~WorksOn(q, s)
        /\ req'[r] = [NoRequest EXCEPT !.step = "done"]
    BY DEF Finish, TypeInv, TypeOK, ShiftOK, Lone
  <1>2. req'[r].step = "done" /\ req'[r].on = NoShift /\ req'[r].opens = {}
    BY <1>1 DEF NoRequest
  <1>3. shift[s].status = "OPEN" /\ shift[s].count = Uncounted
    BY DEF ShiftOK, WorkedIsOpen, CountIsOfAClose
  <1>4. \A q \in Requests : ~WorksOn(q, s)'
    BY <1>1, <1>2, TillsAssumption DEF WorksOn
  <1>5. Lone(s)' /\ WorkedIsOpen(s)' /\ SumsAreCurrent(s)'
    BY <1>4 DEF Lone, WorkedIsOpen, SumsAreCurrent, WorksOn
  <1>6. CountIsOfAClose(s)' /\ CountIsExact(s)' /\ DayFindsIt(s)'
    BY <1>3 DEF CountIsOfAClose, CountIsExact, DayFindsIt
  <1>7. SummaryIsCurrent(s)'
    <2> SUFFICES ASSUME NEW q \in Requests, req'[q].step = "summarised", s \in req'[q].summary.of
                 PROVE  /\ shift'[s].count = req'[q].summary.counts[s]
                        /\ shift'[s].status # "NONE"
                        /\ shift'[s].day = req'[q].day
      BY DEF SummaryIsCurrent
    <2>1. q # r /\ req'[q] = req[q]
      BY <1>1, <1>2
    <2>2. shift[s].day = req[q].day /\ req[q].day \in Days
      BY <2>1 DEF ShiftOK, SummaryIsCurrent, TypeInv, TypeOK, Request
    <2>3. ClosesDay(q, shift[s].day)
      BY <2>1, <2>2, TillsAssumption DEF ClosesDay
    <2>4. WorksOn(q, s)
      BY <1>3, <2>3 DEF ShiftOK, DayFindsIt, WorksOn
    <2> QED
      BY <1>1, <2>1, <2>4
  <1>8. RecordIsCurrent(s)'
    BY <1>3 DEF ShiftOK, RecordIsCurrent
  <1> QED
    BY <1>5, <1>6, <1>7, <1>8 DEF ShiftOK

LEMMA CloseSteps ==
    ASSUME IInv, NEW r \in Requests, NEW s \in Shifts \ overlap,
           \/ CloseSumDrops(r)
           \/ CloseSumSales(r)
           \/ \E actual \in Cash : CloseWrite(r, actual)
    PROVE  ShiftOK(s)'
  <1>0. TypeInv /\ TypeOK /\ ShiftOK(s) /\ Sane(req[r]) /\ req[r] \in Request
    BY DEF IInv, TypeInv, SaneRequest
  <1>1. CASE CloseSumDrops(r)
    <2>1. /\ \A q \in Requests \ {r} : req'[q] = req[q]
          /\ UNCHANGED <<shift, drops, sales, daily, drawer>>
          /\ req[r].step = "opened"
      BY <1>0, <1>1 DEF CloseSumDrops, TypeOK, tables, history
    <2>2. /\ req'[r].on = req[r].on /\ req'[r].op = req[r].op /\ req'[r].opens = req[r].opens
          /\ req'[r].step = "summedDrops" /\ req'[r].drops = drops[req[r].on]
      BY <1>0, <1>1 DEF CloseSumDrops, TypeOK, Request
    <2>3. \A q \in Requests : WorksOn(q, s)' <=> WorksOn(q, s)
      BY <2>1, <2>2 DEF WorksOn
    <2>4. Lone(s)' /\ WorkedIsOpen(s)' /\ CountIsOfAClose(s)' /\ CountIsExact(s)'
      BY <1>0, <2>1, <2>2, <2>3 DEF ShiftOK, Lone, WorkedIsOpen, CountIsOfAClose, CountIsExact
    <2>5. SumsAreCurrent(s)'
      BY <1>0, <2>1, <2>2 DEF ShiftOK, SumsAreCurrent
    <2>6. DayFindsIt(s)'
      BY <1>0, <2>1, <2>2 DEF ShiftOK, DayFindsIt, ClosesDay
    <2>7. SummaryIsCurrent(s)'
      BY <1>0, <2>1, <2>2 DEF ShiftOK, SummaryIsCurrent
    <2>8. RecordIsCurrent(s)'
      BY <1>0, <2>1 DEF ShiftOK, RecordIsCurrent
    <2> QED
      BY <2>4, <2>5, <2>6, <2>7, <2>8 DEF ShiftOK
  <1>2. CASE CloseSumSales(r)
    <2>1. /\ \A q \in Requests \ {r} : req'[q] = req[q]
          /\ UNCHANGED <<shift, drops, sales, daily>>
          /\ drawer' = [drawer EXCEPT ![req[r].on].summed = drawer[req[r].on].cash]
          /\ req[r].step = "summedDrops"
          /\ req[r].op = "close"
      BY <1>0, <1>2 DEF CloseSumSales, TypeOK, tables, Sane
    <2>2. /\ req'[r].on = req[r].on /\ req'[r].op = req[r].op /\ req'[r].opens = req[r].opens
          /\ req'[r].drops = req[r].drops
          /\ req'[r].step = "summedSales" /\ req'[r].sales = sales[req[r].on]
      BY <1>0, <1>2 DEF CloseSumSales, TypeOK, Request
    <2>3. \A q \in Requests : WorksOn(q, s)' <=> WorksOn(q, s)
      BY <2>1, <2>2 DEF WorksOn
    <2>4. Lone(s)' /\ WorkedIsOpen(s)' /\ CountIsOfAClose(s)'
      BY <1>0, <2>1, <2>2, <2>3 DEF ShiftOK, Lone, WorkedIsOpen, CountIsOfAClose
    <2>5. ASSUME s = req[r].on
          PROVE  CountIsExact(s)' /\ SumsAreCurrent(s)'
      <3>1. shift[s].status = "OPEN" /\ \A q \in Requests \ {r} : req[q].on # s
        BY <1>0, <2>1, <2>5 DEF ShiftOK, WorkedIsOpen, Lone, WorksOn
      <3>2. drawer'[s].summed = drawer[s].cash /\ drawer'[s].even = drawer[s].even
        BY <1>0, <2>1, <2>5 DEF TypeOK, Drawer
      <3>3. CountIsExact(s)'
        BY <2>1, <3>1 DEF CountIsExact
      <3>4. req[r].drops = drops[s]
        BY <1>0, <2>1, <2>5 DEF ShiftOK, SumsAreCurrent
      <3>5. ASSUME NEW q \in Requests, req'[q].on = s
            PROVE  q = r
        BY <2>1, <3>1, <3>5
      <3>6. drawer'[s].even => sales[s] = drawer'[s].summed
        BY <1>0, <3>2 DEF TypeInv
      <3>7. SumsAreCurrent(s)'
        BY <2>1, <2>2, <2>5, <3>4, <3>5, <3>6 DEF SumsAreCurrent
      <3> QED
        BY <3>3, <3>7
    <2>6. ASSUME s # req[r].on
          PROVE  CountIsExact(s)' /\ SumsAreCurrent(s)'
      <3>1. drawer'[s] = drawer[s]
        BY <1>0, <2>1, <2>6 DEF TypeOK
      <3>2. CountIsExact(s)'
        BY <1>0, <2>1, <3>1 DEF ShiftOK, CountIsExact
      <3>3. SumsAreCurrent(s)'
        BY <1>0, <2>1, <2>2, <2>6, <3>1 DEF ShiftOK, SumsAreCurrent
      <3> QED
        BY <3>2, <3>3
    <2>7. DayFindsIt(s)'
      BY <1>0, <2>1, <2>2 DEF ShiftOK, DayFindsIt, ClosesDay
    <2>8. SummaryIsCurrent(s)'
      BY <1>0, <2>1, <2>2 DEF ShiftOK, SummaryIsCurrent
    <2>9. RecordIsCurrent(s)'
      BY <1>0, <2>1 DEF ShiftOK, RecordIsCurrent
    <2> QED
      BY <2>4, <2>5, <2>6, <2>7, <2>8, <2>9 DEF ShiftOK
  <1>3. ASSUME NEW actual \in Cash, CloseWrite(r, actual)
        PROVE  ShiftOK(s)'
    <2>1. /\ Finish(r) /\ UNCHANGED <<drops, sales, daily, drawer>>
          /\ req[r].step = "summedSales" /\ req[r].op = "close" /\ req[r].on \in Shifts
          /\ shift' = [shift EXCEPT ![req[r].on] =
                 [shift[req[r].on] EXCEPT !.status = "CLOSED",
                                          !.count = Count(ExpectedCash(r), actual)]]
      BY <1>0, <1>3 DEF CloseWrite, history, Sane, OfShift, TypeOK
    <2>2. CASE s # req[r].on
      BY <1>0, <2>1, <2>2, LeavesShift DEF TypeOK
    <2>3. CASE s = req[r].on
      <3>1. /\ shift[s] \in ShiftRow
            /\ shift'[s] = [shift[s] EXCEPT !.status = "CLOSED", !.count = Count(ExpectedCash(r), actual)]
        BY <1>0, <2>1, <2>3 DEF TypeOK
      <3>2. /\ shift'[s].day = shift[s].day /\ shift'[s].float = shift[s].float
            /\ shift'[s].status = "CLOSED" /\ shift'[s].count.expected = ExpectedCash(r)
        BY <3>1 DEF ShiftRow, Count
      <3>3. drawer[s].even => ExpectedCash(r) = shift[s].float + drawer[s].summed - drops[s]
        BY <1>0, <2>1, <2>3 DEF ShiftOK, SumsAreCurrent, ExpectedCash
      <3>4. WorksOn(r, s)
        BY <2>3 DEF WorksOn
      <3> QED
        BY <1>0, <2>1, <3>2, <3>3, <3>4, EndsShift
    <2> QED
      BY <2>2, <2>3
  <1> QED
    BY <1>1, <1>2, <1>3

LEMMA DropAndForceSteps ==
    ASSUME IInv, NEW r \in Requests, NEW s \in Shifts \ overlap, DropInsert(r) \/ ForceWrite(r)
    PROVE  ShiftOK(s)'
  <1>0. TypeInv /\ TypeOK /\ ShiftOK(s) /\ Sane(req[r])
    BY DEF IInv, TypeInv, SaneRequest
  <1>1. CASE DropInsert(r)
    <2>1. /\ Finish(r) /\ UNCHANGED <<shift, sales, daily, drawer>> /\ req[r].op = "drop"
          /\ drops' = [drops EXCEPT ![req[r].on] = @ + req[r].arg]
      BY <1>1 DEF DropInsert, history
    <2>2. CASE s # req[r].on
      <3>1. drops'[s] = drops[s]
        BY <1>0, <2>1, <2>2 DEF TypeOK
      <3> QED
        BY <1>0, <2>1, <3>1, LeavesShift
    <2>3. CASE s = req[r].on
      <3>1. /\ \A q \in Requests \ {r} : req'[q] = req[q] /\ ~WorksOn(q, s)
            /\ req'[r] = [NoRequest EXCEPT !.step = "done"]
        BY <1>0, <2>1, <2>3 DEF Finish, TypeOK, ShiftOK, Lone, WorksOn
      <3>2. req'[r].step = "done" /\ req'[r].on = NoShift /\ req'[r].opens = {}
        BY <3>1 DEF NoRequest
      <3>3. shift[s].status = "OPEN"
        BY <1>0, <2>1, <2>3 DEF ShiftOK, WorkedIsOpen, WorksOn
      <3>4. \A q \in Requests : ~WorksOn(q, s)'
        BY <3>1, <3>2, TillsAssumption DEF WorksOn
      <3>5. Lone(s)' /\ WorkedIsOpen(s)' /\ SumsAreCurrent(s)'
        BY <3>4 DEF Lone, WorkedIsOpen, SumsAreCurrent, WorksOn
      <3>6. CountIsOfAClose(s)' /\ CountIsExact(s)' /\ RecordIsCurrent(s)'
        BY <1>0, <2>1, <3>3 DEF ShiftOK, CountIsOfAClose, CountIsExact, RecordIsCurrent
      <3>7. DayFindsIt(s)' /\ SummaryIsCurrent(s)'
        BY <1>0, <2>1, <3>1, <3>2 DEF ShiftOK, DayFindsIt, ClosesDay, SummaryIsCurrent
      <3> QED
        BY <3>5, <3>6, <3>7 DEF ShiftOK
    <2> QED
      BY <2>2, <2>3
  <1>2. CASE ForceWrite(r)
    <2>1. /\ Finish(r) /\ UNCHANGED <<drops, sales, daily, drawer>> /\ req[r].op = "force"
          /\ req[r].on \in Shifts
          /\ shift' = [shift EXCEPT ![req[r].on] = [shift[req[r].on] EXCEPT !.status = "FORCE_CLOSED"]]
      BY <1>0, <1>2 DEF ForceWrite, history, Sane, OfShift, TypeOK
    <2>2. CASE s # req[r].on
      BY <1>0, <2>1, <2>2, LeavesShift DEF TypeOK
    <2>3. CASE s = req[r].on
      <3>1. shift[s] \in ShiftRow /\ shift'[s] = [shift[s] EXCEPT !.status = "FORCE_CLOSED"]
        BY <1>0, <2>1, <2>3 DEF TypeOK
      <3>2. /\ shift'[s].day = shift[s].day /\ shift'[s].count = shift[s].count
            /\ shift'[s].status = "FORCE_CLOSED"
        BY <3>1 DEF ShiftRow
      <3>3. WorksOn(r, s)
        BY <2>3 DEF WorksOn
      <3> QED
        BY <1>0, <2>1, <3>2, <3>3, EndsShift
    <2> QED
      BY <2>2, <2>3
  <1> QED
    BY <1>1, <1>2

\* A request of no shift that goes on to another step of the close of its day.
LEMMA DayGoesOn ==
    ASSUME TypeInv, NEW r \in Requests, NEW s \in Shifts, ShiftOK(s),
           \A q \in Requests \ {r} : req'[q] = req[q],
           req'[r].op = req[r].op, req'[r].on = req[r].on,
           req'[r].opens = req[r].opens, req'[r].day = req[r].day,
           req[r].step \in {"begun", "forced"}, req'[r].step \in {"forced", "summarised"},
           req'[r].step = "summarised" => req'[r].summary = DailySummary(req[r].day),
           UNCHANGED <<shift, drops, sales, daily, drawer>>
    PROVE  ShiftOK(s)'
  <1>1. \A q \in Requests : WorksOn(q, s)' <=> WorksOn(q, s)
    BY DEF WorksOn
  <1>2. Lone(s)' /\ WorkedIsOpen(s)' /\ CountIsOfAClose(s)' /\ CountIsExact(s)'
    BY <1>1 DEF ShiftOK, Lone, WorkedIsOpen, CountIsOfAClose, CountIsExact
  <1>3. SumsAreCurrent(s)'
    BY DEF ShiftOK, SumsAreCurrent
  <1>4. DayFindsIt(s)'
    BY DEF ShiftOK, DayFindsIt, ClosesDay
  <1>5. RecordIsCurrent(s)'
    BY DEF ShiftOK, RecordIsCurrent
  <1>6. ASSUME req'[r].step = "summarised", s \in req'[r].summary.of
        PROVE  /\ shift[s].count = req'[r].summary.counts[s]
               /\ shift[s].status # "NONE"
               /\ shift[s].day = req'[r].day
    <2>1. req'[r].summary = DailySummary(req[r].day)
      BY <1>6
    <2>2. s \in OfDay(req[r].day)
      BY <1>6, <2>1 DEF DailySummary
    <2>3. req'[r].summary.counts[s] = shift[s].count
      BY <2>1, <2>2 DEF DailySummary
    <2> QED
      BY <2>2, <2>3 DEF OfDay
  <1>7. SummaryIsCurrent(s)'
    BY <1>6 DEF ShiftOK, SummaryIsCurrent
  <1> QED
    BY <1>2, <1>3, <1>4, <1>5, <1>7 DEF ShiftOK

LEMMA DayBeginKeeps ==
    ASSUME IInv, NEW r \in Requests, DayBegin(r), NEW s \in Shifts \ overlap'
    PROVE  ShiftOK(s)'
  <1> DEFINE opens == Abandoned(req[r].day)
  <1>0. TypeInv /\ TypeOK /\ Sane(req[r]) /\ req[r] \in Request
    BY DEF IInv, TypeInv, SaneRequest
  <1>1. s \notin overlap /\ ShiftOK(s)
    BY DEF IInv, DayBegin, Joins
  <1>2. /\ \A q \in Requests \ {r} : req'[q] = req[q]
        /\ UNCHANGED <<shift, drops, sales, daily, drawer>>
        /\ req[r].step = "looked" /\ req[r].op = "day"
    BY <1>0 DEF DayBegin, TypeOK, tables, Sane
  <1>3. /\ req'[r].on = req[r].on /\ req'[r].op = req[r].op /\ req'[r].opens = opens
        /\ req'[r].day = req[r].day /\ req'[r].step = "begun"
    BY <1>0 DEF DayBegin, TypeOK, Request
  <1>4. req[r].on \notin Shifts
    BY <1>0, <1>2 DEF Sane, OfShift
  <1>5. s \in opens => \A q \in Requests \ {r} : ~WorksOn(q, s)
    BY <1>1 DEF DayBegin, Joins
  <1>6. WorksOn(r, s)' => s \in opens /\ shift[s].status = "OPEN"
    BY <1>3, <1>4 DEF WorksOn, Abandoned
  <1>7. \A q \in Requests \ {r} : WorksOn(q, s)' <=> WorksOn(q, s)
    BY <1>2 DEF WorksOn
  <1>8. Lone(s)'
    BY <1>1, <1>5, <1>6, <1>7 DEF ShiftOK, Lone
  <1>9. WorkedIsOpen(s)'
    BY <1>1, <1>2, <1>6, <1>7 DEF ShiftOK, WorkedIsOpen
  <1>10. CountIsOfAClose(s)' /\ CountIsExact(s)' /\ RecordIsCurrent(s)'
    BY <1>1, <1>2 DEF ShiftOK, CountIsOfAClose, CountIsExact, RecordIsCurrent
  <1>11. SumsAreCurrent(s)'
    BY <1>1, <1>2, <1>3 DEF ShiftOK, SumsAreCurrent
  <1>12. DayFindsIt(s)'
    <2>1. ASSUME req[r].day >= shift[s].day, shift[s].status = "OPEN"
          PROVE  s \in opens
      <3>1. req[r].day \in Nat /\ shift[s].day \in Nat
        BY <1>0, TillsAssumption DEF TypeOK, ShiftRow, Request
      <3> QED
        BY <2>1, <3>1 DEF Abandoned
    <2> QED
      BY <1>1, <1>2, <1>3, <2>1 DEF ShiftOK, DayFindsIt, ClosesDay
  <1>13. SummaryIsCurrent(s)'
    BY <1>1, <1>2, <1>3 DEF ShiftOK, SummaryIsCurrent
  <1> QED
    BY <1>8, <1>9, <1>10, <1>11, <1>12, <1>13 DEF ShiftOK

\* The close of a day force-closes the shifts it found, and writes its record.
LEMMA DayInsertKeeps ==
    ASSUME IInv, NEW r \in Requests, DayInsert(r), NEW s \in Shifts \ overlap
    PROVE  ShiftOK(s)'
  <1> DEFINE d0 == req[r].day
  <1>0. /\ TypeInv /\ TypeOK /\ ShiftOK(s) /\ Sane(req[r]) /\ req[r] \in Request
        /\ d0 \in Days /\ shift[s] \in ShiftRow
    BY DEF IInv, TypeInv, SaneRequest, TypeOK, Request
  <1>1. /\ Finish(r) /\ UNCHANGED <<drops, sales, drawer>>
        /\ req[r].step = "summarised" /\ req[r].op = "day"
    BY <1>0 DEF DayInsert, history, Sane
  <1>2. /\ \A q \in Requests \ {r} : req'[q] = req[q]
        /\ req'[r].step = "done" /\ req'[r].on = NoShift /\ req'[r].opens = {}
    BY <1>0, <1>1, NoRequestHolds DEF Finish, TypeOK, NoRequest
  <1>3. \A q \in Requests : WorksOn(q, s)' => q # r /\ WorksOn(q, s)
    BY <1>2, TillsAssumption DEF WorksOn
  <1>4. shift'[s].day = shift[s].day /\ shift'[s].count = shift[s].count /\ shift'[s].float = shift[s].float
    BY <1>0 DEF DayInsert, ShiftRow
  <1>5. s \in req[r].opens => shift[s].status = "OPEN" /\ shift'[s].status = "FORCE_CLOSED"
    BY <1>0, <1>1 DEF DayInsert, ShiftRow, ShiftOK, WorkedIsOpen, WorksOn
  <1>6. s \notin req[r].opens => shift'[s].status = shift[s].status
    BY DEF DayInsert
  <1>7. Lone(s)' /\ SumsAreCurrent(s)'
    <2>1. Lone(s)'
      BY <1>0, <1>3 DEF ShiftOK, Lone
    <2>2. SumsAreCurrent(s)'
      BY <1>0, <1>1, <1>2, TillsAssumption DEF ShiftOK, SumsAreCurrent
    <2> QED
      BY <2>1, <2>2
  <1>8. WorkedIsOpen(s)'
    <2> SUFFICES ASSUME NEW q \in Requests, WorksOn(q, s)', req'[q].op # "audit"
                 PROVE  shift'[s].status = "OPEN"
      BY DEF WorkedIsOpen
    <2>1. q # r /\ WorksOn(q, s) /\ req[q].op # "audit"
      BY <1>2, <1>3
    <2>2. s \notin req[r].opens
      BY <1>0, <2>1 DEF ShiftOK, Lone, WorksOn
    <2> QED
      BY <1>0, <1>6, <2>1, <2>2 DEF ShiftOK, WorkedIsOpen
  <1>9. CountIsOfAClose(s)' /\ CountIsExact(s)'
    BY <1>0, <1>1, <1>4, <1>5, <1>6 DEF ShiftOK, CountIsOfAClose, CountIsExact
  <1>10. DayFindsIt(s)'
    BY <1>0, <1>2, <1>4, <1>5, <1>6 DEF ShiftOK, DayFindsIt, ClosesDay
  <1>11. SummaryIsCurrent(s)'
    BY <1>0, <1>2, <1>4, <1>5, <1>6 DEF ShiftOK, SummaryIsCurrent
  <1>12. RecordIsCurrent(s)'
    <2> SUFFICES ASSUME NEW d \in Days, daily'[d].closed, s \in daily'[d].summary.of
                 PROVE  /\ shift'[s].count = daily'[d].summary.counts[s]
                        /\ shift'[s].status \notin {"NONE", "OPEN"}
      BY DEF RecordIsCurrent
    <2>1. CASE d # d0
      <3>1. daily'[d] = daily[d]
        BY <1>0, <2>1 DEF DayInsert, TypeOK
      <3> QED
        BY <1>0, <1>4, <1>5, <1>6, <3>1 DEF ShiftOK, RecordIsCurrent
    <2>2. CASE d = d0
      <3>1. daily'[d].summary = req[r].summary
        BY <1>0, <2>2 DEF DayInsert, TypeOK
      <3>2. /\ shift[s].count = daily'[d].summary.counts[s]
            /\ shift[s].status # "NONE" /\ shift[s].day = d0
        BY <1>0, <1>1, <3>1 DEF ShiftOK, SummaryIsCurrent
      <3>3. ClosesDay(r, shift[s].day)
        <4>1. d0 \in Nat /\ shift[s].day = d0
          BY <1>0, <3>2, TillsAssumption
        <4> QED
          BY <1>1, <4>1 DEF ClosesDay
      <3>4. shift[s].status = "OPEN" => s \in req[r].opens
        BY <1>0, <3>3 DEF ShiftOK, DayFindsIt
      <3> QED
        BY <1>4, <1>5, <1>6, <3>2, <3>4
    <2> QED
      BY <2>1, <2>2
  <1> QED
    BY <1>7, <1>8, <1>9, <1>10, <1>11, <1>12 DEF ShiftOK

LEMMA WorkKeepsIInv ==
    ASSUME IInv, NEW r \in Requests, Work(r)
    PROVE  IInv'
  <1>0. TypeInv' /\ TypeInv /\ TypeOK /\ Sane(req[r]) /\ req[r] \in Request
    BY WorkTypes DEF IInv, TypeInv, SaneRequest
  <1> SUFFICES ASSUME NEW s \in Shifts \ overlap'
               PROVE  ShiftOK(s)'
    BY <1>0 DEF IInv
  <1>1. CASE CloseSumDrops(r) \/ CloseSumSales(r) \/ \E actual \in Cash : CloseWrite(r, actual)
    <2>1. s \notin overlap
      BY <1>1 DEF CloseSumDrops, CloseSumSales, CloseWrite, history
    <2> QED
      BY <1>1, <2>1, CloseSteps
  <1>2. CASE DropInsert(r) \/ ForceWrite(r)
    <2>1. s \notin overlap
      BY <1>2 DEF DropInsert, ForceWrite, history
    <2> QED
      BY <1>2, <2>1, DropAndForceSteps
  <1>3. CASE AuditFails(r) \/ DayConflict(r) \/ Timeout(r)
    <2>1. ShiftOK(s) /\ Finish(r) /\ UNCHANGED <<shift, drops, sales, daily, drawer>>
      BY <1>3 DEF AuditFails, DayConflict, Timeout, IInv, tables, history
    <2> QED
      BY <1>0, <2>1, LeavesShift
  <1>4. CASE DayBegin(r)
    BY <1>4, DayBeginKeeps
  <1>5. CASE DayForce(r)
    <2>1. /\ \A q \in Requests \ {r} : req'[q] = req[q]
          /\ UNCHANGED <<shift, drops, sales, daily, drawer>>
          /\ req[r].step = "begun" /\ ShiftOK(s)
      BY <1>0, <1>5 DEF DayForce, IInv, TypeOK, tables, history
    <2>2. /\ req'[r].op = req[r].op /\ req'[r].on = req[r].on /\ req'[r].opens = req[r].opens
          /\ req'[r].day = req[r].day /\ req'[r].step = "forced"
      BY <1>0, <1>5 DEF DayForce, TypeOK, Request
    <2> QED
      BY <1>0, <2>1, <2>2, DayGoesOn
  <1>6. CASE DaySummary(r)
    <2>1. /\ \A q \in Requests \ {r} : req'[q] = req[q]
          /\ UNCHANGED <<shift, drops, sales, daily, drawer>>
          /\ req[r].step = "forced" /\ ShiftOK(s)
      BY <1>0, <1>6 DEF DaySummary, IInv, TypeOK, tables, history
    <2>2. /\ req'[r].op = req[r].op /\ req'[r].on = req[r].on /\ req'[r].opens = req[r].opens
          /\ req'[r].day = req[r].day /\ req'[r].step = "summarised"
          /\ req'[r].summary = DailySummary(req[r].day)
      BY <1>0, <1>6 DEF DaySummary, TypeOK, Request
    <2> QED
      BY <1>0, <2>1, <2>2, DayGoesOn
  <1>7. CASE DayInsert(r)
    <2>1. s \notin overlap
      BY <1>7 DEF DayInsert, history
    <2> QED
      BY <1>7, <2>1, DayInsertKeeps
  <1> QED
    BY <1>1, <1>2, <1>3, <1>4, <1>5, <1>6, <1>7 DEF Work

\* A shift is opened; a close of its day that has already looked misses it.
LEMMA OpenShiftKeepsIInv ==
    ASSUME IInv, NEW x \in Shifts, NEW c \in Cashiers, NEW float \in Floats, OpenShift(x, c, float)
    PROVE  \A s \in Shifts \ overlap' : ShiftOK(s)'
  <1> SUFFICES ASSUME NEW s \in Shifts \ overlap'
               PROVE  ShiftOK(s)'
    OBVIOUS
  <1>0. s \notin overlap /\ ShiftOK(s) /\ UNCHANGED <<drops, sales, daily, req, drawer>> /\ TypeOK
    BY DEF IInv, OpenShift, TypeInv
  <1>1. CASE s # x
    <2>1. shift'[s] = shift[s]
      BY <1>0, <1>1 DEF OpenShift, TypeOK
    <2> QED
      BY <1>0, <2>1 DEF ShiftOK, Lone, WorkedIsOpen, CountIsOfAClose, SumsAreCurrent, CountIsExact,
            DayFindsIt, SummaryIsCurrent, RecordIsCurrent, WorksOn, ClosesDay
  <1>2. CASE s = x
    <2>1. /\ shift'[s].status = "OPEN" /\ shift'[s].day = today /\ shift'[s].count = Uncounted
          /\ shift[s].status = "NONE"
      BY <1>0, <1>2 DEF OpenShift, TypeOK
    <2>2. \A r \in Requests : ~ClosesDay(r, today)
      BY <1>0, <1>2 DEF OpenShift
    <2>3. Lone(s)' /\ WorkedIsOpen(s)' /\ SumsAreCurrent(s)'
      BY <1>0, <2>1 DEF ShiftOK, Lone, WorkedIsOpen, SumsAreCurrent, WorksOn
    <2>4. CountIsOfAClose(s)' /\ CountIsExact(s)'
      BY <2>1 DEF CountIsOfAClose, CountIsExact
    <2>5. DayFindsIt(s)'
      BY <1>0, <2>1, <2>2 DEF DayFindsIt, ClosesDay
    <2>6. SummaryIsCurrent(s)' /\ RecordIsCurrent(s)'
      BY <1>0, <2>1 DEF ShiftOK, SummaryIsCurrent, RecordIsCurrent
    <2> QED
      BY <2>3, <2>4, <2>5, <2>6 DEF ShiftOK
  <1> QED
    BY <1>1, <1>2

LEMMA DrawerKeepsIInv ==
    ASSUME IInv, NEW x \in Shifts, NEW amount \in Cash \ {0}, NEW paid \in Cash,
           CashSale(x, amount) \/ SaleRefunded(x, amount) \/ SaleUndone(x, amount, paid),
           NEW s \in Shifts \ overlap'
    PROVE  ShiftOK(s)'
  <1>0. /\ UNCHANGED <<shift, drops, daily, req, overlap>>
        /\ drawer'[s].summed = drawer[s].summed /\ (drawer'[s].even => drawer[s].even)
    BY DrawerStep DEF IInv
  <1>1. ShiftOK(s)
    BY <1>0 DEF IInv
  <1>2. Lone(s)' /\ WorkedIsOpen(s)' /\ CountIsOfAClose(s)'
    BY <1>0, <1>1 DEF ShiftOK, Lone, WorkedIsOpen, CountIsOfAClose, WorksOn
  <1>3. SumsAreCurrent(s)' /\ CountIsExact(s)'
    BY <1>0, <1>1 DEF ShiftOK, SumsAreCurrent, CountIsExact
  <1>4. DayFindsIt(s)' /\ SummaryIsCurrent(s)' /\ RecordIsCurrent(s)'
    BY <1>0, <1>1 DEF ShiftOK, DayFindsIt, SummaryIsCurrent, RecordIsCurrent, ClosesDay
  <1> QED
    BY <1>2, <1>3, <1>4 DEF ShiftOK

LEMMA NextIInv == IInv /\ [Next]_vars => IInv'
  <1> SUFFICES ASSUME IInv, [Next]_vars
               PROVE  IInv'
    OBVIOUS
  <1>0. TypeInv'
    BY NextTypes DEF IInv
  <1>1. CASE UNCHANGED <<shift, drops, sales, daily, req, overlap, drawer>>
    BY <1>0, <1>1 DEF IInv, ShiftOK, Lone, WorkedIsOpen, CountIsOfAClose, SumsAreCurrent, CountIsExact,
          DayFindsIt, SummaryIsCurrent, RecordIsCurrent, WorksOn, ClosesDay
  <1>2. CASE UNCHANGED vars \/ Idle \/ Midnight
    BY <1>1, <1>2 DEF vars, Idle, Midnight, history
  <1>3. ASSUME NEW s \in Shifts, NEW c \in Cashiers, NEW float \in Floats, OpenShift(s, c, float)
        PROVE  IInv'
    BY <1>0, <1>3, OpenShiftKeepsIInv DEF IInv
  <1>4. ASSUME NEW s \in Shifts, NEW amount \in Cash \ {0}, NEW paid \in Cash,
               CashSale(s, amount) \/ SaleRefunded(s, amount) \/ SaleUndone(s, amount, paid)
        PROVE  IInv'
    BY <1>0, <1>4, DrawerKeepsIInv DEF IInv
  <1>5. ASSUME NEW r \in Requests, Rollback(r)
        PROVE  IInv'
    <2> SUFFICES ASSUME NEW s \in Shifts \ overlap'
                 PROVE  ShiftOK(s)'
      BY <1>0 DEF IInv
    <2>1. TypeInv /\ ShiftOK(s) /\ Finish(r) /\ UNCHANGED <<shift, drops, sales, daily, drawer>>
      BY <1>5 DEF IInv, Rollback, tables, history
    <2> QED
      BY <2>1, LeavesShift
  <1> QED
    BY <1>2, <1>3, <1>4, <1>5, CallKeepsIInv, WorkKeepsIInv DEF Next

LEMMA IInvHolds == Spec => []IInv
  BY InitIInv, NextIInv, PTL DEF Spec

(***************************************************************************)
(* The expected cash of a closed shift is its float, plus the cash of the  *)
(* sales when they were summed, less all its drops (shifts.service.ts:157),*)
(* if no two requests worked on the shift together and each payment that   *)
(* left the sum was paid back whole, and none that stayed in it.           *)
(***************************************************************************)
THEOREM CountIsExactAlways == Spec => []CountIsOfTheDrawer
  <1>1. IInv => CountIsOfTheDrawer
    BY DEF IInv, ShiftOK, CountIsExact, CountIsOfTheDrawer, ExpectsItsCash
  <1> QED
    BY IInvHolds, <1>1, PTL

(***************************************************************************)
(* A shift that was force-closed, by itself or with its day, is listed as  *)
(* a discrepancy (shifts.service.ts:192), unless another request worked on *)
(* it at the same time.                                                    *)
(***************************************************************************)
THEOREM ForceClosedFlaggedAlways == Spec => []ForceClosedIsFlagged
  <1>1. IInv => ForceClosedIsFlagged
    BY DEF IInv, ShiftOK, CountIsOfAClose, ForceClosedIsFlagged, Discrepancies, Uncounted
  <1> QED
    BY IInvHolds, <1>1, PTL

(***************************************************************************)
(* The totals kept for a closed day still are those of its shifts, though  *)
(* they were read on a connection that did not see the force-closing       *)
(* (reconciliation.service.ts:202).                                        *)
(***************************************************************************)
THEOREM DayRecordAddsUpAlways == Spec => []DayRecordAddsUp
  <1>1. IInv => DayRecordAddsUp
    <2> SUFFICES ASSUME IInv, NEW d \in Days, daily[d].closed,
                        NEW s \in daily[d].summary.of \ overlap
                 PROVE  /\ shift[s].count = daily[d].summary.counts[s]
                        /\ shift[s].status # "OPEN"
      BY DEF DayRecordAddsUp
    <2>1. s \in Shifts
      BY DEF IInv, TypeInv, TypeOK, DayRow, Summary
    <2> QED
      BY <2>1 DEF IInv, ShiftOK, RecordIsCurrent
  <1> QED
    BY IInvHolds, <1>1, PTL

(***************************************************************************)
(* The record of a closed day is never replaced: two closes that both      *)
(* found none cannot both commit (reconciliation.service.ts:165).          *)
(***************************************************************************)
THEOREM DayClosedOnceAlways == Spec => DayIsClosedOnce
  <1>1. TypeInv /\ [Next]_vars => [\A d \in Days : daily[d].closed => daily'[d] = daily[d]]_vars
    <2> SUFFICES ASSUME TypeInv, Next, NEW d \in Days, daily[d].closed
                 PROVE  daily'[d] = daily[d]
      OBVIOUS
    <2>1. ASSUME NEW r \in Requests, DayInsert(r)
          PROVE  daily'[d] = daily[d]
      BY <2>1 DEF DayInsert, DayTaken, TypeInv, TypeOK
    <2>2. ASSUME NEW r \in Requests, Work(r), ~DayInsert(r)
          PROVE  daily' = daily
      BY <2>2 DEF Work, DropInsert, CloseSumDrops, CloseSumSales, CloseWrite, ForceWrite,
            AuditFails, DayBegin, DayForce, DaySummary, DayConflict, Timeout, tables
    <2>3. ASSUME NEW r \in Requests, Call(r)
          PROVE  daily' = daily
      BY <2>3 DEF Call, DropSelect, CloseSelect, ForceSelect, AuditSelect, ReadShift, DayLookup, tables
    <2> QED
      BY <2>1, <2>2, <2>3 DEF Next, OpenShift, CashSale, SaleRefunded, SaleUndone, Midnight, Rollback, Idle, vars, tables
  <1> QED
    BY InitTypes, NextTypes, <1>1, PTL DEF Spec, DayIsClosedOnce
==============================================================================
