------------------------------ MODULE BackOffice ------------------------------
(***************************************************************************)
(* The tables the back office keeps, and the fees that are taken by them:  *)
(*   payment-methods/payment-methods.service.ts      the catalogue         *)
(*   gateway/gateway-config/gateway-config.service.ts                      *)
(*                                 the gateway's settings, in its config   *)
(*   finance/fees/fees.service.ts  schedules, and the snapshot of a        *)
(*                                 captured payment's fees                 *)
(*   finance/settlements/settlements.service.ts      marking one paid      *)
(*   terminals/terminals.service.ts                  registering, editing  *)
(* Every call is a request.  A handler whose first SELECT only finds the   *)
(* row is one action: no handler deletes rows.  The others are a read and  *)
(* a write, with anything in between.                                      *)
(***************************************************************************)
EXTENDS Integers, FiniteSets

CONSTANTS
    Methods, Schedules, Payments, Settlements, Terminals,  \* ids (UUIDs) of rows
    Fields,        \* fields of payment_methods.config
    PatchFields,   \* those UpdateGatewayConfigDto has
    Values,        \* their values
    Channels,      \* channel codes
    Null,          \* SQL NULL
    Terms,         \* terms CreateFeeScheduleDto may carry: records of TermsType
    Changes,       \* what UpdateFeeScheduleDto may carry: parts of such records
    Amounts,       \* amounts of payments, in the last digit a column keeps
    Scale,         \* 1 in a rate; 10000 in the code, decimal(5,4)
    Dates,         \* deposit dates
    Serials,       \* serial numbers
    Requests       \* every request that ever arrives; each runs at most once

ASSUME BackOfficeAssumption ==
    /\ PatchFields \subseteq Fields
    /\ Null \notin Channels \cup Dates \cup Serials \cup Int
    /\ Amounts \subseteq Nat \ {0}
    /\ Scale \in Nat \ {0}

VARIABLES
    method,        \* [Methods -> MethodRow], the table payment_methods
    schedule,      \* [Schedules -> ScheduleRow], the table fee_schedules
    payment,       \* [Payments -> PaymentRow], of payments what fees need
    settlement,    \* [Settlements -> SettlementRow], the table settlements
    terminal,      \* [Terminals -> TerminalRow], the table terminals
    req,           \* [Requests -> Request]
    raced          \* history: settlements written, and methods whose config was
                   \* replaced, between another's read and write

vars == <<method, schedule, payment, settlement, terminal, req, raced>>
-----------------------------------------------------------------------------
(* Rows *)

\* The JSON object of the column config.
Config == UNION {[D -> Values] : D \in SUBSET Fields}
Patch == UNION {[D -> Values] : D \in SUBSET PatchFields}

\* `gateway`: the name is 'XENDIT', what getXenditDbConfig looks for.
MethodRow == [used : BOOLEAN, gateway : BOOLEAN, active : BOOLEAN, config : Config]

TermsType == [flat : Int, rate : Int, vat : Int, min : Int \cup {Null}, max : Int \cup {Null}]

\* The parts of it an update may carry.
PartOfTerms(change) ==
    /\ DOMAIN change \subseteq {"flat", "rate", "vat", "min", "max"}
    /\ \A k \in DOMAIN change :
          change[k] \in Int \/ (k \in {"min", "max"} /\ change[k] = Null)

ASSUME TermsAssumption ==
    /\ Terms \subseteq TermsType
    /\ \A change \in Changes : PartOfTerms(change)

ScheduleRow == [used : BOOLEAN, of : Methods \cup {Null}, channel : Channels \cup {Null},
                terms : TermsType]

\* The columns a capture's snapshot fills; `terms` is history: those it read.
NoSnapshot == [taken |-> FALSE]
Snapshot == [taken : {TRUE}, schedule : Schedules \cup {Null}, total : Int, net : Int,
             terms : TermsType]

PaymentRow == [used : BOOLEAN, of : Methods \cup {Null}, amount : Nat,
               fees : Snapshot \cup {NoSnapshot}]

SettlementRow == [status : {"PENDING", "PAID"}, settled : Dates \cup {Null}]

TerminalStatus == {"ACTIVE", "INACTIVE", "MAINTENANCE"}
TerminalRow == [used : BOOLEAN, serial : Serials \cup {Null}, status : TerminalStatus]

\* A schedule that charges nothing; also what a payment without one is charged.
Free == [flat |-> 0, rate |-> 0, vat |-> 0, min |-> Null, max |-> Null]

NoMethod == [used |-> FALSE, gateway |-> FALSE, active |-> FALSE, config |-> <<>>]
NoSchedule == [used |-> FALSE, of |-> Null, channel |-> Null, terms |-> Free]
NoPayment == [used |-> FALSE, of |-> Null, amount |-> 0, fees |-> NoSnapshot]
NoTerminal == [used |-> FALSE, serial |-> Null, status |-> "ACTIVE"]

\* A new request; one between its read and its write, with what it needs of
\* both; one that was answered.
New == [step |-> "new"]
Done == [step |-> "done"]
PatchRead == [step : {"patch"}, on : Methods, patch : Patch, read : Config]
PayRead == [step : {"pay"}, on : Settlements, date : Dates]
FeesRead == [step : {"fees"}, on : Payments, schedule : Schedules \cup {Null},
             terms : TermsType]
Request == {New, Done} \cup PatchRead \cup PayRead \cup FeesRead

\* What PaymentMethodsService.create leaves: the catalogue the run starts with.
CreatedMethod(gateway, active, config) ==
    [used |-> TRUE, gateway |-> gateway, active |-> active, config |-> config]

Init ==
    /\ method \in [Methods -> {row \in MethodRow : row = NoMethod \/ (row.used /\ row.active)}]
    /\ schedule = [f \in Schedules |-> NoSchedule]
    /\ payment = [p \in Payments |-> NoPayment]
    /\ settlement = [s \in Settlements |-> [status |-> "PENDING", settled |-> Null]]
    /\ terminal = [t \in Terminals |-> NoTerminal]
    /\ req = [r \in Requests |-> New]
    /\ raced = {}

Answer(r) == req[r].step = "new" /\ req' = [req EXCEPT ![r] = Done]
Finish(r) == req' = [req EXCEPT ![r] = Done]

\* A write to row x: somebody else has read it, and will write.
Overtakes(r, x) ==
    raced' = IF \E q \in Requests \ {r} : req[q].step \in {"patch", "pay"} /\ req[q].on = x
             THEN raced \cup {x} ELSE raced
-----------------------------------------------------------------------------
(* payment-methods.service.ts *)

\* `provider` and `channel_code` of CreatePaymentMethodDto are stored nowhere.
CreateMethod(r, m, gateway, active, config) ==
    /\ ~method[m].used
    /\ Answer(r)
    /\ method' = [method EXCEPT ![m] = CreatedMethod(gateway, active, config)]
    /\ UNCHANGED <<schedule, payment, settlement, terminal, raced>>

\* What the DTO does not name keeps its value; a config is replaced as a whole.
UpdateMethod(r, m, gateway, active, config) ==
    /\ method[m].used
    /\ Answer(r)
    /\ method' = [method EXCEPT ![m] = CreatedMethod(gateway, active, config)]
    /\ IF config # method[m].config THEN Overtakes(r, m) ELSE UNCHANGED raced
    /\ UNCHANGED <<schedule, payment, settlement, terminal>>

(* gateway-config.service.ts *)

\* getXenditDbConfig: any of these is the first row, there is no ORDER BY.
GatewayMethods == {m \in Methods : method[m].gateway /\ method[m].active}

PatchSelect(r, m, patch) ==
    /\ m \in GatewayMethods
    /\ req[r].step = "new"
    /\ req' = [req EXCEPT ![r] = [step |-> "patch", on |-> m, patch |-> patch,
                                  read |-> method[m].config]]
    /\ UNCHANGED <<method, schedule, payment, settlement, terminal, raced>>

\* A record with some of its fields replaced, or added.
Overlaid(record, part) ==
    [k \in DOMAIN record \cup DOMAIN part |-> IF k \in DOMAIN part THEN part[k] ELSE record[k]]

\* The settings the DTO has no field for.
Foreign(config) == [k \in DOMAIN config \ PatchFields |-> config[k]]

\* Mutant of Merged: what was stored is dropped.
MergedAlone(config, patch) == patch

\* { ...method.config, ...dto }, as JSON.  The DTO is an instance (transform:
\* true) of a class whose fields are defined (ES2023): one the request does not
\* name is its own and undefined.  It hides the stored setting, and
\* JSON.stringify leaves it out.
Merged(config, patch) == Overlaid(Foreign(config), patch)

PatchWrite(r) ==
    /\ req[r].step = "patch"
    /\ method' = [method EXCEPT ![req[r].on].config = Merged(req[r].read, req[r].patch)]
    /\ Finish(r)
    /\ UNCHANGED <<schedule, payment, settlement, terminal, raced>>
-----------------------------------------------------------------------------
(* fees.service.ts *)

\* min_fee || null
OrNull(fee) == IF fee = 0 THEN Null ELSE fee

\* The unique constraint holds for channels only: a NULL equals no NULL.
ChannelTaken(m, channel) ==
    channel # Null /\ \E f \in Schedules : schedule[f].of = m /\ schedule[f].channel = channel

\* `is_active` of the DTO is not stored: every schedule stays active.
CreateFeeSchedule(r, f, m, channel, terms) ==
    /\ ~schedule[f].used
    /\ method[m].used
    /\ ~ChannelTaken(m, channel)
    /\ Answer(r)
    /\ schedule' = [schedule EXCEPT ![f] =
           [used |-> TRUE, of |-> m, channel |-> channel,
            terms |-> [terms EXCEPT !.min = OrNull(@), !.max = OrNull(@)]]]
    /\ UNCHANGED <<method, payment, settlement, terminal, raced>>

\* One UPDATE of the fields the DTO has: here a 0 stays 0.
UpdateFeeSchedule(r, f, change) ==
    /\ schedule[f].used
    /\ Answer(r)
    /\ schedule' = [schedule EXCEPT ![f].terms = Overlaid(@, change)]
    /\ UNCHANGED <<method, payment, settlement, terminal, raced>>

\* PaymentLifecycle's payments, with what they are paid by.
CreatePayment(p, m, amount) ==
    /\ ~payment[p].used
    /\ method[m].used
    /\ payment' = [payment EXCEPT ![p] = [used |-> TRUE, of |-> m, amount |-> amount,
                                          fees |-> NoSnapshot]]
    /\ UNCHANGED <<method, schedule, settlement, terminal, req, raced>>

\* Any schedule with a channel, whichever it is; else any without one.
Applicable(m) ==
    LET channelled == {f \in Schedules : schedule[f].of = m /\ schedule[f].channel # Null}
    IN  IF channelled # {} THEN channelled
        ELSE {f \in Schedules : schedule[f].of = m}

\* calculateAndSnapshotFees in the transaction of a capture, which has locked
\* the payment: the SELECT of the schedules ...
FeesSelect(r, p) ==
    /\ req[r].step = "new"
    /\ payment[p].used
    /\ payment[p].fees = NoSnapshot
    /\ \A q \in Requests : req[q].step = "fees" => req[q].on # p
    /\ \/ \E f \in Applicable(payment[p].of) :
             req' = [req EXCEPT ![r] = [step |-> "fees", on |-> p, schedule |-> f,
                                        terms |-> schedule[f].terms]]
       \/ /\ Applicable(payment[p].of) = {}
          /\ req' = [req EXCEPT ![r] = [step |-> "fees", on |-> p, schedule |-> Null,
                                        terms |-> Free]]
    /\ UNCHANGED <<method, schedule, payment, settlement, terminal, raced>>

\* Mutant of Clamped: the boundaries in the other order.
ClampedMinLast(fee, min, max) ==
    LET capped == IF max # Null /\ fee > max * Scale THEN max * Scale ELSE fee
    IN  IF min # Null /\ capped < min * Scale THEN min * Scale ELSE capped

\* "Boundaries": min_fee, then max_fee.  `fee` is in units of 1 / Scale.
Clamped(fee, min, max) ==
    LET raised == IF min # Null /\ fee < min * Scale THEN min * Scale ELSE fee
    IN  IF max # Null /\ raised > max * Scale THEN max * Scale ELSE raised

\* "Base fee = Flat + (Amount * Percentage)"
BaseFee(terms, amount) ==
    Clamped(terms.flat * Scale + amount * terms.rate, terms.min, terms.max)

\* "VAT is applied ON TOP of the base fee"; in units of 1 / Scale^2.
TotalFee(terms, amount) == BaseFee(terms, amount) * (Scale + terms.vat)

\* Mutant of NetPayout: the VAT is not deducted.
NetOfBaseFee(terms, amount) == amount * Scale * Scale - BaseFee(terms, amount) * Scale

NetPayout(terms, amount) == amount * Scale * Scale - TotalFee(terms, amount)

\* What a decimal(19,4) column keeps of x / Scale^2: a nearest one.  Which one a
\* tie becomes depends on the double that was printed.
Stored(x) ==
    LET unit == Scale * Scale
    IN  {n \in {x \div unit, (x \div unit) + 1} :
            2 * (n * unit - x) =< unit /\ 2 * (x - n * unit) =< unit}

\* ... and the UPDATE, which rounds each column by itself.
FeesWrite(r) ==
    /\ req[r].step = "fees"
    /\ LET p == req[r].on
           terms == req[r].terms
       IN  \E total \in Stored(TotalFee(terms, payment[p].amount)),
              net \in Stored(NetPayout(terms, payment[p].amount)) :
             payment' = [payment EXCEPT ![p].fees =
                 [taken |-> TRUE, schedule |-> req[r].schedule, total |-> total,
                  net |-> net, terms |-> terms]]
    /\ Finish(r)
    /\ UNCHANGED <<method, schedule, settlement, terminal, raced>>
-----------------------------------------------------------------------------
(* settlements.service.ts: markSettlementPaid *)

\* Mutant of PaySelect: without the check.
PaySelectAny(r, s, date) ==
    /\ req[r].step = "new"
    /\ req' = [req EXCEPT ![r] = [step |-> "pay", on |-> s, date |-> date]]
    /\ UNCHANGED <<method, schedule, payment, settlement, terminal, raced>>

PaySelect(r, s, date) ==
    /\ req[r].step = "new"
    /\ settlement[s].status # "PAID"
    /\ req' = [req EXCEPT ![r] = [step |-> "pay", on |-> s, date |-> date]]
    /\ UNCHANGED <<method, schedule, payment, settlement, terminal, raced>>

PayWrite(r) ==
    /\ req[r].step = "pay"
    /\ settlement' = [settlement EXCEPT ![req[r].on] = [status |-> "PAID", settled |-> req[r].date]]
    /\ Overtakes(r, req[r].on)
    /\ Finish(r)
    /\ UNCHANGED <<method, schedule, payment, terminal>>
-----------------------------------------------------------------------------
(* terminals.service.ts *)

\* serial_number is UNIQUE; any number of terminals have none.
SerialTaken(t, serial) ==
    serial # Null /\ \E u \in Terminals \ {t} : terminal[u].used /\ terminal[u].serial = serial

CreateTerminal(r, t, serial) ==
    /\ ~terminal[t].used
    /\ ~SerialTaken(t, serial)
    /\ Answer(r)
    /\ terminal' = [terminal EXCEPT ![t] = [used |-> TRUE, serial |-> serial, status |-> "ACTIVE"]]
    /\ UNCHANGED <<method, schedule, payment, settlement, raced>>

UpdateTerminal(r, t, serial, status) ==
    /\ terminal[t].used
    /\ ~SerialTaken(t, serial)
    /\ Answer(r)
    /\ terminal' = [terminal EXCEPT ![t] = [@ EXCEPT !.serial = serial, !.status = status]]
    /\ UNCHANGED <<method, schedule, payment, settlement, raced>>

\* A 404, a 409, an empty update, a failed statement: nothing changes.
Refuse(r) ==
    /\ req[r].step # "done"
    /\ Finish(r)
    /\ UNCHANGED <<method, schedule, payment, settlement, terminal, raced>>
-----------------------------------------------------------------------------
Catalogue(r) ==
    \E m \in Methods :
        \/ \E gateway, active \in BOOLEAN, config \in Config :
              \/ CreateMethod(r, m, gateway, active, config)
              \/ UpdateMethod(r, m, gateway, active, config)
        \/ \E patch \in Patch : PatchSelect(r, m, patch)

Fees(r) ==
    \/ \E f \in Schedules :
          \/ \E m \in Methods, channel \in Channels \cup {Null}, terms \in Terms :
                CreateFeeSchedule(r, f, m, channel, terms)
          \/ \E change \in Changes : UpdateFeeSchedule(r, f, change)
    \/ \E p \in Payments : FeesSelect(r, p)
    \/ FeesWrite(r)

Desk(r) ==
    \/ \E s \in Settlements, date \in Dates : PaySelect(r, s, date)
    \/ PayWrite(r)
    \/ PatchWrite(r)
    \/ \E t \in Terminals, serial \in Serials \cup {Null} :
          \/ CreateTerminal(r, t, serial)
          \/ \E status \in TerminalStatus : UpdateTerminal(r, t, serial, status)

\* Every request has been answered: the end of a behaviour, not a deadlock.
Idle == (\A r \in Requests : req[r].step = "done") /\ UNCHANGED vars

Next ==
    \/ \E r \in Requests : Catalogue(r) \/ Fees(r) \/ Desk(r) \/ Refuse(r)
    \/ \E p \in Payments, m \in Methods, amount \in Amounts : CreatePayment(p, m, amount)
    \/ Idle

Spec == Init /\ [][Next]_vars
-----------------------------------------------------------------------------
(* Properties *)

TypeOK ==
    /\ method \in [Methods -> MethodRow]
    /\ schedule \in [Schedules -> ScheduleRow]
    /\ payment \in [Payments -> PaymentRow]
    /\ settlement \in [Settlements -> SettlementRow]
    /\ terminal \in [Terminals -> TerminalRow]
    /\ req \in [Requests -> Request]
    /\ raced \subseteq Methods \cup Settlements

(***************************************************************************)
(* A captured payment's net payout and fee give its amount, to the last    *)
(* digit the columns keep: not exactly, for each is rounded by itself      *)
(* (fees.service.ts:167, decimal(19,4)), and however the schedule has been *)
(* edited, before the capture, during it and since.                        *)
(***************************************************************************)
FeesAddUp ==
    \A p \in Payments : payment[p].fees # NoSnapshot =>
        payment[p].fees.total + payment[p].fees.net - payment[p].amount \in -1 .. 1

(***************************************************************************)
(* The fee before VAT respects max_fee, also where min_fee is larger, and  *)
(* min_fee where it is not (fees.service.ts:146): of the schedule as it    *)
(* was read, and up to the rounding of the column.                         *)
(***************************************************************************)
FeeIsWithinLimits ==
    \A p \in Payments : payment[p].fees # NoSnapshot =>
        LET fees == payment[p].fees
            min == fees.terms.min
            max == fees.terms.max
            withVat(fee) == 2 * fee * (Scale + fees.terms.vat)
        IN  /\ max # Null => 2 * Scale * fees.total =< withVat(max) + Scale
            /\ (min # Null /\ (max # Null => min =< max)) =>
                   2 * Scale * fees.total >= withVat(min) - Scale

(***************************************************************************)
(* A PATCH of the gateway's settings leaves those it has no field for as   *)
(* they are when it writes (gateway-config.service.ts:212-213), although   *)
(* it writes back a whole object it read earlier, and however many PATCHes *)
(* do so at once; unless the config was replaced as a whole in between.    *)
(* It is all a PATCH keeps: a setting it has a field for and does not name *)
(* is lost, with nobody racing.                                            *)
(***************************************************************************)
PatchKeepsForeignSettings ==
    [][\A r \in Requests :
        (req[r].step = "patch" /\ method' # method /\ req'[r].step = "done" /\ req[r].on \notin raced) =>
            Foreign(method'[req[r].on].config) = Foreign(method[req[r].on].config)]_vars

(***************************************************************************)
(* The day a settlement was paid is never rewritten (settlements.service   *)
(* .ts:90, "Settlement is already marked as PAID."), unless two calls both *)
(* read PENDING.                                                           *)
(***************************************************************************)
SettledOnce ==
    [][\A s \in Settlements \ raced :
        settlement[s].status = "PAID" => settlement'[s] = settlement[s]]_vars
=============================================================================
