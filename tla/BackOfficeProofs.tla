---------------------------- MODULE BackOfficeProofs ----------------------------
(***************************************************************************)
(* Theorems about BackOffice, for any rows, terms, amounts and requests.   *)
(***************************************************************************)
EXTENDS BackOffice, TLAPS

-----------------------------------------------------------------------------
(* Data *)

LEMMA MergedIsConfig ==
    ASSUME NEW config \in Config, NEW patch \in Patch
    PROVE  Merged(config, patch) \in Config
  <1>1. PICK D \in SUBSET Fields : config \in [D -> Values]
    BY DEF Config
  <1>2. PICK E \in SUBSET Fields : patch \in [E -> Values]
    BY BackOfficeAssumption DEF Patch
  <1>3. Foreign(config) \in [D \ PatchFields -> Values]
    BY <1>1 DEF Foreign
  <1>4. Merged(config, patch) \in [(D \ PatchFields) \cup E -> Values]
    BY <1>2, <1>3 DEF Merged, Overlaid
  <1> QED
    BY <1>4 DEF Config

\* A patch changes no setting it has no field for.
LEMMA MergedKeepsForeign ==
    ASSUME NEW config \in Config, NEW patch \in Patch
    PROVE  Foreign(Merged(config, patch)) = Foreign(config)
  <1>1. PICK D \in SUBSET Fields : config \in [D -> Values]
    BY DEF Config
  <1>2. PICK E \in SUBSET PatchFields : patch \in [E -> Values]
    BY DEF Patch
  <1> DEFINE kept == Foreign(config)
             merged == Merged(config, patch)
  <1>3. DOMAIN kept = D \ PatchFields /\ DOMAIN patch = E
    BY <1>1, <1>2 DEF Foreign
  <1>4. merged = [k \in (D \ PatchFields) \cup E |-> IF k \in E THEN patch[k] ELSE kept[k]]
    BY <1>3 DEF Merged, Overlaid
  <1>5. kept = [k \in D \ PatchFields |-> kept[k]]
    BY <1>3 DEF Foreign
  <1> HIDE DEF kept, merged
  <1>6. DOMAIN merged \ PatchFields = D \ PatchFields
    BY <1>4
  <1>7. \A k \in D \ PatchFields : merged[k] = kept[k]
    BY <1>4
  <1>8. Foreign(merged) = [k \in D \ PatchFields |-> merged[k]]
    BY <1>6 DEF Foreign
  <1>9. Foreign(merged) = kept
    BY <1>5, <1>7, <1>8
  <1> QED
    BY <1>9 DEF kept, merged

LEMMA ChangedTerms ==
    ASSUME NEW terms \in TermsType, NEW change \in Changes
    PROVE  Overlaid(terms, change) \in TermsType
  BY TermsAssumption DEF PartOfTerms, TermsType, Overlaid

LEMMA Half ==
    ASSUME NEW u \in Nat \ {0}, NEW d \in Int, 2 * (d * u) =< u + u, -(u + u) =< 2 * (d * u)
    PROVE  d \in -1 .. 1
  <1>1. ASSUME d >= 2 PROVE FALSE
    <2>1. (d - 2) * u >= 0
      BY <1>1
    <2> QED
      BY <2>1
  <1>2. ASSUME d =< -2 PROVE FALSE
    <2>1. (-2 - d) * u >= 0
      BY <1>2
    <2> QED
      BY <2>1
  <1> QED
    BY <1>1, <1>2

LEMMA FeesAreInt ==
    ASSUME NEW terms \in TermsType, NEW amount \in Nat
    PROVE  TotalFee(terms, amount) \in Int /\ NetPayout(terms, amount) \in Int
  <1>1. /\ terms.flat \in Int /\ terms.rate \in Int /\ terms.vat \in Int
        /\ terms.min \in Int \cup {Null} /\ terms.max \in Int \cup {Null} /\ Scale \in Int
    BY BackOfficeAssumption DEF TermsType
  <1>2. terms.flat * Scale + amount * terms.rate \in Int
    BY <1>1
  <1>3. \A fee \in Int : Clamped(fee, terms.min, terms.max) \in Int
    BY <1>1, BackOfficeAssumption DEF Clamped
  <1>4. BaseFee(terms, amount) \in Int
    BY <1>2, <1>3 DEF BaseFee
  <1>5. TotalFee(terms, amount) \in Int
    BY <1>1, <1>4 DEF TotalFee
  <1> QED
    BY <1>1, <1>5 DEF NetPayout

\* The two columns, each rounded by itself, miss the amount by at most one digit.
LEMMA RoundedSums ==
    ASSUME NEW terms \in TermsType, NEW amount \in Nat,
           NEW total \in Stored(TotalFee(terms, amount)), NEW net \in Stored(NetPayout(terms, amount))
    PROVE  total \in Int /\ net \in Int /\ total + net - amount \in -1 .. 1
  <1> DEFINE u == Scale * Scale
             x == TotalFee(terms, amount)
             y == NetPayout(terms, amount)
             d == total + net - amount
  <1>1. u \in Nat \ {0} /\ Scale \in Int
    <2>1. Scale \in Nat \ {0}
      BY BackOfficeAssumption
    <2>2. Scale * Scale >= 1
      BY <2>1
    <2> QED
      BY <2>1, <2>2
  <1>2. x \in Int /\ y \in Int /\ y = amount * u - x
    BY <1>1, FeesAreInt DEF NetPayout
  <1> HIDE DEF u, x, y
  <1>3. /\ total \in Int /\ 2 * (total * u - x) =< u /\ 2 * (x - total * u) =< u
        /\ net \in Int /\ 2 * (net * u - y) =< u /\ 2 * (y - net * u) =< u
    BY <1>1, <1>2 DEF Stored, u, x, y
  <1>4. d \in Int /\ d * u = total * u + net * u - amount * u
    BY <1>1, <1>3
  <1>5. /\ total * u \in Int /\ net * u \in Int /\ amount * u \in Int
    BY <1>1, <1>3
  <1>6. 2 * (d * u) =< u + u /\ -(u + u) =< 2 * (d * u)
    BY <1>1, <1>2, <1>3, <1>4, <1>5
  <1> QED
    BY <1>1, <1>3, <1>4, <1>6, Half

-----------------------------------------------------------------------------
(* Types *)

LEMMA InitTypes == Init => TypeOK
  <1> SUFFICES ASSUME Init
               PROVE  TypeOK
    OBVIOUS
  <1>1. method \in [Methods -> MethodRow]
    BY DEF Init
  <1>2. Free \in TermsType
    BY DEF Free, TermsType
  <1>3. NoSchedule \in ScheduleRow /\ NoPayment \in PaymentRow /\ NoTerminal \in TerminalRow
    BY <1>2 DEF NoSchedule, ScheduleRow, NoPayment, PaymentRow, NoTerminal, TerminalRow, TerminalStatus
  <1> QED
    BY <1>1, <1>3 DEF Init, TypeOK, SettlementRow, Request

LEMMA EndTypes ==
    ASSUME TypeOK, NEW r \in Requests, Finish(r) \/ Answer(r)
    PROVE  /\ req' \in [Requests -> Request] /\ req'[r] = Done
           /\ \A q \in Requests \ {r} : req'[q] = req[q]
  BY DEF TypeOK, Finish, Answer, Request

\* What a request that is neither new nor over holds.
LEMMA ReadTypes ==
    ASSUME TypeOK, NEW r \in Requests
    PROVE  /\ req[r].step = "patch" => req[r] \in PatchRead
           /\ req[r].step = "pay" => req[r] \in PayRead
           /\ req[r].step = "fees" => req[r] \in FeesRead
  BY DEF TypeOK, Request, New, Done, PatchRead, PayRead, FeesRead

LEMMA OvertakesTypes ==
    ASSUME TypeOK, NEW r \in Requests, NEW x \in Methods \cup Settlements, Overtakes(r, x)
    PROVE  /\ raced' \subseteq Methods \cup Settlements /\ raced \subseteq raced'
           /\ x \notin raced' =>
                 \A q \in Requests \ {r} : req[q].step \in {"patch", "pay"} => req[q].on # x
  BY DEF Overtakes, TypeOK
-----------------------------------------------------------------------------
(* The inductive invariant *)

\* A method that was never created is not active: no PATCH finds it.
UnusedOK(m) == ~method[m].used => ~method[m].active

\* A PATCH holds the object of a method that is there; what it has no field for
\* is still so unless the object was replaced.
PatchOK(r) ==
    req[r].step = "patch" =>
        /\ method[req[r].on].used
        /\ req[r].on \notin raced => Foreign(req[r].read) = Foreign(method[req[r].on].config)

\* Who found the settlement unpaid finds it so still, unless somebody wrote it.
PayOK(r) ==
    (req[r].step = "pay" /\ req[r].on \notin raced) => settlement[req[r].on].status # "PAID"

IInv ==
    /\ TypeOK
    /\ \A m \in Methods : UnusedOK(m)
    /\ \A r \in Requests : PatchOK(r) /\ PayOK(r)
    /\ FeesAddUp

LEMMA InitOK == Init => IInv
  <1> SUFFICES ASSUME Init
               PROVE  IInv
    OBVIOUS
  <1>1. TypeOK
    BY InitTypes
  <1>2. \A m \in Methods : UnusedOK(m)
    <2>1. \A m \in Methods : method[m] = NoMethod \/ method[m].used
      BY DEF Init
    <2> QED
      BY <2>1 DEF UnusedOK, NoMethod
  <1>3. \A r \in Requests : PatchOK(r) /\ PayOK(r)
    BY DEF Init, PatchOK, PayOK, New
  <1>4. FeesAddUp
    BY DEF Init, FeesAddUp, NoPayment
  <1> QED
    BY <1>1, <1>2, <1>3, <1>4 DEF IInv

\* The requests that did nothing keep what they hold.
LEMMA OthersOK ==
    ASSUME IInv, NEW r \in Requests, Finish(r) \/ Answer(r), UNCHANGED <<method, settlement, raced>>
    PROVE  /\ \A m \in Methods : UnusedOK(m)'
           /\ \A q \in Requests : PatchOK(q)' /\ PayOK(q)'
  <1>1. TypeOK
    BY DEF IInv
  <1>2. req'[r] = Done /\ \A q \in Requests \ {r} : req'[q] = req[q]
    BY <1>1, EndTypes
  <1>3. \A q \in Requests : PatchOK(q)' /\ PayOK(q)'
    BY <1>2 DEF IInv, PatchOK, PayOK, Done
  <1> QED
    BY <1>3 DEF IInv, UnusedOK
\* The catalogue: a row that changes its config is written.
LEMMA MethodStepOK ==
    ASSUME IInv, NEW r \in Requests, NEW m \in Methods, NEW gateway \in BOOLEAN,
           NEW active \in BOOLEAN, NEW config \in Config,
           CreateMethod(r, m, gateway, active, config) \/ UpdateMethod(r, m, gateway, active, config)
    PROVE  IInv'
  <1>1. TypeOK
    BY DEF IInv
  <1>2. Answer(r) /\ UNCHANGED <<schedule, payment, settlement, terminal>>
    BY DEF CreateMethod, UpdateMethod
  <1>3. /\ req' \in [Requests -> Request] /\ req'[r] = Done
        /\ \A q \in Requests \ {r} : req'[q] = req[q]
    BY <1>1, <1>2, EndTypes
  <1>4. CreatedMethod(gateway, active, config) \in MethodRow
    BY DEF CreatedMethod, MethodRow
  <1>5. /\ method' \in [Methods -> MethodRow]
        /\ method'[m] = CreatedMethod(gateway, active, config)
        /\ \A x \in Methods \ {m} : method'[x] = method[x]
    BY <1>1, <1>4 DEF CreateMethod, UpdateMethod, TypeOK
  <1>6. \/ ~method[m].used /\ raced' = raced
        \/ config = method[m].config /\ raced' = raced
        \/ Overtakes(r, m)
    BY DEF CreateMethod, UpdateMethod
  <1>7. raced' \subseteq Methods \cup Settlements /\ raced \subseteq raced'
    BY <1>1, <1>6, OvertakesTypes DEF TypeOK
  <1>8. TypeOK'
    BY <1>1, <1>2, <1>3, <1>5, <1>7 DEF TypeOK
  <1>9. \A x \in Methods : UnusedOK(x)'
    BY <1>5 DEF IInv, UnusedOK, CreatedMethod
  <1>10. ASSUME NEW q \in Requests PROVE PatchOK(q)'
    <2>1. CASE q = r
      BY <1>3, <2>1 DEF PatchOK, Done
    <2>2. CASE q # r
      <3>1. req'[q] = req[q] /\ PatchOK(q)
        BY <1>3, <2>2 DEF IInv
      <3>2. SUFFICES ASSUME req[q].step = "patch"
                     PROVE  /\ method'[req[q].on].used
                            /\ req[q].on \notin raced' =>
                                   Foreign(req[q].read) = Foreign(method'[req[q].on].config)
        BY <3>1 DEF PatchOK
      <3>3. /\ req[q].on \in Methods /\ method[req[q].on].used
            /\ req[q].on \notin raced => Foreign(req[q].read) = Foreign(method[req[q].on].config)
        BY <1>1, <3>1, <3>2, ReadTypes DEF PatchOK, PatchRead
      <3>4. CASE req[q].on # m
        BY <1>5, <1>7, <3>3, <3>4
      <3>5. CASE req[q].on = m
        <4>1. method'[m].used /\ method'[m].config = config
          BY <1>5 DEF CreatedMethod
        <4>2. CASE Overtakes(r, m)
          <5>1. m \in raced'
            BY <1>1, <2>2, <3>2, <3>5, <4>2, OvertakesTypes
          <5> QED
            BY <3>5, <4>1, <5>1
        <4>3. CASE config = method[m].config /\ raced' = raced
          BY <3>3, <3>5, <4>1, <4>3
        <4> QED
          BY <1>6, <3>3, <3>5, <4>2, <4>3
      <3> QED
        BY <3>4, <3>5
    <2> QED
      BY <2>1, <2>2
  <1>11. \A q \in Requests : PayOK(q)'
    BY <1>2, <1>3, <1>7 DEF IInv, PayOK, Done
  <1>12. FeesAddUp'
    BY <1>2 DEF IInv, FeesAddUp
  <1> QED
    BY <1>8, <1>9, <1>10, <1>11, <1>12 DEF IInv

LEMMA PatchSelectOK ==
    ASSUME IInv, NEW r \in Requests, NEW m \in Methods, NEW patch \in Patch,
           PatchSelect(r, m, patch)
    PROVE  IInv'
  <1>1. TypeOK
    BY DEF IInv
  <1> DEFINE read == [step |-> "patch", on |-> m, patch |-> patch, read |-> method[m].config]
  <1>2. read \in PatchRead
    BY <1>1 DEF TypeOK, MethodRow, PatchRead
  <1>3. method[m].used
    BY DEF IInv, UnusedOK, PatchSelect, GatewayMethods
  <1>4. req' = [req EXCEPT ![r] = read] /\ UNCHANGED <<method, schedule, payment, settlement, terminal, raced>>
    BY DEF PatchSelect
  <1> HIDE DEF read
  <1>5. req' \in [Requests -> Request] /\ req'[r] = read /\ \A q \in Requests \ {r} : req'[q] = req[q]
    BY <1>1, <1>2, <1>4 DEF TypeOK, Request
  <1>6. TypeOK'
    BY <1>1, <1>4, <1>5 DEF TypeOK
  <1>7. PatchOK(r)' /\ PayOK(r)'
    BY <1>3, <1>4, <1>5 DEF PatchOK, PayOK, read
  <1>8. \A q \in Requests : PatchOK(q)' /\ PayOK(q)'
    BY <1>4, <1>5, <1>7 DEF IInv, PatchOK, PayOK
  <1> QED
    BY <1>4, <1>6, <1>8 DEF IInv, UnusedOK, FeesAddUp

LEMMA PatchWriteOK ==
    ASSUME IInv, NEW r \in Requests, PatchWrite(r)
    PROVE  IInv'
  <1>1. TypeOK
    BY DEF IInv
  <1>2. req[r] \in PatchRead
    BY <1>1, ReadTypes DEF PatchWrite
  <1> DEFINE m == req[r].on
             config == Merged(req[r].read, req[r].patch)
  <1>3. m \in Methods /\ m \in Methods \cup Settlements /\ config \in Config
    BY <1>2, MergedIsConfig DEF PatchRead
  <1>4. /\ method' = [method EXCEPT ![m].config = config]
        /\ Finish(r) /\ UNCHANGED <<schedule, payment, settlement, terminal, raced>>
    BY DEF PatchWrite
  <1> HIDE DEF m, config
  <1>5. /\ req' \in [Requests -> Request] /\ req'[r] = Done
        /\ \A q \in Requests \ {r} : req'[q] = req[q]
    BY <1>1, <1>4, EndTypes
  <1>6. /\ method' \in [Methods -> MethodRow]
        /\ \A x \in Methods \ {m} : method'[x] = method[x]
        /\ \A x \in Methods : method'[x].used = method[x].used /\ method'[x].active = method[x].active
    BY <1>1, <1>3, <1>4 DEF TypeOK, MethodRow
  <1>7. m \notin raced => Foreign(method'[m].config) = Foreign(method[m].config)
    <2>1. Foreign(config) = Foreign(req[r].read)
      BY <1>2, MergedKeepsForeign DEF PatchRead, config
    <2>2. m \notin raced => Foreign(req[r].read) = Foreign(method[m].config)
      BY DEF IInv, PatchOK, PatchWrite, m
    <2>3. method'[m].config = config
      BY <1>1, <1>3, <1>4 DEF TypeOK, MethodRow
    <2> QED
      BY <2>1, <2>2, <2>3
  <1>8. TypeOK'
    BY <1>1, <1>4, <1>5, <1>6 DEF TypeOK
  <1>9. \A x \in Methods : UnusedOK(x)'
    BY <1>6 DEF IInv, UnusedOK
  <1>10. ASSUME NEW q \in Requests PROVE PatchOK(q)'
    <2>1. CASE q = r
      BY <1>5, <2>1 DEF PatchOK, Done
    <2>2. CASE q # r
      <3>1. req'[q] = req[q] /\ PatchOK(q) /\ (req[q].step = "patch" => req[q].on \in Methods)
        BY <1>1, <1>5, <2>2, ReadTypes DEF IInv, PatchRead
      <3> QED
        BY <1>4, <1>6, <1>7, <2>2, <3>1 DEF PatchOK
    <2> QED
      BY <2>1, <2>2
  <1>11. \A q \in Requests : PayOK(q)'
    BY <1>4, <1>5 DEF IInv, PayOK, Done
  <1>12. FeesAddUp'
    BY <1>4 DEF IInv, FeesAddUp
  <1> QED
    BY <1>8, <1>9, <1>10, <1>11, <1>12 DEF IInv

\* Schedules: one row is written.
LEMMA ScheduleStepOK ==
    ASSUME IInv, NEW r \in Requests, NEW f \in Schedules,
           NEW row \in ScheduleRow, schedule' = [schedule EXCEPT ![f] = row], Answer(r),
           UNCHANGED <<method, payment, settlement, terminal, raced>>
    PROVE  IInv'
  <1>1. TypeOK
    BY DEF IInv
  <1>2. req' \in [Requests -> Request]
    BY <1>1, EndTypes
  <1>3. TypeOK'
    BY <1>1, <1>2 DEF TypeOK
  <1> QED
    BY <1>3, OthersOK DEF IInv, FeesAddUp

LEMMA CreateFeeScheduleOK ==
    ASSUME IInv, NEW r \in Requests, NEW f \in Schedules, NEW m \in Methods,
           NEW channel \in Channels \cup {Null}, NEW terms \in Terms,
           CreateFeeSchedule(r, f, m, channel, terms)
    PROVE  IInv'
  <1> DEFINE stored == [terms EXCEPT !.min = OrNull(@), !.max = OrNull(@)]
             row == [used |-> TRUE, of |-> m, channel |-> channel, terms |-> stored]
  <1>1. terms \in TermsType
    BY TermsAssumption
  <1>2. stored \in TermsType
    BY <1>1 DEF TermsType, OrNull
  <1>3. row \in ScheduleRow
    BY <1>2 DEF ScheduleRow
  <1>4. /\ schedule' = [schedule EXCEPT ![f] = row] /\ Answer(r)
        /\ UNCHANGED <<method, payment, settlement, terminal, raced>>
    BY DEF CreateFeeSchedule
  <1> QED
    BY <1>3, <1>4, ScheduleStepOK

LEMMA UpdateFeeScheduleOK ==
    ASSUME IInv, NEW r \in Requests, NEW f \in Schedules, NEW change \in Changes,
           UpdateFeeSchedule(r, f, change)
    PROVE  IInv'
  <1> DEFINE row == [schedule[f] EXCEPT !.terms = Overlaid(schedule[f].terms, change)]
  <1>1. schedule \in [Schedules -> ScheduleRow] /\ schedule[f] \in ScheduleRow
    BY DEF IInv, TypeOK
  <1>2. Overlaid(schedule[f].terms, change) \in TermsType
    BY <1>1, ChangedTerms DEF ScheduleRow
  <1>3. row \in ScheduleRow
    BY <1>1, <1>2 DEF ScheduleRow
  <1>4. /\ schedule' = [schedule EXCEPT ![f] = row] /\ Answer(r)
        /\ UNCHANGED <<method, payment, settlement, terminal, raced>>
    BY <1>1 DEF UpdateFeeSchedule
  <1> QED
    BY <1>3, <1>4, ScheduleStepOK

LEMMA CreatePaymentOK ==
    ASSUME IInv, NEW p \in Payments, NEW m \in Methods, NEW amount \in Amounts,
           CreatePayment(p, m, amount)
    PROVE  IInv'
  <1> DEFINE row == [used |-> TRUE, of |-> m, amount |-> amount, fees |-> NoSnapshot]
  <1>1. TypeOK
    BY DEF IInv
  <1>2. row \in PaymentRow
    BY BackOfficeAssumption DEF PaymentRow
  <1>3. /\ payment' = [payment EXCEPT ![p] = row]
        /\ UNCHANGED <<method, schedule, settlement, terminal, req, raced>>
    BY DEF CreatePayment
  <1>4. /\ payment' \in [Payments -> PaymentRow] /\ payment'[p] = row
        /\ \A x \in Payments \ {p} : payment'[x] = payment[x]
    BY <1>1, <1>2, <1>3 DEF TypeOK
  <1>5. TypeOK'
    BY <1>1, <1>3, <1>4 DEF TypeOK
  <1>6. FeesAddUp'
    BY <1>4 DEF IInv, FeesAddUp
  <1> QED
    BY <1>3, <1>5, <1>6 DEF IInv, UnusedOK, PatchOK, PayOK

LEMMA FeesSelectOK ==
    ASSUME IInv, NEW r \in Requests, NEW p \in Payments, FeesSelect(r, p)
    PROVE  IInv'
  <1>1. TypeOK
    BY DEF IInv
  <1>2. UNCHANGED <<method, schedule, payment, settlement, terminal, raced>>
    BY DEF FeesSelect
  <1>3. \A f \in Schedules : schedule[f].terms \in TermsType
    BY <1>1 DEF TypeOK, ScheduleRow
  <1>4. Free \in TermsType
    BY DEF Free, TermsType
  <1>5. PICK f \in Schedules \cup {Null}, terms \in TermsType :
           req' = [req EXCEPT ![r] = [step |-> "fees", on |-> p, schedule |-> f, terms |-> terms]]
    <2>1. CASE \E f \in Applicable(payment[p].of) :
                  req' = [req EXCEPT ![r] = [step |-> "fees", on |-> p, schedule |-> f,
                                             terms |-> schedule[f].terms]]
      <3>1. Applicable(payment[p].of) \subseteq Schedules
        BY DEF Applicable
      <3> QED
        BY <1>3, <2>1, <3>1
    <2>2. CASE req' = [req EXCEPT ![r] = [step |-> "fees", on |-> p, schedule |-> Null, terms |-> Free]]
      BY <1>4, <2>2
    <2> QED
      BY <2>1, <2>2 DEF FeesSelect
  <1> DEFINE read == [step |-> "fees", on |-> p, schedule |-> f, terms |-> terms]
  <1>6. read \in FeesRead /\ read.step = "fees"
    BY DEF FeesRead
  <1> HIDE DEF read
  <1>7. req' \in [Requests -> Request] /\ req'[r] = read /\ \A q \in Requests \ {r} : req'[q] = req[q]
    BY <1>1, <1>5, <1>6 DEF TypeOK, Request, read
  <1>8. TypeOK'
    BY <1>1, <1>2, <1>7 DEF TypeOK
  <1>9. \A q \in Requests : PatchOK(q)' /\ PayOK(q)'
    BY <1>2, <1>6, <1>7 DEF IInv, PatchOK, PayOK
  <1> QED
    BY <1>2, <1>8, <1>9 DEF IInv, UnusedOK, FeesAddUp

LEMMA FeesWriteOK ==
    ASSUME IInv, NEW r \in Requests, FeesWrite(r)
    PROVE  IInv'
  <1>1. TypeOK
    BY DEF IInv
  <1>2. req[r] \in FeesRead
    BY <1>1, ReadTypes DEF FeesWrite
  <1> DEFINE p == req[r].on
             terms == req[r].terms
  <1>3. p \in Payments /\ terms \in TermsType /\ req[r].schedule \in Schedules \cup {Null}
    BY <1>2 DEF FeesRead
  <1>4. payment[p] \in PaymentRow /\ payment[p].amount \in Nat
    BY <1>1, <1>3 DEF TypeOK, PaymentRow
  <1>5. PICK total \in Stored(TotalFee(terms, payment[p].amount)),
             net \in Stored(NetPayout(terms, payment[p].amount)) :
           payment' = [payment EXCEPT ![p].fees =
               [taken |-> TRUE, schedule |-> req[r].schedule, total |-> total,
                net |-> net, terms |-> terms]]
    BY DEF FeesWrite
  <1> DEFINE fees == [taken |-> TRUE, schedule |-> req[r].schedule, total |-> total,
                      net |-> net, terms |-> terms]
  <1>6. total \in Int /\ net \in Int /\ total + net - payment[p].amount \in -1 .. 1
    BY <1>3, <1>4, RoundedSums
  <1>7. fees \in Snapshot /\ fees.total = total /\ fees.net = net
    BY <1>3, <1>6 DEF Snapshot
  <1>8. payment' = [payment EXCEPT ![p].fees = fees]
    BY <1>5
  <1>9. Finish(r) /\ UNCHANGED <<method, schedule, settlement, terminal, raced>>
    BY DEF FeesWrite
  <1> HIDE DEF p, terms, fees
  <1>10. /\ payment' \in [Payments -> PaymentRow]
         /\ payment'[p].fees = fees /\ payment'[p].amount = payment[p].amount
         /\ \A x \in Payments \ {p} : payment'[x] = payment[x]
    BY <1>1, <1>3, <1>4, <1>7, <1>8 DEF TypeOK, PaymentRow
  <1>11. req' \in [Requests -> Request]
    BY <1>1, <1>9, EndTypes
  <1>12. TypeOK'
    BY <1>1, <1>9, <1>10, <1>11 DEF TypeOK
  <1>13. FeesAddUp'
    BY <1>3, <1>6, <1>7, <1>10 DEF IInv, FeesAddUp
  <1> QED
    BY <1>9, <1>12, <1>13, OthersOK DEF IInv

LEMMA PaySelectOK ==
    ASSUME IInv, NEW r \in Requests, NEW s \in Settlements, NEW date \in Dates,
           PaySelect(r, s, date)
    PROVE  IInv'
  <1>1. TypeOK
    BY DEF IInv
  <1> DEFINE read == [step |-> "pay", on |-> s, date |-> date]
  <1>2. read \in PayRead /\ read.step = "pay" /\ read.on = s
    BY DEF PayRead
  <1>3. /\ req' = [req EXCEPT ![r] = read] /\ settlement[s].status # "PAID"
        /\ UNCHANGED <<method, schedule, payment, settlement, terminal, raced>>
    BY DEF PaySelect
  <1> HIDE DEF read
  <1>4. req' \in [Requests -> Request] /\ req'[r] = read /\ \A q \in Requests \ {r} : req'[q] = req[q]
    BY <1>1, <1>2, <1>3 DEF TypeOK, Request
  <1>5. TypeOK'
    BY <1>1, <1>3, <1>4 DEF TypeOK
  <1>6. \A q \in Requests : PatchOK(q)' /\ PayOK(q)'
    BY <1>2, <1>3, <1>4 DEF IInv, PatchOK, PayOK
  <1> QED
    BY <1>3, <1>5, <1>6 DEF IInv, UnusedOK, FeesAddUp

LEMMA PayWriteOK ==
    ASSUME IInv, NEW r \in Requests, PayWrite(r)
    PROVE  IInv'
  <1>1. TypeOK
    BY DEF IInv
  <1>2. req[r] \in PayRead
    BY <1>1, ReadTypes DEF PayWrite
  <1> DEFINE s == req[r].on
             paid == [status |-> "PAID", settled |-> req[r].date]
  <1>3. s \in Settlements /\ s \in Methods \cup Settlements /\ paid \in SettlementRow
    BY <1>2 DEF PayRead, SettlementRow
  <1>4. /\ settlement' = [settlement EXCEPT ![s] = paid]
        /\ Overtakes(r, s) /\ Finish(r) /\ UNCHANGED <<method, schedule, payment, terminal>>
    BY DEF PayWrite
  <1> HIDE DEF s, paid
  <1>5. /\ req' \in [Requests -> Request] /\ req'[r] = Done
        /\ \A q \in Requests \ {r} : req'[q] = req[q]
    BY <1>1, <1>4, EndTypes
  <1>6. /\ settlement' \in [Settlements -> SettlementRow]
        /\ \A x \in Settlements \ {s} : settlement'[x] = settlement[x]
    BY <1>1, <1>3, <1>4 DEF TypeOK
  <1>7. /\ raced' \subseteq Methods \cup Settlements /\ raced \subseteq raced'
        /\ s \notin raced' =>
              \A q \in Requests \ {r} : req[q].step \in {"patch", "pay"} => req[q].on # s
    BY <1>1, <1>3, <1>4, OvertakesTypes
  <1>8. TypeOK'
    BY <1>1, <1>4, <1>5, <1>6, <1>7 DEF TypeOK
  <1>9. ASSUME NEW q \in Requests PROVE PatchOK(q)' /\ PayOK(q)'
    <2>1. CASE q = r
      BY <1>5, <2>1 DEF PatchOK, PayOK, Done
    <2>2. CASE q # r
      <3>1. /\ req'[q] = req[q] /\ PatchOK(q) /\ PayOK(q)
            /\ req[q].step = "pay" => req[q].on \in Settlements
        BY <1>1, <1>5, <2>2, ReadTypes DEF IInv, PayRead
      <3> QED
        BY <1>4, <1>6, <1>7, <2>2, <3>1 DEF PatchOK, PayOK
    <2> QED
      BY <2>1, <2>2
  <1> QED
    BY <1>4, <1>8, <1>9 DEF IInv, UnusedOK, FeesAddUp

LEMMA TerminalStepOK ==
    ASSUME IInv, NEW r \in Requests, NEW t \in Terminals, NEW serial \in Serials \cup {Null},
           \/ CreateTerminal(r, t, serial)
           \/ \E status \in TerminalStatus : UpdateTerminal(r, t, serial, status)
    PROVE  IInv'
  <1>1. TypeOK
    BY DEF IInv
  <1>2. Answer(r) /\ UNCHANGED <<method, schedule, payment, settlement, raced>>
    BY DEF CreateTerminal, UpdateTerminal
  <1>3. req' \in [Requests -> Request]
    BY <1>1, <1>2, EndTypes
  <1>4. terminal' \in [Terminals -> TerminalRow]
    <2>1. CASE CreateTerminal(r, t, serial)
      BY <1>1, <2>1 DEF TypeOK, CreateTerminal, TerminalRow, TerminalStatus
    <2>2. ASSUME NEW status \in TerminalStatus, UpdateTerminal(r, t, serial, status)
          PROVE  terminal' \in [Terminals -> TerminalRow]
      <3>1. [terminal[t] EXCEPT !.serial = serial, !.status = status] \in TerminalRow
        BY <1>1 DEF TypeOK, TerminalRow
      <3> QED
        BY <1>1, <2>2, <3>1 DEF TypeOK, UpdateTerminal
    <2> QED
      BY <2>1, <2>2
  <1>5. TypeOK'
    BY <1>1, <1>2, <1>3, <1>4 DEF TypeOK
  <1> QED
    BY <1>2, <1>5, OthersOK DEF IInv, FeesAddUp

LEMMA RefuseOK ==
    ASSUME IInv, NEW r \in Requests, Refuse(r)
    PROVE  IInv'
  <1>1. TypeOK
    BY DEF IInv
  <1>2. Finish(r) /\ UNCHANGED <<method, schedule, payment, settlement, terminal, raced>>
    BY DEF Refuse
  <1>3. req' \in [Requests -> Request]
    BY <1>1, <1>2, EndTypes
  <1>4. TypeOK'
    BY <1>1, <1>2, <1>3 DEF TypeOK
  <1> QED
    BY <1>2, <1>4, OthersOK DEF IInv, FeesAddUp

LEMMA NextOK == IInv /\ [Next]_vars => IInv'
  <1> SUFFICES ASSUME IInv, [Next]_vars
               PROVE  IInv'
    OBVIOUS
  <1>1. CASE \E r \in Requests : Catalogue(r)
    BY <1>1, MethodStepOK, PatchSelectOK DEF Catalogue
  <1>2. CASE \E r \in Requests : Fees(r)
    BY <1>2, CreateFeeScheduleOK, UpdateFeeScheduleOK, FeesSelectOK, FeesWriteOK DEF Fees
  <1>3. CASE \E r \in Requests : Desk(r)
    BY <1>3, PaySelectOK, PayWriteOK, PatchWriteOK, TerminalStepOK DEF Desk
  <1>4. CASE \E r \in Requests : Refuse(r)
    BY <1>4, RefuseOK
  <1>5. CASE \E p \in Payments, m \in Methods, amount \in Amounts : CreatePayment(p, m, amount)
    BY <1>5, CreatePaymentOK
  <1>6. CASE Idle \/ UNCHANGED vars
    <2>1. UNCHANGED vars
      BY <1>6 DEF Idle
    <2>2. TypeOK'
      BY <2>1 DEF vars, IInv, TypeOK
    <2>3. \A m \in Methods : UnusedOK(m)'
      BY <2>1 DEF vars, IInv, UnusedOK
    <2>4. \A r \in Requests : PatchOK(r)' /\ PayOK(r)'
      BY <2>1 DEF vars, IInv, PatchOK, PayOK
    <2>5. FeesAddUp'
      BY <2>1 DEF vars, IInv, FeesAddUp
    <2> QED
      BY <2>2, <2>3, <2>4, <2>5 DEF IInv
  <1> QED
    BY <1>1, <1>2, <1>3, <1>4, <1>5, <1>6 DEF Next
LEMMA Invariance == Spec => []IInv
  BY InitOK, NextOK, PTL DEF Spec

-----------------------------------------------------------------------------
(* The theorems *)

(***************************************************************************)
(* Every row and every request has its type: a schedule edited in part     *)
(* keeps all its terms (fees.service.ts:88), a merged config stays one.    *)
(***************************************************************************)
THEOREM BackOfficeTypeCorrect == Spec => []TypeOK
  BY Invariance, PTL DEF IInv

(***************************************************************************)
(* Net payout and fee of a captured payment give its amount up to the last *)
(* digit, whatever the terms and whenever they were edited                 *)
(* (fees.service.ts:146-170).                                              *)
(***************************************************************************)
THEOREM FeesAddUpAlways == Spec => []FeesAddUp
  BY Invariance, PTL DEF IInv

LEMMA PatchStep ==
    ASSUME IInv, NEW r \in Requests,
           req[r].step = "patch", req'[r].step = "done", req[r].on \notin raced, method' # method,
           [Next]_vars
    PROVE  Foreign(method'[req[r].on].config) = Foreign(method[req[r].on].config)
  <1>1. TypeOK
    BY DEF IInv
  <1>2. req[r] \in PatchRead /\ Foreign(req[r].read) = Foreign(method[req[r].on].config)
    BY <1>1, ReadTypes DEF IInv, PatchOK
  <1>3. PICK q \in Requests : Catalogue(q) \/ PatchWrite(q)
    BY DEF Next, vars, Idle, Fees, Desk, Refuse, CreatePayment, CreateFeeSchedule,
           UpdateFeeSchedule, FeesSelect, FeesWrite, PaySelect, PayWrite, CreateTerminal,
           UpdateTerminal
  <1>4. PatchWrite(r)
    <2>1. CASE PatchWrite(q)
      <3>1. \A x \in Requests \ {q} : req'[x] = req[x]
        BY <1>1, <2>1, EndTypes DEF PatchWrite
      <3> QED
        BY <2>1, <3>1
    <2>2. CASE Catalogue(q)
      <3>1. Answer(q)
        BY <2>2 DEF Catalogue, CreateMethod, UpdateMethod, PatchSelect
      <3>2. req[q].step = "new" /\ \A x \in Requests \ {q} : req'[x] = req[x]
        BY <1>1, <3>1, EndTypes DEF Answer
      <3> QED
        BY <3>2
    <2> QED
      BY <1>3, <2>1, <2>2
  <1>5. /\ method[req[r].on] \in MethodRow
        /\ method' = [method EXCEPT ![req[r].on].config = Merged(req[r].read, req[r].patch)]
        /\ req[r].on \in Methods
    BY <1>1, <1>2, <1>4 DEF TypeOK, PatchRead, PatchWrite
  <1>6. method'[req[r].on].config = Merged(req[r].read, req[r].patch)
    BY <1>1, <1>5 DEF TypeOK, MethodRow
  <1>7. Foreign(Merged(req[r].read, req[r].patch)) = Foreign(req[r].read)
    BY <1>2, MergedKeepsForeign DEF PatchRead
  <1> QED
    BY <1>2, <1>6, <1>7

(***************************************************************************)
(* However many PATCHes of the gateway's settings run at once, none loses  *)
(* a setting it has no field for, unless the config was replaced as a      *)
(* whole in between (gateway-config.service.ts:212-213).                   *)
(***************************************************************************)
THEOREM PatchKeepsForeignSettingsAlways == Spec => PatchKeepsForeignSettings
  <1>1. IInv /\ [Next]_vars =>
           [\A r \in Requests :
              (req[r].step = "patch" /\ method' # method /\ req'[r].step = "done" /\ req[r].on \notin raced) =>
                Foreign(method'[req[r].on].config) = Foreign(method[req[r].on].config)]_vars
    BY PatchStep
  <1> QED
    BY <1>1, Invariance, PTL DEF Spec, PatchKeepsForeignSettings

LEMMA SettledStep ==
    ASSUME IInv, [Next]_vars, NEW s \in Settlements \ raced, settlement[s].status = "PAID"
    PROVE  settlement'[s] = settlement[s]
  <1>1. TypeOK
    BY DEF IInv
  <1>2. CASE settlement' = settlement
    BY <1>2
  <1>3. CASE \E r \in Requests : PayWrite(r)
    <2>1. PICK r \in Requests : PayWrite(r)
      BY <1>3
    <2>2. req[r] \in PayRead /\ PayOK(r)
      BY <1>1, <2>1, ReadTypes DEF IInv, PayWrite
    <2>3. req[r].on # s
      BY <2>1, <2>2 DEF PayOK, PayWrite
    <2> QED
      BY <1>1, <2>1, <2>3 DEF PayWrite, TypeOK
  <1> QED
    BY <1>2, <1>3 DEF Next, vars, Idle, Catalogue, Fees, Desk, Refuse, CreatePayment, CreateMethod,
       UpdateMethod, PatchSelect, PatchWrite, CreateFeeSchedule, UpdateFeeSchedule, FeesSelect,
       FeesWrite, PaySelect, CreateTerminal, UpdateTerminal

(***************************************************************************)
(* A settlement marked PAID keeps its date, unless two calls had both read *)
(* it PENDING (settlements.service.ts:90).                                 *)
(***************************************************************************)
THEOREM SettledOnceAlways == Spec => SettledOnce
  <1>1. IInv /\ [Next]_vars =>
           [\A s \in Settlements \ raced :
              settlement[s].status = "PAID" => settlement'[s] = settlement[s]]_vars
    BY SettledStep
  <1> QED
    BY <1>1, Invariance, PTL DEF Spec, SettledOnce
-----------------------------------------------------------------------------
(* The limits of a fee *)

\* VAT rates are at least -100 %: with less, a larger fee is a smaller total.
\* The DTO checks only that the rate is a number (finance.dto.ts:42).
VatAboveMinusOne ==
    /\ \A terms \in Terms : terms.vat >= -Scale
    /\ \A change \in Changes : "vat" \in DOMAIN change => change.vat >= -Scale

VatOK ==
    /\ \A f \in Schedules : schedule[f].terms.vat >= -Scale
    /\ \A r \in Requests : req[r].step = "fees" => req[r].terms.vat >= -Scale

LEMMA TimesMono ==
    ASSUME NEW a \in Int, NEW b \in Int, NEW c \in Int, a =< b, c >= 0
    PROVE  a * c =< b * c
  <1>1. (b - a) * c >= 0
    OBVIOUS
  <1> QED
    BY <1>1

LEMMA DivideBy ==
    ASSUME NEW a \in Int, NEW b \in Int, NEW u \in Nat \ {0}, a * u =< b * u
    PROVE  a =< b
  <1>1. ASSUME a > b PROVE FALSE
    <2>1. (a - b - 1) * u >= 0
      BY <1>1
    <2> QED
      BY <2>1
  <1> QED
    BY <1>1

\* "Boundaries" (fees.service.ts:146): the larger limit that is broken wins
\* only when it is max_fee.
LEMMA ClampedIsWithin ==
    ASSUME NEW fee \in Int, NEW min \in Int \cup {Null}, NEW max \in Int \cup {Null}
    PROVE  /\ Clamped(fee, min, max) \in Int
           /\ max # Null => Clamped(fee, min, max) =< max * Scale
           /\ (min # Null /\ (max # Null => min =< max)) =>
                  Clamped(fee, min, max) >= min * Scale
  <1>1. Scale \in Int /\ Scale >= 0
    BY BackOfficeAssumption
  <1> DEFINE raised == IF min # Null /\ fee < min * Scale THEN min * Scale ELSE fee
  <1>2. raised \in Int /\ (min # Null => raised >= min * Scale)
    BY <1>1
  <1> HIDE DEF raised
  <1>3. Clamped(fee, min, max) = IF max # Null /\ raised > max * Scale THEN max * Scale ELSE raised
    BY DEF Clamped, raised
  <1>4. (min # Null /\ max # Null /\ min =< max) => min * Scale =< max * Scale
    BY <1>1, TimesMono
  <1> QED
    BY <1>1, <1>2, <1>3, <1>4

\* What one stored total says of the exact one: x is its base fee times `rate`.
LEMMA StoredBounds ==
    ASSUME NEW u \in Nat \ {0}, NEW fee \in Int, NEW rate \in Int, NEW total \in Int,
           2 * (total * (u * u) - fee * rate) =< u * u, 2 * (fee * rate - total * (u * u)) =< u * u,
           rate >= 0, NEW limit \in Int
    PROVE  /\ fee =< limit * u => 2 * u * total =< 2 * limit * rate + u
           /\ fee >= limit * u => 2 * u * total >= 2 * limit * rate - u
  <1> DEFINE b == limit * rate
             a == 2 * u * total
  <1>1. b \in Int /\ a \in Int /\ u * u \in Int /\ fee * rate \in Int /\ total * (u * u) \in Int
    OBVIOUS
  <1>2. /\ a * u = 2 * (total * (u * u))
        /\ (limit * u) * rate = b * u
    OBVIOUS
  <1>3. /\ (2 * b + u) * u = 2 * (b * u) + u * u
        /\ (2 * b - u) * u = 2 * (b * u) - u * u
    BY <1>1
  <1>4. 2 * limit * rate = 2 * b
    OBVIOUS
  <1>5. b * u \in Int /\ a * u \in Int
    BY <1>1
  <1> HIDE DEF a, b
  <1>6. ASSUME fee =< limit * u PROVE a =< 2 * b + u
    <2>1. fee * rate =< b * u
      BY <1>2, <1>6, TimesMono
    <2>2. a * u =< (2 * b + u) * u
      BY <1>1, <1>2, <1>3, <1>5, <2>1
    <2> QED
      BY <1>1, <2>2, DivideBy
  <1>7. ASSUME fee >= limit * u PROVE a >= 2 * b - u
    <2>1. fee * rate >= b * u
      BY <1>2, <1>7, TimesMono
    <2>2. (2 * b - u) * u =< a * u
      BY <1>1, <1>2, <1>3, <1>5, <2>1
    <2> QED
      BY <1>1, <2>2, DivideBy
  <1> QED
    BY <1>4, <1>6, <1>7 DEF a

\* One payment's snapshot keeps to the limits of the terms it was taken by.
Within(fees) ==
    LET withVat(fee) == 2 * fee * (Scale + fees.terms.vat)
    IN  /\ fees.terms.max # Null => 2 * Scale * fees.total =< withVat(fees.terms.max) + Scale
        /\ (fees.terms.min # Null /\ (fees.terms.max # Null => fees.terms.min =< fees.terms.max)) =>
               2 * Scale * fees.total >= withVat(fees.terms.min) - Scale

LEMMA TotalIsWithin ==
    ASSUME NEW fees \in Snapshot, fees.terms.vat >= -Scale, NEW amount \in Nat,
           fees.total \in Stored(TotalFee(fees.terms, amount))
    PROVE  Within(fees)
  <1> DEFINE terms == fees.terms
             rate == Scale + terms.vat
             fee == BaseFee(terms, amount)
  <1>1. /\ terms.flat \in Int /\ terms.rate \in Int /\ terms.vat \in Int
        /\ terms.min \in Int \cup {Null} /\ terms.max \in Int \cup {Null} /\ fees.total \in Int
        /\ Scale \in Nat \ {0} /\ Null \notin Int
    BY BackOfficeAssumption DEF Snapshot, TermsType
  <1>2. rate \in Int /\ rate >= 0 /\ terms.flat * Scale + amount * terms.rate \in Int
    BY <1>1
  <1>3. /\ fee \in Int
        /\ terms.max # Null => fee =< terms.max * Scale
        /\ (terms.min # Null /\ (terms.max # Null => terms.min =< terms.max)) =>
               fee >= terms.min * Scale
    BY <1>1, <1>2, ClampedIsWithin DEF BaseFee
  <1>4. TotalFee(terms, amount) = fee * rate
    BY DEF TotalFee
  <1> HIDE DEF fee, rate
  <1>5. /\ 2 * (fees.total * (Scale * Scale) - fee * rate) =< Scale * Scale
        /\ 2 * (fee * rate - fees.total * (Scale * Scale)) =< Scale * Scale
    BY <1>4 DEF Stored
  <1>6. \A limit \in Int :
           /\ fee =< limit * Scale => 2 * Scale * fees.total =< 2 * limit * rate + Scale
           /\ fee >= limit * Scale => 2 * Scale * fees.total >= 2 * limit * rate - Scale
    BY <1>1, <1>2, <1>3, <1>5, StoredBounds
  <1>7. terms.max # Null => 2 * Scale * fees.total =< 2 * terms.max * rate + Scale
    BY <1>1, <1>3, <1>6
  <1>8. (terms.min # Null /\ (terms.max # Null => terms.min =< terms.max)) =>
            2 * Scale * fees.total >= 2 * terms.min * rate - Scale
    BY <1>1, <1>3, <1>6
  <1> QED
    BY <1>7, <1>8 DEF Within, rate

LEMMA WithinSays == FeeIsWithinLimits <=> \A p \in Payments :
                        payment[p].fees # NoSnapshot => Within(payment[p].fees)
  BY DEF FeeIsWithinLimits, Within

LEMMA InitLimits == Init => VatOK /\ FeeIsWithinLimits
  <1> SUFFICES ASSUME Init
               PROVE  VatOK /\ FeeIsWithinLimits
    OBVIOUS
  <1>1. VatOK
    <2>1. NoSchedule.terms.vat = 0 /\ 0 >= -Scale
      BY BackOfficeAssumption DEF NoSchedule, Free
    <2> QED
      BY <2>1 DEF Init, VatOK, New
  <1>2. \A p \in Payments : payment[p].fees = NoSnapshot
    BY DEF Init, NoPayment
  <1> QED
    BY <1>1, <1>2, WithinSays

\* The fees an answered or refused call leaves to the others.
LEMMA EndsVatOK ==
    ASSUME TypeOK, VatOK, NEW r \in Requests, Finish(r) \/ Answer(r), schedule' = schedule
    PROVE  VatOK'
  <1>1. req'[r] = Done /\ \A q \in Requests \ {r} : req'[q] = req[q]
    BY EndTypes
  <1> QED
    BY <1>1 DEF VatOK, Done

LEMMA ScheduleVatOK ==
    ASSUME TypeOK, VatOK, VatAboveMinusOne, NEW r \in Requests, NEW f \in Schedules,
           \/ \E m \in Methods, channel \in Channels \cup {Null}, terms \in Terms :
                 CreateFeeSchedule(r, f, m, channel, terms)
           \/ \E change \in Changes : UpdateFeeSchedule(r, f, change)
    PROVE  VatOK'
  <1>1. Answer(r)
    BY DEF CreateFeeSchedule, UpdateFeeSchedule
  <1>2. req'[r] = Done /\ \A q \in Requests \ {r} : req'[q] = req[q]
    BY <1>1, EndTypes
  <1>3. schedule[f] \in ScheduleRow /\ schedule[f].terms \in TermsType /\ schedule[f].terms.vat >= -Scale
    BY DEF TypeOK, ScheduleRow, VatOK
  <1>4. schedule'[f].terms.vat >= -Scale /\ \A g \in Schedules \ {f} : schedule'[g] = schedule[g]
    <2>1. ASSUME NEW m \in Methods, NEW channel \in Channels \cup {Null}, NEW terms \in Terms,
                 CreateFeeSchedule(r, f, m, channel, terms)
          PROVE  <1>4
      <3>1. terms \in TermsType /\ terms.vat >= -Scale
        BY TermsAssumption DEF VatAboveMinusOne
      <3>2. [terms EXCEPT !.min = OrNull(@), !.max = OrNull(@)].vat = terms.vat
        BY <3>1 DEF TermsType
      <3> QED
        BY <2>1, <3>1, <3>2 DEF CreateFeeSchedule, TypeOK
    <2>2. ASSUME NEW change \in Changes, UpdateFeeSchedule(r, f, change)
          PROVE  <1>4
      <3>1. Overlaid(schedule[f].terms, change).vat >= -Scale
        BY <1>3 DEF Overlaid, VatAboveMinusOne, TermsType
      <3> QED
        BY <1>3, <2>2, <3>1 DEF UpdateFeeSchedule, TypeOK, ScheduleRow
    <2> QED
      BY <2>1, <2>2
  <1> QED
    BY <1>2, <1>4 DEF VatOK, Done

LEMMA SelectVatOK ==
    ASSUME TypeOK, VatOK, NEW r \in Requests, NEW p \in Payments, FeesSelect(r, p)
    PROVE  VatOK'
  <1>1. Applicable(payment[p].of) \subseteq Schedules
    BY DEF Applicable
  <1>2. Free.vat >= -Scale
    BY BackOfficeAssumption DEF Free
  <1>3. schedule' = schedule /\ \A q \in Requests \ {r} : req'[q] = req[q]
    BY DEF FeesSelect, TypeOK
  <1>4. req'[r].terms.vat >= -Scale
    <2>1. CASE \E f \in Applicable(payment[p].of) :
                  req' = [req EXCEPT ![r] = [step |-> "fees", on |-> p, schedule |-> f,
                                             terms |-> schedule[f].terms]]
      BY <1>1, <2>1 DEF TypeOK, VatOK
    <2>2. CASE req' = [req EXCEPT ![r] = [step |-> "fees", on |-> p, schedule |-> Null, terms |-> Free]]
      BY <1>2, <2>2 DEF TypeOK
    <2> QED
      BY <2>1, <2>2 DEF FeesSelect
  <1> QED
    BY <1>3, <1>4 DEF VatOK

LEMMA FeesWriteWithin ==
    ASSUME IInv, VatOK, FeeIsWithinLimits, NEW r \in Requests, FeesWrite(r)
    PROVE  FeeIsWithinLimits'
  <1>1. TypeOK
    BY DEF IInv
  <1>2. req[r] \in FeesRead
    BY <1>1, ReadTypes DEF FeesWrite
  <1> DEFINE p == req[r].on
             terms == req[r].terms
  <1>3. /\ p \in Payments /\ terms \in TermsType /\ req[r].schedule \in Schedules \cup {Null}
        /\ terms.vat >= -Scale
    BY <1>2 DEF FeesRead, FeesWrite, VatOK
  <1>4. payment[p] \in PaymentRow /\ payment[p].amount \in Nat
    BY <1>1, <1>3 DEF TypeOK, PaymentRow
  <1>5. PICK total \in Stored(TotalFee(terms, payment[p].amount)),
             net \in Stored(NetPayout(terms, payment[p].amount)) :
           payment' = [payment EXCEPT ![p].fees =
               [taken |-> TRUE, schedule |-> req[r].schedule, total |-> total,
                net |-> net, terms |-> terms]]
    BY DEF FeesWrite
  <1> DEFINE fees == [taken |-> TRUE, schedule |-> req[r].schedule, total |-> total,
                      net |-> net, terms |-> terms]
  <1>6. total \in Int /\ net \in Int
    BY <1>3, <1>4, RoundedSums
  <1>7. fees \in Snapshot /\ fees.total = total /\ fees.terms = terms
    BY <1>3, <1>6 DEF Snapshot
  <1>8. payment' = [payment EXCEPT ![p].fees = fees]
    BY <1>5
  <1> HIDE DEF p, terms, fees
  <1>9. Within(fees)
    BY <1>3, <1>4, <1>7, TotalIsWithin
  <1>10. payment'[p].fees = fees /\ \A x \in Payments \ {p} : payment'[x] = payment[x]
    BY <1>1, <1>3, <1>4, <1>8 DEF TypeOK, PaymentRow
  <1>11. \A x \in Payments : payment'[x].fees # NoSnapshot => Within(payment'[x].fees)
    BY <1>9, <1>10, WithinSays
  <1> QED
    BY <1>11 DEF FeeIsWithinLimits, Within

LEMMA LimitsKept ==
    ASSUME IInv, VatAboveMinusOne, VatOK, FeeIsWithinLimits, [Next]_vars
    PROVE  VatOK' /\ FeeIsWithinLimits'
  <1>1. TypeOK
    BY DEF IInv
  <1>2. CASE \E r \in Requests : Catalogue(r)
    <2>1. PICK r \in Requests : Catalogue(r)
      BY <1>2
    <2>2. schedule' = schedule /\ payment' = payment
      BY <2>1 DEF Catalogue, CreateMethod, UpdateMethod, PatchSelect
    <2>3. Answer(r) \/ \E m \in Methods, patch \in Patch : PatchSelect(r, m, patch)
      BY <2>1 DEF Catalogue, CreateMethod, UpdateMethod
    <2>4. ASSUME NEW m \in Methods, NEW patch \in Patch, PatchSelect(r, m, patch)
          PROVE  VatOK'
      <3>1. req'[r].step = "patch" /\ \A q \in Requests \ {r} : req'[q] = req[q]
        BY <1>1, <2>4 DEF PatchSelect, TypeOK
      <3> QED
        BY <2>2, <3>1 DEF VatOK
    <2> QED
      BY <1>1, <2>2, <2>3, <2>4, EndsVatOK DEF FeeIsWithinLimits
  <1>3. CASE \E r \in Requests : Fees(r)
    <2>1. PICK r \in Requests : Fees(r)
      BY <1>3
    <2>2. CASE \E f \in Schedules :
                  \/ \E m \in Methods, channel \in Channels \cup {Null}, terms \in Terms :
                        CreateFeeSchedule(r, f, m, channel, terms)
                  \/ \E change \in Changes : UpdateFeeSchedule(r, f, change)
      <3>1. payment' = payment
        BY <2>2 DEF CreateFeeSchedule, UpdateFeeSchedule
      <3> QED
        BY <1>1, <2>2, <3>1, ScheduleVatOK DEF FeeIsWithinLimits
    <2>3. CASE \E p \in Payments : FeesSelect(r, p)
      BY <1>1, <2>3, SelectVatOK DEF FeeIsWithinLimits, FeesSelect
    <2>4. CASE FeesWrite(r)
      <3>1. Finish(r) /\ schedule' = schedule
        BY <2>4 DEF FeesWrite
      <3> QED
        BY <1>1, <2>4, <3>1, EndsVatOK, FeesWriteWithin
    <2> QED
      BY <2>1, <2>2, <2>3, <2>4 DEF Fees
  <1>4. CASE \E r \in Requests : Desk(r) \/ Refuse(r)
    <2>1. PICK r \in Requests : Desk(r) \/ Refuse(r)
      BY <1>4
    <2>2. schedule' = schedule /\ payment' = payment
      BY <2>1 DEF Desk, Refuse, PaySelect, PayWrite, PatchWrite, CreateTerminal, UpdateTerminal
    <2>3. Finish(r) \/ Answer(r) \/ \E s \in Settlements, date \in Dates : PaySelect(r, s, date)
      BY <2>1 DEF Desk, Refuse, PayWrite, PatchWrite, CreateTerminal, UpdateTerminal
    <2>4. ASSUME NEW s \in Settlements, NEW date \in Dates, PaySelect(r, s, date)
          PROVE  VatOK'
      <3>1. req'[r].step = "pay" /\ \A q \in Requests \ {r} : req'[q] = req[q]
        BY <1>1, <2>4 DEF PaySelect, TypeOK
      <3> QED
        BY <2>2, <3>1 DEF VatOK
    <2> QED
      BY <1>1, <2>2, <2>3, <2>4, EndsVatOK DEF FeeIsWithinLimits
  <1>5. CASE \E p \in Payments, m \in Methods, amount \in Amounts : CreatePayment(p, m, amount)
    <2>1. PICK p \in Payments : \E m \in Methods, amount \in Amounts : CreatePayment(p, m, amount)
      BY <1>5
    <2>2. /\ payment'[p].fees = NoSnapshot /\ \A x \in Payments \ {p} : payment'[x] = payment[x]
          /\ schedule' = schedule /\ req' = req
      BY <1>1, <2>1 DEF CreatePayment, TypeOK
    <2>3. \A x \in Payments : payment'[x].fees # NoSnapshot => Within(payment'[x].fees)
      BY <2>2, WithinSays
    <2> QED
      BY <2>2, <2>3 DEF FeeIsWithinLimits, Within, VatOK
  <1>6. CASE Idle \/ UNCHANGED vars
    BY <1>6 DEF Idle, vars, VatOK, FeeIsWithinLimits
  <1> QED
    BY <1>2, <1>3, <1>4, <1>5, <1>6 DEF Next

(***************************************************************************)
(* A snapshot's fee before VAT is never above the max_fee nor, where       *)
(* min_fee is not above that, below the min_fee of the schedule it read,   *)
(* but for the rounding of the column (fees.service.ts:146-157), for VAT   *)
(* rates of at least -100 %.                                               *)
(***************************************************************************)
THEOREM FeesKeepTheirLimits ==
    ASSUME VatAboveMinusOne
    PROVE  Spec => []FeeIsWithinLimits
  <1>1. Init => IInv /\ VatOK /\ FeeIsWithinLimits
    BY InitOK, InitLimits
  <1>2. (IInv /\ VatOK /\ FeeIsWithinLimits) /\ [Next]_vars =>
           (IInv /\ VatOK /\ FeeIsWithinLimits)'
    BY NextOK, LimitsKept
  <1> QED
    BY <1>1, <1>2, PTL DEF Spec
==============================================================================
