------------------------- MODULE IdempotentCallsProofs -------------------------
(***************************************************************************)
(* Theorems about IdempotentCalls, for any number of calls, keys and       *)
(* accounts.  At most one call of a key that has neither lapsed nor been   *)
(* looked up by two calls at once comes past its marker.                   *)
(***************************************************************************)
EXTENDS IdempotentCalls, FiniteSetTheorems, TLAPS

-----------------------------------------------------------------------------
(* The inductive invariant *)

\* What the step of a call says of its outcome, its mark and its answer.
CallOK(c) ==
    /\ call[c].step \in {"new", "missed", "handling"} => outcome[c] = "none"
    /\ call[c].step = "paid" => outcome[c] = "paid" /\ call[c].mark \in Marks
    /\ call[c].step = "new" => call[c].mark = NoMark
    /\ call[c].step = "missed" => call[c].mark \in Marks
    /\ call[c].step # "done" => call[c].answer = 0

HasPaid(m) == \E c \in Calls : call[c].mark = m /\ outcome[c] = "paid"

\* A marker that replays a success stands for a transfer.
MarkOK(m) == marker[m].status = "COMPLETED" => HasPaid(m)

\* An answer 200 does.
AnswerOK(c) ==
    call[c].answer = 200 => \/ outcome[c] = "paid"
                            \/ call[c].mark \in Marks /\ HasPaid(call[c].mark)

Missed(c, m) == call[c].step = "missed" /\ call[c].mark = m

OneCallPasses(m) ==
    /\ \A c, d \in Calls : Missed(c, m) /\ Missed(d, m) => c = d
    /\ \A c \in Calls : Missed(c, m) => marker[m].status = "NONE"
    /\ \A c \in Calls : Past(c, m) => marker[m].status # "NONE"
    /\ \A c, d \in Calls : Past(c, m) /\ Past(d, m) => c = d

IInv ==
    /\ FrontTypeOK
    /\ \A c \in Calls : CallOK(c) /\ AnswerOK(c)
    /\ \A m \in Marks : MarkOK(m)
    /\ \A m \in Marks \ (overlapped \cup lapsed) : OneCallPasses(m)

-----------------------------------------------------------------------------
(* Steps *)

LEMMA InitIInv == FrontInit => IInv
  <1> SUFFICES ASSUME FrontInit
               PROVE  IInv
    OBVIOUS
  <1>1. FrontTypeOK
    BY IdempotentCallsAssumption
       DEF FrontInit, FrontTypeOK, Call, Marker, NoMarker, Answers, Outcome, Calls
  <1>2. \A c \in Calls : /\ call[c].step = "new" /\ call[c].mark = NoMark
                         /\ call[c].answer = 0 /\ outcome[c] = "none"
    BY DEF FrontInit
  <1>3. \A m \in Marks : marker[m].status = "NONE"
    BY DEF FrontInit, NoMarker
  <1>4. \A c \in Calls : CallOK(c) /\ AnswerOK(c)
    BY <1>2 DEF CallOK, AnswerOK
  <1>5. \A m \in Marks : MarkOK(m) /\ OneCallPasses(m)
    BY <1>2, <1>3 DEF MarkOK, OneCallPasses, Missed, Past
  <1> QED
    BY <1>1, <1>4, <1>5 DEF IInv

\* The transfer of a call is decided once; what has been paid stays so.
LEMMA DecideOnce ==
    ASSUME FrontTypeOK, NEW c \in Calls, NEW result \in Outcome, Decide(c, result)
    PROVE  /\ outcome' \in [Calls -> Outcome]
           /\ outcome'[c] = result /\ outcome[c] = "none"
           /\ \A d \in Calls \ {c} : outcome'[d] = outcome[d]
  BY DEF Decide, FrontTypeOK, Calls

\* A call that has not looked its key up is answered, or needs no marker.
LEMMA UnauthorizedStep ==
    ASSUME IInv, NEW c \in Calls, Unauthorized(c) \/ Unmarked(c)
    PROVE  IInv'
  <1>0. FrontTypeOK /\ call[c].mark = NoMark /\ outcome[c] = "none" /\ call[c].answer = 0
    BY DEF IInv, Unauthorized, Unmarked, CallOK
  <1>1. /\ UNCHANGED <<open, balance, outcome, marker, overlapped, lapsed>>
        /\ \A d \in Calls \ {c} : call'[d] = call[d]
    BY <1>0 DEF Unauthorized, Unmarked, Answer, contractVars, FrontTypeOK
  <1>2. /\ call'[c].mark = NoMark /\ call'[c].step \in {"done", "handling"}
        /\ call'[c].answer \in {0, 401} /\ (call'[c].step # "done" => call'[c].answer = 0)
        /\ call' \in [Calls -> Call]
    BY <1>0 DEF Unauthorized, Unmarked, Answer, FrontTypeOK, Call, Answers
  <1>3. FrontTypeOK'
    BY <1>0, <1>1, <1>2 DEF FrontTypeOK
  <1>4. \A m \in Marks : HasPaid(m)' <=> HasPaid(m)
    BY <1>0, <1>1, <1>2 DEF HasPaid
  <1>5. ASSUME NEW d \in Calls
        PROVE  CallOK(d)' /\ AnswerOK(d)'
    BY <1>0, <1>1, <1>2, <1>4 DEF IInv, CallOK, AnswerOK
  <1>6. \A m \in Marks : MarkOK(m)'
    BY <1>1, <1>4 DEF IInv, MarkOK
  <1>7. \A m \in Marks, d \in Calls : (Missed(d, m)' <=> Missed(d, m)) /\ (Past(d, m)' <=> Past(d, m))
    BY <1>0, <1>1, <1>2, IdempotentCallsAssumption DEF Missed, Past
  <1>8. \A m \in Marks \ (overlapped' \cup lapsed') : OneCallPasses(m)'
    BY <1>1, <1>7 DEF IInv, OneCallPasses
  <1> QED
    BY <1>3, <1>5, <1>6, <1>8 DEF IInv

LEMMA LookupStep ==
    ASSUME IInv, NEW c \in Calls, NEW m \in Marks, Lookup(c, m)
    PROVE  IInv'
  <1>0. FrontTypeOK /\ call[c].mark = NoMark /\ outcome[c] = "none" /\ marker[m] \in Marker
    BY DEF IInv, Lookup, CallOK, FrontTypeOK
  <1>1. /\ UNCHANGED <<open, balance, outcome, marker, lapsed>>
        /\ \A d \in Calls \ {c} : call'[d] = call[d]
        /\ overlapped \subseteq overlapped' /\ overlapped' \subseteq overlapped \cup {m}
    BY <1>0 DEF Lookup, contractVars, FrontTypeOK
  <1>2. /\ call'[c].mark = m /\ call'[c].step \in {"done", "missed"}
        /\ call'[c].step = "missed" => marker[m].status = "NONE" /\ call'[c].answer = 0
        /\ call'[c].answer = 200 => marker[m].status = "COMPLETED"
        /\ call' \in [Calls -> Call]
    BY <1>0 DEF Lookup, Busy, FrontTypeOK, Call, Answers, Marker
  <1>3. FrontTypeOK'
    BY <1>0, <1>1, <1>2 DEF FrontTypeOK
  <1>4. \A n \in Marks : HasPaid(n)' <=> HasPaid(n)
    BY <1>0, <1>1 DEF HasPaid
  <1>5. ASSUME NEW d \in Calls
        PROVE  CallOK(d)' /\ AnswerOK(d)'
    <2>1. CASE d # c
      BY <1>1, <1>4, <2>1 DEF IInv, CallOK, AnswerOK
    <2>2. CASE d = c
      BY <1>0, <1>1, <1>2, <1>4, <2>2 DEF IInv, CallOK, AnswerOK, MarkOK
    <2> QED
      BY <2>1, <2>2
  <1>6. \A n \in Marks : MarkOK(n)'
    BY <1>1, <1>4 DEF IInv, MarkOK
  <1>7. ASSUME NEW n \in Marks \ (overlapped' \cup lapsed')
        PROVE  OneCallPasses(n)'
    <2>1. OneCallPasses(n)
      BY <1>1 DEF IInv
    <2>2. \A d \in Calls \ {c} : (Missed(d, n)' <=> Missed(d, n)) /\ (Past(d, n)' <=> Past(d, n))
      BY <1>1 DEF Missed, Past
    <2>3. ~Past(c, n)'
      BY <1>0, <1>1, <1>2 DEF Past
    <2>4. Missed(c, n)' => n = m /\ marker[n].status = "NONE" /\ \A d \in Calls : ~Missed(d, n)
      BY <1>0, <1>2 DEF Missed, Lookup
    <2> QED
      BY <1>1, <2>1, <2>2, <2>3, <2>4 DEF OneCallPasses
  <1> QED
    BY <1>3, <1>5, <1>6, <1>7 DEF IInv

LEMMA SetProcessingStep ==
    ASSUME IInv, NEW c \in Calls, SetProcessing(c)
    PROVE  IInv'
  <1> DEFINE m == call[c].mark
  <1>0. FrontTypeOK /\ m \in Marks /\ outcome[c] = "none" /\ call[c].answer = 0 /\ Missed(c, m)
    BY DEF IInv, SetProcessing, CallOK, Missed
  <1>1. /\ UNCHANGED <<open, balance, outcome, overlapped, lapsed>>
        /\ \A d \in Calls \ {c} : call'[d] = call[d]
        /\ \A n \in Marks \ {m} : marker'[n] = marker[n]
    BY <1>0 DEF SetProcessing, contractVars, FrontTypeOK
  <1>2. /\ call'[c].mark = m /\ call'[c].step = "handling" /\ call'[c].answer = 0
        /\ call' \in [Calls -> Call]
    BY <1>0 DEF SetProcessing, FrontTypeOK, Call, Answers
  <1>3. marker'[m].status = "PROCESSING" /\ marker' \in [Marks -> Marker]
    BY <1>0 DEF SetProcessing, Processing, FrontTypeOK, Marker, Answers
  <1>4. FrontTypeOK'
    BY <1>0, <1>1, <1>2, <1>3 DEF FrontTypeOK
  <1>5. \A n \in Marks : HasPaid(n)' <=> HasPaid(n)
    BY <1>0, <1>1, <1>2 DEF HasPaid
  <1>6. ASSUME NEW d \in Calls
        PROVE  CallOK(d)' /\ AnswerOK(d)'
    <2>1. CASE d # c
      BY <1>1, <1>5, <2>1 DEF IInv, CallOK, AnswerOK
    <2>2. CASE d = c
      BY <1>0, <1>1, <1>2, <2>2 DEF CallOK, AnswerOK
    <2> QED
      BY <2>1, <2>2
  <1>7. \A n \in Marks : MarkOK(n)'
    BY <1>1, <1>3, <1>5 DEF IInv, MarkOK
  <1>8. ASSUME NEW n \in Marks \ (overlapped' \cup lapsed')
        PROVE  OneCallPasses(n)'
    <2>1. OneCallPasses(n)
      BY <1>1 DEF IInv
    <2>2. \A d \in Calls \ {c} : (Missed(d, n)' <=> Missed(d, n)) /\ (Past(d, n)' <=> Past(d, n))
      BY <1>1 DEF Missed, Past
    <2>3. CASE n # m
      <3>1. ~Missed(c, n)' /\ ~Past(c, n)'
        BY <1>2, <2>3 DEF Missed, Past
      <3> QED
        BY <1>1, <2>1, <2>2, <2>3, <3>1 DEF OneCallPasses
    <2>4. CASE n = m
      <3>1. \A d \in Calls : ~Past(d, n) /\ (d # c => ~Missed(d, n))
        BY <1>0, <2>1, <2>4 DEF OneCallPasses
      <3>2. ~Missed(c, n)'
        BY <1>2 DEF Missed
      <3> QED
        BY <1>3, <2>2, <2>4, <3>1, <3>2 DEF OneCallPasses
    <2> QED
      BY <2>3, <2>4
  <1> QED
    BY <1>4, <1>6, <1>7, <1>8 DEF IInv

LEMMA PaidStep ==
    ASSUME IInv, NEW c \in Calls, Paid(c)
    PROVE  IInv'
  <1> DEFINE m == call[c].mark
             b == Body[m]
  <1>0. /\ FrontTypeOK /\ outcome[c] = "none" /\ call[c].answer = 0
        /\ call[c].step = "handling" /\ call[c] \in Call /\ m \in Marks \cup {NoMark}
    BY DEF IInv, Paid, CallOK, FrontTypeOK, Call
  <1>1. /\ b.from \in AccountIds /\ b.to \in AccountIds /\ b.amount \in Nat
        /\ b.from # b.to /\ balance[b.from] >= b.amount
        /\ balance' = [balance EXCEPT ![b.from] = @ - b.amount, ![b.to] = @ + b.amount]
    BY <1>0, IdempotentCallsAssumption DEF Paid, Pay, BodyOf
  <1>2. balance' \in [AccountIds -> Nat]
    <2>1. balance[b.from] \in Nat /\ balance[b.to] \in Nat
      BY <1>0, <1>1 DEF FrontTypeOK
    <2>2. balance[b.from] - b.amount \in Nat /\ balance[b.to] + b.amount \in Nat
      BY <1>1, <2>1
    <2> QED
      BY <1>0, <1>1, <2>2 DEF FrontTypeOK
  <1>3. /\ UNCHANGED <<open, marker, overlapped, lapsed>> /\ Decide(c, "paid")
        /\ \A d \in Calls \ {c} : call'[d] = call[d]
    BY <1>0 DEF Paid, Pay, Answer, FrontTypeOK
  <1>4. /\ outcome' \in [Calls -> Outcome] /\ outcome'[c] = "paid"
        /\ \A d \in Calls \ {c} : outcome'[d] = outcome[d]
    BY <1>0, <1>3, DecideOnce DEF Outcome
  <1>5. /\ call'[c].mark = m /\ call' \in [Calls -> Call]
        /\ \/ call'[c].step = "paid" /\ m \in Marks /\ call'[c].answer = 0
           \/ call'[c].step = "done"
    BY <1>0 DEF Paid, Answer, FrontTypeOK, Call, Answers
  <1>6. FrontTypeOK'
    BY <1>0, <1>2, <1>3, <1>4, <1>5 DEF FrontTypeOK
  <1>7. \A n \in Marks \cup {NoMark} : HasPaid(n) => HasPaid(n)'
    BY <1>3, <1>4, <1>5 DEF HasPaid
  <1>8. ASSUME NEW d \in Calls
        PROVE  CallOK(d)' /\ AnswerOK(d)'
    <2>1. CASE d # c
      BY <1>3, <1>4, <1>7, <2>1 DEF IInv, CallOK, AnswerOK
    <2>2. CallOK(c)'
      BY <1>0, <1>4, <1>5 DEF CallOK
    <2>3. AnswerOK(c)'
      BY <1>4 DEF AnswerOK
    <2> QED
      BY <2>1, <2>2, <2>3
  <1>9. \A n \in Marks : MarkOK(n)'
    BY <1>3, <1>7 DEF IInv, MarkOK
  <1>10. \A n \in Marks, d \in Calls : (Missed(d, n)' <=> Missed(d, n)) /\ (Past(d, n)' <=> Past(d, n))
    BY <1>0, <1>3, <1>4, <1>5 DEF Missed, Past
  <1>11. \A n \in Marks \ (overlapped' \cup lapsed') : OneCallPasses(n)'
    BY <1>3, <1>10 DEF IInv, OneCallPasses
  <1> QED
    BY <1>6, <1>8, <1>9, <1>11 DEF IInv

\* The call c ends, with an answer that is no success, or with the transfer made.
LEMMA EndStep ==
    ASSUME IInv, NEW c \in Calls, NEW code \in Answers, Answer(c, code),
           code = 200 => outcome[c] = "paid",
           outcome' \in [Calls -> Outcome], outcome[c] = "paid" => outcome'[c] = "paid",
           outcome[c] # "paid" => outcome'[c] # "paid",
           \A d \in Calls \ {c} : outcome'[d] = outcome[d],
           UNCHANGED <<open, balance, overlapped, lapsed>>,
           \/ marker' = marker
           \/ /\ call[c].step = "paid"
              /\ marker' = [marker EXCEPT ![call[c].mark] = Completed]
    PROVE  IInv'
  <1> DEFINE m == call[c].mark
  <1>0. FrontTypeOK /\ (call[c].step = "paid" => outcome[c] = "paid" /\ m \in Marks)
    BY DEF IInv, CallOK
  <1>1. /\ \A d \in Calls \ {c} : call'[d] = call[d]
        /\ call'[c].step = "done" /\ call'[c].mark = m /\ call'[c].answer = code
        /\ call' \in [Calls -> Call]
    <2>1. call[c] \in Call /\ [call[c] EXCEPT !.step = "done", !.answer = code] \in Call
      BY <1>0 DEF FrontTypeOK, Call
    <2>2. call' = [call EXCEPT ![c] = [call[c] EXCEPT !.step = "done", !.answer = code]]
      BY <1>0 DEF Answer, FrontTypeOK
    <2> QED
      BY <1>0, <2>1, <2>2 DEF FrontTypeOK, Call
  <1>2. marker' \in [Marks -> Marker]
    <2>1. Completed \in Marker
      BY DEF Marker, Answers, Completed
    <2> QED
      BY <1>0, <2>1 DEF FrontTypeOK
  <1>3. FrontTypeOK'
    BY <1>0, <1>1, <1>2 DEF FrontTypeOK
  <1>4. \A n \in Marks \cup {NoMark} : HasPaid(n) => HasPaid(n)'
    BY <1>1 DEF HasPaid
  <1>5. ASSUME NEW d \in Calls
        PROVE  CallOK(d)' /\ AnswerOK(d)'
    <2>1. CASE d # c
      BY <1>1, <1>4, <2>1 DEF IInv, CallOK, AnswerOK
    <2>2. CallOK(c)'
      BY <1>1 DEF CallOK
    <2>3. AnswerOK(c)'
      BY <1>1 DEF AnswerOK
    <2> QED
      BY <2>1, <2>2, <2>3
  <1>7. \A n \in Marks : marker'[n].status = "COMPLETED" => marker[n].status = "COMPLETED" \/ HasPaid(n)
    BY <1>0 DEF FrontTypeOK, HasPaid, Completed
  <1>8. \A n \in Marks : MarkOK(n)'
    BY <1>4, <1>7 DEF IInv, MarkOK
  <1>9. \A n \in Marks, d \in Calls : (Missed(d, n)' => Missed(d, n)) /\ (Past(d, n)' => Past(d, n))
    BY <1>1 DEF Missed, Past
  <1>10. ASSUME NEW n \in Marks \ (overlapped' \cup lapsed')
         PROVE  OneCallPasses(n)'
    <2>1. OneCallPasses(n)
      BY DEF IInv
    <2>2. marker'[n].status = "NONE" <=> marker[n].status = "NONE"
      <3>1. CASE marker' = marker
        BY <3>1
      <3>2. CASE marker' # marker /\ n = m
        <4>1. Past(c, n)
          BY <1>0, <3>2 DEF Past
        <4>2. marker'[n].status = "COMPLETED"
          BY <1>0, <3>2 DEF FrontTypeOK, Completed
        <4> QED
          BY <2>1, <4>1, <4>2 DEF OneCallPasses
      <3>3. CASE marker' # marker /\ n # m
        BY <1>0, <3>3 DEF FrontTypeOK, Completed
      <3> QED
        BY <3>1, <3>2, <3>3
    <2> QED
      BY <1>9, <2>1, <2>2 DEF OneCallPasses
  <1> QED
    BY <1>3, <1>5, <1>8, <1>10 DEF IInv

LEMMA LapseStep ==
    ASSUME IInv, NEW m \in Marks, Lapse(m)
    PROVE  IInv'
  <1>0. /\ FrontTypeOK /\ UNCHANGED <<open, balance, outcome, call, overlapped>>
        /\ lapsed \subseteq lapsed' /\ lapsed' \subseteq Marks
        /\ (\E c \in Calls : Past(c, m)) => m \in lapsed'
        /\ marker' \in [Marks -> Marker] /\ marker'[m].status = "NONE"
        /\ \A n \in Marks \ {m} : marker'[n] = marker[n]
    BY DEF IInv, Lapse, contractVars, FrontTypeOK, NoMarker, Marker, Answers
  <1>1. FrontTypeOK'
    BY <1>0 DEF FrontTypeOK
  <1>2. \A c \in Calls : CallOK(c)' /\ AnswerOK(c)'
    BY <1>0 DEF IInv, CallOK, AnswerOK, HasPaid
  <1>3. \A n \in Marks : MarkOK(n)'
    BY <1>0 DEF IInv, MarkOK, HasPaid
  <1>4. \A n \in Marks, d \in Calls : (Missed(d, n)' <=> Missed(d, n)) /\ (Past(d, n)' <=> Past(d, n))
    BY <1>0 DEF Missed, Past
  <1>5. \A n \in Marks \ (overlapped' \cup lapsed') : OneCallPasses(n)'
    BY <1>0, <1>4 DEF IInv, OneCallPasses
  <1> QED
    BY <1>1, <1>2, <1>3, <1>5 DEF IInv

LEMMA NextIInv == IInv /\ [FrontNext]_vars => IInv'
  <1> SUFFICES ASSUME IInv, [FrontNext]_vars
               PROVE  IInv'
    OBVIOUS
  <1>1. CASE UNCHANGED vars
    BY <1>1 DEF vars, contractVars, frontVars, IInv, FrontTypeOK, CallOK, AnswerOK, MarkOK, HasPaid,
          OneCallPasses, Missed, Past
  <1>2. ASSUME NEW c \in Calls, Refused(c)
        PROVE  IInv'
    <2>1. /\ outcome[c] = "none" /\ FrontTypeOK
          /\ UNCHANGED <<open, balance, marker, overlapped, lapsed>>
      BY <1>2 DEF Refused, Refuse, Drop, IInv, CallOK
    <2>2. PICK result \in {"refused", "rejected", "failed"} : Decide(c, result)
      BY <1>2 DEF Refused, Refuse, Drop
    <2>3. /\ outcome' \in [Calls -> Outcome] /\ outcome'[c] = result
          /\ \A d \in Calls \ {c} : outcome'[d] = outcome[d]
      BY <2>1, <2>2, DecideOnce DEF Outcome
    <2>4. PICK code \in {400, 404, 500} : Answer(c, code)
      BY <1>2, <2>3 DEF Refused, StatusOf
    <2> QED
      BY <2>1, <2>3, <2>4, EndStep DEF Answers
  <1>3. ASSUME NEW c \in Calls, SetCompleted(c)
        PROVE  IInv'
    <2>1. /\ outcome[c] = "paid" /\ FrontTypeOK /\ outcome' = outcome
          /\ UNCHANGED <<open, balance, overlapped, lapsed>>
      BY <1>3 DEF SetCompleted, IInv, CallOK, contractVars
    <2> QED
      BY <1>3, <2>1, EndStep DEF SetCompleted, Answers, FrontTypeOK
  <1>4. ASSUME NEW c \in Calls, RedisFails(c) \/ Crash(c)
        PROVE  IInv'
    <2>1. /\ FrontTypeOK /\ outcome' = outcome /\ marker' = marker
          /\ UNCHANGED <<open, balance, overlapped, lapsed>>
      BY <1>4 DEF RedisFails, Crash, IInv, contractVars
    <2>2. PICK code \in {0, 500} : Answer(c, code)
      BY <1>4 DEF RedisFails, Crash
    <2> QED
      BY <2>1, <2>2, EndStep DEF Answers, FrontTypeOK
  <1> QED
    BY <1>1, <1>2, <1>3, <1>4, UnauthorizedStep, LookupStep, SetProcessingStep, PaidStep, LapseStep
       DEF FrontNext, Handle

LEMMA IInvHolds == FrontSpec => []IInv
  BY InitIInv, NextIInv, PTL DEF FrontSpec

-----------------------------------------------------------------------------
(* Theorems *)

(***************************************************************************)
(* The markers, the calls and the wallets keep their types; in particular  *)
(* no wallet goes below zero.                                              *)
(***************************************************************************)
THEOREM FrontTypeCorrect == FrontSpec => []FrontTypeOK
  <1>1. IInv => FrontTypeOK
    BY DEF IInv
  <1> QED
    BY IInvHolds, <1>1, PTL

(***************************************************************************)
(* A client that is told success, by the transfer or by a replay, can rely *)
(* on it (idempotency.interceptor.ts:33).                                  *)
(***************************************************************************)
THEOREM SuccessWasMadeAlways == FrontSpec => []SuccessWasMade
  <1>1. IInv => SuccessWasMade
    BY DEF IInv, AnswerOK, HasPaid, PaidFor, SuccessWasMade
  <1> QED
    BY IInvHolds, <1>1, PTL

\* c keeps the key m blocked: it is at work, or has failed.
Blocks(c, m) ==
    call[c].mark = m /\ (call[c].step \in {"handling", "paid"} \/ Failed(c))

\* A call that blocks m goes on doing so, unless it has completed the marker.
LEMMA BlocksOn ==
    ASSUME IInv, NEW c \in Calls, NEW m \in Marks, Blocks(c, m), [FrontNext]_vars
    PROVE  Blocks(c, m)' \/ marker'[m] = Completed
  <1>0. FrontTypeOK /\ CallOK(c)
    BY DEF IInv
  <1>1. CASE UNCHANGED vars
    BY <1>1 DEF vars, contractVars, frontVars, Blocks, Failed
  <1>2. ASSUME NEW d \in Calls, d # c, call'[c] = call[c], outcome'[c] = outcome[c]
        PROVE  Blocks(c, m)'
    BY <1>2 DEF Blocks, Failed
  <1>3. ASSUME NEW d \in Calls,
               \/ Unauthorized(d) \/ Unmarked(d) \/ (\E n \in Marks : Lookup(d, n))
               \/ SetProcessing(d)
        PROVE  Blocks(c, m)'
    <2>1. call[d].step \in {"new", "missed"} /\ UNCHANGED outcome
      BY <1>3 DEF Unauthorized, Unmarked, Lookup, SetProcessing, contractVars
    <2>2. d # c
      BY <2>1 DEF Blocks, Failed
    <2>3. call'[c] = call[c]
      BY <1>0, <1>3, <2>2 DEF Unauthorized, Unmarked, Lookup, SetProcessing, Answer, FrontTypeOK
    <2> QED
      BY <1>2, <2>1, <2>2, <2>3
  <1>4. ASSUME NEW d \in Calls, Paid(d)
        PROVE  Blocks(c, m)'
    <2>1. Decide(d, "paid") /\ call[d].step = "handling"
      BY <1>4 DEF Paid, Pay
    <2>2. CASE d = c
      <3>1. call[c].mark = m /\ m # NoMark
        BY IdempotentCallsAssumption DEF Blocks
      <3>2. call'[c].mark = m /\ call'[c].step = "paid"
        BY <1>0, <1>4, <2>2, <3>1 DEF Paid, FrontTypeOK, Call
      <3> QED
        BY <3>2 DEF Blocks
    <2>3. CASE d # c
      <3>1. call'[c] = call[c]
        BY <1>0, <1>4, <2>3 DEF Paid, Answer, FrontTypeOK
      <3>2. outcome'[c] = outcome[c]
        BY <1>0, <2>1, <2>3, DecideOnce DEF FrontTypeOK, Outcome
      <3> QED
        BY <1>2, <2>3, <3>1, <3>2
    <2> QED
      BY <2>2, <2>3
  <1>5. ASSUME NEW d \in Calls, Refused(d)
        PROVE  Blocks(c, m)'
    <2>1. PICK result \in {"refused", "rejected", "failed"} : Decide(d, result)
      BY <1>5 DEF Refused, Refuse, Drop
    <2>2. outcome'[d] = result /\ (d # c => outcome'[c] = outcome[c])
      BY <1>0, <2>1, DecideOnce DEF FrontTypeOK, Outcome
    <2>3. PICK code \in {400, 404, 500} : Answer(d, code)
      BY <1>5, <2>2 DEF Refused, StatusOf
    <2>4. CASE d = c
      <3>1. call'[c].step = "done" /\ call'[c].mark = call[c].mark /\ call'[c].answer = code
        BY <1>0, <2>3, <2>4 DEF Answer, FrontTypeOK, Call
      <3> QED
        BY <2>2, <2>4, <3>1 DEF Blocks, Failed
    <2>5. CASE d # c
      BY <1>0, <1>2, <2>2, <2>3, <2>5 DEF Answer, FrontTypeOK
    <2> QED
      BY <2>4, <2>5
  <1>6. ASSUME NEW d \in Calls, SetCompleted(d)
        PROVE  Blocks(c, m)' \/ marker'[m] = Completed
    <2>1. CASE d = c
      BY <1>0, <1>6, <2>1 DEF SetCompleted, Blocks, FrontTypeOK
    <2>2. CASE d # c
      BY <1>0, <1>2, <1>6, <2>2 DEF SetCompleted, Answer, contractVars, FrontTypeOK
    <2> QED
      BY <2>1, <2>2
  <1>7. ASSUME NEW d \in Calls, RedisFails(d) \/ Crash(d)
        PROVE  Blocks(c, m)'
    <2>1. /\ call[d].step \in {"missed", "handling", "paid"} /\ outcome' = outcome
          /\ \/ Answer(d, 0)
             \/ Answer(d, 500) /\ call[d].step \in {"missed", "paid"}
      BY <1>7 DEF RedisFails, Crash, contractVars
    <2>2. CASE d = c
      <3>1. call'[c].step = "done" /\ call'[c].mark = call[c].mark
            /\ \/ call'[c].answer = 0
               \/ call'[c].answer = 500 /\ outcome[c] = "paid"
        BY <1>0, <2>1, <2>2 DEF Answer, FrontTypeOK, Call, CallOK, Blocks, Failed
      <3> QED
        BY <2>1, <3>1 DEF Blocks, Failed
    <2>3. CASE d # c
      BY <1>0, <1>2, <2>1, <2>3 DEF Answer, FrontTypeOK
    <2> QED
      BY <2>2, <2>3
  <1>8. ASSUME NEW n \in Marks, Lapse(n)
        PROVE  Blocks(c, m)'
    BY <1>8 DEF Lapse, contractVars, Blocks, Failed
  <1> QED
    BY <1>1, <1>3, <1>4, <1>5, <1>6, <1>7, <1>8 DEF FrontNext, Handle

\* A marker becomes PROCESSING by a call that is at work from then on.
LEMMA ProcessingBlocks ==
    ASSUME IInv, NEW m \in Marks, [FrontNext]_vars,
           marker'[m].status = "PROCESSING", marker[m].status # "PROCESSING"
    PROVE  \E c \in Calls : Blocks(c, m)'
  <1>0. FrontTypeOK
    BY DEF IInv
  <1>1. PICK c \in Calls : SetProcessing(c)
    <2>1. ~ UNCHANGED marker
      OBVIOUS
    <2>2. ASSUME NEW d \in Calls
          PROVE  ~SetCompleted(d)
      BY <1>0 DEF SetCompleted, Completed, FrontTypeOK
    <2>3. ASSUME NEW n \in Marks
          PROVE  ~Lapse(n)
      BY <1>0 DEF Lapse, NoMarker, FrontTypeOK
    <2> QED
      BY <2>1, <2>2, <2>3 DEF FrontNext, Handle, vars, frontVars, Unauthorized, Unmarked, Lookup,
            Paid, Refused, RedisFails, Crash
  <1>2. call[c].mark = m
    BY <1>0, <1>1 DEF SetProcessing, FrontTypeOK
  <1>3. call'[c].mark = m /\ call'[c].step = "handling"
    BY <1>0, <1>1, <1>2 DEF SetProcessing, FrontTypeOK, Call
  <1> QED
    BY <1>3 DEF Blocks

(***************************************************************************)
(* A key is blocked only as long as a call of it is at work, or after one  *)
(* has failed (idempotency.interceptor.ts:43-75), in whatever order calls  *)
(* of it set and complete the marker.                                      *)
(***************************************************************************)
THEOREM BlockedForAReasonAlways == FrontSpec => []BlockedForAReason
  <1>1. FrontInit => BlockedForAReason
    BY DEF FrontInit, NoMarker, BlockedForAReason
  <1>2. IInv /\ BlockedForAReason /\ [FrontNext]_vars => BlockedForAReason'
    <2> SUFFICES ASSUME IInv, BlockedForAReason, [FrontNext]_vars, NEW m \in Marks,
                        marker'[m].status = "PROCESSING"
                 PROVE  \E c \in Calls : Blocks(c, m)'
      BY DEF BlockedForAReason, Blocks
    <2>1. CASE marker[m].status = "PROCESSING"
      <3>1. PICK c \in Calls : Blocks(c, m)
        BY <2>1 DEF BlockedForAReason, Blocks
      <3>2. marker'[m] # Completed
        BY DEF Completed
      <3> QED
        BY <3>1, <3>2, BlocksOn
    <2>2. CASE marker[m].status # "PROCESSING"
      BY <2>2, ProcessingBlocks
    <2> QED
      BY <2>1, <2>2
  <1> QED
    BY <1>1, <1>2, IInvHolds, PTL DEF FrontSpec

(***************************************************************************)
(* The transfer of one key is made once, unless two calls looked the key   *)
(* up before either set its marker, or the marker expired on a call at     *)
(* work or on one that has paid (idempotency.interceptor.ts:39-56).        *)
(***************************************************************************)
THEOREM MadeOnceAlways == FrontSpec => []MadeOncePerKey
  <1>1. IInv => MadeOncePerKey
    <2> SUFFICES ASSUME IInv, NEW m \in Marks \ (overlapped \cup lapsed)
                 PROVE  Cardinality(PaidFor(m)) =< 1
      BY DEF MadeOncePerKey
    <2>1. \A c, d \in PaidFor(m) : c = d
      BY DEF IInv, OneCallPasses, Past, PaidFor
    <2>2. CASE PaidFor(m) = {}
      BY <2>2, FS_EmptySet
    <2>3. CASE PaidFor(m) # {}
      <3>1. PICK c \in PaidFor(m) : TRUE
        BY <2>3
      <3>2. PaidFor(m) = {c}
        BY <2>1, <3>1
      <3> QED
        BY <3>2, FS_Singleton
    <2> QED
      BY <2>2, <2>3
  <1> QED
    BY IInvHolds, <1>1, PTL
==============================================================================
