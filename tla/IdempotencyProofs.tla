-------------------------- MODULE IdempotencyProofs -------------------------
(***************************************************************************)
(* Proofs about Idempotency, for any set of requests, hashes and faults.   *)
(***************************************************************************)
EXTENDS Idempotency, TLAPS

(* What a request is before it is let in, and before it has an answer.     *)
Unanswered ==
    \A r \in Requests : req[r].pc \in {"idle", "running"} =>
        req[r].answer = "none" /\ req[r].by = NoRequest

(* The record names a request; one that is a day old has nobody in flight. *)
Owned ==
    /\ row.state # "none" => row.by \in Requests
    /\ row.aged => row.state # "none" /\ \A r \in Requests : ~InFlight(r)

(* An answer belongs to the day it was given, and no day lies ahead.       *)
Dated ==
    \A r \in Requests :
        /\ req[r].day <= day
        /\ req[r].pc = "answered" =>
              req[r].day = day /\ req[r].by = r /\ req[r].answer \in Outcomes

(* Every success of the day is the answer the record holds, or will hold:  *)
(* a success that could not be stored still has its reservation.           *)
SuccessKept ==
    \A r \in Requests : req[r].answer = "created" /\ req[r].day = day =>
        \/ row.state = "answered" /\ row.answer = "created" /\ req[r].by = row.by
        \/ row.state = "reserved" /\ row.by = r /\ req[r].by = r

(* While no run of the day was answered 5xx, the operation has not         *)
(* committed wherever it may still run.                                    *)
NoErrorToday == \A r \in Requests : req[r].day = day => req[r].answer # "error"

NotYetExecuted ==
    NoErrorToday =>
        /\ effects <= 1
        /\ row.state = "none" => effects = 0
        /\ \A r \in Requests : req[r].pc = "running" => effects = 0
        /\ \A r \in Requests :
              req[r].pc = "answered" /\ req[r].answer # "created" => effects = 0

IInv ==
    /\ TypeOK
    /\ Unanswered
    /\ OneAtATime
    /\ Owned
    /\ Dated
    /\ SuccessKept
    /\ SameAnswer
    /\ AnswersOwnRequest
    /\ NotYetExecuted

LEMMA IInvInit == Init => IInv
<1> SUFFICES ASSUME Init PROVE IInv
  OBVIOUS
<1> USE DEF Init
<1>1. TypeOK
  BY DEF TypeOK, NoRow, Row, Request, Outcomes
<1>2. Unanswered /\ OneAtATime /\ Owned
  BY DEF Unanswered, OneAtATime, Owned, InFlight, NoRow
<1>3. Dated /\ SuccessKept /\ SameAnswer /\ AnswersOwnRequest /\ NotYetExecuted
  BY DEF Dated, SuccessKept, SameAnswer, AnswersOwnRequest, NotYetExecuted
<1> QED
  BY <1>1, <1>2, <1>3 DEF IInv

(* What is known of the state a step starts from.                          *)
LEMMA Known ==
    ASSUME IInv
    PROVE  /\ row \in Row /\ req \in [Requests -> Request]
           /\ effects \in Nat /\ day \in Nat
           /\ Requests \subseteq Nat \ {NoRequest}
  BY IdempotencyAssumption DEF IInv, TypeOK

(* A request that ends without a new answer, the record left as it is.     *)
LEMMA EndsKeeps ==
    ASSUME IInv, NEW r \in Requests, InFlight(r),
           req' = [req EXCEPT ![r].pc = "over"],
           UNCHANGED <<row, day>>,
           \/ UNCHANGED effects
           \/ req[r].pc = "running" /\ effects' = effects + 1
    PROVE  IInv'
<1>1. /\ row \in Row /\ req \in [Requests -> Request] /\ effects \in Nat /\ day \in Nat
  BY Known
<1>2. /\ \A q \in Requests : /\ req'[q].answer = req[q].answer
                             /\ req'[q].by = req[q].by
                             /\ req'[q].day = req[q].day
                             /\ req'[q].pc = IF q = r THEN "over" ELSE req[q].pc
      /\ req' \in [Requests -> Request]
  BY <1>1 DEF Request
<1>3. row' = row /\ day' = day /\ effects' \in Nat
  BY <1>1
<1>4. TypeOK'
  BY <1>1, <1>2, <1>3 DEF TypeOK
<1>5. Unanswered' /\ OneAtATime' /\ Owned' /\ Dated'
  BY <1>2, <1>3 DEF IInv, Unanswered, OneAtATime, Owned, Dated, InFlight
<1>6. SuccessKept' /\ SameAnswer' /\ AnswersOwnRequest'
  BY <1>2, <1>3 DEF IInv, SuccessKept, SameAnswer, AnswersOwnRequest
<1>7. NotYetExecuted'
  <2>1. \A q \in Requests : q # r => ~InFlight(q)
    BY DEF IInv, OneAtATime
  <2> QED
    BY <1>1, <1>2, <1>3, <2>1 DEF IInv, NotYetExecuted, NoErrorToday, InFlight, OneAtATime
<1> QED
  BY <1>4, <1>5, <1>6, <1>7 DEF IInv

LEMMA IInvNext == IInv /\ [Next]_vars => IInv'
<1> SUFFICES ASSUME IInv, [Next]_vars PROVE IInv'
  OBVIOUS
<1>0. /\ row \in Row /\ req \in [Requests -> Request] /\ effects \in Nat /\ day \in Nat
      /\ Requests \subseteq Nat \ {NoRequest}
  BY Known
<1>1. ASSUME NEW r \in Requests, Reserve(r) PROVE IInv'
  <2>1. /\ row.state = "none" /\ req[r].pc = "idle"
        /\ row' = [state |-> "reserved", by |-> r, answer |-> "none", aged |-> FALSE]
        /\ row' \in Row
        /\ day' = day /\ effects' = effects
    BY <1>1 DEF Reserve, Free, ReservedBy, Row
  <2>2. /\ \A q \in Requests : /\ req'[q].answer = req[q].answer
                               /\ req'[q].by = req[q].by
                               /\ req'[q].day = req[q].day
                               /\ req'[q].pc = IF q = r THEN "running" ELSE req[q].pc
        /\ req' \in [Requests -> Request]
    BY <1>0, <1>1 DEF Reserve, Request
  <2>3. \A q \in Requests : ~InFlight(q)
    BY <2>1 DEF IInv, OneAtATime
  <2>4. TypeOK'
    BY <1>0, <2>1, <2>2 DEF TypeOK
  <2>5. Unanswered' /\ OneAtATime' /\ Owned' /\ Dated'
    BY <2>1, <2>2, <2>3 DEF IInv, Unanswered, OneAtATime, Owned, Dated, InFlight
  <2>6. SuccessKept' /\ SameAnswer' /\ AnswersOwnRequest'
    BY <2>1, <2>2 DEF IInv, SuccessKept, SameAnswer, AnswersOwnRequest
  <2>7. NotYetExecuted'
    BY <1>0, <2>1, <2>2, <2>3 DEF IInv, NotYetExecuted, NoErrorToday, InFlight
  <2> QED
    BY <2>4, <2>5, <2>6, <2>7 DEF IInv
<1>2. ASSUME NEW r \in Requests, Repeat(r) PROVE IInv'
  <2>1. row' = row /\ day' = day /\ effects' = effects /\ req[r].pc = "idle" /\ row.state # "none"
    BY <1>2 DEF Repeat, Free
  <2>2. PICK a \in Outcomes \cup {"none", "conflict"}, b \in Requests \cup {NoRequest} :
           /\ req' = [req EXCEPT ![r] = [pc |-> "over", answer |-> a, by |-> b, day |-> day]]
           /\ \/ a = row.answer /\ b = row.by /\ row.state = "answered" /\ HashOf[r] = HashOf[b]
              \/ a = "conflict" /\ b = NoRequest
    BY <1>0, <1>2 DEF Repeat, Answer, SameRequest, Row
  <2>3. /\ \A q \in Requests \ {r} : req'[q] = req[q]
        /\ req'[r] = [pc |-> "over", answer |-> a, by |-> b, day |-> day]
        /\ req'[r].pc = "over" /\ req'[r].answer = a /\ req'[r].by = b /\ req'[r].day = day
        /\ req'[r] \in Request
        /\ req' \in [Requests -> Request]
    BY <1>0, <2>2 DEF Request
  <2>4. TypeOK'
    BY <1>0, <2>1, <2>3 DEF TypeOK
  <2>5. Unanswered' /\ OneAtATime' /\ Owned' /\ Dated'
    BY <1>0, <2>1, <2>3 DEF IInv, Unanswered, OneAtATime, Owned, Dated, InFlight
  <2>6. SuccessKept'
    BY <2>1, <2>2, <2>3 DEF IInv, SuccessKept
  <2>7. SameAnswer'
    BY <2>1, <2>2, <2>3 DEF IInv, SameAnswer, SuccessKept
  <2>8. AnswersOwnRequest'
    BY <2>2, <2>3 DEF IInv, AnswersOwnRequest
  <2>9. NotYetExecuted'
    BY <1>0, <2>1, <2>2, <2>3 DEF IInv, NotYetExecuted, NoErrorToday, Unanswered
  <2> QED
    BY <2>4, <2>5, <2>6, <2>7, <2>8, <2>9 DEF IInv
<1>3. ASSUME NEW r \in Requests, BeginFails(r) PROVE IInv'
  <2>1. /\ day' = day /\ effects' = effects /\ req[r].pc = "idle"
        /\ \/ row' = row
           \/ /\ row.state = "none"
              /\ row' = [state |-> "reserved", by |-> r, answer |-> "none", aged |-> FALSE]
        /\ row' \in Row
    <3>1. ReservedBy(r) \in Row
      BY DEF ReservedBy, Row
    <3> QED
      BY <1>0, <1>3, <3>1 DEF BeginFails, Free, ReservedBy
  <2>2. /\ \A q \in Requests \ {r} : req'[q] = req[q]
        /\ req'[r].pc = "over" /\ req'[r].answer = "unavailable"
        /\ req'[r].by = NoRequest /\ req'[r].day = day
        /\ req' \in [Requests -> Request]
    BY <1>0, <1>3 DEF BeginFails, Answer, Request
  <2>4. TypeOK'
    BY <1>0, <2>1, <2>2 DEF TypeOK
  <2>5. Unanswered' /\ OneAtATime' /\ Owned' /\ Dated'
    BY <1>0, <2>1, <2>2 DEF IInv, Unanswered, OneAtATime, Owned, Dated, InFlight
  <2>6. SuccessKept' /\ SameAnswer' /\ AnswersOwnRequest'
    BY <2>1, <2>2 DEF IInv, SuccessKept, SameAnswer, AnswersOwnRequest
  <2>7. NotYetExecuted'
    BY <1>0, <2>1, <2>2 DEF IInv, NotYetExecuted, NoErrorToday, Unanswered
  <2> QED
    BY <2>4, <2>5, <2>6, <2>7 DEF IInv
<1>4. ASSUME NEW r \in Requests, Operate(r) PROVE IInv'
  <2>1. row' = row /\ day' = day /\ req[r].pc = "running"
    BY <1>4 DEF Operate
  <2>2. PICK a \in Outcomes :
           /\ req' = [req EXCEPT ![r] = [pc |-> "answered", answer |-> a, by |-> r, day |-> day]]
           /\ \/ a = "created" /\ effects' = effects + 1
              \/ a = "error" /\ effects' = effects + 1
              \/ a # "created" /\ effects' = effects
    BY <1>4 DEF Operate, Answer
  <2>3. /\ \A q \in Requests \ {r} : req'[q] = req[q]
        /\ req'[r].pc = "answered" /\ req'[r].answer = a /\ req'[r].by = r /\ req'[r].day = day
        /\ req' \in [Requests -> Request]
    BY <1>0, <2>2 DEF Request
  <2>4. row.state = "reserved" /\ row.by = r /\ \A q \in Requests : q # r => ~InFlight(q)
    BY <2>1 DEF IInv, OneAtATime, InFlight
  <2>5. TypeOK'
    BY <1>0, <2>1, <2>2, <2>3 DEF TypeOK
  <2>6. Unanswered' /\ OneAtATime' /\ Owned' /\ Dated'
    BY <1>0, <2>1, <2>2, <2>3, <2>4 DEF IInv, Unanswered, OneAtATime, Owned, Dated, InFlight
  <2>7. SuccessKept' /\ SameAnswer'
    BY <1>0, <2>1, <2>3, <2>4 DEF IInv, SuccessKept, SameAnswer, Unanswered
  <2>8. AnswersOwnRequest'
    BY <2>3 DEF IInv, AnswersOwnRequest
  <2>9. NotYetExecuted'
    BY <1>0, <2>1, <2>2, <2>3, <2>4 DEF IInv, NotYetExecuted, NoErrorToday, Unanswered, InFlight
  <2> QED
    BY <2>5, <2>6, <2>7, <2>8, <2>9 DEF IInv
<1>5. ASSUME NEW r \in Requests, Panic(r) PROVE IInv'
  <2>1. row' = row /\ day' = day /\ req[r].pc = "running" /\ effects' \in Nat
    BY <1>0, <1>5 DEF Panic
  <2>2. /\ \A q \in Requests \ {r} : req'[q] = req[q]
        /\ req'[r].pc = "over" /\ req'[r].answer = "error" /\ req'[r].by = r /\ req'[r].day = day
        /\ req' \in [Requests -> Request]
    BY <1>0, <1>5 DEF Panic, Answer, Request, Outcomes
  <2>3. TypeOK'
    BY <1>0, <2>1, <2>2 DEF TypeOK
  <2>4. Unanswered' /\ OneAtATime' /\ Owned' /\ Dated'
    BY <1>0, <2>1, <2>2 DEF IInv, Unanswered, OneAtATime, Owned, Dated, InFlight
  <2>5. SuccessKept' /\ SameAnswer' /\ AnswersOwnRequest'
    BY <2>1, <2>2 DEF IInv, SuccessKept, SameAnswer, AnswersOwnRequest
  <2>6. NotYetExecuted'
    BY <2>1, <2>2 DEF NotYetExecuted, NoErrorToday
  <2> QED
    BY <2>3, <2>4, <2>5, <2>6 DEF IInv
<1>6. ASSUME NEW r \in Requests, Crash(r) PROVE IInv'
  BY <1>6, EndsKeeps DEF Crash
<1>7. ASSUME NEW r \in Requests, CompleteFails(r) PROVE IInv'
  BY <1>7, EndsKeeps DEF CompleteFails, InFlight
<1>8. ASSUME NEW r \in Requests, Complete(r) PROVE IInv'
  <2>1. /\ day' = day /\ effects' = effects /\ req[r].pc = "answered"
        /\ row.state = "reserved" /\ row.by = r /\ ~row.aged
        /\ req[r].day = day /\ req[r].by = r
        /\ \A q \in Requests : q # r => ~InFlight(q)
    BY <1>8 DEF Complete, IInv, OneAtATime, Owned, Dated, InFlight
  <2>2. /\ \A q \in Requests : /\ req'[q].answer = req[q].answer
                               /\ req'[q].by = req[q].by
                               /\ req'[q].day = req[q].day
                               /\ req'[q].pc = IF q = r THEN "over" ELSE req[q].pc
        /\ req' \in [Requests -> Request]
    BY <1>0, <1>8 DEF Complete, Request
  <2>3. CASE Replayable(req[r].answer)
    <3>1. row' = [row EXCEPT !.state = "answered", !.answer = req[r].answer]
      BY <1>8, <2>1, <2>3 DEF Complete, Free
    <3>2. req[r].answer \in Outcomes \cup {"none"}
      BY <2>1 DEF IInv, Dated
    <3>3. /\ row'.state = "answered" /\ row'.by = r /\ ~row'.aged
          /\ row'.answer = req[r].answer /\ row' \in Row
      BY <1>0, <2>1, <3>1, <3>2 DEF Row
    <3>4. TypeOK'
      BY <1>0, <2>1, <2>2, <3>3 DEF TypeOK
    <3>5. Unanswered' /\ OneAtATime' /\ Owned' /\ Dated'
      BY <2>1, <2>2, <3>3 DEF IInv, Unanswered, OneAtATime, Owned, Dated, InFlight
    <3>6. SuccessKept' /\ SameAnswer' /\ AnswersOwnRequest'
      BY <2>1, <2>2, <3>3 DEF IInv, SuccessKept, SameAnswer, AnswersOwnRequest
    <3>7. NotYetExecuted'
      BY <1>0, <2>1, <2>2, <3>3 DEF IInv, NotYetExecuted, NoErrorToday, InFlight
    <3> QED
      BY <3>4, <3>5, <3>6, <3>7 DEF IInv
  <2>4. CASE ~Replayable(req[r].answer)
    <3>1. row' = NoRow /\ row'.state = "none" /\ ~row'.aged /\ row' \in Row
      BY <1>8, <2>4 DEF Complete, NoRow, Row
    <3>2. req[r].answer \in {"error", "stepup"}
      BY <2>4 DEF Replayable, DetailCode
    <3>3. TypeOK'
      BY <1>0, <2>1, <2>2, <3>1 DEF TypeOK
    <3>4. Unanswered' /\ OneAtATime' /\ Owned' /\ Dated'
      BY <2>1, <2>2, <3>1 DEF IInv, Unanswered, OneAtATime, Owned, Dated, InFlight
    <3>5. SuccessKept' /\ SameAnswer' /\ AnswersOwnRequest'
      BY <2>1, <2>2, <3>1, <3>2 DEF IInv, SuccessKept, SameAnswer, AnswersOwnRequest
    <3>6. NotYetExecuted'
      BY <1>0, <2>1, <2>2, <3>1, <3>2 DEF IInv, NotYetExecuted, NoErrorToday, InFlight
    <3> QED
      BY <3>3, <3>4, <3>5, <3>6 DEF IInv
  <2> QED
    BY <2>3, <2>4
<1>9. ASSUME Age PROVE IInv'
  <2>1. /\ row' = [row EXCEPT !.aged = TRUE] /\ row.state # "none"
        /\ req' = req /\ day' = day /\ effects' = effects
        /\ \A r \in Requests : ~InFlight(r)
    BY <1>9 DEF Age, Free
  <2>2. /\ row'.state = row.state /\ row'.by = row.by /\ row'.answer = row.answer
        /\ row' \in Row
    BY <1>0, <2>1 DEF Row
  <2> QED
    BY <2>1, <2>2 DEF IInv, TypeOK, Unanswered, OneAtATime, Owned, Dated, SuccessKept,
       SameAnswer, AnswersOwnRequest, NotYetExecuted, NoErrorToday, InFlight
<1>10. ASSUME Sweep PROVE IInv'
  <2>1. /\ row' = NoRow /\ row'.state = "none" /\ ~row'.aged /\ row' \in Row
        /\ req' = req /\ day' = day + 1 /\ effects' = 0
        /\ \A r \in Requests : ~InFlight(r)
    BY <1>10 DEF Sweep, Expired, NoRow, Row, IInv, Owned
  <2>2. TypeOK'
    BY <1>0, <2>1 DEF TypeOK
  <2>3. \A r \in Requests : req[r].day \in Nat /\ req[r].day <= day
    BY <1>0 DEF IInv, Dated, Request
  <2>4. Unanswered' /\ OneAtATime' /\ Owned' /\ SameAnswer' /\ AnswersOwnRequest'
    BY <2>1 DEF IInv, Unanswered, OneAtATime, Owned, InFlight, SameAnswer, AnswersOwnRequest
  <2>5. Dated' /\ SuccessKept' /\ NotYetExecuted'
    BY <1>0, <2>1, <2>3 DEF Dated, SuccessKept, NotYetExecuted, InFlight
  <2> QED
    BY <2>2, <2>4, <2>5 DEF IInv
<1>11. ASSUME UNCHANGED vars PROVE IInv'
  BY <1>11 DEF vars, IInv, TypeOK, Unanswered, OneAtATime, Owned, Dated, SuccessKept,
     SameAnswer, AnswersOwnRequest, NotYetExecuted, NoErrorToday, InFlight
<1> QED
  BY <1>1, <1>2, <1>3, <1>4, <1>5, <1>6, <1>7, <1>8, <1>9, <1>10, <1>11 DEF Next, Ends

LEMMA IInvariant == Spec => []IInv
  BY IInvInit, IInvNext, PTL DEF Spec

-----------------------------------------------------------------------------
(* Two requests under one key are never in the operation at once, and the  *)
(* one that is owns the record (Guard.Begin, Guard.Complete).              *)
THEOREM OneRequestAtATime == Spec => []OneAtATime
<1>1. IInv => OneAtATime
  BY DEF IInv
<1> QED
  BY <1>1, IInvariant, PTL

(* Every success a key answers within its day comes from one run of the    *)
(* operation (Guard.Begin's replay, Guard.Complete).                       *)
THEOREM OneSuccess == Spec => []SameAnswer
<1>1. IInv => SameAnswer
  BY DEF IInv
<1> QED
  BY <1>1, IInvariant, PTL

(* A request is never answered with what another body produced             *)
(* (Guard.Begin, the hash comparison).                                     *)
THEOREM NoForeignAnswer == Spec => []AnswersOwnRequest
<1>1. IInv => AnswersOwnRequest
  BY DEF IInv
<1> QED
  BY <1>1, IInvariant, PTL

(* Without a 5xx under the key the operation commits at most once, crashes *)
(* and failed stores included (Guard.Complete keeps the reservation).      *)
THEOREM OperationOnce == Spec => []ExecutedOnce
<1>1. IInv => ExecutedOnce
  BY DEF IInv, NotYetExecuted, NoErrorToday, ExecutedOnce
<1> QED
  BY <1>1, IInvariant, PTL

-----------------------------------------------------------------------------
(* The demand of a proof, on a route whose answers are kept whole.         *)

DemandNotKept == row.state = "answered" => row.answer # "stepup"

DemandInv == DemandNotKept /\ DemandNotReplayed

LEMMA DemandNext ==
    ASSUME ~ShownOnce
    PROVE  IInv /\ DemandInv /\ [Next]_vars => DemandInv'
<1> SUFFICES ASSUME IInv, DemandInv, [Next]_vars PROVE DemandInv'
  OBVIOUS
<1> USE DEF DemandInv, DemandNotKept, DemandNotReplayed
<1>0. row \in Row /\ req \in [Requests -> Request]
  BY Known
<1>1. ASSUME NEW r \in Requests, Reserve(r) PROVE DemandInv'
  BY <1>0, <1>1 DEF Reserve, ReservedBy, Request
<1>2. ASSUME NEW r \in Requests, Repeat(r) PROVE DemandInv'
  BY <1>0, <1>2 DEF Repeat, Answer
<1>3. ASSUME NEW r \in Requests, BeginFails(r) PROVE DemandInv'
  BY <1>0, <1>3 DEF BeginFails, ReservedBy, Answer
<1>4. ASSUME NEW r \in Requests, Operate(r) \/ Panic(r) PROVE DemandInv'
  BY <1>0, <1>4 DEF Operate, Panic, Answer
<1>5. ASSUME NEW r \in Requests, Crash(r) \/ CompleteFails(r) PROVE DemandInv'
  BY <1>0, <1>5 DEF Crash, CompleteFails, Request
<1>6. ASSUME NEW r \in Requests, Complete(r) PROVE DemandInv'
  <2>1. row'.state = "answered" => row'.answer # "stepup"
    BY <1>0, <1>6 DEF Complete, Free, Replayable, DetailCode, NoRow, Row
  <2>2. \A q \in Requests : req'[q].answer = req[q].answer /\ req'[q].by = req[q].by
    BY <1>0, <1>6 DEF Complete, Request
  <2> QED
    BY <2>1, <2>2
<1>7. ASSUME Age \/ Sweep \/ UNCHANGED vars PROVE DemandInv'
  BY <1>0, <1>7 DEF Age, Sweep, vars, NoRow, Row
<1> QED
  BY <1>1, <1>2, <1>3, <1>4, <1>5, <1>6, <1>7 DEF Next, Ends

(* Where the body is kept, the demand of a proof is never replayed, so the *)
(* retry that carries the proof is let through (Answer.Replayable).        *)
THEOREM DemandsPass ==
    ASSUME ~ShownOnce
    PROVE  Spec => []DemandNotReplayed
<1>1. Init => DemandInv
  BY DEF Init, NoRow, DemandInv, DemandNotKept, DemandNotReplayed
<1>2. DemandInv => DemandNotReplayed
  BY DEF DemandInv
<1> QED
  BY <1>1, <1>2, DemandNext, IInvariant, PTL DEF Spec
=============================================================================
