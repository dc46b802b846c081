---------------------------- MODULE Idempotency -----------------------------
(***************************************************************************)
(* One idempotency key of one endpoint: the row of idempotency_key, the    *)
(* guard of core/application/service/idempotency around it, and the        *)
(* requests that carry the key (presentation/rest/Idempotency.go).         *)
(*                                                                         *)
(* A request is three transactions: the reservation, the operation and the *)
(* stored answer.  Each is an action, and other requests, a crash, a panic *)
(* or a failing database come between any two of them.                     *)
(***************************************************************************)
EXTENDS Naturals

CONSTANTS
    Requests,   \* the HTTP requests sent under the key, repeats included
    HashOf,     \* [Requests -> hash of method, route and body]
    Proves,     \* the requests that carry a step-up proof
    ShownOnce,  \* the route is one of ShownOnceRoutes: its bodies are not kept
    Faults      \* what goes wrong: "panic", "crash", "database"

NoRequest == 0

ASSUME IdempotencyAssumption ==
    /\ Requests \subseteq Nat \ {NoRequest}
    /\ ShownOnce \in BOOLEAN
    /\ Faults \subseteq {"panic", "crash", "database"}

(* What the operation answers: done, a refusal of the request, the demand  *)
(* of a proof, or a 5xx.                                                   *)
Outcomes == {"created", "rejected", "stepup", "error"}

VARIABLES
    row,        \* the record, with who reserved it and whether its day is over
    req,        \* each request: where it is and what it was answered
    effects,    \* operations committed since the key was last swept
    day         \* how often the key was swept

vars == <<row, req, effects, day>>

NoRow == [state |-> "none", by |-> NoRequest, answer |-> "none", aged |-> FALSE]

Row == [state : {"none", "reserved", "answered"}, by : Requests \cup {NoRequest},
        answer : Outcomes \cup {"none"}, aged : BOOLEAN]

(* by is the request whose run of the operation produced the answer, day   *)
(* the day it was given.                                                   *)
Request == [pc : {"idle", "running", "answered", "over"},
            answer : Outcomes \cup {"none", "conflict", "unavailable"},
            by : Requests \cup {NoRequest}, day : Nat]

TypeOK ==
    /\ row \in Row
    /\ req \in [Requests -> Request]
    /\ effects \in Nat
    /\ day \in Nat

Init ==
    /\ row = NoRow
    /\ req = [r \in Requests |-> [pc |-> "idle", answer |-> "none",
                                  by |-> NoRequest, day |-> 0]]
    /\ effects = 0
    /\ day = 0

-----------------------------------------------------------------------------
InFlight(r) == req[r].pc \in {"running", "answered"}

Answer(r, pc, answer, by) ==
    req' = [req EXCEPT ![r] = [pc |-> pc, answer |-> answer, by |-> by, day |-> day]]

(* Mutant of Free: a reservation whose request has not answered yet is     *)
(* taken over by the repeat.                                               *)
FreeOrReserved == row.state # "answered"

(* ReserveIdempotencyKey inserts only where there is no row.               *)
Free == row.state = "none"

ReservedBy(r) == [state |-> "reserved", by |-> r, answer |-> "none", aged |-> FALSE]

(* Guard.Begin, the key was free.                                          *)
Reserve(r) ==
    /\ req[r].pc = "idle"
    /\ Free
    /\ row' = ReservedBy(r)
    /\ req' = [req EXCEPT ![r].pc = "running"]
    /\ UNCHANGED <<effects, day>>

(* Mutant of SameRequest: the key alone decides.                           *)
AnyRequest(r) == TRUE

SameRequest(r) == HashOf[r] = HashOf[row.by]

(* Guard.Begin, the key was taken: a different request, one still in       *)
(* progress, or an answer to replay (writeReplay).                         *)
Repeat(r) ==
    /\ req[r].pc = "idle"
    /\ ~Free
    /\ IF SameRequest(r) /\ row.state = "answered"
       THEN Answer(r, "over", row.answer, row.by)
       ELSE Answer(r, "over", "conflict", NoRequest)
    /\ UNCHANGED <<row, effects, day>>

(* Guard.Begin failed.  The reservation may have been committed all the    *)
(* same, and nobody lets it go.                                            *)
BeginFails(r) ==
    /\ "database" \in Faults
    /\ req[r].pc = "idle"
    /\ Answer(r, "over", "unavailable", NoRequest)
    /\ \/ UNCHANGED row
       \/ Free /\ row' = ReservedBy(r)
    /\ UNCHANGED <<effects, day>>

(* The route's handler: its own transaction, then the answer goes out.  A  *)
(* 5xx may hide a commit whose answer was lost.                            *)
Operate(r) ==
    /\ req[r].pc = "running"
    /\ \E outcome \in Outcomes :
          /\ outcome = "stepup" => r \notin Proves
          /\ Answer(r, "answered", outcome, r)
          /\ \/ outcome = "created" /\ effects' = effects + 1
             \/ outcome = "error" /\ "database" \in Faults /\ effects' = effects + 1
             \/ outcome # "created" /\ UNCHANGED effects
    /\ UNCHANGED <<row, day>>

(* The handler panicked: Observed recovers further out and answers 500,    *)
(* and Complete is not reached.                                            *)
Panic(r) ==
    /\ "panic" \in Faults
    /\ req[r].pc = "running"
    /\ Answer(r, "over", "error", r)
    /\ effects' \in {effects, effects + 1}
    /\ UNCHANGED <<row, day>>

(* The process died before, in or after the operation.                     *)
Crash(r) ==
    /\ "crash" \in Faults
    /\ InFlight(r)
    /\ req' = [req EXCEPT ![r].pc = "over"]
    /\ \/ UNCHANGED effects
       \/ req[r].pc = "running" /\ effects' = effects + 1
    /\ UNCHANGED <<row, day>>

(* capturedResponse.answer: the detail code is read off the stored body,   *)
(* and a route of ShownOnceRoutes stores none.                             *)
DetailCode(outcome) == IF ShownOnce THEN "none" ELSE outcome

(* Mutants of Replayable: only a success is an outcome worth keeping; the  *)
(* demand of a proof is kept like any other refusal.                       *)
ReplayableRefusals(outcome) == outcome \in {"rejected"}
ReplayableDemand(outcome) == outcome # "error"

Replayable(outcome) == outcome # "error" /\ DetailCode(outcome) # "stepup"

(* Guard.Complete: store the answer, or let the key go.  Both statements   *)
(* name the key and not the reservation.                                   *)
Complete(r) ==
    /\ req[r].pc = "answered"
    /\ req' = [req EXCEPT ![r].pc = "over"]
    /\ row' = IF ~Replayable(req[r].answer) THEN NoRow
              ELSE IF Free THEN row
              ELSE [row EXCEPT !.state = "answered", !.answer = req[r].answer]
    /\ UNCHANGED <<effects, day>>

(* Guard.Complete failed: logged, and the reservation stands.              *)
CompleteFails(r) ==
    /\ "database" \in Faults
    /\ req[r].pc = "answered"
    /\ req' = [req EXCEPT ![r].pc = "over"]
    /\ UNCHANGED <<row, effects, day>>

(* A day goes by.  "No request runs for a day" (DeleteExpiredIdempotency-  *)
(* Keys): the one that reserved the key has ended.                         *)
Age ==
    /\ ~Free
    /\ ~row.aged
    /\ \A r \in Requests : ~InFlight(r)
    /\ row' = [row EXCEPT !.aged = TRUE]
    /\ UNCHANGED <<req, effects, day>>

(* Mutant of Expired: the sweep passes over what has no answer yet.        *)
ExpiredAnswer == row.state = "answered" /\ row.aged

Expired == ~Free /\ row.aged

(* RunRetention.sweepIdempotencyKeys.                                      *)
Sweep ==
    /\ Expired
    /\ row' = NoRow
    /\ effects' = 0
    /\ day' = day + 1
    /\ UNCHANGED req

Ends(r) == Operate(r) \/ Panic(r) \/ Crash(r) \/ Complete(r) \/ CompleteFails(r)

Next ==
    \/ \E r \in Requests : Reserve(r) \/ Repeat(r) \/ BeginFails(r) \/ Ends(r)
    \/ Age
    \/ Sweep

Spec == Init /\ [][Next]_vars

(* A request that was let in ends (it carries a deadline), a day passes,   *)
(* and the retention run comes round.  Clients owe nothing.                *)
FairSpec ==
    /\ Spec
    /\ \A r \in Requests : WF_vars(Ends(r))
    /\ WF_vars(Age)
    /\ WF_vars(Sweep)

-----------------------------------------------------------------------------
(* Properties.                                                             *)

(* "Two requests arriving together race for the same insert, one wins"     *)
(* (Guard.Begin): two requests are never in the operation at once, and     *)
(* the one that is still owns the record it will complete, so the unfenced *)
(* Complete and Release never hit another request's row.                   *)
OneAtATime ==
    \A r \in Requests :
        InFlight(r) => row.state = "reserved" /\ row.by = r

(* Every success answered under a key within its day comes from one run of *)
(* the operation, whether it was the first answer or a replay, past        *)
(* crashes, lost answers and stores that failed.                           *)
SameAnswer ==
    \A q, r \in Requests :
        /\ req[q].answer = "created" /\ req[r].answer = "created"
        /\ req[q].day = req[r].day
        => req[q].by = req[r].by

(* No request is answered with what another request's body produced        *)
(* (Guard.Begin, the hash comparison), also after a release or a sweep.    *)
AnswersOwnRequest ==
    \A r \in Requests :
        req[r].by # NoRequest => HashOf[req[r].by] = HashOf[r]

(* Executed once: while no run of the day was answered 5xx the operation   *)
(* has committed at most once, crashes before the answer included.         *)
ExecutedOnce ==
    (\A r \in Requests : req[r].day = day => req[r].answer # "error") => effects <= 1

(* A reservation whose request died, panicked or could not store its       *)
(* answer is not for ever: the sweep takes it (DeleteExpiredIdempotency-   *)
(* Keys), and the key can be used again.                                   *)
ReservationEnds == row.state = "reserved" ~> row.state # "reserved"

(* The demand of a proof is never replayed at a repeat: "the retry that    *)
(* carries the proof is [...] the same intent under the same key"          *)
(* (Answer.Replayable).                                                    *)
DemandNotReplayed ==
    \A r \in Requests : req[r].answer = "stepup" => req[r].by = r
=============================================================================
