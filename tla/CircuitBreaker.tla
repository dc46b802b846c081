--------------------------- MODULE CircuitBreaker ---------------------------
(***************************************************************************)
(* infrastructure/resilience/CircuitBreaker.go: one Breaker, shared by the *)
(* goroutines that call its dependency and by the ones that read its state *)
(* for the health report.  enter and leave each hold the mutex once and    *)
(* the call runs between them, so a call let in under one state answers    *)
(* under another.  The observer that keeps the gauge is told after the     *)
(* unlock, in a step of its own.                                           *)
(***************************************************************************)
EXTENDS Integers, FiniteSets

CONSTANTS
    Callers,            \* goroutines
    FailureThreshold,   \* BreakerConfig, after NewBreaker filled it in
    SuccessThreshold,
    OpenFor,            \* in ticks of the clock
    HalfOpenProbes,
    MayPanic            \* TRUE: a call may panic, and be recovered above Do

ASSUME BreakerAssumption ==
    /\ IsFiniteSet(Callers)
    /\ FailureThreshold \in Nat \ {0}
    /\ SuccessThreshold \in Nat \ {0}
    /\ OpenFor \in Nat \ {0}
    /\ HalfOpenProbes \in Nat \ {0}
    /\ MayPanic \in BOOLEAN

VARIABLES
    breaker,    \* the fields under the mutex; cooling is what is left of OpenFor
    call,       \* per goroutine: is it inside fn, which state does it still report
    probing,    \* the calls in flight that were let in as probes of this spell
    leaked,     \* history: how many of them panicked and kept their slot
    strayed,    \* history: how many slots late calls gave back that they never took
    gauge,      \* what the observer was told last
    healthy     \* the dependency answers

vars == <<breaker, call, probing, leaked, strayed, gauge, healthy>>

States == {"closed", "half_open", "open"}

(* The counters never reach their thresholds: whoever would reach one      *)
(* changes the state and resets it under the same lock.                    *)
TypeOK ==
    /\ breaker \in [state : States, failures : 0..(FailureThreshold - 1),
                    successes : 0..(SuccessThreshold - 1),
                    probes : 0..HalfOpenProbes, cooling : 0..OpenFor]
    /\ call \in [Callers -> [running : BOOLEAN, owes : States \cup {"none"}]]
    /\ probing \in SUBSET Callers
    /\ leaked \in Nat
    /\ strayed \in Nat
    /\ gauge \in States
    /\ healthy \in BOOLEAN

Init ==
    /\ breaker = [state |-> "closed", failures |-> 0, successes |-> 0,
                  probes |-> 0, cooling |-> 0]
    /\ call = [c \in Callers |-> [running |-> FALSE, owes |-> "none"]]
    /\ probing = {}
    /\ leaked = 0
    /\ strayed = 0
    /\ gauge = "closed"
    /\ healthy = TRUE

-----------------------------------------------------------------------------
(* What the breaker's methods do to its fields.                            *)

Expired(b) == b.state = "open" /\ b.cooling = 0

ExpireCoolDown(b) ==
    IF Expired(b)
    THEN [b EXCEPT !.state = "half_open", !.successes = 0, !.probes = 0]
    ELSE b

Trip(b) == [state |-> "open", failures |-> 0, successes |-> 0, probes |-> 0,
            cooling |-> OpenFor]

(* Mutant of ReturnProbe: nobody gives the slot of a probe back.           *)
KeepProbe(b) == b

ReturnProbe(b) ==
    IF b.state = "half_open" /\ b.probes > 0
    THEN [b EXCEPT !.probes = @ - 1] ELSE b

(* leave with an error that counts against the dependency.                 *)
AfterFailure(b) ==
    IF b.state = "half_open" \/ b.failures + 1 >= FailureThreshold
    THEN Trip(b)
    ELSE [b EXCEPT !.failures = @ + 1, !.successes = 0]

Closed(b) == [b EXCEPT !.state = "closed", !.failures = 0, !.successes = 0]

(* Mutant of AfterSuccess: any answer that arrives late counts as a probe's. *)
AfterSuccessAnywhere(b) ==
    IF b.state # "closed"
    THEN IF b.successes + 1 >= SuccessThreshold
         THEN Closed(b) ELSE [b EXCEPT !.successes = @ + 1]
    ELSE [b EXCEPT !.failures = 0]

(* Mutant of AfterSuccess: the probes that succeeded are not counted.      *)
AfterSuccessForgotten(b) ==
    IF b.state = "half_open" /\ b.successes + 1 >= SuccessThreshold
    THEN Closed(b) ELSE [b EXCEPT !.failures = 0]

(* leave with no error, or with one the dependency is not blamed for.      *)
AfterSuccess(b) ==
    IF b.state = "half_open"
    THEN IF b.successes + 1 >= SuccessThreshold
         THEN Closed(b) ELSE [b EXCEPT !.successes = @ + 1]
    ELSE [b EXCEPT !.failures = 0]

Owed(before, after) ==
    IF before.state = after.state THEN "none" ELSE after.state

-----------------------------------------------------------------------------
(* The steps of a goroutine.                                               *)

Ready(c) == ~call[c].running /\ call[c].owes = "none"

(* Mutant of Admitted: the limit itself is let in.                         *)
AdmittedOneMore(b) ==
    \/ b.state = "closed"
    \/ b.state = "half_open" /\ b.probes <= HalfOpenProbes

Admitted(b) ==
    \/ b.state = "closed"
    \/ b.state = "half_open" /\ b.probes < HalfOpenProbes

(* Breaker.enter.  A call that is refused may still report the transition  *)
(* it made.                                                                *)
Enter(c) ==
    LET b == ExpireCoolDown(breaker)
        admitted == Admitted(b)
        fresh == IF Expired(breaker) THEN {} ELSE probing
    IN /\ Ready(c)
       /\ call' = [call EXCEPT ![c] = [running |-> admitted,
                                       owes |-> Owed(breaker, b)]]
       /\ IF admitted /\ b.state = "half_open"
          THEN /\ breaker' = [b EXCEPT !.probes = @ + 1]
               /\ probing' = fresh \cup {c}
          ELSE /\ breaker' = b
               /\ probing' = fresh
       /\ leaked' = IF Expired(breaker) THEN 0 ELSE leaked
       /\ strayed' = IF Expired(breaker) THEN 0 ELSE strayed
       /\ UNCHANGED <<gauge, healthy>>

(* Breaker.leave: the call answered.  Only a dependency in trouble causes  *)
(* an error that counts; one the caller caused, or a cancelled call, can   *)
(* come at any time and counts as a success.                               *)
Leave(c) ==
    /\ call[c].running
    /\ call[c].owes = "none"
    /\ \E failed \in BOOLEAN :
          LET b == ReturnProbe(breaker)
              after == IF failed THEN AfterFailure(b) ELSE AfterSuccess(b)
          IN /\ failed => ~healthy
             /\ breaker' = after
             /\ call' = [call EXCEPT ![c] = [running |-> FALSE,
                                             owes |-> Owed(b, after)]]
    /\ probing' = probing \ {c}
    /\ strayed' = IF c \notin probing /\ ReturnProbe(breaker) # breaker
                  THEN strayed + 1 ELSE strayed
    /\ UNCHANGED <<leaked, gauge, healthy>>

(* fn panicked: Do has no deferred leave.                                  *)
Panic(c) ==
    /\ MayPanic
    /\ call[c].running
    /\ call[c].owes = "none"
    /\ call' = [call EXCEPT ![c].running = FALSE]
    /\ probing' = probing \ {c}
    /\ leaked' = IF c \in probing THEN leaked + 1 ELSE leaked
    /\ UNCHANGED <<breaker, strayed, gauge, healthy>>

(* Breaker.State, read by the health report: it moves an expired cool-down. *)
State(c) ==
    /\ Ready(c)
    /\ Expired(breaker)
    /\ breaker' = ExpireCoolDown(breaker)
    /\ call' = [call EXCEPT ![c].owes = "half_open"]
    /\ probing' = {}
    /\ leaked' = 0
    /\ strayed' = 0
    /\ UNCHANGED <<gauge, healthy>>

(* Breaker.notify, outside the lock.                                       *)
Notify(c) ==
    /\ call[c].owes # "none"
    /\ gauge' = call[c].owes
    /\ call' = [call EXCEPT ![c].owes = "none"]
    /\ UNCHANGED <<breaker, probing, leaked, strayed, healthy>>

(* The clock, which matters only to an open breaker.                       *)
Elapse ==
    /\ breaker.state = "open"
    /\ breaker.cooling > 0
    /\ breaker' = [breaker EXCEPT !.cooling = @ - 1]
    /\ UNCHANGED <<call, probing, leaked, strayed, gauge, healthy>>

(* The dependency goes down or comes back.                                 *)
Dependency ==
    /\ healthy' = ~healthy
    /\ UNCHANGED <<breaker, call, probing, leaked, strayed, gauge>>

CallerStep(c) == Enter(c) \/ Leave(c) \/ Panic(c) \/ State(c) \/ Notify(c)

Next == (\E c \in Callers : CallerStep(c)) \/ Elapse \/ Dependency

Spec == Init /\ [][Next]_vars

(* Callers keep calling, calls and notifications end (every call carries a *)
(* deadline), and time passes.                                             *)
Fairness ==
    /\ \A c \in Callers :
          WF_vars(Enter(c)) /\ WF_vars(Leave(c)) /\ WF_vars(Notify(c))
    /\ WF_vars(Elapse)

FairSpec == Spec /\ Fairness

-----------------------------------------------------------------------------
(* Properties.                                                             *)

(* A half-open breaker counts no more probes than are in flight or have    *)
(* panicked: a slot taken and never returned refuses every later caller    *)
(* (Breaker.enter, the b.probes >= HalfOpenProbes branch), and a panic is  *)
(* the only way to lose one.                                               *)
NoLeakedProbe ==
    breaker.state = "half_open" => breaker.probes <= Cardinality(probing) + leaked

(* No more than HalfOpenProbes calls ask a recovering dependency at once,  *)
(* but for one more with every call of an earlier spell that answers in    *)
(* this one and is taken for a probe (Breaker.leave).                      *)
ProbeLimit ==
    breaker.state = "half_open" => Cardinality(probing) <= HalfOpenProbes + strayed

(* For the whole cool-down an open breaker rejects, whatever late answers  *)
(* of calls let in before the trip still arrive (Breaker.leave): it stays  *)
(* open and no call starts.                                                *)
OpenHolds ==
    [][breaker.state = "open" /\ breaker.cooling > 0 =>
          /\ breaker'.state = "open"
          /\ \A c \in Callers : call'[c].running => call[c].running]_vars

(* A dependency that came back for good is used again: the breaker closes  *)
(* and stays closed, without a restart, unless panics have eaten every     *)
(* probe slot since the cool-down ended (Breaker.Do has no deferred leave). *)
Recovers ==
    <>[]healthy => <>[](\/ breaker.state = "closed"
                        \/ breaker.state = "half_open" /\ leaked >= HalfOpenProbes)
=============================================================================
