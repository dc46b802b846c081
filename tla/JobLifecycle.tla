---------------------------- MODULE JobLifecycle ----------------------------
(***************************************************************************)
(* The job queue as its producers and its operator see it: no lease, no    *)
(* clock, no runner.  A job waits, is under way, and ends done, refused,   *)
(* cancelled or as a dead letter; a dead letter may be taken up again.     *)
(* JobQueue implements this specification.                                 *)
(***************************************************************************)
EXTENDS Naturals

CONSTANTS
    Jobs,
    Detached,   \* jobs whose work is not committed with their outcome
    Pollers     \* jobs that may ask for another round

VARIABLES
    phase,      \* where each job is in its life
    effects,    \* how often its work was committed (0, 1, or 2 for more)
    expiring    \* the ended jobs chosen to be forgotten next

vars == <<phase, effects, expiring>>

Ended == {"done", "refused", "cancelled", "dead"}

Init ==
    /\ phase = [j \in Jobs |-> "absent"]
    /\ effects = [j \in Jobs |-> 0]
    /\ expiring = {}

Turn(j, from, to) ==
    /\ phase[j] = from
    /\ phase' = [phase EXCEPT ![j] = to]

Counted(j) == [effects EXCEPT ![j] = IF @ = 2 THEN 2 ELSE @ + 1]

Submit(j) == Turn(j, "absent", "waiting") /\ UNCHANGED <<effects, expiring>>

Take(j) == Turn(j, "waiting", "underway") /\ UNCHANGED <<effects, expiring>>

(* The work of a detached job is committed on its own, perhaps by a worker *)
(* that has lost the job since.                                            *)
Work(j) ==
    /\ j \in Detached
    /\ phase[j] # "absent"
    /\ effects' = Counted(j)
    /\ UNCHANGED <<phase, expiring>>

(* Any other job's work and its outcome are one; a detached job is done    *)
(* only after its work was.                                                *)
Performed(j) ==
    IF j \in Detached THEN effects[j] > 0 /\ UNCHANGED effects
                      ELSE effects' = Counted(j)

Finish(j) == Turn(j, "underway", "done") /\ Performed(j) /\ UNCHANGED expiring

Repeat(j) ==
    /\ j \in Pollers
    /\ Turn(j, "underway", "waiting")
    /\ Performed(j)
    /\ UNCHANGED expiring

Refuse(j) == Turn(j, "underway", "refused") /\ UNCHANGED <<effects, expiring>>

PutBack(j) == Turn(j, "underway", "waiting") /\ UNCHANGED <<effects, expiring>>

GiveUp(j) == Turn(j, "underway", "dead") /\ UNCHANGED <<effects, expiring>>

Cancel(j) ==
    /\ \E from \in {"waiting", "underway"} : Turn(j, from, "cancelled")
    /\ UNCHANGED <<effects, expiring>>

(* Dead letters return, one by the operator or several by the scheduler.   *)
Resume(js) ==
    /\ \A j \in js : phase[j] = "dead"
    /\ phase' = [j \in Jobs |-> IF j \in js THEN "waiting" ELSE phase[j]]
    /\ UNCHANGED <<effects, expiring>>

(* Only ended jobs are chosen to be forgotten.  What becomes of a choice   *)
(* that returns before it is forgotten is not promised: it is forgotten.   *)
Expire(js) ==
    /\ \A j \in js : phase[j] \in Ended
    /\ expiring' = expiring \cup js
    /\ UNCHANGED <<phase, effects>>

(* A job may have been chosen more than once.                              *)
Forget(js) ==
    /\ js \subseteq expiring
    /\ phase' = [j \in Jobs |-> IF j \in js THEN "gone" ELSE phase[j]]
    /\ expiring \ js \subseteq expiring' /\ expiring' \subseteq expiring
    /\ UNCHANGED effects

JobStep(j) ==
    \/ Submit(j)
    \/ Take(j)
    \/ Work(j)
    \/ Finish(j)
    \/ Repeat(j)
    \/ Refuse(j)
    \/ PutBack(j)
    \/ GiveUp(j)
    \/ Cancel(j)

Next ==
    \/ \E j \in Jobs : JobStep(j)
    \/ \E js \in SUBSET Jobs : Resume(js) \/ Expire(js) \/ Forget(js)

Spec == Init /\ [][Next]_vars
=============================================================================
