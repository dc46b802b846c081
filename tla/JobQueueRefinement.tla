------------------------- MODULE JobQueueRefinement -------------------------
(***************************************************************************)
(* JobQueue implements JobLifecycle, for every value of the constants.     *)
(***************************************************************************)
EXTENDS JobQueueProofs

Phase == [j \in Jobs |-> PhaseOf(job[j].state)]

(* The rows of the table have a phase of their own each.                   *)
LEMMA Phases ==
    /\ PhaseOf("ABSENT") = "absent"
    /\ PhaseOf("PENDING") = "waiting"
    /\ PhaseOf("RUNNING") = "underway"
    /\ PhaseOf("SUCCEEDED") = "done"
    /\ PhaseOf("FAILED") = "refused"
    /\ PhaseOf("CANCELLED") = "cancelled"
    /\ PhaseOf("DEAD_LETTER") = "dead"
    /\ PhaseOf("GONE") = "gone"
  BY DEF PhaseOf

(* Writing one row turns one phase.                                        *)
LEMMA RowTurns ==
    ASSUME TypeInv, NEW k \in Jobs, NEW row, SetRow(k, row)
    PROVE  Phase' = [Phase EXCEPT ![k] = PhaseOf(row.state)]
<1>1. job' = [job EXCEPT ![k] = row] /\ job \in [Jobs -> JobRow]
  BY DEF SetRow, TypeInv, TypeOK
<1>2. \A j \in Jobs : job'[j] = IF j = k THEN row ELSE job[j]
  BY <1>1
<1>3. Phase' = [j \in Jobs |-> PhaseOf(job'[j].state)]
  BY DEF Phase
<1>4. \A j \in Jobs : PhaseOf(job'[j].state) = [Phase EXCEPT ![k] = PhaseOf(row.state)][j]
  BY <1>2 DEF Phase
<1> QED
  BY <1>3, <1>4 DEF Phase

LEMMA RowStays ==
    ASSUME TypeInv, NEW k \in Jobs, NEW row, SetRow(k, row), row.state = job[k].state
    PROVE  Phase' = Phase
<1>1. Phase' = [Phase EXCEPT ![k] = PhaseOf(job[k].state)]
  BY RowTurns
<1> QED
  BY <1>1 DEF Phase

(* What the schedulers together have chosen to purge.                      *)
Expiring == UNION {doomed[c] : c \in Schedulers}

(* A scheduler has chosen rows only between its choice and its delete.     *)
ChosenInv == \A c \in Schedulers : sweep[c] # "delete" => doomed[c] = {}

LEMMA ChosenNext == TypeInv /\ ChosenInv /\ [Next]_vars => ChosenInv'
<1> SUFFICES ASSUME TypeInv, ChosenInv, [Next]_vars PROVE ChosenInv'
  OBVIOUS
<1>0. sweep \in [Schedulers -> {"rest", "purge", "delete"}]
      /\ doomed \in [Schedulers -> SUBSET Jobs]
  BY DEF TypeInv, TypeOK
<1>1. ASSUME NEW c \in Schedulers, SchedulerStep(c) PROVE ChosenInv'
  BY <1>0, <1>1 DEF SchedulerStep, ReviveDeadDuties, ReviveFails, PurgeSelect, PurgeDelete,
                    ChosenInv
<1>2. ASSUME UNCHANGED <<sweep, doomed>> PROVE ChosenInv'
  BY <1>2 DEF ChosenInv
<1> QED
  BY <1>1, <1>2 DEF Next, vars, JobStep, Enqueue, Cancel, Requeue, Tick, SlotStep, Claim,
     CrashedOut, CheckLease, Extend, ExtendFails, Execute, Heartbeat, Settle, Effect, SettleDetached, LeaseLost,
     RunFails, Fail, FailUnrecorded, Crash

LEMMA ChosenInvariant == Spec => []ChosenInv
<1>1. Init => ChosenInv
  BY DEF Init, ChosenInv
<1> QED
  BY <1>1, ChosenNext, TypeInvariant, PTL DEF Spec

Stutters == Phase' = Phase /\ effects' = effects /\ doomed' = doomed

LEMMA LifecycleInit == Init => Lifecycle!Init
  BY Phases DEF Init, Lifecycle!Init, NoRow

LEMMA SetStep ==
    ASSUME NEW js \in SUBSET Jobs,
           Lifecycle!Resume(js) \/ Lifecycle!Expire(js) \/ Lifecycle!Forget(js)
    PROVE  Lifecycle!Next
  BY DEF Lifecycle!Next

LEMMA LifecycleStep ==
    ASSUME TypeInv, FenceInv, WorkedInv, ChosenInv, [Next]_vars
    PROVE  Lifecycle!Next \/ Stutters
<1>0. /\ job \in [Jobs -> JobRow] /\ slot \in [Slots -> Slot] /\ Placed
      /\ effects \in [Jobs -> 0..2]
  BY DEF TypeInv, TypeOK
<1>b. doomed \in [Schedulers -> SUBSET Jobs]
  BY DEF TypeInv, TypeOK
<1>a. \A j \in Jobs : Phase[j] = PhaseOf(job[j].state)
  BY DEF Phase
<1> USE DEF Lifecycle!Next, Lifecycle!JobStep, Lifecycle!Turn
<1>1. ASSUME NEW j \in Jobs, NEW d \in Waits, Enqueue(j, clock + d)
      PROVE  Lifecycle!Next \/ Stutters
  <2>1. CASE SetRow(j, [NoRow EXCEPT !.state = "PENDING", !.runAt = clock + d])
    <3>1. Phase' = [Phase EXCEPT ![j] = "waiting"] /\ Phase[j] = "absent"
      <4> DEFINE row == [NoRow EXCEPT !.state = "PENDING", !.runAt = clock + d]
      <4>1. row.state = "PENDING" /\ SetRow(j, row)
        BY <2>1 DEF NoRow
      <4> HIDE DEF row
      <4> QED
        BY <1>a, <1>1, <4>1, RowTurns, Phases DEF Enqueue
    <3>2. Lifecycle!Submit(j)
      BY <1>1, <3>1 DEF Enqueue, Phase, Lifecycle!Submit
    <3> QED
      BY <3>2
  <2>2. ASSUME NEW i \in Jobs, SetRow(i, [job[i] EXCEPT !.runAt = clock + d]) PROVE Stutters
    <3>1. [job[i] EXCEPT !.runAt = clock + d].state = job[i].state
      BY <1>0 DEF JobRow
    <3>2. Phase' = Phase
      BY <2>2, <3>1, RowStays
    <3> QED
      BY <1>1, <3>2 DEF Enqueue, Stutters
  <2> QED
    BY <1>1, <2>1, <2>2 DEF Enqueue
<1>2. ASSUME NEW j \in Jobs, Cancel(j) PROVE Lifecycle!Next
  <2>1. CancelledRow(job[j]).state = "CANCELLED"
    BY <1>0 DEF CancelledRow, JobRow
  <2>2. Phase' = [Phase EXCEPT ![j] = "cancelled"] /\ Phase[j] \in {"waiting", "underway"}
    BY <1>a, <1>2, <2>1, RowTurns, Phases DEF Cancel, Open, OpenStates
  <2> QED
    BY <1>2, <2>2 DEF Cancel, Phase, Lifecycle!Cancel
<1>3. ASSUME NEW j \in Jobs, Requeue(j) PROVE Lifecycle!Next
  <2> DEFINE row == [job[j] EXCEPT !.state = "PENDING", !.runAt = clock, !.attempts = 0,
                                   !.finishedAt = NoTime, !.lease = NoTime]
  <2>1. row.state = "PENDING" /\ SetRow(j, row)
    BY <1>0, <1>3 DEF Requeue, JobRow
  <2>2. Phase' = [Phase EXCEPT ![j] = "waiting"] /\ Phase[j] = "dead"
    <3> HIDE DEF row
    <3> QED
      BY <1>a, <1>3, <2>1, RowTurns, Phases DEF Requeue
  <2>3. Phase' = [i \in Jobs |-> IF i \in {j} THEN "waiting" ELSE Phase[i]]
    BY <2>2 DEF Phase
  <2>4. Expiring' = Expiring /\ effects' = effects
    BY <1>3 DEF Requeue, Expiring
  <2>5. Lifecycle!Resume({j})
    BY <2>2, <2>3, <2>4 DEF Phase, Expiring, Lifecycle!Resume
  <2> HIDE DEF Lifecycle!Next
  <2> QED
    BY <2>5, SetStep
<1>4. ASSUME NEW s \in Slots, NEW j \in Jobs, Claim(s, j) PROVE Lifecycle!Next \/ Stutters
  <2>1. job'[j].state = "RUNNING" /\ \A i \in Jobs \ {j} : job'[i] = job[i]
    BY <1>4, ClaimWrites
  <2>2. CASE job[j].state = "PENDING"
    <3>1. Phase' = [Phase EXCEPT ![j] = "underway"] /\ Phase[j] = "waiting"
      BY <1>a, <2>1, <2>2, Phases DEF Phase
    <3> QED
      BY <1>4, <3>1 DEF Claim, Phase, Lifecycle!Take
  <2>3. CASE job[j].state = "RUNNING"
    <3>1. Phase' = Phase
      BY <2>1, <2>3 DEF Phase
    <3> QED
      BY <1>4, <3>1 DEF Claim, Stutters
  <2> QED
    BY <1>4, <2>2, <2>3 DEF Claim, Due
<1>5. ASSUME NEW s \in Slots, \/ CheckLease(s) \/ Extend(s) \/ ExtendFails(s)
                              \/ Execute(s) \/ Heartbeat(s)
      PROVE  Stutters
  <2>1. slot[s].job \in Jobs /\ effects' = effects /\ doomed' = doomed
    BY <1>0, <1>5 DEF CheckLease, Extend, ExtendFails, Execute, Startable, Heartbeat, Placed
  <2>2. UNCHANGED job \/ \E at : SetRow(slot[s].job, ExtendedRow(slot[s].job, at))
    BY <1>5 DEF CheckLease, Extend, ExtendFails, Execute, Heartbeat
  <2>3. \A at : ExtendedRow(slot[s].job, at).state = job[slot[s].job].state
    BY <1>0, <2>1 DEF ExtendedRow, JobRow
  <2>4. Phase' = Phase
    BY <2>1, <2>2, <2>3, RowStays DEF Phase
  <2> QED
    BY <2>1, <2>4 DEF Stutters
<1>6. ASSUME NEW s \in Slots,
             CrashedOut(s) \/ LeaseLost(s) \/ RunFails(s) \/ FailUnrecorded(s) \/ Crash(s)
      PROVE  Stutters
  BY <1>6 DEF CrashedOut, LeaseLost, RunFails, FailUnrecorded, Crash, Stutters, Phase
(* The outcomes of a pass, with the effect that goes with each.            *)
<1>7. ASSUME NEW s \in Slots, Settle(s) \/ SettleDetached(s) PROVE Lifecycle!Next
  <2> DEFINE k == slot[s].job
  <2>1. /\ k \in Jobs /\ Phase[k] = "underway" /\ doomed' = doomed
    BY <1>0, <1>a, <1>7, Phases DEF Settle, SettleDetached, Placed, Fenced
  <2>2. PICK row \in Outcomes(k) :
          /\ SetRow(k, row)
          /\ \/ /\ k \notin Detached
                /\ effects' = IF row.state = "FAILED" THEN effects ELSE Counted(k)
             \/ k \in Detached /\ effects' = effects /\ effects[k] >= 1
    BY <1>7 DEF Settle, SettleDetached, WorkedInv
  <2>3. /\ row.state \in {"SUCCEEDED", "FAILED", "PENDING"}
        /\ row.state = "PENDING" => k \in Pollers
    BY <2>1, OutcomeStates
  <2>4. Phase' = [Phase EXCEPT ![k] = PhaseOf(row.state)]
    BY <2>1, <2>2, RowTurns
  <2>5. effects[k] >= 1 => effects[k] > 0
    BY <1>0, <2>1
  <2>6. Counted(k) = [effects EXCEPT ![k] = IF effects[k] = 2 THEN 2 ELSE effects[k] + 1]
    BY DEF Counted
  <2>7. row.state # "FAILED" => Lifecycle!Performed(k)
    <3>1. CASE k \in Detached
      BY <2>2, <2>5, <3>1 DEF Lifecycle!Performed
    <3>2. CASE k \notin Detached
      BY <2>2, <2>6, <3>2 DEF Lifecycle!Performed, Lifecycle!Counted
    <3> QED
      BY <3>1, <3>2
  <2>e. Expiring' = Expiring
    BY <2>1 DEF Expiring
  <2>8. CASE row.state = "SUCCEEDED"
    <3>0. Phase' = [Phase EXCEPT ![k] = "done"] /\ Lifecycle!Performed(k)
      BY <2>4, <2>8, <2>7, Phases
    <3>1. Lifecycle!Finish(k)
      BY <2>1, <2>e, <3>0 DEF Phase, Expiring, Lifecycle!Finish
    <3> QED
      BY <2>1, <3>1
  <2>9. CASE row.state = "FAILED"
    <3>0. Phase' = [Phase EXCEPT ![k] = "refused"] /\ effects' = effects
      BY <2>2, <2>4, <2>9, Phases
    <3>1. Lifecycle!Refuse(k)
      BY <2>1, <2>e, <3>0 DEF Phase, Expiring, Lifecycle!Refuse
    <3> QED
      BY <2>1, <3>1
  <2>10. CASE row.state = "PENDING"
    <3>0. Phase' = [Phase EXCEPT ![k] = "waiting"] /\ Lifecycle!Performed(k) /\ k \in Pollers
      BY <2>3, <2>4, <2>10, <2>7, Phases
    <3>1. Lifecycle!Repeat(k)
      BY <2>1, <2>e, <3>0 DEF Phase, Expiring, Lifecycle!Repeat
    <3> QED
      BY <2>1, <3>1
  <2> QED
    BY <2>3, <2>8, <2>9, <2>10
<1>8. ASSUME NEW s \in Slots, Effect(s) PROVE Lifecycle!Next
  <2> DEFINE k == slot[s].job
  <2>1. k \in Jobs /\ k \in Detached /\ job' = job /\ doomed' = doomed /\ effects' = Counted(k)
    BY <1>0, <1>8 DEF Effect, Placed
  <2>2. job[k].state # "ABSENT" /\ job[k] \in JobRow
    BY <1>0, <1>8, <2>1 DEF Effect, FenceInv, Behind
  <2>3. PhaseOf(job[k].state) # "absent"
    BY <2>2, Phases DEF JobRow, JobStates, OpenStates, Finished
  <2>4. Lifecycle!Work(k)
    BY <2>1, <2>3 DEF Phase, Counted, Lifecycle!Work, Lifecycle!Counted
  <2> QED
    BY <2>1, <2>4
<1>9. ASSUME NEW s \in Slots, Fail(s) PROVE Lifecycle!Next
  <2> DEFINE k == slot[s].job
  <2>1. k \in Jobs /\ Phase[k] = "underway" /\ doomed' = doomed /\ effects' = effects
    BY <1>0, <1>a, <1>9, Phases DEF Fail, Placed, Fenced
  <2>2. PICK row \in FailureRows(s) : SetRow(k, row)
    BY <1>9 DEF Fail
  <2>3. row.state \in {"DEAD_LETTER", "PENDING"}
    BY <2>1, FailureStates
  <2>4. Phase' = [Phase EXCEPT ![k] = PhaseOf(row.state)]
    BY <2>1, <2>2, RowTurns
  <2>5. Lifecycle!GiveUp(k) \/ Lifecycle!PutBack(k)
    <3>1. PhaseOf(row.state) \in {"dead", "waiting"}
      BY <2>3, Phases
    <3>2. Expiring' = Expiring
      BY <2>1 DEF Expiring
    <3>3. CASE PhaseOf(row.state) = "dead"
      BY <2>1, <2>4, <3>2, <3>3 DEF Phase, Expiring, Lifecycle!GiveUp
    <3>4. CASE PhaseOf(row.state) = "waiting"
      BY <2>1, <2>4, <3>2, <3>4 DEF Phase, Expiring, Lifecycle!PutBack
    <3> QED
      BY <3>1, <3>3, <3>4
  <2> QED
    BY <2>1, <2>5
<1>10. ASSUME NEW c \in Schedulers, ReviveDeadDuties(c) PROVE Lifecycle!Next
  <2>0. PICK js \in SUBSET Jobs : js = {j \in Jobs : Revivable(j)}
    OBVIOUS
  <2>1. \A j \in Jobs : job'[j] = IF Revivable(j) THEN RevivedRow(job[j]) ELSE job[j]
    BY <1>10 DEF ReviveDeadDuties
  <2>2. \A j \in Jobs : RevivedRow(job[j]).state = "PENDING"
    BY <1>0 DEF RevivedRow, JobRow
  <2>3. \A j \in js : Phase[j] = "dead"
    BY <1>a, <2>0, Phases DEF Revivable
  <2>4. Phase' = [j \in Jobs |-> IF j \in js THEN "waiting" ELSE Phase[j]]
    BY <2>0, <2>1, <2>2, Phases DEF Phase
  <2>5. Expiring' = Expiring /\ effects' = effects
    BY <1>10 DEF ReviveDeadDuties, Expiring
  <2>6. Lifecycle!Resume(js)
    BY <2>3, <2>4, <2>5 DEF Phase, Expiring, Lifecycle!Resume
  <2> HIDE DEF Lifecycle!Next
  <2> QED
    BY <2>6, SetStep
<1>11. ASSUME NEW c \in Schedulers, PurgeSelect(c) PROVE Lifecycle!Next
  <2>0. PICK js \in SUBSET Jobs : js = {j \in Jobs : Purgeable(j)}
    OBVIOUS
  <2>1. doomed' = [doomed EXCEPT ![c] = js] /\ doomed[c] = {} /\ job' = job
    BY <1>11, <2>0 DEF PurgeSelect, ChosenInv
  <2>2. \A j \in js : Phase[j] \in {"done", "refused", "cancelled", "dead"}
    BY <1>a, <2>0, Phases DEF Purgeable, Finished
  <2>3. js \in SUBSET Jobs /\ effects' = effects
    BY <1>11 DEF PurgeSelect
  <2>4. Expiring' = Expiring \cup js
    BY <1>b, <2>1 DEF Expiring
  <2>5. Lifecycle!Expire(js)
    BY <2>1, <2>2, <2>3, <2>4 DEF Phase, Expiring, Lifecycle!Expire, Lifecycle!Ended
  <2> HIDE DEF Lifecycle!Next
  <2> QED
    BY <2>3, <2>5, SetStep
<1>12. ASSUME NEW c \in Schedulers, PurgeDelete(c) PROVE Lifecycle!Next
  <2>0. PICK js \in SUBSET Jobs : js = doomed[c]
    BY <1>b
  <2>1. \A j \in Jobs :
           job'[j] = IF j \in js THEN [NoRow EXCEPT !.state = "GONE"] ELSE job[j]
    BY <1>12, <2>0 DEF PurgeDelete
  <2>2. [NoRow EXCEPT !.state = "GONE"].state = "GONE"
    BY DEF NoRow
  <2>3. Phase' = [j \in Jobs |-> IF j \in js THEN "gone" ELSE Phase[j]]
    BY <2>1, <2>2, Phases DEF Phase
  <2>4. doomed' = [doomed EXCEPT ![c] = {}] /\ effects' = effects
    BY <1>12 DEF PurgeDelete
  <2>5. /\ js \subseteq Expiring
        /\ Expiring \ js \subseteq Expiring' /\ Expiring' \subseteq Expiring
    BY <1>b, <2>0, <2>4 DEF Expiring
  <2>6. Lifecycle!Forget(js)
    BY <2>3, <2>4, <2>5 DEF Phase, Expiring, Lifecycle!Forget
  <2> HIDE DEF Lifecycle!Next
  <2> QED
    BY <2>6, SetStep
<1>13. ASSUME NEW c \in Schedulers, ReviveFails(c) PROVE Stutters
  BY <1>13 DEF ReviveFails, Stutters, Phase
<1>14. ASSUME Tick \/ UNCHANGED vars PROVE Stutters
  BY <1>14 DEF Tick, vars, Stutters, Phase
<1> QED
  BY <1>1, <1>2, <1>3, <1>4, <1>5, <1>6, <1>7, <1>8, <1>9, <1>10, <1>11, <1>12, <1>13,
     <1>14
     DEF Next, JobStep, SlotStep, SchedulerStep

(* The queue, with its leases, takeovers, crashes and lost answers, is a   *)
(* job lifecycle to its producers and its operator (queue.Queue, Runner).  *)
THEOREM QueueIsLifecycle == Spec => IsLifecycle
<1>1. TypeInv /\ FenceInv /\ WorkedInv /\ ChosenInv /\ [Next]_vars => [Lifecycle!Next]_(Lifecycle!vars)
  BY LifecycleStep DEF Stutters, Phase, Lifecycle!vars
<1> QED
  BY <1>1, LifecycleInit, TypeInvariant, FenceInvariant, WorkedInvariant,
     ChosenInvariant, PTL
     DEF Spec, IsLifecycle, Lifecycle!Spec
=============================================================================
