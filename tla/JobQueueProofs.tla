--------------------------- MODULE JobQueueProofs ---------------------------
(***************************************************************************)
(* Proofs about JobQueue, for every set of jobs and slots, every lease,    *)
(* timeout, retry budget and clock bound.                                  *)
(***************************************************************************)
EXTENDS JobQueue, TLAPS

(* Every row a statement writes is a row of the table.                     *)
LEMMA RowTypes ==
    ASSUME NEW row \in JobRow, NEW at \in Nat, clock \in Nat
    PROVE  /\ CompletedRow(row) \in JobRow
           /\ RefusedRow(row) \in JobRow
           /\ RepeatedRow(row, at) \in JobRow
           /\ RetriedRow(row, at) \in JobRow
           /\ DeadLetterRow(row) \in JobRow
           /\ CancelledRow(row) \in JobRow
           /\ RevivedRow(row) \in JobRow
<1> USE DEF JobRow, JobStates, OpenStates, Finished, NoTime
<1>1. CompletedRow(row) \in JobRow
  BY DEF CompletedRow
<1>2. RefusedRow(row) \in JobRow
  BY DEF RefusedRow
<1>3. RepeatedRow(row, at) \in JobRow
  BY DEF RepeatedRow
<1>4. RetriedRow(row, at) \in JobRow
  BY DEF RetriedRow
<1>5. DeadLetterRow(row) \in JobRow
  BY DEF DeadLetterRow
<1>6. CancelledRow(row) \in JobRow
  BY DEF CancelledRow
<1>7. RevivedRow(row) \in JobRow
  <2>1. row.revivals + 1 \in Nat
    OBVIOUS
  <2>2. \A n \in Nat : [row EXCEPT !.state = "PENDING", !.runAt = clock,
                                   !.attempts = 0, !.revivals = n,
                                   !.finishedAt = NoTime, !.lease = NoTime] \in JobRow
    OBVIOUS
  <2> QED
    BY <2>1, <2>2 DEF RevivedRow
<1> QED
  BY <1>1, <1>2, <1>3, <1>4, <1>5, <1>6, <1>7

(* The slot records a step may write are slot records.                     *)
LEMMA SlotTypes ==
    ASSUME NEW r \in Slot, NEW l \in Nat, NEW n \in Nat, NEW j \in Jobs,
           NEW b \in BOOLEAN
    PROVE  /\ IdleSlot \in Slot
           /\ [r EXCEPT !.lease = l] \in Slot
           /\ [r EXCEPT !.gone = TRUE] \in Slot
           /\ [r EXCEPT !.pc = "recording"] \in Slot
           /\ [r EXCEPT !.pc = "running", !.read = NoTime, !.until = n,
                        !.late = b] \in Slot
           /\ [r EXCEPT !.pc = "failing", !.read = NoTime,
                        !.cause = "missing"] \in Slot
           /\ \A pc \in {"leased", "extending"} :
                 [r EXCEPT !.pc = pc, !.read = n] \in Slot
           /\ [r EXCEPT !.pc = "leased", !.lease = l] \in Slot
           /\ \A c \in {"none", "transient", "permanent"} :
                 [r EXCEPT !.pc = "failing", !.cause = c] \in Slot
           /\ [IdleSlot EXCEPT !.pc = "claimed", !.job = j, !.lease = l,
                               !.attempts = n, !.reclaimed = b] \in Slot
  BY DEF Slot, IdleSlot, NoTime, NoJob

(* An outcome or a failure written for a job of the table is a row.        *)
LEMMA OutcomeTypes ==
    ASSUME TypeOK, NEW j \in Jobs
    PROVE  Outcomes(j) \subseteq JobRow
<1>1. job[j] \in JobRow /\ clock \in Nat
  BY DEF TypeOK
<1>2. \A d \in Waits : clock + d \in Nat
  BY <1>1, ConstantsAssumption
<1>3. \A d \in Waits : RepeatedRow(job[j], clock + d) \in JobRow
  BY <1>1, <1>2, RowTypes
<1>4. CompletedRow(job[j]) \in JobRow /\ RefusedRow(job[j]) \in JobRow
  BY <1>1, RowTypes
<1> QED
  BY <1>3, <1>4 DEF Outcomes

LEMMA FailureTypes ==
    ASSUME TypeOK, NEW s \in Slots, slot[s].job \in Jobs
    PROVE  FailureRows(s) \subseteq JobRow
<1> DEFINE j == slot[s].job
<1>1. job[j] \in JobRow /\ clock \in Nat
  BY DEF TypeOK
<1>2. \A d \in Waits : clock + d \in Nat
  BY <1>1, ConstantsAssumption
<1>3. \A d \in Waits : /\ RepeatedRow(job[j], clock + d) \in JobRow
                       /\ RetriedRow(job[j], clock + d) \in JobRow
  BY <1>1, <1>2, RowTypes
<1>4. DeadLetterRow(job[j]) \in JobRow
  BY <1>1, RowTypes
<1> QED
  BY <1>3, <1>4 DEF FailureRows

-----------------------------------------------------------------------------
(* Type correctness.  A slot that is not idle names a job of the table; a  *)
(* step on a slot needs that to write the row the slot names.  A reading   *)
(* of the clock is in the past, and a lease is extended beyond where it    *)
(* was.                                                                    *)

Placed == \A s \in Slots : slot[s].pc # "idle" => slot[s].job \in Jobs

Reading(s) ==
    /\ slot[s].pc \in {"extending", "leased"} => slot[s].read <= clock
    /\ slot[s].pc = "extending" => slot[s].lease < slot[s].read + Lease

Readings == \A s \in Slots : Reading(s)

TypeInv == TypeOK /\ Placed /\ Readings

LEMMA TypeInit == Init => TypeInv
<1> SUFFICES ASSUME Init PROVE TypeInv
  OBVIOUS
<1>1. NoRow \in JobRow
  BY DEF NoRow, JobRow, JobStates, OpenStates, Finished, NoTime
<1>2. IdleSlot \in Slot /\ IdleSlot.pc = "idle"
  BY DEF IdleSlot, Slot, NoTime, NoJob
<1> QED
  BY <1>1, <1>2 DEF Init, TypeInv, TypeOK, Placed, Readings, Reading

(* A step that writes one row of the table and one slot keeps the types.   *)
LEMMA SetRowType ==
    ASSUME TypeOK, NEW j, NEW row \in JobRow, SetRow(j, row)
    PROVE  job' \in [Jobs -> JobRow]
  BY DEF TypeOK, SetRow

LEMMA SetSlotType ==
    ASSUME TypeInv, NEW s \in Slots, NEW with \in Slot, SetSlot(s, with),
           with.pc # "idle" => with.job \in Jobs
    PROVE  slot' \in [Slots -> Slot] /\ Placed'
  BY DEF TypeInv, TypeOK, SetSlot, Placed

LEMMA LetGoType ==
    ASSUME TypeInv, NEW s \in Slots, LetGo(s)
    PROVE  slot' \in [Slots -> Slot] /\ Placed'
<1>1. IdleSlot \in Slot /\ IdleSlot.pc = "idle"
  BY DEF IdleSlot, Slot, NoTime, NoJob
<1> QED
  BY <1>1, SetSlotType DEF LetGo

LEMMA FailingType ==
    ASSUME TypeInv, NEW s \in Slots, slot[s].pc # "idle",
           NEW c \in {"none", "transient", "permanent"}, Failing(s, c)
    PROVE  slot' \in [Slots -> Slot] /\ Placed'
<1> DEFINE with == [slot[s] EXCEPT !.pc = "failing", !.cause = c]
<1>1. slot[s] \in Slot /\ slot[s].job \in Jobs
  BY DEF TypeInv, TypeOK, Placed
<1>2. with \in Slot /\ with.job = slot[s].job
  BY <1>1 DEF Slot
<1>3. SetSlot(s, with)
  BY DEF Failing
<1> HIDE DEF with
<1> QED
  BY <1>1, <1>2, <1>3, SetSlotType

LEMMA CountedType ==
    ASSUME TypeOK, NEW j \in Jobs
    PROVE  Counted(j) \in [Jobs -> 0..2]
<1>1. effects \in [Jobs -> 0..2] /\ effects[j] \in 0..2
  BY DEF TypeOK
<1>2. (IF effects[j] = 2 THEN 2 ELSE effects[j] + 1) \in 0..2
  BY <1>1
<1> QED
  BY <1>1, <1>2 DEF Counted

LEMMA ExtendedType ==
    ASSUME TypeOK, NEW j \in Jobs, NEW at \in Nat
    PROVE  ExtendedRow(j, at) \in JobRow /\ at + Lease \in Nat
<1>1. job[j] \in JobRow
  BY DEF TypeOK
<1>2. at + Lease \in Nat
  BY ConstantsAssumption
<1> QED
  BY <1>1, <1>2 DEF ExtendedRow, JobRow

LEMMA RequeuedType ==
    ASSUME TypeOK, NEW j \in Jobs
    PROVE  [job[j] EXCEPT !.state = "PENDING", !.runAt = clock, !.attempts = 0,
                          !.finishedAt = NoTime, !.lease = NoTime] \in JobRow
<1>1. job[j] \in JobRow /\ clock \in Nat
  BY DEF TypeOK
<1> QED
  BY <1>1 DEF JobRow, JobStates, OpenStates, NoTime

(* Runner.leased and the first steps of Runner.execute.                    *)
LEMMA StartTypes ==
    ASSUME TypeInv, NEW s \in Slots, CheckLease(s) \/ Extend(s) \/ Execute(s)
    PROVE  slot' \in [Slots -> Slot] /\ Placed'
<1>1. slot[s] \in Slot /\ slot[s].job \in Jobs /\ clock \in Nat
  BY DEF TypeInv, TypeOK, Placed, CheckLease, Startable, Extend, Execute
<1>2. clock + Budget(slot[s].job) \in Nat /\ slot[s].read + Lease \in Nat
  BY <1>1, ConstantsAssumption DEF Budget, Slot
<1> DEFINE check(pc) == [slot[s] EXCEPT !.pc = pc, !.read = clock]
           moved == [slot[s] EXCEPT !.pc = "leased", !.lease = slot[s].read + Lease]
           run == [slot[s] EXCEPT !.pc = "running", !.read = NoTime,
                                  !.until = clock + Budget(slot[s].job),
                                  !.late = slot[s].read < clock]
           miss == [slot[s] EXCEPT !.pc = "failing", !.read = NoTime,
                                   !.cause = "missing"]
<1>3. run \in Slot /\ run.job = slot[s].job
  <2>1. ASSUME NEW n \in Nat, NEW b \in BOOLEAN
        PROVE  LET r == [slot[s] EXCEPT !.pc = "running", !.read = NoTime,
                                        !.until = n, !.late = b]
               IN  r \in Slot /\ r.job = slot[s].job
    BY <1>1, <2>1 DEF Slot, NoTime
  <2>2. (slot[s].read < clock) \in BOOLEAN
    OBVIOUS
  <2> QED
    BY <1>2, <2>1, <2>2
<1>4. miss \in Slot /\ miss.job = slot[s].job
  BY <1>1 DEF Slot, NoTime
<1>5. moved \in Slot /\ moved.job = slot[s].job
  BY <1>1, <1>2 DEF Slot
<1>6. \A pc \in {"leased", "extending"} : check(pc) \in Slot /\ check(pc).job = slot[s].job
  BY <1>1 DEF Slot
<1>7. \/ SetSlot(s, run) \/ SetSlot(s, miss) \/ SetSlot(s, moved)
      \/ \E pc \in {"leased", "extending"} : SetSlot(s, check(pc))
  BY DEF CheckLease, Extend, Execute
<1> HIDE DEF run, miss, moved, check
<1> QED
  BY <1>1, <1>3, <1>4, <1>5, <1>6, <1>7, SetSlotType

LEMMA PlaceNext == TypeInv /\ [Next]_vars => (TypeOK /\ Placed)'
<1> SUFFICES ASSUME TypeInv, [Next]_vars PROVE (TypeOK /\ Placed)'
  OBVIOUS
<1> USE DEF TypeInv
<1>0. clock \in Nat /\ \A d \in Waits : clock + d \in Nat
  BY ConstantsAssumption DEF TypeOK
<1>1. ASSUME NEW j \in Jobs, NEW d \in Waits, Enqueue(j, clock + d) PROVE (TypeOK /\ Placed)'
  <2>1. job' \in [Jobs -> JobRow]
    <3>1. \A at \in Nat : [NoRow EXCEPT !.state = "PENDING", !.runAt = at] \in JobRow
      BY DEF NoRow, JobRow, JobStates, OpenStates, Finished, NoTime
    <3>2. \A at \in Nat, i \in Jobs : [job[i] EXCEPT !.runAt = at] \in JobRow
      BY DEF TypeOK, JobRow
    <3> QED
      BY <1>0, <1>1, <3>1, <3>2, SetRowType DEF Enqueue
  <2> QED
    BY <1>1, <2>1 DEF Enqueue, TypeOK, Placed
<1>2. ASSUME NEW j \in Jobs, Cancel(j) PROVE (TypeOK /\ Placed)'
  <2>1. job' \in [Jobs -> JobRow]
    <3>1. CancelledRow(job[j]) \in JobRow
      BY <1>0, RowTypes DEF TypeOK
    <3> QED
      BY <1>2, <3>1, SetRowType DEF Cancel
  <2> QED
    BY <1>2, <2>1 DEF Cancel, TypeOK, Placed
<1>3. ASSUME NEW j \in Jobs, Requeue(j) PROVE (TypeOK /\ Placed)'
  <2>1. job' \in [Jobs -> JobRow]
    BY <1>0, <1>3, RequeuedType, SetRowType DEF Requeue
  <2> QED
    BY <1>3, <2>1 DEF Requeue, TypeOK, Placed
<1>4. ASSUME NEW s \in Slots, NEW j \in Jobs, Claim(s, j) PROVE (TypeOK /\ Placed)'
  <2>1. /\ job[j] \in JobRow
        /\ clock + Lease \in Nat
        /\ job[j].attempts + 1 \in Nat
        /\ (job[j].state = "RUNNING") \in BOOLEAN
    BY <1>0, ConstantsAssumption DEF TypeOK, JobRow
  <2>2. job' \in [Jobs -> JobRow]
    BY <1>4, <2>1 DEF Claim, SetRow, TypeOK, JobRow, JobStates, OpenStates
  <2> DEFINE with == [IdleSlot EXCEPT !.pc = "claimed", !.job = j,
                                      !.lease = clock + Lease,
                                      !.attempts = job[j].attempts + 1,
                                      !.reclaimed = job[j].state = "RUNNING"]
  <2>3. with \in Slot /\ with.job = j
    BY <2>1 DEF IdleSlot, Slot, NoTime, NoJob
  <2>4. SetSlot(s, with)
    BY <1>4 DEF Claim
  <2>5. slot' \in [Slots -> Slot] /\ Placed'
    <3> HIDE DEF with
    <3> QED
      BY <2>3, <2>4, SetSlotType
  <2> QED
    BY <1>4, <2>2, <2>5 DEF Claim, TypeOK
<1>5. ASSUME NEW s \in Slots, CrashedOut(s) PROVE (TypeOK /\ Placed)'
  BY <1>5, FailingType DEF CrashedOut, TypeOK
<1>6. ASSUME NEW s \in Slots, CheckLease(s) \/ Extend(s) \/ Execute(s)
      PROVE  (TypeOK /\ Placed)'
  <2>1. slot[s].job \in Jobs /\ slot[s].read \in Nat
    BY <1>6 DEF CheckLease, Extend, Execute, Startable, TypeOK, Placed, Slot
  <2>2. job' \in [Jobs -> JobRow]
    BY <1>6, <2>1, ExtendedType, SetRowType DEF CheckLease, Extend, Execute, TypeOK
  <2>3. slot' \in [Slots -> Slot] /\ Placed'
    BY <1>6, StartTypes
  <2> QED
    BY <1>6, <2>2, <2>3 DEF CheckLease, Extend, Execute, TypeOK
<1>7. ASSUME NEW s \in Slots, ExtendFails(s) PROVE (TypeOK /\ Placed)'
  <2>1. slot[s].job \in Jobs /\ slot[s].read \in Nat
    BY <1>7 DEF ExtendFails, TypeOK, Placed, Slot
  <2>2. job' \in [Jobs -> JobRow]
    BY <1>7, <2>1, ExtendedType, SetRowType DEF ExtendFails, TypeOK
  <2> QED
    BY <1>7, <2>2, LetGoType DEF ExtendFails, TypeOK
<1>8. ASSUME NEW s \in Slots, Heartbeat(s) PROVE (TypeOK /\ Placed)'
  <2>1. slot[s].job \in Jobs /\ slot[s].pc = "running" /\ slot[s] \in Slot
    BY <1>8 DEF Heartbeat, Placed, TypeOK
  <2>2. ExtendedRow(slot[s].job, clock) \in JobRow /\ clock + Lease \in Nat
    BY <1>0, <2>1, ExtendedType
  <2>3. job' \in [Jobs -> JobRow]
    BY <1>8, <2>2, SetRowType DEF Heartbeat, TypeOK
  <2>4. slot' \in [Slots -> Slot] /\ Placed'
    <3> DEFINE beat == [slot[s] EXCEPT !.lease = clock + Lease]
               lost == [slot[s] EXCEPT !.gone = TRUE]
    <3>1. beat \in Slot /\ beat.job = slot[s].job
      BY <2>1, <2>2 DEF Slot
    <3>2. lost \in Slot /\ lost.job = slot[s].job
      BY <2>1 DEF Slot
    <3>3. SetSlot(s, beat) \/ SetSlot(s, lost) \/ UNCHANGED slot
      BY <1>8 DEF Heartbeat
    <3>4. ASSUME UNCHANGED slot PROVE slot' \in [Slots -> Slot] /\ Placed'
      BY <3>4 DEF TypeOK, Placed
    <3> HIDE DEF beat, lost
    <3> QED
      BY <2>1, <3>1, <3>2, <3>3, <3>4, SetSlotType
  <2> QED
    BY <1>8, <2>3, <2>4 DEF Heartbeat, TypeOK
<1>9. ASSUME NEW s \in Slots, Settle(s) PROVE (TypeOK /\ Placed)'
  <2>1. slot[s].job \in Jobs /\ slot[s].pc # "idle"
    BY <1>9 DEF Settle, Placed
  <2>2. job' \in [Jobs -> JobRow]
    BY <1>9, <2>1, OutcomeTypes, SetRowType DEF Settle
  <2>3. effects' \in [Jobs -> 0..2]
    BY <1>9, <2>1, CountedType DEF Settle, TypeOK
  <2>4. slot' \in [Slots -> Slot] /\ Placed'
    BY <1>9, <2>1, LetGoType, FailingType DEF Settle
  <2> QED
    BY <1>9, <2>2, <2>3, <2>4 DEF Settle, TypeOK
<1>10. ASSUME NEW s \in Slots, Effect(s) PROVE (TypeOK /\ Placed)'
  <2>1. slot[s].job \in Jobs /\ slot[s] \in Slot
    BY <1>10 DEF Effect, Placed, TypeOK
  <2>2. slot' \in [Slots -> Slot] /\ Placed'
    BY <1>10, <2>1 DEF Effect, SetSlot, TypeOK, Placed, Slot
  <2>3. effects' \in [Jobs -> 0..2]
    BY <1>10, <2>1, CountedType DEF Effect
  <2> QED
    BY <1>10, <2>2, <2>3 DEF Effect, TypeOK
<1>11. ASSUME NEW s \in Slots, SettleDetached(s) PROVE (TypeOK /\ Placed)'
  <2>1. slot[s].job \in Jobs /\ slot[s].pc # "idle"
    BY <1>11 DEF SettleDetached, Placed
  <2>2. job' \in [Jobs -> JobRow]
    BY <1>11, <2>1, OutcomeTypes, SetRowType DEF SettleDetached
  <2>3. slot' \in [Slots -> Slot] /\ Placed'
    BY <1>11, <2>1, LetGoType, FailingType DEF SettleDetached
  <2> QED
    BY <1>11, <2>2, <2>3 DEF SettleDetached, TypeOK
<1>12. ASSUME NEW s \in Slots, LeaseLost(s) PROVE (TypeOK /\ Placed)'
  BY <1>12, LetGoType DEF LeaseLost, TypeOK
<1>13. ASSUME NEW s \in Slots, RunFails(s) PROVE (TypeOK /\ Placed)'
  BY <1>13, LetGoType, FailingType DEF RunFails, TypeOK
<1>14. ASSUME NEW s \in Slots, Fail(s) PROVE (TypeOK /\ Placed)'
  <2>1. slot[s].job \in Jobs
    BY <1>14 DEF Fail, Placed
  <2>2. job' \in [Jobs -> JobRow]
    BY <1>14, <2>1, FailureTypes, SetRowType DEF Fail
  <2> QED
    BY <1>14, <2>2, LetGoType DEF Fail, TypeOK
<1>15. ASSUME NEW s \in Slots, FailUnrecorded(s) \/ Crash(s) PROVE (TypeOK /\ Placed)'
  BY <1>15, LetGoType DEF FailUnrecorded, Crash, TypeOK
<1>16. ASSUME NEW c \in Schedulers, ReviveDeadDuties(c) PROVE (TypeOK /\ Placed)'
  <2>1. \A j \in Jobs : RevivedRow(job[j]) \in JobRow
    BY <1>0, RowTypes DEF TypeOK
  <2> QED
    BY <1>16, <2>1 DEF ReviveDeadDuties, TypeOK, Placed
<1>17. ASSUME NEW c \in Schedulers, ReviveFails(c) \/ PurgeSelect(c) PROVE (TypeOK /\ Placed)'
  BY <1>17 DEF ReviveFails, PurgeSelect, TypeOK, Placed
<1>18. ASSUME NEW c \in Schedulers, PurgeDelete(c) PROVE (TypeOK /\ Placed)'
  <2>1. [NoRow EXCEPT !.state = "GONE"] \in JobRow
    BY DEF NoRow, JobRow, JobStates, OpenStates, Finished, NoTime
  <2> QED
    BY <1>18, <2>1 DEF PurgeDelete, TypeOK, Placed
<1>19. ASSUME Tick PROVE (TypeOK /\ Placed)'
  BY <1>19 DEF Tick, TypeOK, Placed
<1>20. ASSUME UNCHANGED vars PROVE (TypeOK /\ Placed)'
  BY <1>20 DEF vars, TypeOK, Placed
<1> QED
  BY <1>1, <1>2, <1>3, <1>4, <1>5, <1>6, <1>7, <1>8, <1>9, <1>10, <1>11, <1>12,
     <1>13, <1>14, <1>15, <1>16, <1>17, <1>18, <1>19, <1>20
     DEF Next, JobStep, SlotStep, SchedulerStep

(* Only Runner.leased reads the clock or moves to an extension.            *)
LEMMA ReadingsNext == TypeInv /\ [Next]_vars => Readings'
<1> SUFFICES ASSUME TypeInv, [Next]_vars, NEW t \in Slots PROVE Reading(t)'
  BY DEF Readings
<1>0. /\ slot \in [Slots -> Slot] /\ clock \in Nat /\ Reading(t)
      /\ Lease \in Nat /\ JobTimeout \in Nat /\ JobTimeout < Lease
      /\ \A s \in Slots : slot[s].read \in Nat /\ slot[s].lease \in Nat
  BY ConstantsAssumption DEF TypeInv, TypeOK, Readings, Slot
<1>1. ASSUME slot'[t] = slot[t], clock' \in {clock, clock + 1} PROVE Reading(t)'
  BY <1>0, <1>1 DEF Reading
<1>2. ASSUME slot' = slot PROVE Reading(t)'
  <2>1. clock' \in {clock, clock + 1}
    <3>1. CASE UNCHANGED vars
      BY <3>1 DEF vars
    <3>2. CASE Tick
      BY <3>2 DEF Tick
    <3>3. ASSUME NEW s \in Slots, SlotStep(s) PROVE clock' = clock
      BY <3>3 DEF SlotStep, Claim, CrashedOut, CheckLease, Extend, ExtendFails, Execute,
                  Heartbeat, Settle, Effect, SettleDetached, LeaseLost, RunFails, Fail,
                  FailUnrecorded, Crash
    <3>4. ASSUME NEW c \in Schedulers, SchedulerStep(c) PROVE clock' = clock
      BY <3>4 DEF SchedulerStep, ReviveDeadDuties, ReviveFails, PurgeSelect, PurgeDelete
    <3>5. ASSUME NEW j \in Jobs, JobStep(j) PROVE clock' = clock
      BY <3>5 DEF JobStep, Enqueue, Cancel, Requeue
    <3> QED
      BY <3>1, <3>2, <3>3, <3>4, <3>5 DEF Next
  <2> QED
    BY <1>1, <1>2, <2>1
<1>3. ASSUME NEW s \in Slots, SlotStep(s) PROVE Reading(t)'
  <2>0. clock' = clock
    BY <1>3 DEF SlotStep, Claim, CrashedOut, CheckLease, Extend, ExtendFails, Execute,
                Heartbeat, Settle, Effect, SettleDetached, LeaseLost, RunFails, Fail,
                FailUnrecorded, Crash
  <2>1. ASSUME NEW with, SetSlot(s, with), with.pc \notin {"extending", "leased"}
        PROVE  Reading(t)'
    <3>1. slot'[t] = slot[t] \/ slot'[t].pc \notin {"extending", "leased"}
      BY <1>0, <2>1 DEF SetSlot
    <3> QED
      BY <1>1, <2>0, <3>1 DEF Reading
  <2>2. LetGo(s) => Reading(t)'
    BY <2>1 DEF LetGo, IdleSlot
  <2>3. ASSUME NEW c, Failing(s, c) PROVE Reading(t)'
    <3>1. [slot[s] EXCEPT !.pc = "failing", !.cause = c].pc = "failing"
      BY <1>0 DEF Slot
    <3> QED
      BY <2>1, <2>3, <3>1 DEF Failing
  <2>4. ASSUME NEW j \in Jobs, Claim(s, j) PROVE Reading(t)'
    <3>1. \A l, n, b : [IdleSlot EXCEPT !.pc = "claimed", !.job = j, !.lease = l,
                             !.attempts = n, !.reclaimed = b].pc = "claimed"
      BY DEF IdleSlot
    <3> QED
      BY <2>1, <2>4, <3>1 DEF Claim
  <2>5. ASSUME CheckLease(s) PROVE Reading(t)'
    <3>1. CASE t # s
      BY <1>0, <1>1, <2>0, <2>5, <3>1 DEF CheckLease, SetSlot
    <3>2. CASE t = s
      <4>1. /\ slot'[s].read = clock /\ slot'[s].lease = slot[s].lease
            /\ slot'[s].pc = "extending" => ~LeaseCovers(s)
        BY <1>0, <2>5 DEF CheckLease, SetSlot, Slot
      <4> QED
        BY <1>0, <2>0, <3>2, <4>1 DEF Reading, LeaseCovers
    <3> QED
      BY <3>1, <3>2
  <2>6. ASSUME Extend(s) PROVE Reading(t)'
    <3>1. CASE t # s
      BY <1>0, <1>1, <2>0, <2>6, <3>1 DEF Extend, SetSlot
    <3>2. CASE t = s
      <4>1. /\ slot'[s].read = slot[s].read /\ slot'[s].pc = "leased"
            /\ slot[s].pc = "extending"
        BY <1>0, <2>6 DEF Extend, SetSlot, Slot
      <4> QED
        BY <1>0, <2>0, <3>2, <4>1 DEF Reading
    <3> QED
      BY <3>1, <3>2
  <2>7. ASSUME Execute(s) PROVE Reading(t)'
    <3>1. /\ \A n, b : [slot[s] EXCEPT !.pc = "running", !.read = NoTime, !.until = n,
                                       !.late = b].pc = "running"
          /\ [slot[s] EXCEPT !.pc = "failing", !.read = NoTime,
                             !.cause = "missing"].pc = "failing"
      BY <1>0 DEF Slot
    <3> QED
      BY <2>1, <2>7, <3>1 DEF Execute
  <2>8. ASSUME Heartbeat(s) PROVE Reading(t)'
    <3>1. /\ \A l : [slot[s] EXCEPT !.lease = l].pc = slot[s].pc
          /\ [slot[s] EXCEPT !.gone = TRUE].pc = slot[s].pc
      BY <1>0 DEF Slot
    <3> QED
      BY <1>2, <2>1, <2>8, <3>1 DEF Heartbeat
  <2>9. ASSUME Effect(s) PROVE Reading(t)'
    <3>1. [slot[s] EXCEPT !.pc = "recording"].pc = "recording"
      BY <1>0 DEF Slot
    <3> QED
      BY <2>1, <2>9, <3>1 DEF Effect
  <2> QED
    BY <1>3, <2>2, <2>3, <2>4, <2>5, <2>6, <2>7, <2>8, <2>9
       DEF SlotStep, CrashedOut, ExtendFails, Settle, SettleDetached, LeaseLost, RunFails,
           Fail, FailUnrecorded, Crash
<1>4. ASSUME ~\E s \in Slots : SlotStep(s) PROVE slot' = slot
  BY <1>4 DEF Next, JobStep, SchedulerStep, Enqueue, Cancel, Requeue, ReviveDeadDuties,
              ReviveFails, PurgeSelect, PurgeDelete, Tick, vars
<1> QED
  BY <1>2, <1>3, <1>4

LEMMA TypeNext == TypeInv /\ [Next]_vars => TypeInv'
  BY PlaceNext, ReadingsNext DEF TypeInv

LEMMA TypeInvariant == Spec => []TypeInv
  BY TypeInit, TypeNext, PTL DEF Spec

(* Every variable keeps its type whatever the statements, the runners and  *)
(* the scheduler write.                                                    *)
THEOREM TypeCorrect == Spec => []TypeOK
<1>1. TypeInv => TypeOK
  BY DEF TypeInv
<1> QED
  BY <1>1, TypeInvariant, PTL

-----------------------------------------------------------------------------
(* The fence.  FenceUnique alone is not inductive: a claim must write a    *)
(* lease no slot still carries.  The leases of slots that lost their job   *)
(* are older than the row's while it is RUNNING, and older than the next   *)
(* claim's while it may be claimed again.                                  *)

Behind(s) ==
    LET row == job[slot[s].job]
    IN /\ row.state # "ABSENT"
       /\ row.state = "RUNNING" => slot[s].lease <= row.lease
       /\ row.state \in {"PENDING", "DEAD_LETTER"} => slot[s].lease < clock + Lease

FenceInv ==
    /\ \A j \in Jobs : job[j].state = "RUNNING" => job[j].lease <= clock + Lease
    /\ \A s \in Slots : slot[s].pc # "idle" => Behind(s)
    /\ FenceUnique

(* A slot goes on carrying the job and the lease it had, or carries none.  *)
Carries(s) ==
    slot'[s].pc # "idle" =>
        /\ slot[s].pc # "idle"
        /\ slot'[s].job = slot[s].job
        /\ slot'[s].lease = slot[s].lease

(* Only slot s changed.                                                    *)
OthersKept(s) == \A t \in Slots \ {s} : slot'[t] = slot[t]

(* Steps that touch no row.                                                *)
LEMMA FenceQuiet ==
    ASSUME TypeInv, FenceInv, UNCHANGED <<clock, job>>,
           \A t \in Slots : Carries(t)
    PROVE  FenceInv'
  BY DEF FenceInv, FenceUnique, Holds, Fenced, Behind, Carries

(* Steps of a producer, an operator or the scheduler on rows they do not   *)
(* claim.                                                                  *)
LEMMA FenceRows ==
    ASSUME TypeInv, FenceInv, UNCHANGED <<clock, slot>>,
           \A j \in Jobs :
              \/ job'[j] = job[j]
              \/ /\ job'[j].state \notin {"RUNNING", "ABSENT"}
                 /\ job'[j].state \in {"PENDING", "DEAD_LETTER"} =>
                       job[j].state \in {"ABSENT", "PENDING", "DEAD_LETTER"}
    PROVE  FenceInv'
  BY DEF TypeInv, TypeOK, Placed, FenceInv, FenceUnique, Holds, Fenced, Behind

(* The holder ends its attempt.                                            *)
LEMMA FenceEnds ==
    ASSUME TypeInv, FenceInv, NEW s \in Slots, slot[s].pc # "idle", Fenced(s),
           NEW row \in JobRow, row.state \notin {"RUNNING", "ABSENT"},
           SetRow(slot[s].job, row), clock' = clock, OthersKept(s),
           Carries(s), slot'[s].pc # "idle" => Elapsed(s)
    PROVE  FenceInv'
<1> DEFINE k == slot[s].job
<1>1. /\ k \in Jobs /\ clock \in Nat /\ Lease \in Nat
      /\ job[k].lease \in Nat
      /\ \A t \in Slots : slot[t].lease \in Nat /\ (slot[t].pc # "idle" => slot[t].job \in Jobs)
  BY ConstantsAssumption DEF TypeInv, TypeOK, Placed, JobRow, Slot
<1>2. job' = [job EXCEPT ![k] = row] /\ job \in [Jobs -> JobRow]
  BY DEF SetRow, TypeInv, TypeOK
<1>3. \A t \in Slots \ {s} :
         slot[t].pc # "idle" /\ slot[t].job = k => slot[t].lease < clock + Lease
  BY <1>1 DEF FenceInv, FenceUnique, Holds, Fenced, Behind
<1>4. \A j \in Jobs : job'[j].state = "RUNNING" => job'[j] = job[j] /\ j # k
  BY <1>1, <1>2
<1>5. (\A j \in Jobs : job[j].state = "RUNNING" => job[j].lease <= clock + Lease)'
  BY <1>4 DEF FenceInv
<1>6. ASSUME NEW t \in Slots, slot'[t].pc # "idle" PROVE Behind(t)'
  <2>1. /\ slot[t].pc # "idle" /\ slot'[t].job = slot[t].job
        /\ slot'[t].lease = slot[t].lease /\ slot[t].job \in Jobs
    BY <1>1, <1>6 DEF OthersKept, Carries
  <2>2. CASE slot[t].job = k
    BY <1>1, <1>2, <1>3, <1>6, <2>1, <2>2 DEF Behind, Elapsed
  <2>3. CASE slot[t].job # k
    BY <1>1, <1>2, <2>1, <2>3 DEF Behind, FenceInv
  <2> QED
    BY <2>2, <2>3
<1>7. \A t \in Slots : Holds(t)' => Holds(t) /\ slot'[t].job = slot[t].job
  <2> SUFFICES ASSUME NEW t \in Slots, Holds(t)'
               PROVE  Holds(t) /\ slot'[t].job = slot[t].job
    OBVIOUS
  <2>1. /\ slot[t].pc # "idle" /\ slot'[t].job = slot[t].job
        /\ slot'[t].lease = slot[t].lease /\ slot[t].job \in Jobs
    BY <1>1 DEF OthersKept, Carries, Holds
  <2> QED
    BY <1>4, <2>1 DEF Holds, Fenced
<1>8. FenceUnique'
  BY <1>7 DEF FenceUnique, FenceInv
<1> QED
  BY <1>5, <1>6, <1>8 DEF FenceInv

(* The holder's lease moves on; its slot carries the moved lease, the old  *)
(* one when the answer was lost, or none.                                  *)
LEMMA FenceExtends ==
    ASSUME TypeInv, FenceInv, NEW s \in Slots, slot[s].pc # "idle", Fenced(s),
           NEW at \in Nat, at <= clock, slot[s].lease < at + Lease,
           SetRow(slot[s].job, ExtendedRow(slot[s].job, at)), clock' = clock,
           OthersKept(s),
           slot'[s].pc # "idle" =>
               /\ slot'[s].job = slot[s].job
               /\ slot'[s].lease \in {slot[s].lease, at + Lease}
    PROVE  FenceInv'
<1> DEFINE k == slot[s].job
<1>1. /\ k \in Jobs /\ clock \in Nat /\ Lease \in Nat
      /\ job[k].lease \in Nat
      /\ \A t \in Slots : slot[t].lease \in Nat /\ (slot[t].pc # "idle" => slot[t].job \in Jobs)
  BY ConstantsAssumption DEF TypeInv, TypeOK, Placed, JobRow, Slot
<1>2. /\ job \in [Jobs -> JobRow]
      /\ \A j \in Jobs \ {k} : job'[j] = job[j]
      /\ job'[k].lease = at + Lease
      /\ job'[k].state = "RUNNING"
  BY <1>1 DEF SetRow, ExtendedRow, TypeInv, TypeOK, Fenced, JobRow
<1>3. job[k].lease < at + Lease /\ job[k].state = "RUNNING" /\ job[k].lease = slot[s].lease
  BY <1>1 DEF FenceInv, Fenced
<1>4. \A t \in Slots \ {s} :
         slot[t].pc # "idle" /\ slot[t].job = k => slot[t].lease < job[k].lease
  BY <1>1 DEF FenceInv, FenceUnique, Holds, Fenced, Behind
<1>5. (\A j \in Jobs : job[j].state = "RUNNING" => job[j].lease <= clock + Lease)'
  BY <1>1, <1>2 DEF FenceInv
<1>6. ASSUME NEW t \in Slots, slot'[t].pc # "idle" PROVE Behind(t)'
  <2>1. CASE t = s
    BY <1>1, <1>2, <1>3, <1>6, <2>1 DEF Behind
  <2>2. CASE t # s /\ slot[t].job = k
    BY <1>1, <1>2, <1>3, <1>4, <1>6, <2>2 DEF Behind, OthersKept
  <2>3. CASE t # s /\ slot[t].job # k
    BY <1>1, <1>2, <1>6, <2>3 DEF Behind, OthersKept, FenceInv
  <2> QED
    BY <2>1, <2>2, <2>3
<1>7. ASSUME NEW t \in Slots, NEW u \in Slots, Holds(t)', Holds(u)',
             slot'[t].job = slot'[u].job, t # u
      PROVE  FALSE
  <2>1. CASE slot'[t].job = k
    <3>1. ASSUME NEW v \in Slots, Holds(v)', slot'[v].job = k, v # s PROVE FALSE
      <4>1. slot'[v] = slot[v]
        BY <3>1 DEF OthersKept
      <4>2. slot[v].lease = at + Lease /\ slot[v].pc # "idle" /\ slot[v].job = k
        BY <1>2, <3>1, <4>1 DEF Holds, Fenced
      <4> QED
        BY <1>1, <1>3, <1>4, <3>1, <4>2
    <3> QED
      BY <1>7, <2>1, <3>1
  <2>2. CASE slot'[t].job # k
    <3>1. t # s /\ u # s
      BY <1>7, <2>2 DEF Holds
    <3> QED
      BY <1>1, <1>2, <1>7, <2>2, <3>1 DEF Holds, Fenced, OthersKept, FenceInv, FenceUnique
  <2> QED
    BY <2>1, <2>2
<1> QED
  BY <1>5, <1>6, <1>7 DEF FenceInv, FenceUnique

(* A claim writes a lease no slot carries for that job.                    *)
LEMMA FenceClaims ==
    ASSUME TypeInv, FenceInv, NEW s \in Slots, NEW k \in Jobs, Claim(s, k)
    PROVE  FenceInv'
<1>1. /\ clock \in Nat /\ Lease \in Nat /\ job[k].lease \in Nat
      /\ \A t \in Slots : slot[t].lease \in Nat /\ (slot[t].pc # "idle" => slot[t].job \in Jobs)
  BY ConstantsAssumption DEF TypeInv, TypeOK, Placed, JobRow, Slot
<1>2. /\ \A j \in Jobs \ {k} : job'[j] = job[j]
      /\ job'[k].lease = clock + Lease
      /\ job'[k].state = "RUNNING"
      /\ clock' = clock
  BY DEF Claim, SetRow, TypeInv, TypeOK, JobRow
<1>3. /\ slot[s].pc = "idle" /\ OthersKept(s)
      /\ slot'[s].pc = "claimed" /\ slot'[s].job = k /\ slot'[s].lease = clock + Lease
  BY DEF Claim, SetSlot, OthersKept, TypeInv, TypeOK, Slot, IdleSlot
<1>4. \A t \in Slots :
         slot[t].pc # "idle" /\ slot[t].job = k => slot[t].lease < clock + Lease
  BY <1>1 DEF Claim, Due, FenceInv, Behind
<1>5. (\A j \in Jobs : job[j].state = "RUNNING" => job[j].lease <= clock + Lease)'
  BY <1>1, <1>2 DEF FenceInv
<1>6. ASSUME NEW t \in Slots, slot'[t].pc # "idle" PROVE Behind(t)'
  <2>1. CASE t = s
    BY <1>1, <1>2, <1>3, <2>1 DEF Behind
  <2>2. CASE t # s /\ slot[t].job = k
    BY <1>1, <1>2, <1>4, <1>3, <1>6, <2>2 DEF Behind, OthersKept
  <2>3. CASE t # s /\ slot[t].job # k
    BY <1>1, <1>2, <1>3, <1>6, <2>3 DEF Behind, OthersKept, FenceInv
  <2> QED
    BY <2>1, <2>2, <2>3
<1>7. ASSUME NEW t \in Slots, NEW u \in Slots, Holds(t)', Holds(u)',
             slot'[t].job = slot'[u].job, t # u
      PROVE  FALSE
  <2>1. CASE slot'[t].job = k
    <3>1. ASSUME NEW v \in Slots, Holds(v)', slot'[v].job = k, v # s PROVE FALSE
      <4>1. slot'[v] = slot[v]
        BY <1>3, <3>1 DEF OthersKept
      <4>2. slot[v].lease = clock + Lease /\ slot[v].pc # "idle" /\ slot[v].job = k
        BY <1>2, <3>1, <4>1 DEF Holds, Fenced
      <4> QED
        BY <1>1, <1>3, <1>4, <3>1, <4>2
    <3> QED
      BY <1>7, <2>1, <3>1
  <2>2. CASE slot'[t].job # k
    <3>1. t # s /\ u # s
      BY <1>3, <1>7, <2>2
    <3> QED
      BY <1>1, <1>2, <1>3, <1>7, <2>2, <3>1 DEF Holds, Fenced, OthersKept, FenceInv, FenceUnique
  <2> QED
    BY <2>1, <2>2
<1> QED
  BY <1>5, <1>6, <1>7 DEF FenceInv, FenceUnique

(* What a finishing statement writes is open again or finished, never       *)
(* RUNNING.                                                                *)
LEMMA OutcomeStates ==
    ASSUME TypeInv, NEW j \in Jobs, NEW row \in Outcomes(j)
    PROVE  /\ row \in JobRow
           /\ row.state \in {"SUCCEEDED", "FAILED", "PENDING"}
           /\ row.state = "PENDING" => j \in Pollers
<1>1. row \in JobRow
  BY OutcomeTypes DEF TypeInv
<1>2. job[j] \in JobRow
  BY DEF TypeInv, TypeOK
<1>3. CompletedRow(job[j]).state = "SUCCEEDED" /\ RefusedRow(job[j]).state = "FAILED"
  BY <1>2 DEF CompletedRow, RefusedRow, JobRow
<1>4. \A at : RepeatedRow(job[j], at).state = "PENDING"
  BY <1>2 DEF RepeatedRow, JobRow
<1> QED
  BY <1>1, <1>3, <1>4 DEF Outcomes

LEMMA FailureStates ==
    ASSUME TypeInv, NEW s \in Slots, slot[s].job \in Jobs, NEW row \in FailureRows(s)
    PROVE  row \in JobRow /\ row.state \in {"DEAD_LETTER", "PENDING"}
<1>1. row \in JobRow
  BY FailureTypes DEF TypeInv
<1>2. job[slot[s].job] \in JobRow
  BY DEF TypeInv, TypeOK
<1> QED
  BY <1>1, <1>2 DEF FailureRows, DeadLetterRow, RetriedRow, RepeatedRow, JobRow

LEMMA LetGoCarries ==
    ASSUME TypeInv, NEW s \in Slots, LetGo(s)
    PROVE  /\ slot'[s].pc = "idle" /\ OthersKept(s)
           /\ \A t \in Slots : Carries(t)
  BY DEF TypeInv, TypeOK, LetGo, SetSlot, IdleSlot, OthersKept, Carries

LEMMA FailingCarries ==
    ASSUME TypeInv, NEW s \in Slots, slot[s].pc # "idle", NEW c, Failing(s, c)
    PROVE  OthersKept(s) /\ \A t \in Slots : Carries(t)
  BY DEF TypeInv, TypeOK, Slot, Failing, SetSlot, OthersKept, Carries

(* An insertion makes one absent row pending, or brings a pending one      *)
(* forward.                                                                *)
LEMMA EnqueueRows ==
    ASSUME job \in [Jobs -> JobRow], NEW j \in Jobs, NEW at, Enqueue(j, at)
    PROVE  \A i \in Jobs :
              \/ job'[i] = job[i]
              \/ /\ job[i].state = "ABSENT" /\ job'[i].state = "PENDING"
                 /\ job'[i].attempts = 0
              \/ /\ job[i].state = "PENDING" /\ job'[i].state = "PENDING"
                 /\ job'[i].attempts = job[i].attempts
<1>1. CASE SetRow(j, [NoRow EXCEPT !.state = "PENDING", !.runAt = at])
  <2> DEFINE row == [NoRow EXCEPT !.state = "PENDING", !.runAt = at]
  <2>1. row.state = "PENDING" /\ row.attempts = 0
    BY DEF NoRow
  <2>2. job[j].state = "ABSENT" /\ job' = [job EXCEPT ![j] = row]
    BY <1>1 DEF Enqueue, SetRow
  <2> HIDE DEF row
  <2> QED
    BY <2>1, <2>2
<1>2. ASSUME NEW k \in Jobs, job[k].state = "PENDING",
             SetRow(k, [job[k] EXCEPT !.runAt = at])
      PROVE  \A i \in Jobs :
                \/ job'[i] = job[i]
                \/ /\ job[i].state = "PENDING" /\ job'[i].state = "PENDING"
                   /\ job'[i].attempts = job[i].attempts
  <2> DEFINE row == [job[k] EXCEPT !.runAt = at]
  <2>1. row.state = job[k].state /\ row.attempts = job[k].attempts
    BY DEF JobRow
  <2>2. job' = [job EXCEPT ![k] = row]
    BY <1>2 DEF SetRow
  <2> HIDE DEF row
  <2> QED
    BY <1>2, <2>1, <2>2
<1> QED
  BY <1>1, <1>2 DEF Enqueue

LEMMA FenceInit == Init => FenceInv
  BY ConstantsAssumption DEF Init, FenceInv, FenceUnique, Holds, IdleSlot, NoRow

LEMMA FenceNext == TypeInv /\ FenceInv /\ [Next]_vars => FenceInv'
<1> SUFFICES ASSUME TypeInv, FenceInv, [Next]_vars PROVE FenceInv'
  OBVIOUS
<1>0. job \in [Jobs -> JobRow] /\ slot \in [Slots -> Slot] /\ Placed
  BY DEF TypeInv, TypeOK
<1>1. ASSUME NEW j \in Jobs, NEW d \in Waits, Enqueue(j, clock + d) PROVE FenceInv'
  <2>1. \A i \in Jobs : \/ job'[i] = job[i]
                        \/ job'[i].state = "PENDING" /\ job[i].state \in {"ABSENT", "PENDING"}
    BY <1>0, <1>1, EnqueueRows
  <2> QED
    BY <1>1, <2>1, FenceRows DEF Enqueue
<1>2. ASSUME NEW j \in Jobs, Cancel(j) PROVE FenceInv'
  <2>1. \A i \in Jobs : job'[i] = job[i] \/ job'[i].state = "CANCELLED"
    BY <1>0, <1>2 DEF Cancel, SetRow, CancelledRow, JobRow
  <2> QED
    BY <1>2, <2>1, FenceRows DEF Cancel
<1>3. ASSUME NEW j \in Jobs, Requeue(j) PROVE FenceInv'
  <2>1. \A i \in Jobs : \/ job'[i] = job[i]
                        \/ job'[i].state = "PENDING" /\ job[i].state = "DEAD_LETTER"
    BY <1>0, <1>3 DEF Requeue, SetRow, JobRow
  <2> QED
    BY <1>3, <2>1, FenceRows DEF Requeue
<1>4. ASSUME NEW s \in Slots, NEW j \in Jobs, Claim(s, j) PROVE FenceInv'
  BY <1>4, FenceClaims
<1>5. ASSUME NEW s \in Slots, CrashedOut(s) PROVE FenceInv'
  <2>1. \A t \in Slots : Carries(t)
    BY <1>5, FailingCarries DEF CrashedOut
  <2> QED
    BY <1>5, <2>1, FenceQuiet DEF CrashedOut
<1>6. ASSUME NEW s \in Slots, CheckLease(s) \/ Execute(s) PROVE FenceInv'
  <2>1. \A t \in Slots : Carries(t)
    <3>1. slot[s].pc # "idle"
      BY <1>6 DEF CheckLease, Startable, Execute
    <3>2. CASE CheckLease(s)
      BY <1>0, <3>1, <3>2 DEF CheckLease, SetSlot, Carries, Slot
    <3>3. CASE Execute(s)
      <4> DEFINE run == [slot[s] EXCEPT !.pc = "running", !.read = NoTime,
                                        !.until = clock + Budget(slot[s].job),
                                        !.late = slot[s].read < clock]
                 miss == [slot[s] EXCEPT !.pc = "failing", !.read = NoTime,
                                         !.cause = "missing"]
      <4>1. /\ run.job = slot[s].job /\ run.lease = slot[s].lease
            /\ miss.job = slot[s].job /\ miss.lease = slot[s].lease
        BY <1>0 DEF Slot
      <4>2. SetSlot(s, run) \/ SetSlot(s, miss)
        BY <3>3 DEF Execute
      <4> HIDE DEF run, miss
      <4> QED
        BY <1>0, <3>1, <4>1, <4>2 DEF SetSlot, Carries
    <3> QED
      BY <1>6, <3>2, <3>3
  <2> QED
    BY <1>6, <2>1, FenceQuiet DEF CheckLease, Execute
<1>7. ASSUME NEW s \in Slots, Extend(s) \/ ExtendFails(s) PROVE FenceInv'
  <2>1. /\ slot[s].pc # "idle" /\ clock' = clock /\ slot[s].read \in Nat
        /\ slot[s].read <= clock /\ slot[s].lease < slot[s].read + Lease
    BY <1>0, <1>7 DEF Extend, ExtendFails, TypeInv, Readings, Reading, Slot
  <2>2. CASE Extend(s)
    <3>1. /\ OthersKept(s) /\ slot'[s].job = slot[s].job
          /\ slot'[s].lease = slot[s].read + Lease
      BY <1>0, <2>2 DEF Extend, SetSlot, OthersKept, Slot
    <3> QED
      BY <2>1, <2>2, <3>1, FenceExtends DEF Extend
  <2>3. CASE ExtendFails(s)
    <3>1. slot'[s].pc = "idle" /\ OthersKept(s) /\ \A t \in Slots : Carries(t)
      BY <2>3, LetGoCarries DEF ExtendFails
    <3>2. CASE UNCHANGED job
      BY <2>1, <3>1, <3>2, FenceQuiet
    <3>3. CASE Fenced(s) /\ SetRow(slot[s].job, ExtendedRow(slot[s].job, slot[s].read))
      BY <2>1, <3>1, <3>3, FenceExtends
    <3> QED
      BY <2>3, <3>2, <3>3 DEF ExtendFails
  <2> QED
    BY <1>7, <2>2, <2>3
<1>8. ASSUME NEW s \in Slots, Heartbeat(s) PROVE FenceInv'
  <2>1. /\ slot[s].pc # "idle" /\ clock' = clock /\ clock \in Nat /\ clock <= clock
        /\ slot[s].lease < clock + Lease
    BY <1>8 DEF Heartbeat, Elapsed, TypeInv, TypeOK
  <2>2. CASE Fenced(s)
    <3>1. /\ OthersKept(s) /\ slot'[s].job = slot[s].job
          /\ slot'[s].lease \in {slot[s].lease, clock + Lease}
      BY <1>0, <1>8, <2>2 DEF Heartbeat, SetSlot, OthersKept, Slot
    <3> QED
      BY <1>8, <2>1, <2>2, <3>1, FenceExtends DEF Heartbeat
  <2>3. CASE ~Fenced(s)
    <3>1. \A t \in Slots : Carries(t)
      BY <1>0, <1>8, <2>3 DEF Heartbeat, SetSlot, Carries, Slot
    <3> QED
      BY <1>8, <2>3, <3>1, FenceQuiet DEF Heartbeat
  <2> QED
    BY <2>2, <2>3
<1>9. ASSUME NEW s \in Slots, Settle(s) \/ SettleDetached(s) PROVE FenceInv'
  <2>1. slot[s].pc # "idle" /\ slot[s].job \in Jobs /\ Fenced(s) /\ clock' = clock
    BY <1>0, <1>9 DEF Settle, SettleDetached, Placed
  <2>2. PICK row \in Outcomes(slot[s].job) : SetRow(slot[s].job, row)
    BY <1>9 DEF Settle, SettleDetached
  <2>3. row \in JobRow /\ row.state \notin {"RUNNING", "ABSENT"}
    BY <2>1, OutcomeStates
  <2>4. OthersKept(s) /\ Carries(s) /\ (slot'[s].pc # "idle" => Elapsed(s))
    BY <1>9, <2>1, LetGoCarries, FailingCarries DEF Settle, SettleDetached
  <2> QED
    BY <2>1, <2>2, <2>3, <2>4, FenceEnds
<1>10. ASSUME NEW s \in Slots, Effect(s) PROVE FenceInv'
  <2>1. \A t \in Slots : Carries(t)
    BY <1>0, <1>10 DEF Effect, SetSlot, Carries, Slot
  <2> QED
    BY <1>10, <2>1, FenceQuiet DEF Effect
<1>11. ASSUME NEW s \in Slots, LeaseLost(s) \/ FailUnrecorded(s) \/ Crash(s)
       PROVE  FenceInv'
  <2>1. \A t \in Slots : Carries(t)
    BY <1>11, LetGoCarries DEF LeaseLost, FailUnrecorded, Crash
  <2> QED
    BY <1>11, <2>1, FenceQuiet DEF LeaseLost, FailUnrecorded, Crash
<1>12. ASSUME NEW s \in Slots, RunFails(s) PROVE FenceInv'
  <2>1. \A t \in Slots : Carries(t)
    BY <1>12, LetGoCarries, FailingCarries DEF RunFails
  <2> QED
    BY <1>12, <2>1, FenceQuiet DEF RunFails
<1>13. ASSUME NEW s \in Slots, Fail(s) PROVE FenceInv'
  <2>1. slot[s].pc # "idle" /\ slot[s].job \in Jobs /\ Fenced(s) /\ clock' = clock
    BY <1>0, <1>13 DEF Fail, Placed
  <2>2. PICK row \in FailureRows(s) : SetRow(slot[s].job, row)
    BY <1>13 DEF Fail
  <2>3. row \in JobRow /\ row.state \notin {"RUNNING", "ABSENT"}
    BY <2>1, FailureStates
  <2>4. OthersKept(s) /\ Carries(s) /\ slot'[s].pc = "idle"
    BY <1>13, LetGoCarries DEF Fail
  <2> QED
    BY <2>1, <2>2, <2>3, <2>4, FenceEnds
<1>14. ASSUME NEW c \in Schedulers, ReviveDeadDuties(c) PROVE FenceInv'
  <2>1. \A i \in Jobs : \/ job'[i] = job[i]
                        \/ job'[i].state = "PENDING" /\ job[i].state = "DEAD_LETTER"
    BY <1>0, <1>14 DEF ReviveDeadDuties, Revivable, RevivedRow, JobRow
  <2> QED
    BY <1>14, <2>1, FenceRows DEF ReviveDeadDuties
<1>15. ASSUME NEW c \in Schedulers, ReviveFails(c) \/ PurgeSelect(c) PROVE FenceInv'
  <2>1. \A t \in Slots : Carries(t)
    BY <1>15 DEF ReviveFails, PurgeSelect, Carries
  <2> QED
    BY <1>15, <2>1, FenceQuiet DEF ReviveFails, PurgeSelect
<1>16. ASSUME NEW c \in Schedulers, PurgeDelete(c) PROVE FenceInv'
  <2>1. \A i \in Jobs : job'[i] = job[i] \/ job'[i].state = "GONE"
    BY <1>16 DEF PurgeDelete, NoRow
  <2> QED
    BY <1>16, <2>1, FenceRows DEF PurgeDelete
<1>17. ASSUME Tick PROVE FenceInv'
  <2>1. /\ clock \in Nat /\ Lease \in Nat
        /\ \A j \in Jobs : job[j].lease \in Nat
        /\ \A s \in Slots : slot[s].lease \in Nat
    BY ConstantsAssumption DEF TypeInv, TypeOK, JobRow, Slot
  <2>2. clock' = clock + 1 /\ job' = job /\ slot' = slot
    BY <1>17 DEF Tick
  <2> QED
    BY <2>1, <2>2 DEF FenceInv, FenceUnique, Holds, Fenced, Behind
<1>18. ASSUME UNCHANGED vars PROVE FenceInv'
  <2>1. \A t \in Slots : Carries(t)
    BY <1>18 DEF vars, Carries
  <2> QED
    BY <1>18, <2>1, FenceQuiet DEF vars
<1> QED
  BY <1>1, <1>2, <1>3, <1>4, <1>5, <1>6, <1>7, <1>8, <1>9, <1>10, <1>11, <1>12,
     <1>13, <1>14, <1>15, <1>16, <1>17, <1>18
     DEF Next, JobStep, SlotStep, SchedulerStep

LEMMA FenceInvariant == Spec => []FenceInv
  BY FenceInit, FenceNext, TypeInvariant, PTL DEF Spec

(* At most one slot can end a job's attempt, whatever stalls, takeovers,   *)
(* lost commit answers, cancellations, requeues and purges happened.       *)
THEOREM FenceIsUnique == Spec => []FenceUnique
<1>1. FenceInv => FenceUnique
  BY DEF FenceInv
<1> QED
  BY <1>1, FenceInvariant, PTL

-----------------------------------------------------------------------------
(* How one step may change one row, and the effect that goes with it.      *)

Same(j) == job'[j] = job[j] /\ effects'[j] = effects[j]

(* A row a producer, a claim or an operator moves, with no effect.         *)
Moves(j) ==
    /\ effects'[j] = effects[j]
    /\ \/ job[j].state \in {"ABSENT", "PENDING", "RUNNING", "DEAD_LETTER"}
          /\ job'[j].state \in {"PENDING", "RUNNING", "FAILED", "DEAD_LETTER", "CANCELLED"}
       \/ job'[j].state = "GONE"

(* A round of the job, committed with its effect.                          *)
Applies(j) ==
    /\ job[j].state = "RUNNING"
    /\ effects' = Counted(j)
    /\ job'[j].state = "SUCCEEDED" \/ (job'[j].state = "PENDING" /\ j \in Pollers)

(* A detached handler's own commit.                                        *)
Works(j) == j \in Detached /\ effects' = Counted(j) /\ job'[j] = job[j]

(* A detached job whose outcome is recorded.                               *)
Records(j) ==
    /\ j \in Detached
    /\ job[j].state = "RUNNING"
    /\ effects'[j] = effects[j]
    /\ job'[j].state \in {"SUCCEEDED", "FAILED", "PENDING"}
    /\ \E s \in Slots : slot[s].pc = "recording" /\ slot[s].job = j

LEMMA RowSteps ==
    ASSUME TypeInv, [Next]_vars, NEW k \in Jobs
    PROVE  Same(k) \/ Moves(k) \/ Applies(k) \/ Works(k) \/ Records(k)
<1>0. /\ job \in [Jobs -> JobRow] /\ slot \in [Slots -> Slot] /\ Placed
      /\ effects \in [Jobs -> 0..2]
  BY DEF TypeInv, TypeOK
<1>1. \A j \in Jobs : j # k => Counted(j)[k] = effects[k]
  BY <1>0 DEF Counted
<1>2. ASSUME NEW j \in Jobs, NEW d \in Waits, Enqueue(j, clock + d) PROVE Same(k) \/ Moves(k)
  BY <1>0, <1>2 DEF Enqueue, SetRow, NoRow, JobRow, Same, Moves
<1>3. ASSUME NEW j \in Jobs, Cancel(j) PROVE Same(k) \/ Moves(k)
  BY <1>0, <1>3 DEF Cancel, Open, OpenStates, SetRow, CancelledRow, JobRow, Same, Moves
<1>4. ASSUME NEW j \in Jobs, Requeue(j) PROVE Same(k) \/ Moves(k)
  BY <1>0, <1>4 DEF Requeue, SetRow, JobRow, Same, Moves
<1>5. ASSUME NEW s \in Slots, NEW j \in Jobs, Claim(s, j) PROVE Same(k) \/ Moves(k)
  BY <1>0, <1>5 DEF Claim, Due, SetRow, JobRow, Same, Moves
<1>6. ASSUME NEW s \in Slots,
             CrashedOut(s) \/ LeaseLost(s) \/ RunFails(s) \/ FailUnrecorded(s) \/ Crash(s)
      PROVE  Same(k)
  BY <1>6 DEF CrashedOut, LeaseLost, RunFails, FailUnrecorded, Crash, Same
<1>7. ASSUME NEW s \in Slots, \/ CheckLease(s) \/ Extend(s) \/ ExtendFails(s)
                              \/ Execute(s) \/ Heartbeat(s)
      PROVE  Same(k) \/ Moves(k)
  <2>1. effects' = effects
    BY <1>7 DEF CheckLease, Extend, ExtendFails, Execute, Heartbeat
  <2>2. \/ UNCHANGED job
        \/ \E at : Fenced(s) /\ SetRow(slot[s].job, ExtendedRow(slot[s].job, at))
    BY <1>7 DEF CheckLease, Extend, ExtendFails, Execute, Heartbeat
  <2>3. CASE k = slot[s].job
    <3>1. \A at : ExtendedRow(k, at).state = job[k].state
      BY <1>0 DEF ExtendedRow, JobRow
    <3>2. ASSUME NEW at, Fenced(s), SetRow(k, ExtendedRow(k, at)) PROVE Moves(k)
      BY <1>0, <2>1, <2>3, <3>1, <3>2 DEF Fenced, SetRow, Moves
    <3> QED
      BY <2>1, <2>2, <2>3, <3>2 DEF Same
  <2>4. CASE k # slot[s].job
    BY <1>0, <2>1, <2>2, <2>4 DEF SetRow, Same
  <2> QED
    BY <2>3, <2>4
<1>8. ASSUME NEW s \in Slots, Settle(s) PROVE Same(k) \/ Moves(k) \/ Applies(k)
  <2>1. slot[s].job \in Jobs /\ job[slot[s].job].state = "RUNNING"
    BY <1>0, <1>8 DEF Settle, Placed, Fenced
  <2>2. PICK row \in Outcomes(slot[s].job) :
            /\ SetRow(slot[s].job, row)
            /\ effects' = IF row.state = "FAILED" THEN effects ELSE Counted(slot[s].job)
    BY <1>8 DEF Settle
  <2>3. /\ row.state \in {"SUCCEEDED", "FAILED", "PENDING"}
        /\ row.state = "PENDING" => slot[s].job \in Pollers
    BY <2>1, OutcomeStates
  <2>4. CASE k = slot[s].job
    <3>1. job'[k] = row
      BY <1>0, <2>2, <2>4 DEF SetRow
    <3> QED
      BY <2>1, <2>2, <2>3, <2>4, <3>1 DEF Moves, Applies
  <2>5. CASE k # slot[s].job
    BY <1>0, <1>1, <2>1, <2>2, <2>5 DEF SetRow, Same
  <2> QED
    BY <2>4, <2>5
<1>9. ASSUME NEW s \in Slots, Effect(s) PROVE Same(k) \/ Works(k)
  <2>1. slot[s].job \in Jobs
    BY <1>0, <1>9 DEF Effect, Placed
  <2> QED
    BY <1>1, <1>9, <2>1 DEF Effect, Same, Works
<1>10. ASSUME NEW s \in Slots, SettleDetached(s) PROVE Same(k) \/ Records(k)
  <2>1. slot[s].job \in Jobs /\ job[slot[s].job].state = "RUNNING"
    BY <1>0, <1>10 DEF SettleDetached, Placed, Fenced
  <2>2. PICK row \in Outcomes(slot[s].job) : SetRow(slot[s].job, row)
    BY <1>10 DEF SettleDetached
  <2>3. row.state \in {"SUCCEEDED", "FAILED", "PENDING"}
    BY <2>1, OutcomeStates
  <2> QED
    BY <1>0, <1>10, <2>1, <2>2, <2>3 DEF SettleDetached, SetRow, Same, Records
<1>11. ASSUME NEW s \in Slots, Fail(s) PROVE Same(k) \/ Moves(k)
  <2>1. slot[s].job \in Jobs /\ job[slot[s].job].state = "RUNNING"
    BY <1>0, <1>11 DEF Fail, Placed, Fenced
  <2>2. PICK row \in FailureRows(s) : SetRow(slot[s].job, row)
    BY <1>11 DEF Fail
  <2>3. row.state \in {"DEAD_LETTER", "PENDING"}
    BY <2>1, FailureStates
  <2> QED
    BY <1>0, <1>11, <2>1, <2>2, <2>3 DEF Fail, SetRow, Same, Moves
<1>12. ASSUME NEW c \in Schedulers, ReviveDeadDuties(c) PROVE Same(k) \/ Moves(k)
  BY <1>0, <1>12 DEF ReviveDeadDuties, Revivable, RevivedRow, JobRow, Same, Moves
<1>13. ASSUME NEW c \in Schedulers, PurgeDelete(c) PROVE Same(k) \/ Moves(k)
  BY <1>13 DEF PurgeDelete, NoRow, Same, Moves
<1>14. ASSUME NEW c \in Schedulers, ReviveFails(c) \/ PurgeSelect(c) PROVE Same(k)
  BY <1>14 DEF ReviveFails, PurgeSelect, Same
<1>15. ASSUME Tick \/ UNCHANGED vars PROVE Same(k)
  BY <1>15 DEF Tick, vars, Same
<1> QED
  BY <1>2, <1>3, <1>4, <1>5, <1>6, <1>7, <1>8, <1>9, <1>10, <1>11, <1>12, <1>13, <1>14,
     <1>15
     DEF Next, JobStep, SlotStep, SchedulerStep

(* No late failure, retry or completion turns a job that SUCCEEDED, FAILED *)
(* or was CANCELLED into anything else; only the purge removes it.         *)
THEOREM FinishedJobsStay == Spec => FinishedStays
<1>1. TypeInv /\ [Next]_vars =>
        [\A j \in Jobs : job[j].state \in {"SUCCEEDED", "FAILED", "CANCELLED"} =>
                            job'[j].state \in {job[j].state, "GONE"}]_vars
  BY RowSteps DEF Same, Moves, Applies, Works, Records
<1> QED
  BY <1>1, TypeInvariant, PTL DEF Spec, FinishedStays

-----------------------------------------------------------------------------
(* Exactly once.  AppliedOnce is inductive given the types: the fence lets *)
(* an effect commit only from RUNNING, and RUNNING rows carry no effect.   *)

LEMMA AppliedNext == TypeInv /\ AppliedOnce /\ [Next]_vars => AppliedOnce'
<1> SUFFICES ASSUME TypeInv, AppliedOnce, [Next]_vars,
                    NEW k \in Jobs \ (Detached \cup Pollers)
             PROVE  /\ effects'[k] <= 1
                    /\ job'[k].state # "GONE" =>
                          (effects'[k] = 1 <=> job'[k].state = "SUCCEEDED")
  BY DEF AppliedOnce
<1>1. /\ effects \in [Jobs -> 0..2] /\ effects[k] \in 0..2 /\ effects[k] <= 1
      /\ job[k].state # "GONE" => (effects[k] = 1 <=> job[k].state = "SUCCEEDED")
  BY DEF TypeInv, TypeOK, AppliedOnce
<1>2. CASE Same(k) \/ Moves(k)
  BY <1>1, <1>2 DEF Same, Moves
<1>3. CASE Applies(k)
  <2>1. effects[k] = 0 /\ job'[k].state = "SUCCEEDED"
    BY <1>1, <1>3 DEF Applies
  <2>2. effects'[k] = 1
    BY <1>1, <1>3, <2>1 DEF Applies, Counted
  <2> QED
    BY <2>1, <2>2
<1> QED
  BY <1>2, <1>3, RowSteps DEF Works, Records

(* A transactional handler's effect is there exactly when its job reads    *)
(* SUCCEEDED, and never twice.                                             *)
THEOREM EffectsApplyOnce == Spec => []AppliedOnce
<1>1. Init => AppliedOnce
  BY DEF Init, AppliedOnce, NoRow
<1> QED
  BY <1>1, AppliedNext, TypeInvariant, PTL DEF Spec

-----------------------------------------------------------------------------
(* One open job per kind and key.  Only an enqueue, a requeue and a revival *)
(* open a row, the first two behind a free key; a revival opens at most the *)
(* newest dead letter of each free key.                                    *)

LEMMA Opens ==
    ASSUME TypeInv, [Next]_vars, \A c \in Schedulers : ~ReviveDeadDuties(c)
    PROVE  \/ \A j \in Jobs : Open(j)' => Open(j)
           \/ \E k \in Jobs : KeyFree(k) /\ \A j \in Jobs \ {k} : Open(j)' => Open(j)
<1>0. /\ job \in [Jobs -> JobRow] /\ slot \in [Slots -> Slot] /\ Placed
  BY DEF TypeInv, TypeOK
<1> USE DEF Open, OpenStates
<1>1. ASSUME NEW j \in Jobs, NEW d \in Waits, Enqueue(j, clock + d)
      PROVE  \/ \A i \in Jobs : Open(i)' => Open(i)
             \/ KeyFree(j) /\ \A i \in Jobs \ {j} : Open(i)' => Open(i)
  BY <1>0, <1>1 DEF Enqueue, SetRow
<1>2. ASSUME NEW j \in Jobs, Cancel(j) PROVE \A i \in Jobs : Open(i)' => Open(i)
  BY <1>0, <1>2 DEF Cancel, SetRow, CancelledRow, JobRow
<1>3. ASSUME NEW j \in Jobs, Requeue(j)
      PROVE  KeyFree(j) /\ \A i \in Jobs \ {j} : Open(i)' => Open(i)
  BY <1>0, <1>3 DEF Requeue, SetRow
<1>4. ASSUME NEW s \in Slots, NEW j \in Jobs, Claim(s, j)
      PROVE  \A i \in Jobs : Open(i)' => Open(i)
  BY <1>0, <1>4 DEF Claim, Due, SetRow
<1>5. ASSUME NEW s \in Slots, SlotStep(s), \A j \in Jobs : ~Claim(s, j)
      PROVE  \A i \in Jobs : Open(i)' => Open(i)
  <2>1. \/ UNCHANGED job
        \/ Fenced(s) /\ \E row : SetRow(slot[s].job, row)
    BY <1>5 DEF SlotStep, CrashedOut, CheckLease, Extend, ExtendFails, Execute, Heartbeat,
                Settle, Effect, SettleDetached, LeaseLost, RunFails, Fail, FailUnrecorded, Crash
  <2> QED
    BY <1>0, <2>1 DEF Fenced, SetRow
<1>6. ASSUME NEW c \in Schedulers, PurgeDelete(c) PROVE \A i \in Jobs : Open(i)' => Open(i)
  BY <1>6 DEF PurgeDelete, NoRow
<1>7. ASSUME NEW c \in Schedulers, ReviveFails(c) \/ PurgeSelect(c)
      PROVE  \A i \in Jobs : Open(i)' => Open(i)
  BY <1>7 DEF ReviveFails, PurgeSelect
<1>8. ASSUME Tick \/ UNCHANGED vars PROVE \A i \in Jobs : Open(i)' => Open(i)
  BY <1>8 DEF Tick, vars
<1> QED
  BY <1>1, <1>2, <1>3, <1>4, <1>5, <1>6, <1>7, <1>8 DEF Next, JobStep, SchedulerStep

LEMMA KeyNext == TypeInv /\ OneOpenPerKey /\ [Next]_vars => OneOpenPerKey'
<1> SUFFICES ASSUME TypeInv, OneOpenPerKey, [Next]_vars,
                    NEW i \in Jobs, NEW j \in Jobs, SameKey(i, j),
                    Open(i)', Open(j)', i # j
             PROVE  FALSE
  BY DEF OneOpenPerKey, SameKey
<1>1. SameKey(j, i)
  BY DEF SameKey
<1>2. ASSUME NEW c \in Schedulers, ReviveDeadDuties(c) PROVE FALSE
  <2>1. \A k \in Jobs : Open(k)' => Open(k) \/ Revivable(k)
    BY <1>2 DEF ReviveDeadDuties, Open
  <2>2. Revivable(i) /\ Revivable(j)
    BY <1>1, <2>1 DEF OneOpenPerKey, Revivable, KeyFree, Open, OpenStates
  <2>3. /\ job[i].finishedAt \in Nat /\ job[j].finishedAt \in Nat
        /\ i \in Nat /\ j \in Nat
    BY ConstantsAssumption DEF TypeInv, TypeOK, JobRow
  <2>4. NewerDeadLetter(i, j) \/ NewerDeadLetter(j, i)
    BY <1>1, <2>2, <2>3 DEF NewerDeadLetter, Revivable
  <2> QED
    BY <2>2, <2>4 DEF Revivable
<1>3. CASE \A c \in Schedulers : ~ReviveDeadDuties(c)
  BY <1>1, <1>3, Opens DEF OneOpenPerKey, KeyFree
<1> QED
  BY <1>2, <1>3

(* A kind and key never have two open jobs, so a duty is one row whatever  *)
(* enqueues, requeues and revivals race for it.                            *)
THEOREM KeysStayUnique == Spec => []OneOpenPerKey
<1>1. Init => OneOpenPerKey
  BY DEF Init, OneOpenPerKey, Open, OpenStates, NoRow
<1> QED
  BY <1>1, KeyNext, TypeInvariant, PTL DEF Spec

-----------------------------------------------------------------------------
(* The four shapes a step has, as far as leases, budgets and deadlines are *)
(* concerned.                                                              *)

(* A producer, an operator, the scheduler or the clock.                    *)
Outside ==
    /\ slot' = slot
    /\ clock' \in {clock, clock + 1}
    /\ \A j \in Jobs :
          \/ job'[j] = job[j]
          \/ job'[j].state \in {"CANCELLED", "GONE"}
          \/ /\ job[j].state \in {"ABSENT", "PENDING", "DEAD_LETTER"}
             /\ job'[j].state = "PENDING"
             /\ \/ job'[j].attempts = 0
                \/ job[j].state = "PENDING" /\ job'[j].attempts = job[j].attempts

(* What becomes of a slot that goes on with its job.                       *)
GoesOn(s) ==
    slot'[s].pc # "idle" =>
        /\ slot[s].pc # "idle"
        /\ slot'[s].job = slot[s].job
        /\ slot'[s].attempts = slot[s].attempts
        /\ slot'[s].reclaimed = slot[s].reclaimed
        /\ slot'[s].pc = "claimed" => slot[s].pc = "claimed"
        /\ slot'[s].pc \in {"extending", "leased"} =>
              slot[s].pc \in {"extending", "leased"} \/ Startable(s)
        /\ slot'[s].pc = "running" =>
              \/ /\ slot[s].pc = "running"
                 /\ slot'[s].until = slot[s].until /\ slot'[s].late = slot[s].late
              \/ /\ slot[s].pc = "leased"
                 /\ slot'[s].until = clock + Budget(slot[s].job)
                 /\ slot'[s].late = (slot[s].read < clock)
        /\ slot'[s].pc = "recording" => slot[s].pc \in {"running", "recording"}

(* A slot that touches no row.                                             *)
Quiet(s) ==
    /\ OthersKept(s)
    /\ job' = job /\ clock' = clock
    /\ GoesOn(s)
    /\ slot'[s].gone => slot'[s].pc # "idle" /\ (slot[s].gone \/ ~Fenced(s))
    /\ slot'[s].pc # "idle" => slot'[s].lease = slot[s].lease
    /\ slot'[s].pc = "leased" => LeaseCovers(s) /\ slot'[s].read = clock

(* The holder's lease moves on.                                            *)
Extends(s) ==
    /\ OthersKept(s)
    /\ slot[s].pc # "idle" /\ Fenced(s)
    /\ clock' = clock
    /\ GoesOn(s)
    /\ slot'[s].pc \in {"idle", "leased", "running"}
    /\ slot'[s].pc = "running" => slot[s].job \in LongRunning
    /\ slot'[s].gone => slot'[s].pc # "idle" /\ slot[s].gone
    /\ \E at \in Nat :
          /\ at <= clock /\ slot[s].lease < at + Lease
          /\ SetRow(slot[s].job, ExtendedRow(slot[s].job, at))
          /\ slot'[s].pc = "leased" => slot'[s].lease = at + Lease /\ slot'[s].read = at
          /\ slot'[s].pc = "running" => slot'[s].lease \in {at + Lease, slot[s].lease}

(* The holder ends its attempt.                                            *)
Ends(s) ==
    /\ OthersKept(s)
    /\ slot[s].pc # "idle" /\ Fenced(s)
    /\ clock' = clock
    /\ GoesOn(s)
    /\ slot'[s].pc \in {"idle", "failing"}
    /\ slot'[s].gone => slot'[s].pc # "idle" /\ slot[s].gone
    /\ slot'[s].pc # "idle" => slot'[s].lease = slot[s].lease
    /\ \E row \in JobRow :
          /\ SetRow(slot[s].job, row)
          /\ row.state \notin {"RUNNING", "ABSENT"}
          /\ row.state = "PENDING" =>
                \/ row.attempts = 0
                \/ ~LastAttempt(s) /\ row.attempts = job[slot[s].job].attempts

LEMMA IdleGone ==
    ASSUME TypeInv, NEW s \in Slots, LetGo(s)
    PROVE  /\ slot'[s].pc = "idle" /\ ~slot'[s].gone
           /\ OthersKept(s) /\ GoesOn(s)
  BY DEF TypeInv, TypeOK, LetGo, SetSlot, IdleSlot, OthersKept, GoesOn

LEMMA FailingGoesOn ==
    ASSUME TypeInv, NEW s \in Slots, slot[s].pc # "idle", NEW c, Failing(s, c)
    PROVE  /\ slot'[s].pc = "failing" /\ slot'[s].gone = slot[s].gone
           /\ slot'[s].lease = slot[s].lease
           /\ OthersKept(s) /\ GoesOn(s)
  BY DEF TypeInv, TypeOK, Slot, Failing, SetSlot, OthersKept, GoesOn

LEMMA ExecuteGoesOn ==
    ASSUME TypeInv, NEW s \in Slots, Execute(s)
    PROVE  /\ slot'[s].pc \in {"running", "failing"}
           /\ slot'[s].gone = slot[s].gone /\ slot'[s].lease = slot[s].lease
           /\ OthersKept(s) /\ GoesOn(s)
<1> DEFINE run == [slot[s] EXCEPT !.pc = "running", !.read = NoTime,
                                  !.until = clock + Budget(slot[s].job),
                                  !.late = slot[s].read < clock]
           miss == [slot[s] EXCEPT !.pc = "failing", !.read = NoTime,
                                   !.cause = "missing"]
<1>1. slot \in [Slots -> Slot] /\ slot[s].pc = "leased"
  BY DEF TypeInv, TypeOK, Execute
<1>2. /\ run.job = slot[s].job /\ run.lease = slot[s].lease /\ run.pc = "running"
      /\ run.attempts = slot[s].attempts /\ run.reclaimed = slot[s].reclaimed
      /\ run.gone = slot[s].gone /\ run.until = clock + Budget(slot[s].job)
      /\ miss.job = slot[s].job /\ miss.lease = slot[s].lease /\ miss.pc = "failing"
      /\ miss.attempts = slot[s].attempts /\ miss.reclaimed = slot[s].reclaimed
      /\ miss.gone = slot[s].gone
  BY <1>1 DEF Slot
<1>3. run.late = (slot[s].read < clock)
  BY <1>1 DEF Slot
<1>4. SetSlot(s, run) \/ SetSlot(s, miss)
  BY DEF Execute
<1> HIDE DEF run, miss
<1> QED
  BY <1>1, <1>2, <1>3, <1>4 DEF SetSlot, OthersKept, GoesOn

(* The reading of the clock, and the extension that counts from it.        *)
LEMMA CheckQuiet ==
    ASSUME TypeInv, NEW s \in Slots, CheckLease(s)
    PROVE  Quiet(s)
<1>1. slot \in [Slots -> Slot]
  BY DEF TypeInv, TypeOK
<1>2. /\ slot'[s].pc \in {"leased", "extending"} /\ slot'[s].job = slot[s].job
      /\ slot'[s].pc = "leased" => LeaseCovers(s)
      /\ slot'[s].attempts = slot[s].attempts /\ slot'[s].reclaimed = slot[s].reclaimed
      /\ slot'[s].gone = slot[s].gone /\ slot'[s].lease = slot[s].lease
      /\ slot'[s].read = clock
  BY <1>1 DEF CheckLease, SetSlot, Slot
<1>3. /\ OthersKept(s) /\ Startable(s) /\ slot[s].pc # "idle" /\ job' = job /\ clock' = clock
  BY <1>1 DEF CheckLease, SetSlot, OthersKept, Startable
<1> QED
  BY <1>2, <1>3 DEF Quiet, GoesOn

LEMMA ExtendMoves ==
    ASSUME TypeInv, NEW s \in Slots, Extend(s)
    PROVE  Extends(s)
<1>1. slot \in [Slots -> Slot]
  BY DEF TypeInv, TypeOK
<1>2. /\ slot[s].pc = "extending" /\ slot[s].read \in Nat
      /\ slot[s].read <= clock /\ slot[s].lease < slot[s].read + Lease
  BY <1>1 DEF Extend, TypeInv, Readings, Reading, Slot
<1>3. /\ slot'[s].pc = "leased" /\ slot'[s].job = slot[s].job
      /\ slot'[s].attempts = slot[s].attempts /\ slot'[s].reclaimed = slot[s].reclaimed
      /\ slot'[s].gone = slot[s].gone /\ slot'[s].lease = slot[s].read + Lease
      /\ slot'[s].read = slot[s].read
  BY <1>1 DEF Extend, SetSlot, Slot
<1>4. /\ OthersKept(s) /\ Fenced(s) /\ clock' = clock
      /\ SetRow(slot[s].job, ExtendedRow(slot[s].job, slot[s].read))
  BY <1>1 DEF Extend, SetSlot, OthersKept
<1>5. GoesOn(s)
  BY <1>2, <1>3 DEF GoesOn
<1> QED
  BY <1>2, <1>3, <1>4, <1>5 DEF Extends

(* A retry keeps the count and is written only with an attempt left.       *)
LEMMA FailureAttempts ==
    ASSUME TypeInv, NEW s \in Slots, slot[s].job \in Jobs, NEW row \in FailureRows(s)
    PROVE  row.state = "PENDING" =>
              \/ row.attempts = 0
              \/ ~LastAttempt(s) /\ row.attempts = job[slot[s].job].attempts
<1>1. job[slot[s].job] \in JobRow
  BY DEF TypeInv, TypeOK
<1> QED
  BY <1>1 DEF FailureRows, DeadLetterRow, RetriedRow, RepeatedRow, JobRow

LEMMA OutcomeAttempts ==
    ASSUME TypeInv, NEW j \in Jobs, NEW row \in Outcomes(j)
    PROVE  row.state = "PENDING" => row.attempts = 0
<1>1. job[j] \in JobRow
  BY DEF TypeInv, TypeOK
<1> QED
  BY <1>1 DEF Outcomes, CompletedRow, RefusedRow, RepeatedRow, JobRow

LEMMA Shapes ==
    ASSUME TypeInv, [Next]_vars
    PROVE  \/ Outside
           \/ \E s \in Slots : \/ \E j \in Jobs : Claim(s, j)
                               \/ Quiet(s) \/ Extends(s) \/ Ends(s)
<1>0. /\ job \in [Jobs -> JobRow] /\ slot \in [Slots -> Slot] /\ Placed
      /\ clock \in Nat /\ Lease \in Nat /\ JobTimeout \in Nat /\ JobTimeout < Lease
      /\ \A t \in Slots : slot[t].lease \in Nat
  BY ConstantsAssumption DEF TypeInv, TypeOK, Slot
<1>1. ASSUME NEW j \in Jobs, NEW d \in Waits, Enqueue(j, clock + d) PROVE Outside
  <2>1. \A i \in Jobs :
           \/ job'[i] = job[i]
           \/ /\ job[i].state = "ABSENT" /\ job'[i].state = "PENDING"
              /\ job'[i].attempts = 0
           \/ /\ job[i].state = "PENDING" /\ job'[i].state = "PENDING"
              /\ job'[i].attempts = job[i].attempts
    BY <1>0, <1>1, EnqueueRows
  <2> QED
    BY <1>1, <2>1 DEF Enqueue, Outside
<1>2. ASSUME NEW j \in Jobs, Cancel(j) PROVE Outside
  BY <1>0, <1>2 DEF Cancel, SetRow, CancelledRow, JobRow, Outside
<1>3. ASSUME NEW j \in Jobs, Requeue(j) PROVE Outside
  BY <1>0, <1>3 DEF Requeue, SetRow, JobRow, Outside
<1>4. ASSUME NEW s \in Slots, CrashedOut(s) PROVE Quiet(s)
  BY <1>4, FailingGoesOn DEF CrashedOut, Quiet
<1>5. ASSUME NEW s \in Slots, CheckLease(s) \/ Extend(s) \/ Execute(s)
      PROVE  Quiet(s) \/ Extends(s)
  <2>1. CASE Execute(s)
    BY <2>1, ExecuteGoesOn DEF Quiet, Execute
  <2> QED
    BY <1>5, <2>1, CheckQuiet, ExtendMoves
<1>6. ASSUME NEW s \in Slots, ExtendFails(s) PROVE Quiet(s) \/ Extends(s)
  <2>1. /\ slot'[s].pc = "idle" /\ ~slot'[s].gone /\ OthersKept(s) /\ GoesOn(s)
        /\ slot[s].pc # "idle" /\ clock' = clock
    BY <1>6, IdleGone DEF ExtendFails
  <2>2. /\ slot[s].read \in Nat /\ slot[s].read <= clock
        /\ slot[s].lease < slot[s].read + Lease
    BY <1>0, <1>6 DEF ExtendFails, TypeInv, Readings, Reading, Slot
  <2> QED
    BY <1>6, <2>1, <2>2 DEF ExtendFails, Quiet, Extends
<1>7. ASSUME NEW s \in Slots, Heartbeat(s) PROVE Quiet(s) \/ Extends(s)
  <2>1. /\ slot[s].pc = "running" /\ clock' = clock /\ slot[s].lease < clock + Lease
        /\ ~slot[s].gone /\ slot[s].job \in LongRunning
    BY <1>7 DEF Heartbeat, Elapsed
  <2>2. CASE Fenced(s)
    <3>1. /\ OthersKept(s) /\ slot'[s].pc = "running" /\ slot'[s].job = slot[s].job
          /\ slot'[s].attempts = slot[s].attempts /\ slot'[s].reclaimed = slot[s].reclaimed
          /\ slot'[s].until = slot[s].until /\ slot'[s].gone = slot[s].gone
          /\ slot'[s].late = slot[s].late
          /\ slot'[s].lease \in {slot[s].lease, clock + Lease}
      BY <1>0, <1>7, <2>1, <2>2 DEF Heartbeat, SetSlot, OthersKept, Slot
    <3>2. SetRow(slot[s].job, ExtendedRow(slot[s].job, clock)) /\ clock <= clock
      BY <1>0, <1>7, <2>2 DEF Heartbeat
    <3>3. GoesOn(s)
      BY <2>1, <3>1 DEF GoesOn
    <3> QED
      BY <1>0, <2>1, <2>2, <3>1, <3>2, <3>3 DEF Extends
  <2>3. CASE ~Fenced(s)
    <3>1. /\ OthersKept(s) /\ slot'[s].pc = "running" /\ slot'[s].job = slot[s].job
          /\ slot'[s].attempts = slot[s].attempts /\ slot'[s].reclaimed = slot[s].reclaimed
          /\ slot'[s].until = slot[s].until /\ slot'[s].late = slot[s].late
          /\ slot'[s].lease = slot[s].lease
      BY <1>0, <1>7, <2>1, <2>3 DEF Heartbeat, SetSlot, OthersKept, Slot
    <3>2. job' = job
      BY <1>7, <2>3 DEF Heartbeat
    <3> QED
      BY <2>1, <2>3, <3>1, <3>2 DEF Quiet, GoesOn
  <2> QED
    BY <2>2, <2>3
<1>8. ASSUME NEW s \in Slots, Settle(s) \/ SettleDetached(s) PROVE Ends(s)
  <2>1. slot[s].pc # "idle" /\ slot[s].job \in Jobs /\ Fenced(s) /\ clock' = clock
    BY <1>0, <1>8 DEF Settle, SettleDetached, Placed
  <2>2. PICK row \in Outcomes(slot[s].job) : SetRow(slot[s].job, row)
    BY <1>8 DEF Settle, SettleDetached
  <2>3. /\ row \in JobRow /\ row.state \notin {"RUNNING", "ABSENT"}
        /\ row.state = "PENDING" => row.attempts = 0
    BY <2>1, OutcomeStates, OutcomeAttempts
  <2>4. LetGo(s) \/ Failing(s, "transient")
    BY <1>8 DEF Settle, SettleDetached
  <2>5. /\ slot'[s].pc \in {"idle", "failing"} /\ OthersKept(s) /\ GoesOn(s)
        /\ slot'[s].gone => slot'[s].pc # "idle" /\ slot[s].gone
        /\ slot'[s].pc # "idle" => slot'[s].lease = slot[s].lease
    BY <2>1, <2>4, IdleGone, FailingGoesOn
  <2> QED
    BY <2>1, <2>2, <2>3, <2>5 DEF Ends
<1>9. ASSUME NEW s \in Slots, Effect(s) PROVE Quiet(s)
  <2>1. /\ OthersKept(s) /\ slot'[s].pc = "recording" /\ slot'[s].job = slot[s].job
        /\ slot'[s].attempts = slot[s].attempts /\ slot'[s].reclaimed = slot[s].reclaimed
        /\ slot'[s].lease = slot[s].lease /\ slot'[s].gone = slot[s].gone
        /\ slot[s].pc = "running"
    BY <1>0, <1>9 DEF Effect, SetSlot, OthersKept, Slot
  <2> QED
    BY <1>9, <2>1 DEF Effect, Quiet, GoesOn
<1>10. ASSUME NEW s \in Slots, LeaseLost(s) \/ FailUnrecorded(s) \/ Crash(s)
       PROVE  Quiet(s)
  BY <1>10, IdleGone DEF LeaseLost, FailUnrecorded, Crash, Quiet
<1>11. ASSUME NEW s \in Slots, RunFails(s) PROVE Quiet(s)
  BY <1>11, IdleGone, FailingGoesOn DEF RunFails, Quiet
<1>12. ASSUME NEW s \in Slots, Fail(s) PROVE Ends(s)
  <2>1. slot[s].pc # "idle" /\ slot[s].job \in Jobs /\ Fenced(s) /\ clock' = clock
    BY <1>0, <1>12 DEF Fail, Placed
  <2>2. PICK row \in FailureRows(s) : SetRow(slot[s].job, row)
    BY <1>12 DEF Fail
  <2>3. /\ row \in JobRow /\ row.state \notin {"RUNNING", "ABSENT"}
        /\ row.state = "PENDING" =>
              \/ row.attempts = 0
              \/ ~LastAttempt(s) /\ row.attempts = job[slot[s].job].attempts
    BY <2>1, FailureStates, FailureAttempts
  <2>4. slot'[s].pc = "idle" /\ ~slot'[s].gone /\ OthersKept(s) /\ GoesOn(s)
    BY <1>12, IdleGone DEF Fail
  <2> QED
    BY <2>1, <2>2, <2>3, <2>4 DEF Ends
<1>13. ASSUME NEW c \in Schedulers, ReviveDeadDuties(c) PROVE Outside
  BY <1>0, <1>13 DEF ReviveDeadDuties, Revivable, RevivedRow, JobRow, Outside
<1>14. ASSUME NEW c \in Schedulers, PurgeDelete(c) PROVE Outside
  BY <1>14 DEF PurgeDelete, NoRow, Outside
<1>15. ASSUME NEW c \in Schedulers, ReviveFails(c) \/ PurgeSelect(c) PROVE Outside
  BY <1>15 DEF ReviveFails, PurgeSelect, Outside
<1>16. ASSUME Tick \/ UNCHANGED vars PROVE Outside
  BY <1>16 DEF Tick, vars, Outside
<1> QED
  BY <1>1, <1>2, <1>3, <1>4, <1>5, <1>6, <1>7, <1>8, <1>9, <1>10, <1>11, <1>12,
     <1>13, <1>14, <1>15, <1>16 DEF Next, JobStep, SlotStep, SchedulerStep

(* A claim only meets older leases, so a slot that carries its lease on    *)
(* and is fenced after a step was fenced before it, on the same row.       *)
LEMMA ClaimMeetsOlder ==
    ASSUME TypeInv, FenceInv, NEW s \in Slots, NEW k \in Jobs, Claim(s, k)
    PROVE  \A t \in Slots :
              slot[t].pc # "idle" /\ slot[t].job = k => slot[t].lease < clock + Lease
<1>1. /\ clock \in Nat /\ Lease \in Nat /\ job[k].lease \in Nat
      /\ \A t \in Slots : slot[t].lease \in Nat
  BY ConstantsAssumption DEF TypeInv, TypeOK, JobRow, Slot
<1> QED
  BY <1>1 DEF Claim, Due, FenceInv, Behind

LEMMA ClaimWrites ==
    ASSUME TypeInv, NEW s \in Slots, NEW k \in Jobs, Claim(s, k)
    PROVE  /\ \A j \in Jobs \ {k} : job'[j] = job[j]
           /\ job'[k].lease = clock + Lease /\ job'[k].state = "RUNNING"
           /\ job'[k].attempts = job[k].attempts + 1
           /\ clock' = clock /\ slot[s].pc = "idle" /\ OthersKept(s)
           /\ slot'[s].pc = "claimed" /\ slot'[s].job = k
           /\ slot'[s].lease = clock + Lease /\ ~slot'[s].gone
           /\ slot'[s].attempts = job[k].attempts + 1
           /\ slot'[s].reclaimed <=> job[k].state = "RUNNING"
<1>0. job \in [Jobs -> JobRow] /\ slot \in [Slots -> Slot]
  BY DEF TypeInv, TypeOK
<1>1. /\ \A j \in Jobs \ {k} : job'[j] = job[j]
      /\ job'[k].lease = clock + Lease /\ job'[k].state = "RUNNING"
      /\ job'[k].attempts = job[k].attempts + 1
  BY <1>0 DEF Claim, SetRow, JobRow
<1>2. /\ clock' = clock /\ slot[s].pc = "idle" /\ OthersKept(s)
      /\ slot'[s].pc = "claimed" /\ slot'[s].job = k
      /\ slot'[s].lease = clock + Lease /\ ~slot'[s].gone
      /\ slot'[s].attempts = job[k].attempts + 1
      /\ slot'[s].reclaimed <=> job[k].state = "RUNNING"
  BY <1>0 DEF Claim, SetSlot, OthersKept, Slot, IdleSlot
<1> QED
  BY <1>1, <1>2

LEMMA ExtendWrites ==
    ASSUME TypeInv, NEW s \in Slots, Extends(s)
    PROVE  LET k == slot[s].job
           IN  /\ k \in Jobs
               /\ \A j \in Jobs \ {k} : job'[j] = job[j]
               /\ job'[k].lease > slot[s].lease /\ job'[k].state = "RUNNING"
               /\ job'[k].attempts = job[k].attempts
               /\ slot'[s].pc = "leased" =>
                     /\ job'[k].lease = slot'[s].lease
                     /\ slot'[s].lease = slot'[s].read + Lease
<1> DEFINE k == slot[s].job
<1>1. k \in Jobs /\ job \in [Jobs -> JobRow] /\ slot[s].lease \in Nat /\ Lease \in Nat
  BY ConstantsAssumption DEF Extends, TypeInv, TypeOK, Placed, Slot
<1>2. PICK at \in Nat :
          /\ slot[s].lease < at + Lease
          /\ SetRow(k, ExtendedRow(k, at))
          /\ slot'[s].pc = "leased" => slot'[s].lease = at + Lease /\ slot'[s].read = at
  BY DEF Extends
<1>3. /\ \A j \in Jobs \ {k} : job'[j] = job[j]
      /\ job'[k].lease = at + Lease /\ job'[k].state = job[k].state
      /\ job'[k].attempts = job[k].attempts
  BY <1>1, <1>2 DEF SetRow, ExtendedRow, JobRow
<1> QED
  BY <1>1, <1>2, <1>3 DEF Extends, Fenced

LEMMA NotRegained ==
    ASSUME TypeInv, FenceInv, [Next]_vars, NEW s \in Slots,
           slot[s].pc # "idle", slot'[s].pc # "idle",
           slot'[s].job = slot[s].job, slot'[s].lease = slot[s].lease,
           Fenced(s)'
    PROVE  Fenced(s) /\ job'[slot[s].job] = job[slot[s].job]
<1> DEFINE k == slot[s].job
<1>1. /\ k \in Jobs /\ clock \in Nat /\ Lease \in Nat
      /\ \A j \in Jobs : job[j].lease \in Nat
      /\ \A t \in Slots : slot[t].lease \in Nat /\ (slot[t].pc # "idle" => slot[t].job \in Jobs)
  BY ConstantsAssumption DEF TypeInv, TypeOK, Placed, JobRow, Slot
<1>2. job'[k].state = "RUNNING" /\ job'[k].lease = slot[s].lease
  BY DEF Fenced
<1>3. SUFFICES job'[k] = job[k]
  BY <1>2 DEF Fenced
<1>4. CASE Outside
  BY <1>1, <1>2, <1>4 DEF Outside
<1>5. ASSUME NEW t \in Slots, NEW j \in Jobs, Claim(t, j) PROVE job'[k] = job[k]
  BY <1>1, <1>2, <1>5, ClaimMeetsOlder, ClaimWrites
<1>6. ASSUME NEW t \in Slots, Quiet(t) PROVE job'[k] = job[k]
  BY <1>6 DEF Quiet
<1>7. ASSUME NEW t \in Slots, Extends(t) PROVE job'[k] = job[k]
  <2>1. CASE k # slot[t].job
    BY <1>1, <1>7, <2>1, ExtendWrites
  <2>2. CASE k = slot[t].job
    <3>1. job[k].state = "RUNNING" /\ job[k].lease = slot[t].lease
      BY <1>7, <2>2 DEF Extends, Fenced
    <3>2. slot[s].lease <= job[k].lease
      BY <3>1 DEF FenceInv, Behind
    <3> QED
      BY <1>1, <1>2, <1>7, <2>2, <3>1, <3>2, ExtendWrites
  <2> QED
    BY <2>1, <2>2
<1>8. ASSUME NEW t \in Slots, Ends(t) PROVE job'[k] = job[k]
  <2>1. PICK row \in JobRow : SetRow(slot[t].job, row) /\ row.state # "RUNNING"
    BY <1>8 DEF Ends
  <2> QED
    BY <1>1, <1>2, <2>1 DEF SetRow, TypeInv, TypeOK
<1> QED
  BY <1>4, <1>5, <1>6, <1>7, <1>8, Shapes

-----------------------------------------------------------------------------
(* A refused beat is final.  The slots that carry the mark carry a job.    *)

GoneInv == \A s \in Slots : slot[s].gone => slot[s].pc # "idle" /\ ~Fenced(s)

LEMMA GoneNext == TypeInv /\ FenceInv /\ GoneInv /\ [Next]_vars => GoneInv'
<1> SUFFICES ASSUME TypeInv, FenceInv, GoneInv, [Next]_vars, NEW s \in Slots, slot'[s].gone
             PROVE  slot'[s].pc # "idle" /\ ~Fenced(s)'
  BY DEF GoneInv
<1> DEFINE Lost ==
        /\ slot'[s].pc # "idle" /\ slot[s].pc # "idle" /\ ~Fenced(s)
        /\ slot'[s].job = slot[s].job /\ slot'[s].lease = slot[s].lease
<1>1. Lost
  <2>1. CASE slot'[s] = slot[s]
    BY <2>1 DEF GoneInv
  <2>2. ASSUME NEW j \in Jobs, Claim(s, j) PROVE FALSE
    BY <2>2, ClaimWrites
  <2>3. ASSUME Quiet(s) PROVE Lost
    BY <2>3 DEF Quiet, GoesOn, GoneInv
  <2>4. ASSUME Extends(s) \/ Ends(s) PROVE FALSE
    BY <2>4 DEF Extends, Ends, GoneInv
  <2>5. ASSUME NEW t \in Slots, t # s,
               (\E j \in Jobs : Claim(t, j)) \/ Quiet(t) \/ Extends(t) \/ Ends(t)
        PROVE  slot'[s] = slot[s]
    BY <2>5, ClaimWrites DEF Quiet, Extends, Ends, OthersKept
  <2>6. Outside => slot'[s] = slot[s]
    BY DEF Outside
  <2> QED
    BY <2>1, <2>2, <2>3, <2>4, <2>5, <2>6, Shapes
<1> QED
  BY <1>1, NotRegained

(* A pass whose beat the fence refused never gets its job back, so what it *)
(* still commits is never recorded as the attempt's outcome                *)
(* (Runner.keepLeased).                                                    *)
THEOREM GoneStaysGone == Spec => []GoneForGood
<1>1. Init => GoneInv
  BY DEF Init, GoneInv, IdleSlot
<1>2. GoneInv => GoneForGood
  BY DEF GoneInv, GoneForGood
<1> QED
  BY <1>1, <1>2, GoneNext, TypeInvariant, FenceInvariant, PTL DEF Spec

-----------------------------------------------------------------------------
(* The budget.  What a slot was told of the attempts is what the row says  *)
(* for as long as it may write it, and a fresh claim has not overdrawn.    *)

BudgetInv ==
    /\ \A s \in Slots : Holds(s) => job[slot[s].job].attempts = slot[s].attempts
    /\ \A s \in Slots :
          slot[s].pc = "claimed" /\ ~slot[s].reclaimed => slot[s].attempts <= MaxAttempts
    /\ \A s \in Slots :
          slot[s].pc \in {"extending", "leased"} => slot[s].attempts <= MaxAttempts
    /\ WithinBudget

LEMMA BudgetNext == TypeInv /\ FenceInv /\ BudgetInv /\ [Next]_vars => BudgetInv'
<1> SUFFICES ASSUME TypeInv, FenceInv, BudgetInv, [Next]_vars PROVE BudgetInv'
  OBVIOUS
<1>0. /\ MaxAttempts \in Nat \ {0} /\ clock \in Nat /\ Lease \in Nat
      /\ job \in [Jobs -> JobRow]
      /\ \A j \in Jobs : job[j].attempts \in Nat /\ job[j].lease \in Nat
      /\ \A t \in Slots : /\ slot[t].attempts \in Nat /\ slot[t].lease \in Nat
                          /\ slot[t].pc # "idle" => slot[t].job \in Jobs
  BY ConstantsAssumption DEF TypeInv, TypeOK, Placed, JobRow, Slot
<1> DEFINE Told(s) == Holds(s) => job[slot[s].job].attempts = slot[s].attempts
           Fresh(s) == slot[s].pc = "claimed" /\ ~slot[s].reclaimed =>
                          slot[s].attempts <= MaxAttempts
           Run(s) == slot[s].pc \in {"extending", "leased", "running", "recording"} =>
                          slot[s].attempts <= MaxAttempts
           Left(j) == job[j].state = "PENDING" => job[j].attempts < MaxAttempts
<1>1. ASSUME NEW s \in Slots, slot'[s] = slot[s]
      PROVE  Told(s)' /\ Fresh(s)' /\ Run(s)'
  BY <1>1, NotRegained DEF BudgetInv, WithinBudget, Holds
<1>2. ASSUME Outside PROVE \A j \in Jobs : Left(j)'
  BY <1>0, <1>2 DEF Outside, BudgetInv, WithinBudget
<1>3. ASSUME NEW s \in Slots, NEW j \in Jobs, Claim(s, j)
      PROVE  /\ Told(s)' /\ Fresh(s)' /\ Run(s)' /\ OthersKept(s)
             /\ \A i \in Jobs : Left(i)'
  <2>1. job[j].state \in {"PENDING", "RUNNING"}
    BY <1>3 DEF Claim, Due
  <2>2. Told(s)' /\ OthersKept(s) /\ Run(s)'
    BY <1>3, ClaimWrites DEF Holds
  <2>3. Fresh(s)'
    BY <1>0, <1>3, <2>1, ClaimWrites DEF BudgetInv, WithinBudget
  <2>4. \A i \in Jobs : Left(i)'
    BY <1>3, ClaimWrites DEF BudgetInv, WithinBudget
  <2> QED
    BY <2>2, <2>3, <2>4
<1>4. ASSUME NEW s \in Slots, GoesOn(s) PROVE Fresh(s)' /\ Run(s)'
  BY <1>0, <1>4 DEF GoesOn, Startable, BudgetInv, WithinBudget
<1>5. ASSUME NEW s \in Slots, Quiet(s)
      PROVE  /\ Told(s)' /\ Fresh(s)' /\ Run(s)' /\ OthersKept(s)
             /\ \A i \in Jobs : Left(i)'
  BY <1>4, <1>5, NotRegained DEF Quiet, GoesOn, Holds, BudgetInv, WithinBudget
<1>6. ASSUME NEW s \in Slots, Extends(s)
      PROVE  /\ Told(s)' /\ Fresh(s)' /\ Run(s)' /\ OthersKept(s)
             /\ \A i \in Jobs : Left(i)'
  <2>1. Fresh(s)' /\ Run(s)' /\ OthersKept(s)
    BY <1>4, <1>6 DEF Extends
  <2>2. Told(s)'
    BY <1>6, ExtendWrites DEF Extends, GoesOn, Holds, BudgetInv
  <2>3. \A i \in Jobs : Left(i)'
    BY <1>6, ExtendWrites DEF BudgetInv, WithinBudget
  <2> QED
    BY <2>1, <2>2, <2>3
<1>7. ASSUME NEW s \in Slots, Ends(s)
      PROVE  /\ Told(s)' /\ Fresh(s)' /\ Run(s)' /\ OthersKept(s)
             /\ \A i \in Jobs : Left(i)'
  <2>1. Fresh(s)' /\ Run(s)' /\ OthersKept(s)
    BY <1>4, <1>7 DEF Ends
  <2>2. Told(s)'
    BY <1>7, NotRegained DEF Ends, GoesOn, Holds, BudgetInv
  <2>3. PICK row \in JobRow :
          /\ SetRow(slot[s].job, row)
          /\ row.state = "PENDING" =>
                \/ row.attempts = 0
                \/ ~LastAttempt(s) /\ row.attempts = job[slot[s].job].attempts
    BY <1>7 DEF Ends
  <2>4. job[slot[s].job].attempts = slot[s].attempts /\ slot[s].job \in Jobs
    BY <1>0, <1>7 DEF Ends, Holds, BudgetInv
  <2>5. \A i \in Jobs : Left(i)'
    BY <1>0, <2>3, <2>4 DEF SetRow, LastAttempt, BudgetInv, WithinBudget
  <2> QED
    BY <2>1, <2>2, <2>5
<1> DEFINE Kept == /\ \A s \in Slots : Told(s)' /\ Fresh(s)' /\ Run(s)'
                   /\ \A j \in Jobs : Left(j)'
<1>8. Kept
  <2>1. CASE Outside
    BY <1>1, <1>2, <2>1 DEF Outside
  <2>2. ASSUME NEW s \in Slots, NEW j \in Jobs, Claim(s, j) PROVE Kept
    BY <1>1, <1>3, <2>2 DEF OthersKept
  <2>3. ASSUME NEW s \in Slots, Quiet(s) \/ Extends(s) \/ Ends(s) PROVE Kept
    BY <1>1, <1>5, <1>6, <1>7, <2>3 DEF OthersKept
  <2> QED
    BY <2>1, <2>2, <2>3, Shapes
<1> QED
  BY <1>8 DEF BudgetInv, WithinBudget

(* Failures and crashes spend one budget: a handler never runs beyond it,  *)
(* and a waiting job has an attempt left (Runner.crashedOut, Runner.fail). *)
THEOREM BudgetIsKept == Spec => []WithinBudget
<1>1. Init => BudgetInv
  BY ConstantsAssumption DEF Init, BudgetInv, WithinBudget, Holds, IdleSlot, NoRow
<1>2. BudgetInv => WithinBudget
  BY DEF BudgetInv
<1> QED
  BY <1>1, <1>2, BudgetNext, TypeInvariant, FenceInvariant, PTL DEF Spec

-----------------------------------------------------------------------------
(* No overlap.  A slot whose lease has not run out, and which has not left *)
(* its handler, holds the job's row, unless the job was cancelled or       *)
(* purged under it: then nobody holds the row, and nobody can take it      *)
(* again.  A deadline counted from the reading that was checked lies       *)
(* within its lease.                                                       *)

InLease(s) ==
    /\ slot[s].pc \in {"claimed", "extending", "leased", "running"}
    /\ slot[s].job \notin LongRunning
    /\ clock <= slot[s].lease

OverlapInv ==
    /\ \A s \in Slots :
          slot[s].pc = "leased" => slot[s].read + JobTimeout < slot[s].lease
    /\ \A s \in Slots :
          slot[s].pc = "running" /\ slot[s].job \notin LongRunning =>
              slot[s].late \/ slot[s].until < slot[s].lease
    /\ \A s \in Slots :
          InLease(s) => Fenced(s) \/ job[slot[s].job].state \in {"CANCELLED", "GONE"}
    /\ \A s, t \in Slots :
          InLease(s) /\ InLease(t) /\ slot[s].job = slot[t].job => s = t

(* A cancelled or purged row is never RUNNING or PENDING again.            *)
LEMMA OverStaysOver ==
    ASSUME TypeInv, [Next]_vars, NEW j \in Jobs, job[j].state \in {"CANCELLED", "GONE"}
    PROVE  job'[j].state \in {"CANCELLED", "GONE"}
  BY RowSteps DEF Same, Moves, Applies, Works, Records

(* What a slot in its lease after a step was before it: in its lease, with *)
(* the same lease; or it claims or extends in this step.                   *)
LEMMA InLeaseSteps ==
    ASSUME TypeInv, [Next]_vars, NEW s \in Slots, InLease(s)'
    PROVE  \/ /\ InLease(s) /\ slot'[s].job = slot[s].job /\ slot'[s].lease = slot[s].lease
              /\ ~Extends(s) /\ ~Ends(s)
           \/ \E j \in Jobs : Claim(s, j)
           \/ Extends(s) /\ slot'[s].job = slot[s].job /\ slot'[s].pc = "leased"
<1>1. /\ clock \in Nat /\ Lease \in Nat
      /\ slot[s].lease \in Nat
  BY ConstantsAssumption DEF TypeInv, TypeOK, Slot
<1>2. CASE Extends(s)
  BY <1>2 DEF Extends, GoesOn, InLease
<1>3. CASE Ends(s)
  BY <1>3 DEF Ends, InLease
<1>4. CASE Quiet(s) /\ ~Extends(s) /\ ~Ends(s)
  BY <1>4 DEF Quiet, GoesOn, InLease, Startable
<1>5. CASE slot'[s] = slot[s] /\ clock' \in {clock, clock + 1} /\ ~Extends(s) /\ ~Ends(s)
  BY <1>1, <1>5 DEF InLease
<1>6. ASSUME NEW t \in Slots, t # s,
             (\E j \in Jobs : Claim(t, j)) \/ Quiet(t) \/ Extends(t) \/ Ends(t)
      PROVE  slot'[s] = slot[s] /\ clock' = clock
  BY <1>6, ClaimWrites DEF Quiet, Extends, Ends, OthersKept
<1> QED
  BY <1>2, <1>3, <1>4, <1>5, <1>6, Shapes DEF Outside

LEMMA OverlapNext == TypeInv /\ FenceInv /\ OverlapInv /\ [Next]_vars => OverlapInv'
<1> SUFFICES ASSUME TypeInv, FenceInv, OverlapInv, [Next]_vars PROVE OverlapInv'
  OBVIOUS
<1>0. /\ clock \in Nat /\ Lease \in Nat /\ JobTimeout \in Nat /\ JobTimeout < Lease
      /\ job \in [Jobs -> JobRow]
      /\ \A j \in Jobs : job[j].lease \in Nat
      /\ \A t \in Slots : /\ slot[t].lease \in Nat
                          /\ slot[t].pc # "idle" => slot[t].job \in Jobs
  BY ConstantsAssumption DEF TypeInv, TypeOK, Placed, JobRow, Slot
<1>1. ASSUME NEW s \in Slots
      PROVE  /\ slot'[s].pc = "leased" => slot'[s].read + JobTimeout < slot'[s].lease
             /\ slot'[s].pc = "running" /\ slot'[s].job \notin LongRunning =>
                   slot'[s].late \/ slot'[s].until < slot'[s].lease
  <2> DEFINE Kept == /\ slot'[s].pc = "leased" => slot'[s].read + JobTimeout < slot'[s].lease
                     /\ slot'[s].pc = "running" /\ slot'[s].job \notin LongRunning =>
                           slot'[s].late \/ slot'[s].until < slot'[s].lease
  <2>1. CASE slot'[s] = slot[s]
    BY <1>1, <2>1 DEF OverlapInv
  <2>2. CASE Quiet(s)
    <3>1. slot'[s].pc = "leased" => slot'[s].read + JobTimeout < slot'[s].lease
      BY <1>0, <2>2 DEF Quiet, LeaseCovers
    <3>2. ASSUME slot'[s].pc = "running", slot'[s].job \notin LongRunning
          PROVE  slot'[s].late \/ slot'[s].until < slot'[s].lease
      <4>1. slot'[s].job = slot[s].job /\ slot'[s].lease = slot[s].lease
        BY <2>2, <3>2 DEF Quiet, GoesOn
      <4>2. CASE /\ slot[s].pc = "running"
                 /\ slot'[s].until = slot[s].until /\ slot'[s].late = slot[s].late
        BY <3>2, <4>1, <4>2 DEF OverlapInv
      <4>3. CASE /\ slot[s].pc = "leased"
                 /\ slot'[s].until = clock + Budget(slot[s].job)
                 /\ slot'[s].late = (slot[s].read < clock)
        <5>1. Budget(slot[s].job) = JobTimeout
          BY <3>2, <4>1 DEF Budget
        <5>2. slot[s].read \in Nat /\ slot[s].read + JobTimeout < slot[s].lease
          BY <4>3 DEF OverlapInv, TypeInv, TypeOK, Slot
        <5>3. CASE slot[s].read < clock
          BY <4>3, <5>3
        <5>4. CASE ~(slot[s].read < clock)
          BY <1>0, <4>1, <4>3, <5>1, <5>2, <5>4
        <5> QED
          BY <5>3, <5>4
      <4> QED
        BY <2>2, <3>2, <4>2, <4>3 DEF Quiet, GoesOn
    <3> QED
      BY <3>1, <3>2
  <2>3. CASE Extends(s)
    <3>1. slot'[s].pc = "leased" => slot'[s].lease = slot'[s].read + Lease
      BY <2>3, ExtendWrites
    <3>2. slot'[s].pc = "running" => slot'[s].job \in LongRunning
      BY <2>3 DEF Extends, GoesOn
    <3>3. slot'[s].pc = "leased" => slot'[s].read \in Nat
      BY <2>3 DEF Extends
    <3> QED
      BY <1>0, <3>1, <3>2, <3>3
  <2>4. ASSUME NEW t \in Slots, t # s,
               (\E j \in Jobs : Claim(t, j)) \/ Quiet(t) \/ Extends(t) \/ Ends(t)
        PROVE  slot'[s] = slot[s]
    BY <2>4, ClaimWrites DEF Quiet, Extends, Ends, OthersKept
  <2>5. ASSUME Ends(s) \/ \E j \in Jobs : Claim(s, j) PROVE Kept
    <3>1. slot'[s].pc \in {"idle", "failing", "claimed"}
      BY <2>5, ClaimWrites DEF Ends
    <3> QED
      BY <3>1
  <2> QED
    BY <2>1, <2>2, <2>3, <2>4, <2>5, Shapes DEF Outside
<1>2. ASSUME NEW s \in Slots, InLease(s)'
      PROVE  Fenced(s)' \/ job'[slot'[s].job].state \in {"CANCELLED", "GONE"}
  <2>1. ASSUME NEW j \in Jobs, Claim(s, j) PROVE Fenced(s)'
    BY <2>1, ClaimWrites DEF Fenced
  <2>2. CASE Extends(s) /\ slot'[s].job = slot[s].job /\ slot'[s].pc = "leased"
    BY <2>2, ExtendWrites DEF Fenced
  <2>3. CASE /\ InLease(s) /\ slot'[s].job = slot[s].job /\ slot'[s].lease = slot[s].lease
             /\ ~Extends(s) /\ ~Ends(s)
    <3> DEFINE k == slot[s].job
    <3>1. k \in Jobs
      BY <1>0, <2>3 DEF InLease
    <3>2. CASE job[k].state \in {"CANCELLED", "GONE"}
      BY <2>3, <3>1, <3>2, OverStaysOver
    <3>3. CASE Fenced(s)
      <4>1. job[k].state = "RUNNING" /\ job[k].lease = slot[s].lease /\ Holds(s)
            /\ clock <= job[k].lease
        BY <2>3, <3>3 DEF Fenced, Holds, InLease
      <4>2. SUFFICES job'[k] = job[k] \/ job'[k].state \in {"CANCELLED", "GONE"}
        BY <2>3, <4>1 DEF Fenced
      <4>3. CASE Outside
        BY <3>1, <4>1, <4>3 DEF Outside
      <4>4. ASSUME NEW t \in Slots, NEW j \in Jobs, Claim(t, j) PROVE job'[k] = job[k]
        <5>1. j # k
          BY <1>0, <3>1, <4>1, <4>4 DEF Claim, Due
        <5> QED
          BY <3>1, <4>4, <5>1, ClaimWrites
      <4>5. ASSUME NEW t \in Slots, Quiet(t) PROVE job'[k] = job[k]
        BY <4>5 DEF Quiet
      <4>6. ASSUME NEW t \in Slots, Extends(t) \/ Ends(t) PROVE job'[k] = job[k]
        <5>1. t # s /\ Holds(t)
          BY <2>3, <4>6 DEF Extends, Ends, Holds
        <5>2. slot[t].job # k
          BY <4>1, <5>1 DEF FenceInv, FenceUnique
        <5> QED
          BY <1>0, <3>1, <4>6, <5>2 DEF Extends, Ends, SetRow
      <4> QED
        BY <4>3, <4>4, <4>5, <4>6, Shapes
    <3> QED
      BY <2>3, <3>2, <3>3 DEF OverlapInv
  <2> QED
    BY <1>2, <2>1, <2>2, <2>3, InLeaseSteps
<1>3. ASSUME NEW s \in Slots, NEW t \in Slots, InLease(s)', InLease(t)',
             slot'[s].job = slot'[t].job, s # t
      PROVE  FALSE
  (* One of the two is as it was.                                          *)
  <2>1. ASSUME NEW u \in Slots, NEW v \in Slots, u # v, InLease(v),
               slot'[v] = slot[v], slot'[u].job = slot[v].job,
               \/ \E j \in Jobs : Claim(u, j)
               \/ Extends(u) /\ slot'[u].job = slot[u].job
        PROVE  FALSE
    <3> DEFINE k == slot[v].job
    <3>1. k \in Jobs /\ slot[v].pc # "idle"
      BY <1>0, <2>1 DEF InLease
    <3>2. Fenced(v) \/ job[k].state \in {"CANCELLED", "GONE"}
      BY <2>1 DEF OverlapInv
    <3>3. ASSUME NEW j \in Jobs, Claim(u, j) PROVE FALSE
      <4>1. j = k
        BY <2>1, <3>3, ClaimWrites
      <4>2. \/ job[k].state = "PENDING"
            \/ job[k].state = "RUNNING" /\ job[k].lease < clock
        BY <3>3, <4>1 DEF Claim, Due
      <4>3. job[k].state = "RUNNING" /\ job[k].lease = slot[v].lease
        BY <3>2, <4>2 DEF Fenced
      <4> QED
        BY <1>0, <2>1, <3>1, <4>2, <4>3 DEF InLease
    <3>4. CASE Extends(u) /\ slot'[u].job = slot[u].job
      <4>1. Holds(u) /\ job[k].state = "RUNNING" /\ slot[u].job = k
        BY <2>1, <3>4 DEF Extends, Holds, Fenced
      <4>2. Holds(v)
        BY <3>1, <3>2, <4>1 DEF Holds
      <4> QED
        BY <2>1, <4>1, <4>2 DEF FenceInv, FenceUnique
    <3> QED
      BY <2>1, <3>3, <3>4
  <2>2. ASSUME NEW u \in Slots, NEW v \in Slots, u # v,
               (\E j \in Jobs : Claim(u, j)) \/ Extends(u)
        PROVE  slot'[v] = slot[v] /\ clock' = clock
    BY <2>2, ClaimWrites DEF Extends, OthersKept
  <2>3. ASSUME NEW u \in Slots, NEW v \in Slots, u # v, InLease(u)', InLease(v)',
               slot'[u].job = slot'[v].job,
               (\E j \in Jobs : Claim(u, j)) \/ Extends(u)
        PROVE  FALSE
    <3>1. slot'[v] = slot[v] /\ clock' = clock
      BY <2>2, <2>3
    <3>2. InLease(v)
      BY <2>3, <3>1 DEF InLease
    <3>3. (\E j \in Jobs : Claim(u, j)) \/ (Extends(u) /\ slot'[u].job = slot[u].job)
      BY <2>3 DEF Extends, GoesOn, InLease
    <3> QED
      BY <2>1, <2>3, <3>1, <3>2, <3>3
  <2>4. CASE /\ InLease(s) /\ slot'[s].job = slot[s].job
             /\ InLease(t) /\ slot'[t].job = slot[t].job
    BY <1>3, <2>4 DEF OverlapInv
  <2> QED
    BY <1>3, <2>3, <2>4, InLeaseSteps
<1> QED
  BY <1>1, <1>2, <1>3 DEF OverlapInv

(* Two slots within their deadlines are inside the handler of one ordinary *)
(* job only if one of them was paused, after Runner.leased had checked its *)
(* lease, for longer than the lease could spare.                           *)
THEOREM NoTwoInTime == Spec => []NoOverlap
<1>1. Init => OverlapInv
  BY DEF Init, OverlapInv, InLease, IdleSlot
<1>2. TypeInv /\ OverlapInv => NoOverlap
  <2>1. TypeInv => clock \in Nat /\ \A s \in Slots : slot[s].until \in Nat /\ slot[s].lease \in Nat
    BY DEF TypeInv, TypeOK, Slot
  <2> QED
    BY <2>1 DEF OverlapInv, NoOverlap, InTime, InLease
<1> QED
  BY <1>1, <1>2, OverlapNext, TypeInvariant, FenceInvariant, PTL DEF Spec

-----------------------------------------------------------------------------
(* At least once.  A handler that returned has committed its work.         *)

WorkedInv ==
    /\ \A s \in Slots : slot[s].pc = "recording" => effects[slot[s].job] >= 1
    /\ AtLeastOnce

LEMMA EffectsGrow ==
    ASSUME TypeInv, [Next]_vars, NEW k \in Jobs, effects[k] >= 1
    PROVE  effects'[k] >= 1
<1>1. effects \in [Jobs -> 0..2] /\ effects[k] \in 0..2
  BY DEF TypeInv, TypeOK
<1>2. Counted(k)[k] >= 1
  BY <1>1 DEF Counted
<1> QED
  BY <1>1, <1>2, RowSteps DEF Same, Moves, Applies, Works, Records

(* Only Effect brings a slot to its recording.                             *)
LEMMA RecordingSteps ==
    ASSUME TypeInv, [Next]_vars, NEW s \in Slots,
           slot'[s].pc = "recording", slot[s].pc # "recording"
    PROVE  Effect(s) /\ slot'[s].job = slot[s].job
<1>0. slot \in [Slots -> Slot]
  BY DEF TypeInv, TypeOK
<1>1. slot' # slot
  OBVIOUS
<1>2. PICK t \in Slots : SlotStep(t)
  BY <1>1 DEF Next, JobStep, SchedulerStep, Enqueue, Cancel, Requeue, ReviveDeadDuties,
              ReviveFails, PurgeSelect, PurgeDelete, Tick, vars
<1>3. ASSUME NEW u \in Slots, LetGo(u) PROVE FALSE
  BY <1>0, <1>3 DEF LetGo, SetSlot, IdleSlot
<1>4. ASSUME NEW u \in Slots, NEW c, Failing(u, c) PROVE FALSE
  BY <1>0, <1>4 DEF Failing, SetSlot, Slot
<1>5. ASSUME NEW u \in Slots, CheckLease(u) \/ Extend(u) \/ Execute(u) PROVE FALSE
  <2>1. CASE CheckLease(u)
    BY <1>0, <2>1 DEF CheckLease, SetSlot, Slot
  <2>2. CASE Extend(u)
    BY <1>0, <2>2 DEF Extend, SetSlot, Slot
  <2>3. CASE Execute(u)
    BY <2>3, ExecuteGoesOn DEF OthersKept
  <2> QED
    BY <1>5, <2>1, <2>2, <2>3
<1>6. ASSUME NEW j \in Jobs, Claim(t, j) PROVE FALSE
  BY <1>6, ClaimWrites DEF OthersKept
<1>7. ~Heartbeat(t)
  BY <1>0 DEF Heartbeat, SetSlot, Slot
<1>8. Effect(t)
  BY <1>2, <1>3, <1>4, <1>5, <1>6, <1>7
     DEF SlotStep, CrashedOut, ExtendFails, Settle, SettleDetached, LeaseLost,
         RunFails, Fail, FailUnrecorded, Crash
<1> QED
  BY <1>0, <1>8 DEF Effect, SetSlot, Slot

LEMMA WorkedNext == TypeInv /\ WorkedInv /\ [Next]_vars => WorkedInv'
<1> SUFFICES ASSUME TypeInv, WorkedInv, [Next]_vars PROVE WorkedInv'
  OBVIOUS
<1>0. /\ effects \in [Jobs -> 0..2] /\ \A j \in Jobs : effects[j] \in 0..2
      /\ slot \in [Slots -> Slot] /\ Detached \subseteq Jobs
      /\ \A t \in Slots : slot[t].pc # "idle" => slot[t].job \in Jobs
  BY ConstantsAssumption DEF TypeInv, TypeOK, Placed
<1>1. \A k \in Jobs : Counted(k)[k] >= 1
  BY <1>0 DEF Counted
<1>2. ASSUME NEW s \in Slots, slot'[s].pc = "recording" PROVE effects'[slot'[s].job] >= 1
  <2>1. CASE slot[s].pc = "recording"
    <3>1. slot'[s].job = slot[s].job
      <4>1. CASE slot'[s] = slot[s]
        BY <4>1
      <4>2. ASSUME Quiet(s) \/ Extends(s) \/ Ends(s) PROVE slot'[s].job = slot[s].job
        BY <1>2, <4>2 DEF Quiet, Extends, Ends, GoesOn
      <4>3. \A j \in Jobs : ~Claim(s, j)
        BY <1>2, ClaimWrites
      <4>4. ASSUME NEW t \in Slots, t # s,
                   (\E j \in Jobs : Claim(t, j)) \/ Quiet(t) \/ Extends(t) \/ Ends(t)
            PROVE  slot'[s] = slot[s]
        BY <4>4, ClaimWrites DEF Quiet, Extends, Ends, OthersKept
      <4> QED
        BY <4>1, <4>2, <4>3, <4>4, Shapes DEF Outside
    <3> QED
      BY <1>0, <2>1, <3>1, EffectsGrow DEF WorkedInv
  <2>2. CASE slot[s].pc # "recording"
    <3>1. Effect(s) /\ slot'[s].job = slot[s].job
      BY <1>2, <2>2, RecordingSteps
    <3> QED
      BY <1>0, <1>1, <3>1 DEF Effect
  <2> QED
    BY <2>1, <2>2
<1>3. ASSUME NEW k \in Detached, job'[k].state = "SUCCEEDED" PROVE effects'[k] >= 1
  <2>1. k \in Jobs
    BY <1>0
  <2>2. CASE job[k].state = "SUCCEEDED"
    BY <2>1, <2>2, EffectsGrow DEF WorkedInv, AtLeastOnce
  <2>3. CASE job[k].state # "SUCCEEDED"
    <3>1. Applies(k) \/ Records(k)
      BY <1>3, <2>1, <2>3, RowSteps DEF Same, Moves, Works
    <3> QED
      BY <1>1, <2>1, <3>1 DEF Applies, Records, WorkedInv
  <2> QED
    BY <2>2, <2>3
<1> QED
  BY <1>2, <1>3 DEF WorkedInv, AtLeastOnce

LEMMA WorkedInvariant == Spec => []WorkedInv
<1>1. Init => WorkedInv
  BY ConstantsAssumption DEF Init, WorkedInv, AtLeastOnce, IdleSlot, NoRow
<1> QED
  BY <1>1, WorkedNext, TypeInvariant, PTL DEF Spec

(* A detached job that reads SUCCEEDED did its work at least once          *)
(* (Runner.executeDetached records after Detached.Run returned).           *)
THEOREM DetachedDidItsWork == Spec => []AtLeastOnce
<1>1. WorkedInv => AtLeastOnce
  BY DEF WorkedInv
<1> QED
  BY <1>1, WorkedInvariant, PTL
=============================================================================
