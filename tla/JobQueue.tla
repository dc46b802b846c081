------------------------------ MODULE JobQueue ------------------------------
(***************************************************************************)
(* The PostgreSQL job queue and the runners that drain it: the table job,  *)
(* the statements of db/queries/Job.sql behind infrastructure/postgres's   *)
(* Queue, JobRepository and DeadLetterRepository, the worker's Runner, and *)
(* the scheduler's two duties on the table (revive, then purge).           *)
(*                                                                         *)
(* A slot is one execution slot of one runner.  The lease a claim writes   *)
(* is also the token that fences every later statement of that claim: a    *)
(* statement matches its row only while the row is RUNNING under exactly   *)
(* that lease.  Each action is one committed transaction (or one that did  *)
(* not commit), so the slots interleave wherever the code leaves a         *)
(* transaction.                                                            *)
(***************************************************************************)
EXTENDS Integers, FiniteSets

CONSTANTS
    Jobs,           \* job identifiers, ordered as the uuids are
    Slots,          \* execution slots, of any number of pods
    Schedulers,     \* processes inside a tick they began as the leader
    KeyOf,          \* [Jobs -> Nat]: kind and dedupe key, NoKey for none
    Handles,        \* [Slots -> SUBSET Jobs]: the kinds a slot's pod knows
    Claims,         \* [Slots -> SUBSET Jobs]: the kinds its runner claims
    Detached,       \* jobs whose handler opens its own transactions
    LongRunning,    \* detached jobs with a heartbeat on their lease
    Duties,         \* jobs whose handler is Perpetual
    Pollers,        \* jobs whose handler may ask to be repeated
    MaxAttempts,    \* job.max_attempts
    Lease,          \* Runner.Lease
    JobTimeout,     \* Runner.JobTimeout
    LongJobTimeout, \* Runner.LongJobTimeout
    Waits,          \* the delays an enqueue, a backoff or a repeat may ask for
    ReviveAfter,    \* the first wait of a dead duty (one hour)
    ReviveCap,      \* its ceiling (24 hours)
    KeepFinished,   \* FinishedJobPeriod
    MaxClock        \* bound: the clock stops here

NoJob == 0
NoKey == 0
NoTime == 0

(* KeyOf, Handles and Claims describe the deployment.  The lease outlasts  *)
(* the job (Runner.validate) and a long handler is a detached one.         *)
ASSUME ConstantsAssumption ==
    /\ Jobs \subseteq Nat \ {NoJob}
    /\ KeyOf \in [Jobs -> Nat]
    /\ Handles \in [Slots -> SUBSET Jobs]
    /\ Claims \in [Slots -> SUBSET Jobs]
    /\ LongRunning \subseteq Detached
    /\ Detached \subseteq Jobs
    /\ Duties \subseteq Pollers
    /\ Pollers \subseteq Jobs
    /\ MaxAttempts \in Nat \ {0}
    /\ Lease \in Nat
    /\ JobTimeout \in Nat \ {0}
    /\ LongJobTimeout \in Nat
    /\ JobTimeout < Lease
    /\ Waits \subseteq Nat
    /\ ReviveAfter \in Nat
    /\ ReviveCap \in Nat
    /\ KeepFinished \in Nat
    /\ MaxClock \in Nat

VARIABLES
    clock,      \* the time every process reads
    job,        \* the table
    slot,       \* what each execution slot is doing
    effects,    \* how often a job's effect was committed (0, 1, or 2 for more)
    sweep,      \* where each scheduler's hourly pass over the table is
    doomed      \* the rows its purge chose and has not deleted yet

vars == <<clock, job, slot, effects, sweep, doomed>>

-----------------------------------------------------------------------------
(* States and records.  ABSENT is a row not written yet, GONE a purged one. *)

OpenStates == {"PENDING", "RUNNING"}
Finished == {"SUCCEEDED", "FAILED", "DEAD_LETTER", "CANCELLED"}
JobStates == OpenStates \cup Finished \cup {"ABSENT", "GONE"}

JobRow == [state : JobStates, attempts : Nat, lease : Nat, runAt : Nat,
           finishedAt : Nat, revivals : Nat]

NoRow == [state |-> "ABSENT", attempts |-> 0, lease |-> NoTime, runAt |-> 0,
          finishedAt |-> NoTime, revivals |-> 0]

(* claimed: a job of the claimed batch not started yet; extending: its     *)
(* lease is too short and is being moved; leased: about to be executed;    *)
(* running: inside the handler; recording: a detached handler returned,    *)
(* its outcome is not written yet; failing: about to write the failure     *)
(* down.  read is the clock as Runner.leased read it.  late is history:    *)
(* the clock moved on between that reading and the one the handler's       *)
(* deadline is counted from.                                               *)
Slot == [pc : {"idle", "claimed", "extending", "leased", "running",
               "recording", "failing"},
         job : Jobs \cup {NoJob}, lease : Nat, attempts : Nat,
         reclaimed : BOOLEAN, read : Nat, until : Nat, late : BOOLEAN,
         gone : BOOLEAN,
         cause : {"none", "missing", "transient", "permanent"}]

IdleSlot == [pc |-> "idle", job |-> NoJob, lease |-> NoTime, attempts |-> 0,
             reclaimed |-> FALSE, read |-> NoTime, until |-> NoTime,
             late |-> FALSE, gone |-> FALSE, cause |-> "none"]

TypeOK ==
    /\ clock \in Nat
    /\ job \in [Jobs -> JobRow]
    /\ slot \in [Slots -> Slot]
    /\ effects \in [Jobs -> 0..2]
    /\ sweep \in [Schedulers -> {"rest", "purge", "delete"}]
    /\ doomed \in [Schedulers -> SUBSET Jobs]

Init ==
    /\ clock = 1
    /\ job = [j \in Jobs |-> NoRow]
    /\ slot = [s \in Slots |-> IdleSlot]
    /\ effects = [j \in Jobs |-> 0]
    /\ sweep = [c \in Schedulers |-> "rest"]
    /\ doomed = [c \in Schedulers |-> {}]

-----------------------------------------------------------------------------
(* Helpers.                                                                *)

Open(j) == job[j].state \in OpenStates

SameKey(i, j) == KeyOf[i] = KeyOf[j] /\ KeyOf[i] # NoKey

(* job_dedupe_uq: no other open row has the kind and key of j.             *)
KeyFree(j) == \A i \in Jobs : SameKey(i, j) => ~Open(i)

(* Mutant of Due: the claim forgets to ask whether the lease ran out.      *)
DueUnderLease(j) ==
    \/ job[j].state = "PENDING" /\ job[j].runAt <= clock
    \/ job[j].state = "RUNNING"

(* A row a claim may take: due, or RUNNING under a lease that ran out.     *)
Due(j) ==
    \/ job[j].state = "PENDING" /\ job[j].runAt <= clock
    \/ job[j].state = "RUNNING" /\ job[j].lease < clock

(* Mutant of Fenced: the finishing statements match by identifier alone.   *)
Unfenced(s) == TRUE

(* The predicate of every finishing statement: the row is RUNNING under    *)
(* the lease this slot carries.                                            *)
Fenced(s) ==
    LET j == slot[s].job
    IN job[j].state = "RUNNING" /\ job[j].lease = slot[s].lease

LastAttempt(s) == slot[s].attempts >= MaxAttempts

(* The clock has moved since the slot's lease was written.  The columns    *)
(* hold microseconds, and a claim, a pass and a commit take longer.        *)
Elapsed(s) == slot[s].lease < clock + Lease

SetSlot(s, with) == slot' = [slot EXCEPT ![s] = with]

LetGo(s) == SetSlot(s, IdleSlot)

Failing(s, cause) ==
    SetSlot(s, [slot[s] EXCEPT !.pc = "failing", !.cause = cause])

SetRow(j, row) == job' = [job EXCEPT ![j] = row]

Counted(j) == [effects EXCEPT ![j] = IF @ = 2 THEN 2 ELSE @ + 1]

-----------------------------------------------------------------------------
(* What the finishing statements leave in a row.                           *)

CompletedRow(row) ==
    [row EXCEPT !.state = "SUCCEEDED", !.finishedAt = clock, !.lease = NoTime]

RefusedRow(row) ==
    [row EXCEPT !.state = "FAILED", !.finishedAt = clock, !.lease = NoTime]

RepeatedRow(row, at) ==
    [row EXCEPT !.state = "PENDING", !.runAt = at, !.attempts = 0,
                !.revivals = 0, !.lease = NoTime]

RetriedRow(row, at) ==
    [row EXCEPT !.state = "PENDING", !.runAt = at, !.lease = NoTime]

(* Mutant of DeadLetterRow: a state the column's check does not know.      *)
MisspeltDeadLetterRow(row) ==
    [row EXCEPT !.state = "DEADLETTER", !.finishedAt = clock, !.lease = NoTime]

DeadLetterRow(row) ==
    [row EXCEPT !.state = "DEAD_LETTER", !.finishedAt = clock, !.lease = NoTime]

CancelledRow(row) ==
    [row EXCEPT !.state = "CANCELLED", !.finishedAt = clock, !.lease = NoTime]

(* The rows a pass that did not fail may leave: completed, refused, or, a  *)
(* poller's, due again.                                                    *)
Outcomes(j) ==
    {CompletedRow(job[j]), RefusedRow(job[j])}
      \cup {RepeatedRow(job[j], clock + d) : d \in IF j \in Pollers THEN Waits ELSE {}}

-----------------------------------------------------------------------------
(* Producers.                                                              *)

(* EnqueueJob: a new row, or, when the key has a PENDING one, that row     *)
(* pulled forward; a RUNNING one absorbs the request.                      *)
Enqueue(j, at) ==
    /\ job[j].state = "ABSENT"
    /\ \/ /\ KeyFree(j)
          /\ SetRow(j, [NoRow EXCEPT !.state = "PENDING", !.runAt = at])
       \/ \E i \in Jobs :
             /\ SameKey(i, j)
             /\ job[i].state = "PENDING"
             /\ at < job[i].runAt
             /\ SetRow(i, [job[i] EXCEPT !.runAt = at])
    /\ UNCHANGED <<clock, slot, effects, sweep, doomed>>

(* CancelJob: no lease is named, a pass under way finds out at its fence.  *)
Cancel(j) ==
    /\ Open(j)
    /\ SetRow(j, CancelledRow(job[j]))
    /\ UNCHANGED <<clock, slot, effects, sweep, doomed>>

(* RequeueDeadLetter: the operator's.                                      *)
Requeue(j) ==
    /\ job[j].state = "DEAD_LETTER"
    /\ KeyFree(j)
    /\ SetRow(j, [job[j] EXCEPT !.state = "PENDING", !.runAt = clock,
                                !.attempts = 0, !.finishedAt = NoTime,
                                !.lease = NoTime])
    /\ UNCHANGED <<clock, slot, effects, sweep, doomed>>

-----------------------------------------------------------------------------
(* A runner's slot.                                                        *)

(* Runner.claimAndRun with Queue.Claim.                                    *)
Claim(s, j) ==
    /\ slot[s].pc = "idle"
    /\ j \in Claims[s]
    /\ Due(j)
    /\ SetRow(j, [job[j] EXCEPT !.state = "RUNNING",
                                !.attempts = @ + 1,
                                !.lease = clock + Lease])
    /\ SetSlot(s, [IdleSlot EXCEPT !.pc = "claimed", !.job = j,
                                   !.lease = clock + Lease,
                                   !.attempts = job[j].attempts + 1,
                                   !.reclaimed = job[j].state = "RUNNING"])
    /\ UNCHANGED <<clock, effects, sweep, doomed>>

(* Runner.crashedOut: attempts whose workers died used the budget up.      *)
CrashedOut(s) ==
    /\ slot[s].pc = "claimed"
    /\ slot[s].reclaimed
    /\ slot[s].attempts > MaxAttempts
    /\ Failing(s, "none")
    /\ UNCHANGED <<clock, job, effects, sweep, doomed>>

(* Mutant of Startable: a job that kills its workers is run again for ever. *)
StartableForever(s) == slot[s].pc = "claimed"

Startable(s) ==
    /\ slot[s].pc = "claimed"
    /\ ~(slot[s].reclaimed /\ slot[s].attempts > MaxAttempts)

(* Mutant of LeaseCovers: a job of the batch starts on whatever is left.   *)
LeaseAssumed(s) == TRUE

LeaseCovers(s) == clock + JobTimeout < slot[s].lease

Budget(j) ==
    IF j \in LongRunning /\ LongJobTimeout > JobTimeout
    THEN LongJobTimeout ELSE JobTimeout

(* Runner.leased reads the clock: the lease covers the job's timeout from  *)
(* here, or is extended first.                                             *)
CheckLease(s) ==
    /\ Startable(s)
    /\ SetSlot(s, [slot[s] EXCEPT !.pc = IF LeaseCovers(s) THEN "leased"
                                                           ELSE "extending",
                                  !.read = clock])
    /\ UNCHANGED <<clock, job, effects, sweep, doomed>>

(* Queue.Extend, to a lease counted from the moment at.                    *)
ExtendedRow(j, at) == [job[j] EXCEPT !.lease = at + Lease]

(* The extension commits, some time after the reading it counts from.      *)
Extend(s) ==
    /\ slot[s].pc = "extending"
    /\ Fenced(s)
    /\ SetRow(slot[s].job, ExtendedRow(slot[s].job, slot[s].read))
    /\ SetSlot(s, [slot[s] EXCEPT !.pc = "leased",
                                  !.lease = slot[s].read + Lease])
    /\ UNCHANGED <<clock, effects, sweep, doomed>>

(* The extension was refused by the fence, or failed: the job is not run.  *)
(* A failed one may still have been committed.                             *)
ExtendFails(s) ==
    /\ slot[s].pc = "extending"
    /\ LetGo(s)
    /\ \/ UNCHANGED job
       \/ Fenced(s) /\ SetRow(slot[s].job, ExtendedRow(slot[s].job, slot[s].read))
    /\ UNCHANGED <<clock, effects, sweep, doomed>>

(* The first steps of Runner.execute.  The deadline is counted from a      *)
(* second reading of the clock.                                            *)
Execute(s) ==
    /\ slot[s].pc = "leased"
    /\ IF slot[s].job \in Handles[s]
       THEN SetSlot(s, [slot[s] EXCEPT !.pc = "running", !.read = NoTime,
                                       !.until = clock + Budget(slot[s].job),
                                       !.late = slot[s].read < clock])
       ELSE SetSlot(s, [slot[s] EXCEPT !.pc = "failing", !.read = NoTime,
                                       !.cause = "missing"])
    /\ UNCHANGED <<clock, job, effects, sweep, doomed>>

(* Mutant of Heartbeat: any failed beat is taken for a lost lease.         *)
HeartbeatGivesUp(s) ==
    /\ slot[s].pc = "running"
    /\ slot[s].job \in LongRunning
    /\ SetSlot(s, [slot[s] EXCEPT !.gone = TRUE])
    /\ UNCHANGED <<clock, job, effects, sweep, doomed>>

(* Runner.keepLeased, one beat that reached the database.  A beat the      *)
(* fence refused cancels the pass; one whose answer was lost leaves the    *)
(* slot with the lease it had.                                             *)
Heartbeat(s) ==
    /\ slot[s].pc = "running"
    /\ slot[s].job \in LongRunning
    /\ LongJobTimeout > JobTimeout
    /\ ~slot[s].gone
    /\ Elapsed(s)
    /\ IF Fenced(s)
       THEN /\ SetRow(slot[s].job, ExtendedRow(slot[s].job, clock))
            /\ \/ SetSlot(s, [slot[s] EXCEPT !.lease = clock + Lease])
               \/ UNCHANGED slot
       ELSE /\ SetSlot(s, [slot[s] EXCEPT !.gone = TRUE])
            /\ UNCHANGED job
    /\ UNCHANGED <<clock, effects, sweep, doomed>>

(* Runner.execute, a handler inside the runner's transaction: its effect   *)
(* and the record of it commit together.                                   *)
Settle(s) ==
    /\ slot[s].pc = "running"
    /\ slot[s].job \notin Detached
    /\ Fenced(s)
    /\ \E row \in Outcomes(slot[s].job) :
          /\ SetRow(slot[s].job, row)
          /\ effects' = IF row.state = "FAILED" THEN effects
                                                ELSE Counted(slot[s].job)
    /\ \/ LetGo(s)
       \/ Elapsed(s) /\ Failing(s, "transient") \* committed, the answer lost
    /\ UNCHANGED <<clock, sweep, doomed>>

(* Detached.Run: the handler commits its own writes before it returns.     *)
Effect(s) ==
    /\ slot[s].pc = "running"
    /\ slot[s].job \in Detached
    /\ effects' = Counted(slot[s].job)
    /\ SetSlot(s, [slot[s] EXCEPT !.pc = "recording"])
    /\ UNCHANGED <<clock, job, sweep, doomed>>

(* Mutant of SettleDetached: the outcome is recorded before the handler     *)
(* has returned.                                                           *)
SettleDetachedEarly(s) ==
    /\ slot[s].pc = "running"
    /\ Fenced(s)
    /\ \E row \in Outcomes(slot[s].job) : SetRow(slot[s].job, row)
    /\ LetGo(s)
    /\ UNCHANGED <<clock, effects, sweep, doomed>>

(* Runner.executeDetached, the transaction that records the outcome.       *)
SettleDetached(s) ==
    /\ slot[s].pc = "recording"
    /\ slot[s].job \in Detached
    /\ Fenced(s)
    /\ \E row \in Outcomes(slot[s].job) : SetRow(slot[s].job, row)
    /\ \/ LetGo(s)
       \/ Elapsed(s) /\ Failing(s, "transient")
    /\ UNCHANGED <<clock, effects, sweep, doomed>>

(* The fence answered lease_lost: nothing is applied, nothing is written.  *)
LeaseLost(s) ==
    /\ slot[s].pc \in {"running", "recording"}
    /\ slot[s].pc = "running" => slot[s].job \notin Detached
    /\ ~Fenced(s)
    /\ LetGo(s)
    /\ UNCHANGED <<clock, job, effects, sweep, doomed>>

(* The handler or the recording failed or timed out, and rolled back.      *)
RunFails(s) ==
    /\ slot[s].pc \in {"running", "recording"}
    /\ IF slot[s].gone THEN LetGo(s)
       ELSE \E cause \in {"transient", "permanent"} : Failing(s, cause)
    /\ UNCHANGED <<clock, job, effects, sweep, doomed>>

(* What Runner.fail asks the queue to write.                               *)
FailureRows(s) ==
    LET j == slot[s].job
    IN IF ~LastAttempt(s)
       THEN {RetriedRow(job[j], clock + d) : d \in Waits}
       ELSE IF j \in Duties /\ j \in Handles[s] /\ slot[s].cause = "transient"
            THEN {RepeatedRow(job[j], clock + d) : d \in Waits}
            ELSE {DeadLetterRow(job[j])}

(* Runner.fail: one attempt to write the failure down, fenced.             *)
Fail(s) ==
    /\ slot[s].pc = "failing"
    /\ Fenced(s)
    /\ \E row \in FailureRows(s) : SetRow(slot[s].job, row)
    /\ LetGo(s)
    /\ UNCHANGED <<clock, effects, sweep, doomed>>

(* The fence held it back, or the database did: the row stays as it is.    *)
FailUnrecorded(s) ==
    /\ slot[s].pc = "failing"
    /\ LetGo(s)
    /\ UNCHANGED <<clock, job, effects, sweep, doomed>>

(* The process is killed; what it had not committed never happened.        *)
Crash(s) ==
    /\ slot[s].pc # "idle"
    /\ LetGo(s)
    /\ UNCHANGED <<clock, job, effects, sweep, doomed>>

-----------------------------------------------------------------------------
(* A scheduler's hourly pass: reviveDeadDuties, then purgeFinishedJobs.    *)
(* Leadership is confirmed before the pass and not during it, so a former  *)
(* leader and its successors may be in one at the same time: no lock is    *)
(* asked for below.                                                        *)

(* How long a dead duty waits: doubled by each revival, five times at most.*)
ReviveWait(revivals) ==
    LET doublings == IF revivals > 5 THEN 5 ELSE revivals
        waited == ReviveAfter * 2 ^ doublings
    IN IF waited > ReviveCap THEN ReviveCap ELSE waited

NewerDeadLetter(i, j) ==
    /\ SameKey(i, j)
    /\ job[i].state = "DEAD_LETTER"
    /\ \/ job[i].finishedAt > job[j].finishedAt
       \/ job[i].finishedAt = job[j].finishedAt /\ i > j

(* Mutant of Revivable: every dead letter of a key, not only its newest.   *)
RevivableAll(j) ==
    /\ job[j].state = "DEAD_LETTER"
    /\ j \in Duties
    /\ job[j].finishedAt + ReviveWait(job[j].revivals) <= clock
    /\ KeyFree(j)

Revivable(j) ==
    /\ job[j].state = "DEAD_LETTER"
    /\ j \in Duties
    /\ job[j].finishedAt + ReviveWait(job[j].revivals) <= clock
    /\ KeyFree(j)
    /\ \A i \in Jobs : ~NewerDeadLetter(i, j)

RevivedRow(row) ==
    [row EXCEPT !.state = "PENDING", !.runAt = clock, !.attempts = 0,
                !.revivals = @ + 1, !.finishedAt = NoTime, !.lease = NoTime]

(* Scheduler.reviveDeadDuties.  A statement that failed is logged, and the *)
(* purge follows all the same.                                             *)
ReviveDeadDuties(c) ==
    /\ sweep[c] = "rest"
    /\ sweep' = [sweep EXCEPT ![c] = "purge"]
    /\ job' = [j \in Jobs |-> IF Revivable(j) THEN RevivedRow(job[j]) ELSE job[j]]
    /\ UNCHANGED <<clock, slot, effects, doomed>>

ReviveFails(c) ==
    /\ sweep[c] = "rest"
    /\ sweep' = [sweep EXCEPT ![c] = "purge"]
    /\ UNCHANGED <<clock, job, slot, effects, doomed>>

Purgeable(j) ==
    /\ job[j].state \in Finished
    /\ job[j].finishedAt + KeepFinished < clock

(* PurgeFinishedJobs chooses its rows in a subquery that locks none ...    *)
PurgeSelect(c) ==
    /\ sweep[c] = "purge"
    /\ LET chosen == {j \in Jobs : Purgeable(j)}
       IN  /\ doomed' = [doomed EXCEPT ![c] = chosen]
           /\ sweep' = [sweep EXCEPT ![c] = IF chosen = {} THEN "rest" ELSE "delete"]
    /\ UNCHANGED <<clock, job, slot, effects>>

(* ... and deletes by identifier: a row another transaction changed in     *)
(* between is still one of the chosen identifiers.                         *)
PurgeDelete(c) ==
    /\ sweep[c] = "delete"
    /\ job' = [j \in Jobs |-> IF j \in doomed[c]
                              THEN [NoRow EXCEPT !.state = "GONE"] ELSE job[j]]
    /\ doomed' = [doomed EXCEPT ![c] = {}]
    /\ sweep' = [sweep EXCEPT ![c] = "rest"]
    /\ UNCHANGED <<clock, slot, effects>>

-----------------------------------------------------------------------------
(* Time.  A handler may ignore its deadline (jobCtx), or its whole process *)
(* may stall, for as long as the bound lets it.                            *)
Tick ==
    /\ clock < MaxClock
    /\ clock' = clock + 1
    /\ UNCHANGED <<job, slot, effects, sweep, doomed>>

SlotStep(s) ==
    \/ \E j \in Jobs : Claim(s, j)
    \/ CrashedOut(s)
    \/ CheckLease(s)
    \/ Extend(s)
    \/ ExtendFails(s)
    \/ Execute(s)
    \/ Heartbeat(s)
    \/ Settle(s)
    \/ Effect(s)
    \/ SettleDetached(s)
    \/ LeaseLost(s)
    \/ RunFails(s)
    \/ Fail(s)
    \/ FailUnrecorded(s)
    \/ Crash(s)

SchedulerStep(c) ==
    ReviveDeadDuties(c) \/ ReviveFails(c) \/ PurgeSelect(c) \/ PurgeDelete(c)

JobStep(j) ==
    \/ \E d \in Waits : Enqueue(j, clock + d)
    \/ Cancel(j)
    \/ Requeue(j)

Next ==
    \/ \E j \in Jobs : JobStep(j)
    \/ \E s \in Slots : SlotStep(s)
    \/ \E c \in Schedulers : SchedulerStep(c)
    \/ Tick

Spec == Init /\ [][Next]_vars

-----------------------------------------------------------------------------
(* Properties.                                                             *)

(* Holds(s): slot s could still end its job's attempt.                     *)
Holds(s) == slot[s].pc # "idle" /\ Fenced(s)

(* The lease is a token: two slots never carry the lease a RUNNING row has, *)
(* so of two workers that both believe they have a job at most one can      *)
(* write its outcome (Queue.leaseHeld, Port.go on Job.Lease).               *)
FenceUnique ==
    \A s, t \in Slots :
        Holds(s) /\ Holds(t) /\ slot[s].job = slot[t].job => s = t

(* A handler inside the runner's transaction is applied exactly once or not *)
(* at all: its effect is there if and only if the job reads SUCCEEDED, past *)
(* any stall, takeover, lost commit answer, cancellation or requeue.        *)
AppliedOnce ==
    \A j \in Jobs \ (Detached \cup Pollers) :
        /\ effects[j] <= 1
        /\ job[j].state # "GONE" => (effects[j] = 1 <=> job[j].state = "SUCCEEDED")

(* A detached job that reads SUCCEEDED did its work at least once.         *)
AtLeastOnce ==
    \A j \in Detached : job[j].state = "SUCCEEDED" => effects[j] >= 1

(* job_dedupe_uq with revive and requeue: one open job per kind and key,   *)
(* so that a duty never runs as two rows.                                  *)
OneOpenPerKey ==
    \A i, j \in Jobs : SameKey(i, j) /\ Open(i) /\ Open(j) => i = j

(* A handler never runs beyond the budget: crashes spend it as failures do *)
(* (Runner.crashedOut), and a waiting job always has an attempt left.      *)
WithinBudget ==
    /\ \A s \in Slots :
          slot[s].pc \in {"running", "recording"} => slot[s].attempts <= MaxAttempts
    /\ \A j \in Jobs : job[j].state = "PENDING" => job[j].attempts < MaxAttempts

(* Runner.leased promises a handler its whole timeout of lease.  It keeps  *)
(* the promise when the deadline is counted from the reading that was      *)
(* checked; when time passed in between (an extension's transaction, a     *)
(* stalled process), as long as the pause was shorter than what the lease  *)
(* had to spare: LeaseMargin after an extension.                           *)
InTime(s) == ~slot[s].late \/ slot[s].until < slot[s].lease

(* Of two slots inside the handler of the same ordinary job, both within   *)
(* their deadlines, one was paused between Runner.leased and the handler   *)
(* for longer than its lease could spare: a batch that reaches its last    *)
(* job late, a takeover or a slow extension is not enough.                 *)
NoOverlap ==
    \A s, t \in Slots :
        /\ slot[s].pc = "running" /\ slot[t].pc = "running"
        /\ slot[s].job = slot[t].job
        /\ slot[s].job \notin LongRunning
        /\ clock <= slot[s].until /\ clock <= slot[t].until
        /\ InTime(s) /\ InTime(t)
        => s = t

(* A beat the fence refused is final: a pass the runner cancelled never    *)
(* gets its job back, so what it still commits can never be recorded as    *)
(* this attempt's outcome (Runner.keepLeased, heldJob.lost).               *)
GoneForGood == \A s \in Slots : slot[s].gone => ~Fenced(s)

(* What is finished stays finished: no late failure, retry or completion   *)
(* turns SUCCEEDED, FAILED or CANCELLED into anything else (Runner.letGo). *)
FinishedStays ==
    [][\A j \in Jobs :
          job[j].state \in {"SUCCEEDED", "FAILED", "CANCELLED"} =>
              job'[j].state \in {job[j].state, "GONE"}]_vars

(* A requeued dead letter runs again (RequeueDeadLetter): an open job is   *)
(* never deleted.                                                          *)
OpenNotPurged ==
    [][\A j \in Jobs : Open(j) => job'[j].state # "GONE"]_vars

(* What a producer sees of a row, whoever runs it and under which lease.   *)
PhaseOf(state) ==
    CASE state = "ABSENT" -> "absent"
      [] state = "PENDING" -> "waiting"
      [] state = "RUNNING" -> "underway"
      [] state = "SUCCEEDED" -> "done"
      [] state = "FAILED" -> "refused"
      [] state = "CANCELLED" -> "cancelled"
      [] state = "DEAD_LETTER" -> "dead"
      [] state = "GONE" -> "gone"

Lifecycle == INSTANCE JobLifecycle
    WITH phase <- [j \in Jobs |-> PhaseOf(job[j].state)],
         expiring <- UNION {doomed[c] : c \in Schedulers}

(* The queue with its leases, takeovers, crashes and lost answers is, to   *)
(* its producers and its operator, a job lifecycle: every step of a slot   *)
(* or of the scheduler is one step of a job's life or none                 *)
(* (Port.go on Queue, Runner.execute and Runner.fail).                     *)
IsLifecycle == Lifecycle!Spec
=============================================================================
