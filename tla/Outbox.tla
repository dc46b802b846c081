------------------------------- MODULE Outbox -------------------------------
(***************************************************************************)
(* The transactional outbox of one tenant (infrastructure/postgres/        *)
(* Outbox.go, db/queries/Outbox.sql), the dispatch job that delivers it    *)
(* (infrastructure/eventbus/OutboxBus.go) and the sweep that empties it.   *)
(*                                                                         *)
(* A round of the dispatcher is one transaction: it locks a batch of       *)
(* events, hands them over, counts what is left and repeats its job row.   *)
(* Other transactions interleave between those statements, and nothing of  *)
(* the round is seen before it commits.  The dispatch job is the newest    *)
(* row of its key, under the fence JobQueue shows to be unique: its lease  *)
(* is abstracted to the worker that carries it.                            *)
(***************************************************************************)
EXTENDS Integers, FiniteSets

CONSTANTS
    Events,         \* events of the tenant, ordered by (occurred_at, id)
    Consumers,      \* Dispatcher.Subscribers
    Wants,          \* [Consumers -> SUBSET Events]: Subscriber.Wants
    Replays,        \* events a restore wrote (envelope.Replay)
    TakesReplays,   \* consumers that asked for those
    Workers,
    Batch,          \* Dispatcher.Batch
    MaxAttempts     \* job.max_attempts

ASSUME OutboxAssumption ==
    /\ Events \subseteq Nat
    /\ Wants \in [Consumers -> SUBSET Events]
    /\ Replays \subseteq Events
    /\ TakesReplays \subseteq Consumers
    /\ Batch \in Nat \ {0}
    /\ MaxAttempts \in Nat \ {0}

Nobody == "nobody"
ASSUME NobodyAssumption == Nobody \notin Workers

VARIABLES
    event,      \* outbox_event: absent, pending, dispatched or swept
    consumed,   \* event_consumption: which consumer has a record of which event
    acted,      \* how often a consumer's reaction to an event was committed
    job,        \* the newest dispatch job of the tenant
    round,      \* per worker: the round it is in
    skipped,    \* history: waiting events that a claim passed over, locked by another
    belated,    \* history: waiting events, written when a later one was claimed
    calm        \* FALSE while something is out of order: see Trouble

vars == <<event, consumed, acted, job, round, skipped, belated, calm>>

Job == [state : {"NONE", "PENDING", "RUNNING", "DEAD_LETTER", "CANCELLED"},
        attempts : 0..(MaxAttempts + 1), holder : Workers \cup {Nobody},
        due : BOOLEAN]

(* taken: the job is claimed; claimed: the transaction holds its batch;    *)
(* handed: every subscriber accepted; counted: about to commit; failing:   *)
(* rolled back, about to write the failure down.                           *)
Round == [pc : {"idle", "taken", "claimed", "handed", "counted", "failing"},
          attempts : 0..(MaxAttempts + 1), batch : SUBSET Events,
          reactions : SUBSET (Consumers \X Events), remaining : BOOLEAN]

NoRound == [pc |-> "idle", attempts |-> 0, batch |-> {}, reactions |-> {},
            remaining |-> FALSE]

TypeOK ==
    /\ event \in [Events -> {"absent", "pending", "dispatched", "swept"}]
    /\ consumed \in SUBSET (Consumers \X Events)
    /\ acted \in [Consumers \X Events -> 0..2]
    /\ job \in Job
    /\ round \in [Workers -> Round]
    /\ skipped \in SUBSET Events
    /\ belated \in SUBSET Events
    /\ calm \in BOOLEAN

Init ==
    /\ event = [e \in Events |-> "absent"]
    /\ consumed = {}
    /\ acted = [r \in Consumers \X Events |-> 0]
    /\ job = [state |-> "NONE", attempts |-> 0, holder |-> Nobody, due |-> FALSE]
    /\ round = [w \in Workers |-> NoRound]
    /\ skipped = {}
    /\ belated = {}
    /\ calm = TRUE

-----------------------------------------------------------------------------
(* Helpers.                                                                *)

(* The subscribers Dispatcher.deliver hands an event to.                   *)
Interested(c, e) ==
    /\ e \in Wants[c]
    /\ e \in Replays => c \in TakesReplays

Pending == {e \in Events : event[e] = "pending"}

(* The rows a round's transaction has locked.                              *)
Locked(w) == round[w].batch

(* Mutant of Claimable: a plain read, that locks nothing and skips nothing. *)
ClaimableUnlocked(w) ==
    {e \in Pending : Cardinality({d \in Pending : d < e}) < Batch}

(* What a claim finds neither dispatched nor locked.                       *)
Free(w) == Pending \ UNION {Locked(v) : v \in Workers \ {w}}

(* Mutant of Claimable: the newest first.                                  *)
ClaimableNewest(w) ==
    {e \in Free(w) : Cardinality({d \in Free(w) : d > e}) < Batch}

(* ClaimPendingEvents: the oldest pending events nobody else has locked.   *)
Claimable(w) ==
    {e \in Free(w) : Cardinality({d \in Free(w) : d < e}) < Batch}

(* SKIP LOCKED: what stands before an event of the claim and is not in it. *)
Skipped(w) ==
    {d \in Pending \ Free(w) : \E e \in Claimable(w) : d < e}

(* Left already, or in the hands of a round.                               *)
Claimed(e) ==
    event[e] \in {"dispatched", "swept"} \/ \E w \in Workers : e \in Locked(w)

(* Once: what a consumer has a record of is not handed to it again.        *)
Reactions(batch) ==
    {r \in Consumers \X batch : Interested(r[1], r[2]) /\ r \notin consumed}

(* The fence of every statement that ends a round.                         *)
Fenced(w) == job.state = "RUNNING" /\ job.holder = w

(* The worker that holds the job is still working on it.                   *)
InHand == job.holder \in Workers /\ round[job.holder].pc # "idle"

Capped(n) == IF n > MaxAttempts + 1 THEN MaxAttempts + 1 ELSE n

SetRound(w, with) == round' = [round EXCEPT ![w] = with]

EndRound(w) == SetRound(w, NoRound)

(* The transaction is rolled back and its row locks with it.               *)
FailRound(w) ==
    SetRound(w, [NoRound EXCEPT !.pc = "failing", !.attempts = round[w].attempts])

Waiting(due) ==
    [state |-> "PENDING", attempts |-> 0, holder |-> Nobody, due |-> due]

-----------------------------------------------------------------------------
(* Writers.                                                                *)

(* Outbox.Append, in the transaction of the change: the event, and the     *)
(* wake-up of the dispatcher.  A RUNNING job absorbs it.  The order of the *)
(* commits is not that of occurred_at: an event of a pushed mutation has   *)
(* the device's earlier moment, any other the one its use case began at.   *)
Append(e) ==
    /\ event[e] = "absent"
    /\ event' = [event EXCEPT ![e] = "pending"]
    /\ job' = CASE job.state = "RUNNING" -> job
                [] job.state = "PENDING" -> [job EXCEPT !.due = TRUE]
                [] OTHER -> Waiting(TRUE)
    /\ belated' = IF \E d \in Events : d > e /\ Claimed(d)
                  THEN belated \cup {e} ELSE belated
    /\ UNCHANGED <<consumed, acted, round, skipped, calm>>

(* An operator requeues the dead letter, or cancels the job.               *)
Requeue ==
    /\ job.state = "DEAD_LETTER"
    /\ job' = Waiting(TRUE)
    /\ UNCHANGED <<event, consumed, acted, round, skipped, belated, calm>>

Cancel ==
    /\ job.state \in {"PENDING", "RUNNING"}
    /\ job' = [job EXCEPT !.state = "CANCELLED", !.holder = Nobody]
    /\ UNCHANGED <<event, consumed, acted, round, skipped, belated, calm>>

-----------------------------------------------------------------------------
(* A round of the dispatcher.                                              *)

(* A claim of the job: due, or left behind by a lease that ran out.  A     *)
(* round that starts past the budget only writes the dead letter.          *)
Take(w) ==
    LET attempts == Capped(job.attempts + 1)
        crashed == job.state = "RUNNING" /\ attempts > MaxAttempts
    IN /\ round[w].pc = "idle"
       /\ job.state \in {"PENDING", "RUNNING"}
       /\ job.due
       /\ job' = [state |-> "RUNNING", attempts |-> attempts, holder |-> w,
                  due |-> FALSE]
       /\ SetRound(w, [NoRound EXCEPT !.attempts = attempts,
                          !.pc = IF crashed THEN "failing" ELSE "taken"])
       /\ UNCHANGED <<event, consumed, acted, skipped, belated, calm>>

(* Dispatcher.Run: Events.Claim.                                           *)
ClaimEvents(w) ==
    /\ round[w].pc = "taken"
    /\ SetRound(w, [round[w] EXCEPT !.pc = "claimed", !.batch = Claimable(w)])
    /\ skipped' = skipped \cup Skipped(w)
    /\ UNCHANGED <<event, consumed, acted, job, belated, calm>>

(* Mutant of Deliver: the records of the consumptions commit on their own. *)
DeliverApart(w) ==
    /\ round[w].pc = "claimed"
    /\ SetRound(w, [round[w] EXCEPT !.pc = "handed",
                                    !.reactions = Reactions(round[w].batch)])
    /\ consumed' = consumed \cup Reactions(round[w].batch)
    /\ UNCHANGED <<event, acted, job, skipped, belated, calm>>

(* Dispatcher.deliver, for the whole batch.                                *)
Deliver(w) ==
    /\ round[w].pc = "claimed"
    /\ SetRound(w, [round[w] EXCEPT !.pc = "handed",
                                    !.reactions = Reactions(round[w].batch)])
    /\ UNCHANGED <<event, consumed, acted, job, skipped, belated, calm>>

(* MarkDispatched and CountPending: is anything left beside the own batch? *)
Count(w) ==
    /\ round[w].pc = "handed"
    /\ SetRound(w, [round[w] EXCEPT !.pc = "counted",
                                    !.remaining = Pending \ round[w].batch # {}])
    /\ UNCHANGED <<event, consumed, acted, job, skipped, belated, calm>>

(* Mutant of NextRound: a quiet tenant's dispatcher completes.             *)
CompleteWhenQuiet(w) ==
    IF ~round[w].remaining /\ round[w].batch = {}
    THEN [Waiting(FALSE) EXCEPT !.state = "NONE"] ELSE Waiting(round[w].remaining)

(* Dispatcher.nextRound: at once while there is a backlog, else later.     *)
NextRound(w) == Waiting(round[w].remaining)

(* The commit of the round: deliveries, marks, records and the job's       *)
(* repetition.  Its answer may be lost.                                    *)
Commit(w) ==
    /\ round[w].pc = "counted"
    /\ Fenced(w)
    /\ event' = [e \in Events |-> IF e \in round[w].batch THEN "dispatched" ELSE event[e]]
    /\ consumed' = consumed \cup round[w].reactions
    /\ acted' = [r \in Consumers \X Events |->
                    IF r \in round[w].reactions /\ acted[r] < 2
                    THEN acted[r] + 1 ELSE acted[r]]
    /\ job' = NextRound(w)
    /\ \/ EndRound(w)
       \/ ~calm /\ FailRound(w)
    /\ skipped' = skipped \ round[w].batch
    /\ belated' = belated \ round[w].batch
    /\ UNCHANGED calm

(* The fence answers lease_lost: everything is rolled back.                *)
LeaseLost(w) ==
    /\ round[w].pc = "counted"
    /\ ~Fenced(w)
    /\ EndRound(w)
    /\ UNCHANGED <<event, consumed, acted, job, skipped, belated, calm>>

(* A subscriber or a statement fails: the whole batch is left alone.       *)
RoundFails(w) ==
    /\ ~calm
    /\ round[w].pc \in {"taken", "claimed", "handed", "counted"}
    /\ FailRound(w)
    /\ UNCHANGED <<event, consumed, acted, job, skipped, belated, calm>>

(* Runner.fail: another attempt, or the dead letter.  The dispatcher is    *)
(* not a duty (queue.Perpetual) that would be held or revived.             *)
Fail(w) ==
    /\ round[w].pc = "failing"
    /\ IF Fenced(w)
       THEN job' = [job EXCEPT !.holder = Nobody, !.due = FALSE,
                       !.state = IF round[w].attempts >= MaxAttempts
                                 THEN "DEAD_LETTER" ELSE "PENDING"]
       ELSE UNCHANGED job
    /\ EndRound(w)
    /\ UNCHANGED <<event, consumed, acted, skipped, belated, calm>>

(* The process dies, or cannot write its failure down.                     *)
Crash(w) ==
    /\ ~calm
    /\ round[w].pc # "idle"
    /\ EndRound(w)
    /\ UNCHANGED <<event, consumed, acted, job, skipped, belated, calm>>

-----------------------------------------------------------------------------
(* Time and trouble.                                                       *)

(* run_at arrives, or the lease runs out.  Unless a worker stalls, it has  *)
(* ended its round by then: a job's timeout is shorter than its lease.     *)
ComeDue ==
    /\ ~job.due
    /\ \/ job.state = "PENDING"
       \/ job.state = "RUNNING" /\ (InHand => ~calm)
    /\ job' = [job EXCEPT !.due = TRUE]
    /\ UNCHANGED <<event, consumed, acted, round, skipped, belated, calm>>

(* Subscribers and statements fail, workers stall and die only in trouble. *)
Trouble ==
    /\ calm' = ~calm
    /\ UNCHANGED <<event, consumed, acted, job, round, skipped, belated>>

-----------------------------------------------------------------------------
(* The retention sweep.                                                    *)

(* Mutant of SweepEvent: age alone decides.                                *)
SweepAnyEvent(e) ==
    /\ event[e] # "absent"
    /\ event' = [event EXCEPT ![e] = "swept"]
    /\ UNCHANGED <<consumed, acted, job, round, skipped, belated, calm>>

(* DeleteDispatchedEvents.                                                 *)
SweepEvent(e) ==
    /\ event[e] = "dispatched"
    /\ event' = [event EXCEPT ![e] = "swept"]
    /\ UNCHANGED <<consumed, acted, job, round, skipped, belated, calm>>

(* DeleteExpiredConsumption: by age, whatever became of the event.         *)
SweepConsumption(r) ==
    /\ r \in consumed
    /\ consumed' = consumed \ {r}
    /\ UNCHANGED <<event, acted, job, round, skipped, belated, calm>>

-----------------------------------------------------------------------------
Dispatch(w) ==
    \/ Take(w)
    \/ ClaimEvents(w)
    \/ Deliver(w)
    \/ Count(w)
    \/ Commit(w)
    \/ LeaseLost(w)
    \/ Fail(w)

Next ==
    \/ \E e \in Events : Append(e) \/ SweepEvent(e)
    \/ \E r \in Consumers \X Events : SweepConsumption(r)
    \/ Requeue
    \/ Cancel
    \/ \E w \in Workers : Dispatch(w) \/ RoundFails(w) \/ Crash(w)
    \/ ComeDue
    \/ Trouble

Spec == Init /\ [][Next]_vars

(* Workers keep claiming and finish what they do, and time passes.  Nobody *)
(* is obliged to write, to requeue, to sweep or to end a trouble.          *)
Fairness ==
    /\ \A w \in Workers : WF_vars(Dispatch(w))
    /\ WF_vars(ComeDue)

FairSpec == Spec /\ Fairness

-----------------------------------------------------------------------------
(* Properties.                                                             *)

(* Every interested subscriber has reacted to an event exactly once when   *)
(* the event is dispatched, also after it and its records were swept, and  *)
(* nobody has reacted to an event before, or to a replay it did not ask    *)
(* for (Dispatcher.Run, eventbus.Once, DeleteDispatchedEvents).            *)
ExactlyOnce ==
    \A c \in Consumers, e \in Events :
        acted[<<c, e>>] =
            IF event[e] \in {"dispatched", "swept"} /\ Interested(c, e)
            THEN 1 ELSE 0

(* Two rounds that run at once, after a lease ran out, have no event in    *)
(* common, and every event they hold is still undelivered (FOR UPDATE SKIP *)
(* LOCKED).                                                                *)
DisjointRounds ==
    /\ \A w \in Workers : round[w].batch \subseteq Pending
    /\ \A v, w \in Workers : v # w => round[v].batch \cap round[w].batch = {}

(* The events of an aggregate are dispatched in the order of their         *)
(* occurred_at, with two exceptions: one that a claim passed over while    *)
(* another round had it locked, and one that was written when a later one  *)
(* had been claimed already (ClaimPendingEvents, Outbox.Append).  Neither  *)
(* a failed round nor a takeover alone lets an event overtake.             *)
InOrderUnlessSkipped ==
    \A d, e \in Events :
        d < e /\ event[e] \in {"dispatched", "swept"} =>
            event[d] # "pending" \/ d \in skipped \cup belated

(* No wake-up is lost: once the trouble is over every pending event is     *)
(* dispatched, unless the job was given up or cancelled.                   *)
DeliveredOrGivenUp ==
    <>[]calm =>
        \A e \in Events :
            event[e] = "pending" ~>
                (event[e] = "dispatched" \/ job.state \in {"DEAD_LETTER", "CANCELLED"})

(* "per-aggregate order is the one ordering guarantee the outbox gives"    *)
(* (Dispatcher.Run): an event is never dispatched while an earlier one of  *)
(* its aggregate waits that was there when the later one was claimed.      *)
InOrder ==
    \A d, e \in Events :
        d < e /\ event[e] \in {"dispatched", "swept"} =>
            event[d] # "pending" \/ d \in belated

-----------------------------------------------------------------------------
(* Refinement.                                                             *)

Delivery == INSTANCE EventDelivery
    WITH Audience <- [e \in Events |-> {c \in Consumers : Interested(c, e)}]

(* To writers and subscribers the dispatcher, with its rounds, retries,    *)
(* takeovers and records, delivers whole batches to their whole audience   *)
(* in single steps (Dispatcher.Run).                                       *)
IsDelivery == Delivery!Spec
=============================================================================
