---------------------------- MODULE EventDelivery ---------------------------
(***************************************************************************)
(* The outbox as those see it who write events and those who react to      *)
(* them: no job, no round, no record of a consumption.  Events leave in    *)
(* batches, and with a batch its whole audience reacts, in one step.       *)
(* Outbox implements this specification.                                   *)
(***************************************************************************)
EXTENDS Naturals

CONSTANTS
    Events,
    Consumers,
    Audience        \* [Events -> SUBSET Consumers]: who has to react

VARIABLES
    event,          \* absent, pending, dispatched or swept
    acted           \* how often a consumer reacted to an event

vars == <<event, acted>>

Init ==
    /\ event = [e \in Events |-> "absent"]
    /\ acted = [r \in Consumers \X Events |-> 0]

Append(e) ==
    /\ event[e] = "absent"
    /\ event' = [event EXCEPT ![e] = "pending"]
    /\ UNCHANGED acted

(* What leaves was waiting, and nobody of its audience had reacted.        *)
Deliver(batch) ==
    /\ \A e \in batch :
          /\ event[e] = "pending"
          /\ \A c \in Consumers : acted[<<c, e>>] = 0
    /\ event' = [e \in Events |-> IF e \in batch THEN "dispatched" ELSE event[e]]
    /\ acted' = [r \in Consumers \X Events |->
                    IF r[2] \in batch /\ r[1] \in Audience[r[2]] THEN 1 ELSE acted[r]]

Sweep(e) ==
    /\ event[e] = "dispatched"
    /\ event' = [event EXCEPT ![e] = "swept"]
    /\ UNCHANGED acted

Next ==
    \/ \E e \in Events : Append(e) \/ Sweep(e)
    \/ \E batch \in SUBSET Events : Deliver(batch)

Spec == Init /\ [][Next]_vars
=============================================================================
