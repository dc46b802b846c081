----------------------------- MODULE SyncLedger -----------------------------
(***************************************************************************)
(* Offline synchronisation as a user sees it who makes changes on a        *)
(* device: no push, no page, no cursor.  A change waits on its device until *)
(* the server has given its verdict, the verdicts of a device come in the  *)
(* order of its changes, and the first verdict stands.  Sync implements    *)
(* this specification.                                                     *)
(***************************************************************************)
EXTENDS Naturals

CONSTANTS
    Devices,
    Ops,
    DeviceOf,   \* [Ops -> Devices]
    ItemOf,     \* what each change is about
    Writes,     \* what it asks for
    Untouched   \* what holds before any change

VARIABLES
    reading,    \* when each change was made; 0 until it is
    queue,      \* per device: the changes that wait
    verdict,    \* what became of each change
    effective,  \* the changes that the server's log holds
    repeating   \* the devices one of whose pushes met its own repeat

vars == <<reading, queue, verdict, effective, repeating>>

Verdicts == {"APPLIED", "MERGED", "REJECTED"}

Decided(m) == verdict[m] # "none"

Init ==
    /\ reading = [m \in Ops |-> 0]
    /\ queue = [d \in Devices |-> {}]
    /\ verdict = [m \in Ops |-> "none"]
    /\ effective = {}
    /\ repeating = {}

(* A change is made, later than all before it.                             *)
Make(m) ==
    /\ reading[m] = 0
    /\ \A n \in Ops : reading[n] < reading'[m]
    /\ reading' = [reading EXCEPT ![m] = reading'[m]]
    /\ queue' = [queue EXCEPT ![DeviceOf[m]] = @ \cup {m}]
    /\ UNCHANGED <<verdict, effective, repeating>>

(* What the change asks for is what held already at some time.             *)
Echo(m) ==
    \/ Writes[m] = Untouched
    \/ \E n \in effective : ItemOf[n] = ItemOf[m] /\ Writes[n] = Writes[m]

(* A verdict falls on a change that waits, after those on what its device  *)
(* did before, and what it says of the effect is so: an applied change is  *)
(* in the log, or asked for nothing new.                                   *)
Decide(m, v) ==
    /\ m \in queue[DeviceOf[m]]
    /\ ~Decided(m)
    /\ \A n \in Ops : DeviceOf[n] = DeviceOf[m] /\ reading[n] \in 1 .. reading[m] - 1
                      => Decided(n)
    /\ verdict' = [verdict EXCEPT ![m] = v]
    /\ \/ v = "APPLIED" /\ effective' = effective \cup {m}
       \/ (v = "APPLIED" => Echo(m)) /\ UNCHANGED effective
    /\ UNCHANGED <<reading, queue, repeating>>

(* A device sends a push while an earlier one is still being applied.      *)
Repeat(d) ==
    /\ repeating' = repeating \cup {d}
    /\ UNCHANGED <<reading, queue, verdict, effective>>

(* A push that met its own repeat may take effect after the verdict fell.  *)
Late(m) ==
    /\ DeviceOf[m] \in repeating
    /\ Decided(m)
    /\ effective' = effective \cup {m}
    /\ UNCHANGED <<reading, queue, verdict, repeating>>

(* The device hears of verdicts: only what was decided leaves its queue.   *)
Settle(d, changes) ==
    /\ changes \subseteq queue[d]
    /\ \A m \in changes : Decided(m)
    /\ queue' = [queue EXCEPT ![d] = @ \ changes]
    /\ UNCHANGED <<reading, verdict, effective, repeating>>

Next ==
    \/ \E m \in Ops : Make(m) \/ Late(m) \/ \E v \in Verdicts : Decide(m, v)
    \/ \E d \in Devices : Repeat(d)
    \/ \E d \in Devices, changes \in SUBSET Ops : Settle(d, changes)

Spec == Init /\ [][Next]_vars
=============================================================================
