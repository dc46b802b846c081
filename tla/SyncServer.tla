---------------------------- MODULE SyncServer ------------------------------
(***************************************************************************)
(* The server's half of offline synchronisation: pushes being applied, the *)
(* operation log that makes a repeat exact, and the change log that every  *)
(* device reads.                                                           *)
(*                                                                         *)
(* A push is a list of field patches (ITEM_PATCH), applied in order, each  *)
(* in a transaction of its own that commits the write, the change and the  *)
(* operation's record together (PushChanges.apply).  Transactions run at   *)
(* READ COMMITTED, so every statement is an action: it sees what was       *)
(* committed when it began.  A change takes its number when it is          *)
(* inserted and is visible when its transaction commits.                   *)
(***************************************************************************)
EXTENDS Naturals, FiniteSets

CONSTANTS
    Devices,
    Items,
    Ops,        \* the mutations, by op_id
    DeviceOf,   \* [Ops -> Devices]
    ItemOf,     \* [Ops -> Items]
    Values,     \* what the field can say
    Writes,     \* [Ops -> Values]: what a mutation asks it to say
    Untouched,  \* what it says before any mutation
    Refusable,  \* the mutations that some rule of the use case may refuse
    Handlers,   \* pushes the server can be applying at once
    NoOp        \* no mutation

ASSUME SyncAssumption ==
    /\ DeviceOf \in [Ops -> Devices]
    /\ ItemOf \in [Ops -> Items]
    /\ Writes \in [Ops -> Values]
    /\ Untouched \in Values
    /\ Refusable \subseteq Ops
    /\ NoOp \notin Ops

VARIABLES
    reading,    \* the clock reading each mutation carries; 0 until it is made
    log,        \* change_log: the committed changes, with their numbers
    nextSeq,    \* the identity column of change_log
    opLog,      \* sync_op_log
    handler     \* the pushes being applied

serverVars == <<reading, log, nextSeq, opLog, handler>>

Results == {"APPLIED", "MERGED", "REJECTED"}

Change == [seq : Nat, op : Ops]
NoChange == [seq |-> 0, op |-> NoOp]

(* What a mutation is answered: the verdict and the server's state, here   *)
(* the item's change that it shows.  A refusal shows none.                 *)
Result == [op : Ops, result : Results, state : Change \cup {NoChange}]
NoResult == [op |-> NoOp, result |-> "none", state |-> NoChange]

NoHandler == [step |-> "idle", dev |-> NoOp, todo |-> {}, results |-> {},
              clock |-> 0, version |-> 0, seq |-> 0]

Handler == [step : {"find", "decide", "load", "write", "written", "unchanged",
                    "lost", "refused"},
            dev : Devices, todo : SUBSET Ops, results : SUBSET Result,
            clock : Nat, version : Nat, seq : Nat]

ServerTypeOK ==
    /\ reading \in [Ops -> Nat]
    /\ log \subseteq Change
    /\ nextSeq \in Nat
    /\ opLog \in [Ops -> Result \cup {NoResult}]
    /\ handler \in [Handlers -> Handler \cup {NoHandler}]

ServerInit ==
    /\ reading = [m \in Ops |-> 0]
    /\ log = {}
    /\ nextSeq = 1
    /\ opLog = [m \in Ops |-> NoResult]
    /\ handler = [h \in Handlers |-> NoHandler]

-----------------------------------------------------------------------------
ChangesOf(i) == {c \in log : ItemOf[c.op] = i}

(* The row's version counts its writes.  A row is locked from its write to *)
(* its commit, so the last of its changes is what the row holds, and the   *)
(* reading of that change is what field_clock holds: StampFieldClock       *)
(* replaces whatever stood.                                                *)
Version(i) == Cardinality(ChangesOf(i))

Last(changes) == CHOOSE c \in changes : \A b \in changes : b.seq <= c.seq

Stored(i) == IF ChangesOf(i) = {} THEN NoChange ELSE Last(ChangesOf(i))

(* What the field says after a change.                                     *)
Says(c) == IF c = NoChange THEN Untouched ELSE Writes[c.op]

ClockOf(i) == IF Stored(i) = NoChange THEN 0 ELSE reading[Stored(i).op]

(* LatestChangeSeq.                                                        *)
Latest == IF log = {} THEN 0 ELSE Last(log).seq

-----------------------------------------------------------------------------
Running(h) == handler[h].step # "idle"
At(h, step) == handler[h].step = step /\ handler[h].todo # {}

(* A push lists its mutations in the order they were made, which is the    *)
(* order of their readings (Queue.pending).                                *)
First(mutations) ==
    CHOOSE m \in mutations : \A n \in mutations : reading[m] <= reading[n]

Current(h) == First(handler[h].todo)
Goto(h, step) == handler' = [handler EXCEPT ![h].step = step]

(* The answer of one mutation joins the push's, and the next is begun.     *)
Answered(h, result) ==
    handler' = [handler EXCEPT ![h].step = "find", ![h].todo = @ \ {Current(h)},
                               ![h].results = @ \cup {result},
                               ![h].clock = 0, ![h].version = 0, ![h].seq = 0]

(* Mutant of Recorded: the last answer is the answer.                      *)
RecordedAnew(result) == opLog' = [opLog EXCEPT ![result.op] = result]

(* RecordSyncOp: ON CONFLICT DO NOTHING.                                   *)
Recorded(result) ==
    opLog' = [opLog EXCEPT ![result.op] = IF @ = NoResult THEN result ELSE @]

(* A push arrives and is taken up.                                         *)
Accept(h, d, mutations) ==
    /\ ~Running(h)
    /\ handler' = [handler EXCEPT ![h] = [NoHandler EXCEPT !.step = "find", !.dev = d,
                                                           !.todo = mutations]]
    /\ UNCHANGED <<reading, log, nextSeq, opLog>>

(* Mutant of SeenBefore: the repeat is applied instead of answered.        *)
NeverSeen(m) == FALSE

SeenBefore(m) == opLog[m] # NoResult

FindOp(h) ==
    /\ At(h, "find")
    /\ IF SeenBefore(Current(h)) THEN Answered(h, opLog[Current(h)]) ELSE Goto(h, "decide")
    /\ UNCHANGED <<reading, log, nextSeq, opLog>>

(* Mutant of Wins: the reading the server holds is not asked.              *)
WinsAlways(m) == TRUE

(* Decide: a reading wins over an earlier one and over none.               *)
Wins(m) == reading[m] > ClockOf(ItemOf[m])

(* A rule refuses the mutation: the item may not be read, its collection   *)
(* is read-only, the value does not pass the type's form.                  *)
Refused(h) == Current(h) \in Refusable /\ Goto(h, "refused")

(* patch: the item and its clocks are read, and the field is won or lost.  *)
Decide(h) ==
    /\ At(h, "decide")
    /\ \/ handler' = [handler EXCEPT ![h].step = IF Wins(Current(h)) THEN "load" ELSE "lost",
                                     ![h].clock = ClockOf(ItemOf[Current(h)])]
       \/ Refused(h)
    /\ UNCHANGED <<reading, log, nextSeq, opLog>>

(* UpdateWorkItem reads the item again; one that says already what it is   *)
(* to say is not written, and its clock is not stamped.                    *)
Load(h) ==
    /\ At(h, "load")
    /\ \/ /\ Says(Stored(ItemOf[Current(h)])) = Writes[Current(h)]
          /\ Goto(h, "unchanged")
       \/ /\ Says(Stored(ItemOf[Current(h)])) # Writes[Current(h)]
          /\ handler' = [handler EXCEPT ![h].step = "write",
                                       ![h].version = Version(ItemOf[Current(h)])]
       \/ Refused(h)
    /\ UNCHANGED <<reading, log, nextSeq, opLog>>

Locked(i) == \E h \in Handlers : At(h, "written") /\ ItemOf[Current(h)] = i

(* SetWorkItemAttributes matches on the version read, waiting for the      *)
(* transaction that holds the row; then the change is inserted.            *)
Write(h) ==
    /\ At(h, "write")
    /\ ~Locked(ItemOf[Current(h)])
    /\ \/ /\ handler[h].version = Version(ItemOf[Current(h)])
          /\ handler' = [handler EXCEPT ![h].step = "written", ![h].seq = nextSeq]
          /\ nextSeq' = nextSeq + 1
       \/ /\ handler[h].version # Version(ItemOf[Current(h)])
          /\ Goto(h, "refused")
          /\ UNCHANGED nextSeq
    /\ UNCHANGED <<reading, log, opLog>>

(* The item, read once more for the answer, may not be read any more: what *)
(* was written is rolled back.                                             *)
Unread(h) ==
    /\ At(h, "written") \/ At(h, "unchanged") \/ At(h, "lost")
    /\ Refused(h)
    /\ UNCHANGED <<reading, log, nextSeq, opLog>>

(* The mutation's transaction commits, its record with it.                 *)
Commit(h) ==
    /\ \/ /\ At(h, "written")
          /\ log' = log \cup {[seq |-> handler[h].seq, op |-> Current(h)]}
          /\ LET result == [op |-> Current(h), result |-> "APPLIED",
                            state |-> [seq |-> handler[h].seq, op |-> Current(h)]]
             IN  Answered(h, result) /\ Recorded(result)
       \/ /\ \/ At(h, "unchanged")
             \/ At(h, "lost")
          /\ UNCHANGED log
          /\ LET verdict == IF At(h, "lost") THEN "MERGED" ELSE "APPLIED"
                 result == [op |-> Current(h), result |-> verdict,
                            state |-> Stored(ItemOf[Current(h)])]
             IN  Answered(h, result) /\ Recorded(result)
    /\ UNCHANGED <<reading, nextSeq>>

(* The use case refused, the transaction is gone; the refusal is recorded  *)
(* in a fresh one and answered.                                            *)
Refuse(h) ==
    /\ At(h, "refused")
    /\ LET result == [op |-> Current(h), result |-> "REJECTED", state |-> NoChange]
       IN  Answered(h, result) /\ Recorded(result)
    /\ UNCHANGED <<reading, log, nextSeq>>

(* Mutant of Abandon: the push goes on with the next mutation.             *)
AbandonOne(h) ==
    handler' = [handler EXCEPT ![h].step = "find",
                               ![h].todo = IF @ = {} THEN {} ELSE @ \ {Current(h)}]

(* A dependency does not answer, or the process dies: the transaction is   *)
(* rolled back, the push is not answered and what is committed stays.      *)
Abandon(h) == handler' = [handler EXCEPT ![h] = NoHandler]

Fail(h) ==
    /\ Running(h)
    /\ Abandon(h)
    /\ UNCHANGED <<reading, log, nextSeq, opLog>>

(* Every mutation is answered: the push answers with where the log stands. *)
Finish(h) ==
    /\ handler[h].step = "find" /\ handler[h].todo = {}
    /\ handler' = [handler EXCEPT ![h] = NoHandler]
    /\ UNCHANGED <<reading, log, nextSeq, opLog>>
=============================================================================
