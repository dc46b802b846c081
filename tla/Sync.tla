------------------------------- MODULE Sync ---------------------------------
(***************************************************************************)
(* Offline synchronisation: devices running packages/sync-engine against   *)
(* the server of SyncServer.                                               *)
(*                                                                         *)
(* A device keeps in its store a copy of the items, the queue of what it   *)
(* did and the cursor it has read the change log to; these survive a       *)
(* closed tab.  Its connection loop catches up page by page from the held  *)
(* cursor, pushes the queue, then follows the stream from where the        *)
(* catch-up left it (SyncEngine.#listen).  Each device starts from an      *)
(* initial synchronisation of an untouched workspace.                      *)
(***************************************************************************)
EXTENDS SyncServer

CONSTANTS
    PageSize,   \* records of one pull
    MaxFaults   \* closed tabs, timeouts and failing pushes in one behaviour

ASSUME DeviceAssumption ==
    /\ PageSize \in Nat \ {0}
    /\ MaxFaults \in Nat
    /\ Handlers \cap {"idle", "due", "answered"} = {}

VARIABLES
    queue,      \* the mutations not answered yet
    copy,       \* what the replica shows of each item
    held,       \* the cursor in the store
    conn,       \* the connection loop: "down", "caught" up, or on the "stream"
    pos,        \* the cursor the stream has been read to
    push,       \* "idle", "due", "answered", or the handler waited for
    answer,     \* an answer on its way to the device
    faults,     \* faults so far
    adrift,     \* history: the items a device was left behind on by a race
    overlapped, \* history: the devices one of whose pushes met its own repeat
    outrun      \* history: the items whose clock moved after it was compared

deviceVars == <<queue, copy, held, conn, pos, push, answer, faults>>
history == <<adrift, overlapped, outrun>>
vars == <<serverVars, deviceVars, history>>

NoAnswer == [results |-> {}, cursor |-> 0]

TypeOK ==
    /\ ServerTypeOK
    /\ queue \in [Devices -> SUBSET Ops]
    /\ copy \in [Devices -> [Items -> Values]]
    /\ held \in [Devices -> Nat]
    /\ conn \in [Devices -> {"down", "caught", "stream"}]
    /\ pos \in [Devices -> Nat]
    /\ push \in [Devices -> {"idle", "due", "answered"} \cup Handlers]
    /\ answer \in [Devices -> [results : SUBSET Result, cursor : Nat]]
    /\ faults \in 0 .. MaxFaults
    /\ adrift \in [Devices -> SUBSET Items]
    /\ overlapped \subseteq Devices
    /\ outrun \subseteq Items

Init ==
    /\ ServerInit
    /\ queue = [d \in Devices |-> {}]
    /\ copy = [d \in Devices |-> [i \in Items |-> Untouched]]
    /\ held = [d \in Devices |-> 0]
    /\ conn = [d \in Devices |-> "down"]
    /\ pos = [d \in Devices |-> 0]
    /\ push = [d \in Devices |-> "idle"]
    /\ answer = [d \in Devices |-> NoAnswer]
    /\ faults = 0
    /\ adrift = [d \in Devices |-> {}]
    /\ overlapped = {}
    /\ outrun = {}

-----------------------------------------------------------------------------
Made(m) == reading[m] # 0

Fault == faults < MaxFaults /\ faults' = faults + 1

(* A change is made: stamped later than every earlier one, queued, and     *)
(* predicted in the copy.  With the server in reach it is pushed at once   *)
(* (a change behind a queued one, or a refused one sent again).            *)
Enqueue(d, m) ==
    /\ DeviceOf[m] = d
    /\ ~Made(m)
    /\ reading' = [reading EXCEPT ![m] = 1 + Cardinality({n \in Ops : Made(n)})]
    /\ queue' = [queue EXCEPT ![d] = @ \cup {m}]
    /\ copy' = [copy EXCEPT ![d][ItemOf[m]] = Writes[m]]
    /\ push' = [push EXCEPT ![d] = IF @ = "idle" /\ conn[d] # "down" THEN "due" ELSE @]
    /\ UNCHANGED <<log, nextSeq, opLog, handler, held, conn, pos, answer, faults, history>>

(* #push goes on while something is queued.                                *)
Due(waiting) == IF waiting = {} THEN "idle" ELSE "due"

-----------------------------------------------------------------------------
(* Reading the change log.                                                 *)

After(seq) == {c \in log : c.seq > seq}

(* ReadChangesAfter: the first entries past the cursor, by number.         *)
FirstAfter(seq, count) ==
    {c \in After(seq) : Cardinality({b \in After(seq) : b.seq <= c.seq}) <= count}

(* The records are transcribed in their order, so the last of an item      *)
(* stands.                                                                 *)
Transcribed(d, records) ==
    [i \in Items |-> LET own == {c \in records : ItemOf[c.op] = i}
                     IN  IF own = {} THEN copy[d][i] ELSE Says(Last(own))]

ItemsOf(records) == {ItemOf[c.op] : c \in records}

(* Mutant of CutShort: the page's cursor is held before its records are    *)
(* applied.                                                                *)
CutShortHeld(d, page) == held' = [held EXCEPT ![d] = Last(page).seq]

(* The cursor of a page that was not applied whole is not held.            *)
CutShort(d, page) == UNCHANGED held

(* One page of #pull during the catch-up, applied, its cursor held.        *)
Pull(d) ==
    /\ conn[d] = "down"
    /\ LET page == FirstAfter(held[d], PageSize)
           cursor == IF page = {} THEN held[d] ELSE Last(page).seq
           more == Cardinality(page) = PageSize
       IN  /\ copy' = [copy EXCEPT ![d] = Transcribed(d, page)]
           /\ held' = [held EXCEPT ![d] = cursor]
           /\ pos' = [pos EXCEPT ![d] = cursor]
           /\ conn' = [conn EXCEPT ![d] = IF more THEN @ ELSE "caught"]
           /\ push' = [push EXCEPT ![d] = IF more THEN @ ELSE Due(queue[d])]
           /\ adrift' = [adrift EXCEPT ![d] = @ \ ItemsOf(page)]
    /\ UNCHANGED <<serverVars, queue, answer, faults, overlapped, outrun>>

(* The tab closes in the middle of a page, or before its cursor is held.   *)
PullCut(d) ==
    /\ conn[d] = "down"
    /\ Fault
    /\ \E n \in 1 .. PageSize :
          LET page == FirstAfter(held[d], PageSize)
              applied == FirstAfter(held[d], n)
          IN  /\ n <= Cardinality(page)
              /\ copy' = [copy EXCEPT ![d] = Transcribed(d, applied)]
              /\ CutShort(d, page)
              /\ adrift' = [adrift EXCEPT ![d] = @ \ ItemsOf(applied)]
    /\ UNCHANGED <<serverVars, queue, conn, pos, push, answer, overlapped, outrun>>

(* The push of the loop is over: the stream is opened from where the       *)
(* catch-up ended.                                                         *)
OpenStream(d) ==
    /\ conn[d] = "caught"
    /\ push[d] = "idle"
    /\ conn' = [conn EXCEPT ![d] = "stream"]
    /\ UNCHANGED <<serverVars, queue, copy, held, pos, push, answer, faults, history>>

(* A frame of the stream: applied, then its cursor held.                   *)
Frame(d) ==
    /\ conn[d] = "stream"
    /\ \E c \in FirstAfter(pos[d], 1) :
          /\ copy' = [copy EXCEPT ![d] = Transcribed(d, {c})]
          /\ held' = [held EXCEPT ![d] = c.seq]
          /\ pos' = [pos EXCEPT ![d] = c.seq]
          /\ adrift' = [adrift EXCEPT ![d] = @ \ {ItemOf[c.op]}]
    /\ UNCHANGED <<serverVars, queue, conn, push, answer, faults, overlapped, outrun>>

-----------------------------------------------------------------------------
(* Pushing the queue.                                                      *)

(* What one push sends: the head of the queue, cut by PUSH_BATCH and       *)
(* before a file that has to be uploaded first.                            *)
Leading(d, batch) ==
    /\ batch # {}
    /\ \A m \in batch, n \in queue[d] : reading[n] < reading[m] => n \in batch

(* A push sets out.  A handler may still be applying an earlier one of the *)
(* same queue.                                                             *)
Push(d) ==
    /\ push[d] = "due"
    /\ \E h \in Handlers, batch \in SUBSET queue[d] :
          /\ Leading(d, batch)
          /\ Accept(h, d, batch)
          /\ push' = [push EXCEPT ![d] = h]
    /\ overlapped' = overlapped \cup
          {e \in {d} : \E h \in Handlers : Running(h) /\ handler[h].dev = e}
    /\ UNCHANGED <<queue, copy, held, conn, pos, answer, faults, adrift, outrun>>

(* The server's steps, and what they do to the histories: a change         *)
(* committed behind a cursor is never read from it; a mutation that won    *)
(* against a clock which another has moved since is written all the same.  *)
Work(h) ==
    /\ \/ FindOp(h) /\ UNCHANGED history
       \/ Decide(h) /\ UNCHANGED history
       \/ /\ Load(h)
          /\ outrun' = outrun \cup {i \in {ItemOf[Current(h)]} :
                /\ reading[Current(h)] > handler[h].clock
                /\ reading[Current(h)] <= ClockOf(i)}
          /\ UNCHANGED <<adrift, overlapped>>
       \/ Write(h) /\ UNCHANGED history
       \/ /\ Commit(h)
          /\ adrift' = [d \in Devices |-> adrift[d] \cup
                {ItemOf[c.op] : c \in {b \in log' \ log : b.seq <= held[d] \/ b.seq <= pos[d]}}]
          /\ UNCHANGED <<overlapped, outrun>>
       \/ Unread(h) /\ UNCHANGED history
       \/ Refuse(h) /\ UNCHANGED history
    /\ UNCHANGED deviceVars

Waiting(d, h) == push[d] = h

Unanswered(h) == push' = [d \in Devices |-> IF Waiting(d, h) THEN "idle" ELSE push[d]]

(* queue.failed: the mutations stay queued.                                *)
PushFails(h) ==
    /\ Fault
    /\ Fail(h)
    /\ Unanswered(h)
    /\ UNCHANGED <<queue, copy, held, conn, pos, answer, history>>

(* The answer goes to the device, if it is still waiting.                  *)
Reply(h) ==
    /\ Finish(h)
    /\ answer' = [d \in Devices |-> IF Waiting(d, h)
                                    THEN [results |-> handler[h].results, cursor |-> Latest]
                                    ELSE answer[d]]
    /\ push' = [d \in Devices |-> IF Waiting(d, h) THEN "answered" ELSE push[d]]
    /\ UNCHANGED <<queue, copy, held, conn, pos, faults, history>>

(* Mutant of Remaining: the whole queue is taken for answered.             *)
RemainingNone(d) == {}

(* What the answer names leaves the queue; the rest waits.                 *)
Remaining(d) == queue[d] \ {r.op : r \in answer[d].results}

(* What the answer says of an item; a refusal shows no state.              *)
Words(d, i) == {r \in answer[d].results : r.result # "REJECTED" /\ ItemOf[r.op] = i}

LastWord(words) == CHOOSE r \in words : \A q \in words : reading[q.op] <= reading[r.op]

(* Mutant of Adopted: only what was applied is transcribed.                *)
AdoptedApplied(d) ==
    [i \in Items |->
       LET words == {r \in Words(d, i) : r.result = "APPLIED"}
       IN  IF words = {} THEN copy[d][i] ELSE Says(LastWord(words).state)]

(* Queue.settle: the server's state over the prediction, in the order the  *)
(* mutations were made.                                                    *)
Adopted(d) ==
    [i \in Items |-> IF Words(d, i) = {} THEN copy[d][i]
                     ELSE Says(LastWord(Words(d, i)).state)]

(* The state an answer shows is older than a change that the device has    *)
(* read, or that the answer's cursor covers.                               *)
Stale(d, i) ==
    /\ Words(d, i) # {}
    /\ \E c \in ChangesOf(i) :
          /\ c.seq > LastWord(Words(d, i)).state.seq
          /\ c.seq <= pos[d] \/ c.seq <= answer[d].cursor

(* The answer's cursor is past a change the device has not read.           *)
Leapt(d, i) ==
    /\ Words(d, i) = {}
    /\ \E c \in ChangesOf(i) : c.seq > held[d] /\ c.seq > pos[d] /\ c.seq <= answer[d].cursor

(* What was predicted of the item is refused and stays in the copy.        *)
Misled(d, i) ==
    /\ Words(d, i) = {}
    /\ \E r \in answer[d].results : ItemOf[r.op] = i /\ copy[d][i] = Writes[r.op]

(* The answer is settled, and its cursor becomes the store's.              *)
Settle(d) ==
    /\ push[d] = "answered"
    /\ queue' = [queue EXCEPT ![d] = Remaining(d)]
    /\ copy' = [copy EXCEPT ![d] = Adopted(d)]
    /\ held' = [held EXCEPT ![d] = answer[d].cursor]
    /\ push' = [push EXCEPT ![d] = Due(Remaining(d))]
    /\ answer' = [answer EXCEPT ![d] = NoAnswer]
    /\ adrift' = [adrift EXCEPT ![d] = {i \in @ : Words(d, i) = {}} \cup
          {i \in Items : Stale(d, i) \/ Leapt(d, i) \/ Misled(d, i)}]
    /\ UNCHANGED <<serverVars, conn, pos, faults, overlapped, outrun>>

(* The request runs out of time; the server may still be at it.            *)
TimeOut(d) ==
    /\ Fault
    /\ push[d] \in Handlers
    /\ push' = [push EXCEPT ![d] = "idle"]
    /\ UNCHANGED <<serverVars, queue, copy, held, conn, pos, answer, history>>

(* The connection is lost or the tab is closed: the store is what is left. *)
Drop(d) ==
    /\ Fault
    /\ conn[d] # "down"
    /\ conn' = [conn EXCEPT ![d] = "down"]
    /\ push' = [push EXCEPT ![d] = "idle"]
    /\ answer' = [answer EXCEPT ![d] = NoAnswer]
    /\ pos' = [pos EXCEPT ![d] = held[d]]
    /\ UNCHANGED <<serverVars, queue, copy, held, history>>

Next ==
    \/ \E d \in Devices :
          \/ \E m \in Ops : Enqueue(d, m)
          \/ Pull(d)
          \/ PullCut(d)
          \/ OpenStream(d)
          \/ Frame(d)
          \/ Push(d)
          \/ Settle(d)
          \/ TimeOut(d)
          \/ Drop(d)
    \/ \E h \in Handlers : Work(h) \/ PushFails(h) \/ Reply(h)

Spec == Init /\ [][Next]_vars

-----------------------------------------------------------------------------
(* A change that was queued is never lost: it waits in the queue until the *)
(* operation log holds what became of it.  PushChanges.Push leaves         *)
(* committed results unanswered and SyncEngine.#push forgets answers.      *)
NothingLost ==
    \A m \in Ops : Made(m) => m \in queue[DeviceOf[m]] \/ opLog[m] # NoResult

(* Ordering within one device is preserved: nothing is decided before what *)
(* the device did earlier is.                                              *)
DeviceOrder ==
    \A m, n \in Ops :
       /\ DeviceOf[m] = DeviceOf[n]
       /\ Made(m) /\ reading[m] < reading[n]
       /\ opLog[n] # NoResult
       => opLog[m] # NoResult

(* A repeated push takes effect exactly once, unless the repeat was        *)
(* applied beside the first: PushChanges.apply looks the operation up in a *)
(* transaction before the one that records it.                             *)
EffectOnce ==
    \A b, c \in log : b.op = c.op /\ DeviceOf[c.op] \notin overlapped => b = c

(* The record says what happened, with the same exception: what was        *)
(* written is recorded as applied, and of what is recorded as applied the  *)
(* item said what it asked for - UpdateWorkItem writes nothing when it     *)
(* says so already.                                                        *)
RecordTellsEffect ==
    \A m \in Ops : DeviceOf[m] \notin overlapped =>
       /\ (\E c \in log : c.op = m) => opLog[m].result = "APPLIED"
       /\ opLog[m].result = "APPLIED" =>
             \E c \in ChangesOf(ItemOf[m]) \cup {NoChange} : Says(c) = Writes[m]

(* The later reading wins: an item's changes are written in the order they *)
(* were made, unless its clock moved between the comparison and the write. *)
LaterWins ==
    \A b, c \in log :
       /\ ItemOf[b.op] = ItemOf[c.op]
       /\ ItemOf[b.op] \notin outrun
       /\ b.seq < c.seq
       => reading[b.op] < reading[c.op]

(* Nothing is left to do for a device: it follows the stream, has read all *)
(* of the log and has nothing queued or on its way.                        *)
AtRest(d) ==
    /\ conn[d] = "stream" /\ push[d] = "idle"
    /\ queue[d] = {}
    /\ After(pos[d]) = {}

(* A device at rest shows what the server holds, unless a change was       *)
(* committed behind its cursor, an answer moved its cursor past one or     *)
(* showed an older state, or what it predicted was refused                 *)
(* (SyncEngine.#push, Queue.settle).                                       *)
ConvergesUnlessAdrift ==
    \A d \in Devices : AtRest(d) =>
       \A i \in Items : i \in adrift[d] \/ copy[d][i] = Says(Stored(i))

ToldAsRecorded(d) == \A r \in answer[d].results : r = opLog[r.op]

(* What the answer says is what the operation log keeps (RecordSyncOp:     *)
(* "the first answer is the answer").                                      *)
AnswerIsRecord == \A d \in Devices : ToldAsRecorded(d)

(* A device is told what the operation log keeps, whatever was repeated,   *)
(* unless the repeat was applied beside the first: PushChanges.apply       *)
(* answers a repeat from the log, and what it records from what it did.    *)
ToldUnlessOverlapped == \A d \in Devices \ overlapped : ToldAsRecorded(d)

(* A device at rest shows what the server holds.                           *)
Converges ==
    \A d \in Devices : AtRest(d) => \A i \in Items : copy[d][i] = Says(Stored(i))

(* A device that only reads misses no change (ReadChangesAfter: a gap is   *)
(* "never a row of theirs that is missing").                               *)
ReaderConverges ==
    \A d \in Devices :
       AtRest(d) /\ (\A m \in Ops : DeviceOf[m] # d)
       => \A i \in Items : copy[d][i] = Says(Stored(i))

-----------------------------------------------------------------------------
(* Refinement.                                                             *)

Ledger == INSTANCE SyncLedger
    WITH verdict <- [m \in Ops |-> opLog[m].result],
         effective <- {c.op : c \in log},
         repeating <- overlapped

(* Through lost answers, repeats and closed tabs a user's changes are a    *)
(* ledger: each waits until its first and only verdict, in the order of    *)
(* its device, and takes effect with it (PushChanges.Push, Queue.settle).  *)
IsLedger == Ledger!Spec
=============================================================================
