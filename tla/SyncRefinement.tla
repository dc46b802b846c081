--------------------------- MODULE SyncRefinement ---------------------------
(***************************************************************************)
(* Sync implements SyncLedger.  What is mapped is what a user's change     *)
(* goes through: its reading, the queue it waits in, its record and its    *)
(* effect.  Pushes, pages, cursors and answers on their way are not, and   *)
(* every step of theirs is a stutter, except the one that records a        *)
(* verdict for the first time and the one that sends a repeat beside it.   *)
(***************************************************************************)
EXTENDS SyncProofs

Verdict == [m \in Ops |-> opLog[m].result]
Effective == {c.op : c \in log}

Stutters ==
    /\ UNCHANGED <<reading, queue, overlapped>>
    /\ Verdict' = Verdict /\ Effective' = Effective

(* A change is undecided as long as it has no record.                      *)
LEMMA NoneIsNoResult ==
    ASSUME Types, NEW m \in Ops
    PROVE  Verdict[m] = "none" <=> opLog[m] = NoResult
BY DEF Types, ServerTypeOK, Verdict, Result, Results, NoResult

(* What an item said at some time is no news to the ledger.                *)
Echoes(m) ==
    \/ Writes[m] = Untouched
    \/ \E n \in Effective : ItemOf[n] = ItemOf[m] /\ Writes[n] = Writes[m]

LEMMA HeldEchoes ==
    ASSUME Types, NEW m, Held(m)
    PROVE  Echoes(m)
<1>1. PICK c \in ChangesOf(ItemOf[m]) \cup {NoChange} : Says(c) = Writes[m]
  BY DEF Held
<1>2. CASE c = NoChange
  BY <1>1, <1>2 DEF Says, Echoes
<1>3. CASE c \in ChangesOf(ItemOf[m])
  <2>1. c \in log /\ ItemOf[c.op] = ItemOf[m]
    BY <1>3 DEF ChangesOf
  <2>2. Writes[c.op] = Writes[m] /\ c.op \in Effective
    BY <1>1, <2>1, ChangeIsOne DEF Effective
  <2> QED
    BY <2>1, <2>2 DEF Echoes
<1> QED
  BY <1>2, <1>3

LEMMA LedgerInit == Init => Ledger!Init
BY DEF Init, ServerInit, NoResult, Ledger!Init

-----------------------------------------------------------------------------
LEMMA EnqueueMakes ==
    ASSUME PushInv, NEW d \in Devices, NEW m \in Ops, Enqueue(d, m)
    PROVE  Ledger!Next
<1>1. /\ reading[m] = 0 /\ DeviceOf[m] = d
      /\ \A n \in Ops : reading[n] < reading'[m]
      /\ UNCHANGED <<log, opLog, overlapped>>
  BY EnqueueWrites DEF Made, Enqueue, history
<1>2. reading \in [Ops -> Nat]
  BY DEF PushInv, Types, ServerTypeOK
<1>3. reading' = [reading EXCEPT ![m] = reading'[m]]
  BY <1>2 DEF Enqueue
<1>4. queue' = [queue EXCEPT ![DeviceOf[m]] = @ \cup {m}]
  BY <1>1 DEF Enqueue
<1>5. Ledger!Make(m)
  BY <1>1, <1>3, <1>4 DEF Ledger!Make
<1> QED
  BY <1>5 DEF Ledger!Next

(* An answer decides its change if it is the first; else a repeat beside   *)
(* its first push was applied, which may show in the log only.             *)
LEMMA RuledDecides ==
    ASSUME PushInv, EffectInv, NEW h \in Handlers, NEW r \in Result,
           Ruled(h, r), RuleReason(h, r), UNCHANGED overlapped
    PROVE  Ledger!Next \/ Stutters
<1>0. Types
  BY DEF PushInv
<1>a. PICK m \in Ops : m = Current(h)
  BY <1>0, CurrentIsLeast DEF Ruled
<1>1. /\ m \in handler[h].todo /\ handler[h] \in Handler
      /\ \A n \in handler[h].todo : reading[m] <= reading[n]
  BY <1>0, <1>a, CurrentIsLeast DEF Ruled
<1>2. /\ opLog'[m] = IF opLog[m] = NoResult THEN r ELSE opLog[m]
      /\ \A n \in Ops : n # m => opLog'[n] = opLog[n]
      /\ UNCHANGED <<reading, queue>>
  BY <1>a, RuledWrites DEF Ruled
<1>3. \/ log' = log
      \/ log' = log \cup {[seq |-> handler[h].seq, op |-> m]}
  BY <1>a DEF Ruled
<1>4. Effective' = Effective \/ Effective' = Effective \cup {m}
  BY <1>3 DEF Effective
<1>5. CASE opLog[m] # NoResult
  <2>1. Verdict' = Verdict
    BY <1>2, <1>5 DEF Verdict
  <2>2. CASE Effective' = Effective
    BY <1>2, <2>1, <2>2 DEF Stutters
  <2>3. CASE Effective' # Effective /\ Effective' = Effective \cup {m}
    <3>1. Verdict[m] # "none"
      BY <1>0, <1>1, <1>5, NoneIsNoResult
    <3>a. DeviceOf[m] \in overlapped
      <4>1. handler[h].step = "written"
        BY <2>3 DEF Ruled, Effective
      <4>2. DeviceOf[m] = handler[h].dev
        BY <1>1 DEF PushInv, Owned
      <4> QED
        BY <1>5, <1>a, <4>1, <4>2 DEF EffectInv, Fresh, Begun
    <3>2. Ledger!Late(m)
      BY <1>2, <2>1, <2>3, <3>1, <3>a DEF Verdict, Effective, Ledger!Late, Ledger!Decided
    <3> QED
      BY <3>2 DEF Ledger!Next
  <2> QED
    BY <1>4, <2>2, <2>3
<1>6. CASE opLog[m] = NoResult
  <2>1. Made(m) /\ DeviceOf[m] = handler[h].dev
    BY <1>1 DEF PushInv, Owned
  <2>2. m \in queue[DeviceOf[m]] /\ Verdict[m] = "none"
    BY <1>0, <1>1, <1>6, <2>1, NoneIsNoResult DEF PushInv, NothingLost
  <2>3. ASSUME NEW n \in Ops, DeviceOf[n] = DeviceOf[m], reading[n] \in 1 .. reading[m] - 1
        PROVE  Verdict[n] # "none"
    <3>1. reading[n] \in Nat /\ reading[m] \in Nat
      BY <1>1 DEF PushInv, Types, ServerTypeOK
    <3>2. Made(n) /\ reading[n] < reading[m] /\ ~(reading[m] <= reading[n])
      BY <2>3, <3>1 DEF Made
    <3>3. opLog[n] # NoResult
      BY <1>1, <2>1, <2>3, <3>2 DEF PushInv, Ahead
    <3> QED
      BY <1>0, <3>3, NoneIsNoResult
  <2>4. PICK v \in {"APPLIED", "MERGED", "REJECTED"} : v = r.result
    BY DEF Result, Results
  <2>5. Verdict' = [Verdict EXCEPT ![m] = v]
    BY <1>2, <1>6, <2>4 DEF Verdict
  <2>6. \/ v = "APPLIED" /\ log' = log \cup {[seq |-> handler[h].seq, op |-> m]}
        \/ v = "APPLIED" /\ handler[h].step = "unchanged" /\ log' = log
        \/ v # "APPLIED" /\ log' = log
    BY <1>6, <1>a, <2>4 DEF RuleReason
  <2>7. \/ v = "APPLIED" /\ Effective' = Effective \cup {m}
        \/ (v = "APPLIED" => Echoes(m)) /\ Effective' = Effective
    <3>1. CASE v = "APPLIED" /\ log' = log \cup {[seq |-> handler[h].seq, op |-> m]}
      <4> DEFINE change == [seq |-> handler[h].seq, op |-> m]
      <4>1. change.op = m /\ log' = log \cup {change}
        BY <3>1
      <4> HIDE DEF change
      <4>2. Effective' = Effective \cup {m}
        BY <4>1 DEF Effective
      <4> QED
        BY <3>1, <4>2
    <3>2. CASE handler[h].step = "unchanged" /\ log' = log
      <4>1. Held(m)
        BY <1>a, <3>2 DEF EffectInv, Fresh
      <4> QED
        BY <1>0, <3>2, <4>1, HeldEchoes DEF Effective
    <3>3. CASE v # "APPLIED" /\ log' = log
      BY <3>3 DEF Effective
    <3> QED
      BY <2>6, <3>1, <3>2, <3>3
  <2>8. Ledger!Decide(m, v)
    BY <1>2, <2>2, <2>3, <2>5, <2>7
       DEF Verdict, Effective, Echoes, Ledger!Decide, Ledger!Decided, Ledger!Echo
  <2>9. v \in Ledger!Verdicts
    BY DEF Ledger!Verdicts
  <2> QED
    BY <2>8, <2>9 DEF Ledger!Next
<1> QED
  BY <1>5, <1>6

LEMMA SettleSettles ==
    ASSUME PushInv, NEW d \in Devices, Settle(d)
    PROVE  Ledger!Next
<1>0. Types
  BY DEF PushInv
<1>1. PICK changes \in SUBSET Ops :
         changes = {m \in queue[d] : \E r \in answer[d].results : r.op = m}
  BY <1>0 DEF Types
<1>2. queue' = [queue EXCEPT ![d] = @ \ changes] /\ UNCHANGED <<serverVars, overlapped>>
  BY <1>1 DEF Settle, Remaining
<1>3. \A m \in changes : Verdict[m] # "none"
  <2> SUFFICES ASSUME NEW m \in changes PROVE Verdict[m] # "none"
    OBVIOUS
  <2>1. opLog[m] # NoResult
    BY <1>1 DEF PushInv, Answers
  <2> QED
    BY <1>0, <2>1, NoneIsNoResult
<1>4. Ledger!Settle(d, changes)
  BY <1>1, <1>2, <1>3 DEF serverVars, Verdict, Ledger!Settle, Ledger!Decided
<1> QED
  BY <1>4 DEF Ledger!Next

LEMMA LedgerStep ==
    ASSUME PushInv, EffectInv, [Next]_vars
    PROVE  Ledger!Next \/ Stutters
<1>1. ASSUME NEW h \in Handlers, Work(h) PROVE Ledger!Next \/ Stutters
  <2>1. CASE Turned(h)
    BY <1>1, <2>1, TurnedWrites DEF Work, deviceVars, history, Stutters, Verdict, Effective
  <2>2. UNCHANGED overlapped
    BY <1>1 DEF Work, history
  <2> QED
    BY <1>1, <2>1, <2>2, WorkShapes, RuledDecides
<1>2. ASSUME NEW h \in Handlers, PushFails(h) \/ Reply(h) PROVE Stutters
  BY <1>2 DEF PushFails, Reply, Fail, Finish, history, Stutters, Verdict, Effective
<1>3. ASSUME NEW d \in Devices,
             \/ Pull(d) \/ PullCut(d) \/ OpenStream(d) \/ Frame(d) \/ TimeOut(d) \/ Drop(d)
      PROVE  Stutters
  BY <1>3 DEF Pull, PullCut, OpenStream, Frame, TimeOut, Drop, serverVars, history, Stutters,
              Verdict, Effective
<1>4. ASSUME NEW d \in Devices, Push(d) PROVE Ledger!Next \/ Stutters
  <2>1. UNCHANGED <<reading, log, opLog, queue>>
    BY <1>4 DEF Push, Accept
  <2>2. overlapped' = overlapped \/ overlapped' = overlapped \cup {d}
    BY <1>4 DEF Push
  <2>3. CASE overlapped' = overlapped
    BY <2>1, <2>3 DEF Stutters, Verdict, Effective
  <2>4. CASE overlapped' = overlapped \cup {d}
    BY <2>1, <2>4 DEF Verdict, Effective, Ledger!Next, Ledger!Repeat
  <2> QED
    BY <2>2, <2>3, <2>4
<1>5. CASE UNCHANGED vars
  BY <1>5 DEF vars, serverVars, deviceVars, history, Stutters, Verdict, Effective
<1> QED
  BY <1>1, <1>2, <1>3, <1>4, <1>5, EnqueueMakes, SettleSettles DEF Next

(* Offline synchronisation is a ledger to its users: every change waits    *)
(* until its one verdict, in its device's order, and an applied one is in  *)
(* the log or asked for what its item said already (PushChanges.Push).     *)
THEOREM SyncIsLedger == Spec => IsLedger
<1>1. PushInv /\ EffectInv /\ [Next]_vars => [Ledger!Next]_(Ledger!vars)
  BY LedgerStep DEF Stutters, Verdict, Effective, Ledger!vars
<1> QED
  BY <1>1, LedgerInit, PushInvHolds, EffectInvHolds, PTL
     DEF Spec, IsLedger, Ledger!Spec
=============================================================================
