----------------------------- MODULE SyncProofs -----------------------------
(***************************************************************************)
(* Proofs about Sync, for every set of devices, items, mutations and       *)
(* concurrent pushes, and every number of faults.                          *)
(***************************************************************************)
EXTENDS Sync, FiniteSetTheorems, TLAPS

-----------------------------------------------------------------------------
(* Least and greatest members, which First and Last choose.                *)

LEMMA LeastExists ==
    ASSUME NEW S, NEW f, S # {}, \A x \in S : f[x] \in Nat
    PROVE  \E x \in S : \A y \in S : f[x] <= f[y]
<1> DEFINE T == {f[x] : x \in S}
<1>1. T \subseteq Nat /\ T # {}
  OBVIOUS
<1>2. PICK t \in T : \A u \in T : ~ (<<u, t>> \in OpToRel(<, Nat))
  BY <1>1, NatLessThanWellFounded, WFMin
<1>3. \A u \in T : ~ (u < t)
  BY <1>1, <1>2 DEF OpToRel
<1>4. PICK x \in S : t = f[x]
  OBVIOUS
<1>5. \A y \in S : f[x] <= f[y]
  <2>1. \A y \in S : ~ (f[y] < f[x])
    BY <1>3, <1>4
  <2> HIDE DEF T
  <2> QED BY <2>1
<1> QED
  BY <1>5

LEMMA GreatestExists ==
    ASSUME NEW S, NEW f, NEW bound \in Nat, S # {},
           \A x \in S : f[x] \in Nat /\ f[x] <= bound
    PROVE  \E x \in S : \A y \in S : f[y] <= f[x]
<1> DEFINE g == [x \in S |-> bound - f[x]]
<1>1. \A x \in S : g[x] \in Nat
  OBVIOUS
<1>2. PICK x \in S : \A y \in S : g[x] <= g[y]
  <2> HIDE DEF g
  <2> QED BY <1>1, LeastExists
<1>3. \A y \in S : f[y] <= f[x]
  BY <1>2
<1> QED
  BY <1>3

(* First names the mutation of the least reading.                          *)
LEMMA FirstIsLeast ==
    ASSUME NEW S, S # {}, \A m \in S : reading[m] \in Nat
    PROVE  First(S) \in S /\ \A n \in S : reading[First(S)] <= reading[n]
<1>1. \E m \in S : \A n \in S : reading[m] <= reading[n]
  BY LeastExists
<1> QED
  BY <1>1 DEF First

(* Last names the change of the greatest number.                           *)
LEMMA LastIsGreatest ==
    ASSUME NEW S, NEW bound \in Nat, S # {},
           \A c \in S : c.seq \in Nat /\ c.seq <= bound
    PROVE  Last(S) \in S /\ \A b \in S : b.seq <= Last(S).seq
<1> DEFINE f == [c \in S |-> c.seq]
<1>1. \E c \in S : \A b \in S : f[b] <= f[c]
  <2>1. \A c \in S : f[c] \in Nat /\ f[c] <= bound
    OBVIOUS
  <2> HIDE DEF f
  <2> QED BY <2>1, GreatestExists
<1>2. \E c \in S : \A b \in S : b.seq <= c.seq
  BY <1>1
<1> QED
  BY <1>2 DEF Last

-----------------------------------------------------------------------------
(* What the pushes keep.                                                   *)

MadeOps == {m \in Ops : Made(m)}

Types ==
    /\ ServerTypeOK
    /\ queue \in [Devices -> SUBSET Ops]
    /\ answer \in [Devices -> [results : SUBSET Result, cursor : Nat]]

(* Readings tell the mutations apart, and a new one exceeds them all.      *)
Clocks ==
    /\ IsFiniteSet(MadeOps)
    /\ \A m \in Ops : reading[m] <= Cardinality(MadeOps)
    /\ \A m, n \in Ops : Made(m) /\ reading[m] = reading[n] => m = n

(* What waits, is applied, recorded or in the log was made, by the device  *)
(* that pushed it; a mutation is under way only while some are left.       *)
Owned ==
    /\ \A d \in Devices : \A m \in queue[d] : Made(m) /\ DeviceOf[m] = d
    /\ \A h \in Handlers : \A m \in handler[h].todo :
          Made(m) /\ DeviceOf[m] = handler[h].dev
    /\ \A h \in Handlers : handler[h].step \notin {"idle", "find"} => handler[h].todo # {}
    /\ \A c \in log : Made(c.op)
    /\ \A m \in Ops : opLog[m] # NoResult => opLog[m].op = m /\ Made(m)

(* Numbers are drawn from the identity column.                             *)
Numbered ==
    /\ IsFiniteSet(log) /\ 0 < nextSeq
    /\ \A c \in log : 0 < c.seq /\ c.seq < nextSeq
    /\ \A h \in Handlers : handler[h].step = "written" =>
          0 < handler[h].seq /\ handler[h].seq < nextSeq

(* What is answered is recorded.                                           *)
Answers ==
    /\ \A h \in Handlers : \A r \in handler[h].results : opLog[r.op] # NoResult
    /\ \A d \in Devices : \A r \in answer[d].results : opLog[r.op] # NoResult

(* What the device did before a mutation is ahead of it in the push, or    *)
(* was decided already.                                                    *)
Ahead ==
    \A h \in Handlers : \A n \in handler[h].todo : \A m \in Ops :
       /\ Made(m) /\ DeviceOf[m] = handler[h].dev
       /\ reading[m] < reading[n]
       => m \in handler[h].todo \/ opLog[m] # NoResult

PushInv == /\ Types /\ Clocks /\ Owned /\ Numbered /\ Answers /\ Ahead
           /\ NothingLost /\ DeviceOrder

(* The mutation a push is at.                                              *)
LEMMA CurrentIsLeast ==
    ASSUME Types, NEW h \in Handlers, handler[h].todo # {}
    PROVE  /\ Running(h) /\ handler[h] \in Handler
           /\ Current(h) \in handler[h].todo /\ Current(h) \in Ops
           /\ \A n \in handler[h].todo : reading[Current(h)] <= reading[n]
<1>1. handler[h] \in Handler
  BY DEF Types, ServerTypeOK, NoHandler
<1>2. handler[h].todo \subseteq Ops /\ Running(h)
  BY <1>1 DEF Handler, Running
<1> QED
  BY <1>1, <1>2, FirstIsLeast DEF Current, Types, ServerTypeOK

(* What an item holds is its last change in the log.                       *)
LEMMA StoredIsLast ==
    ASSUME Types, Numbered, NEW i \in Items
    PROVE  /\ Stored(i) \in ChangesOf(i) \cup {NoChange}
           /\ Stored(i) \in Change \cup {NoChange}
           /\ ChangesOf(i) # {} =>
                 /\ Stored(i) \in ChangesOf(i)
                 /\ \A c \in ChangesOf(i) : c.seq <= Stored(i).seq
<1>1. log \subseteq Change /\ \A c \in log : c.seq \in Nat /\ c.seq <= nextSeq
  BY DEF Types, ServerTypeOK, Change, Numbered
<1>2. nextSeq \in Nat
  BY DEF Types, ServerTypeOK
<1>3. CASE ChangesOf(i) # {}
  <2>1. \A c \in ChangesOf(i) : c.seq \in Nat /\ c.seq <= nextSeq
    BY <1>1 DEF ChangesOf
  <2>2. Last(ChangesOf(i)) \in ChangesOf(i)
        /\ \A c \in ChangesOf(i) : c.seq <= Last(ChangesOf(i)).seq
    BY <1>2, <1>3, <2>1, LastIsGreatest
  <2> QED
    BY <1>1, <1>3, <2>2 DEF Stored, ChangesOf
<1>4. CASE ChangesOf(i) = {}
  BY <1>4 DEF Stored
<1> QED
  BY <1>3, <1>4

(* A change of the log is none but itself.                                 *)
LEMMA ChangeIsOne ==
    ASSUME Types, NEW c \in log
    PROVE  /\ c # NoChange /\ c.op \in Ops /\ c.seq \in Nat
           /\ Says(c) = Writes[c.op]
<1>1. c.op \in Ops /\ c.seq \in Nat
  BY DEF Types, ServerTypeOK, Change
<1>2. NoChange.op = NoOp
  BY DEF NoChange
<1>3. c # NoChange
  BY <1>1, <1>2, SyncAssumption
<1> QED
  BY <1>1, <1>3 DEF Says

LEMMA ClockType ==
    ASSUME Types, Numbered, NEW i \in Items
    PROVE  ClockOf(i) \in Nat
<1>1. Stored(i) # NoChange => Stored(i) \in log
  BY StoredIsLast DEF ChangesOf
<1>2. Stored(i) # NoChange => reading[Stored(i).op] \in Nat
  BY <1>1, ChangeIsOne DEF Types, ServerTypeOK
<1> QED
  BY <1>2 DEF ClockOf

LEMMA VersionType ==
    ASSUME Numbered, NEW i
    PROVE  IsFiniteSet(ChangesOf(i)) /\ Version(i) \in Nat
<1>1. ChangesOf(i) \in SUBSET log /\ IsFiniteSet(log)
  BY DEF ChangesOf, Numbered
<1> QED
  BY <1>1, FS_Subset, FS_CardinalityType DEF Version

LEMMA LatestType ==
    ASSUME Types, Numbered
    PROVE  Latest \in Nat
<1>1. \A c \in log : c.seq \in Nat /\ c.seq <= nextSeq
  BY DEF Types, ServerTypeOK, Change, Numbered
<1>2. nextSeq \in Nat
  BY DEF Types, ServerTypeOK
<1>3. log # {} => Last(log) \in log
  BY <1>1, <1>2, LastIsGreatest
<1> QED
  BY <1>1, <1>3 DEF Latest

-----------------------------------------------------------------------------
(* The shapes of the steps.                                                *)

(* The push of h goes on with the mutation it is at.                       *)
Turn(h, s, k, v, q) ==
    /\ handler[h].todo # {}
    /\ handler' = [handler EXCEPT ![h].step = s, ![h].clock = k, ![h].version = v, ![h].seq = q]
    /\ s = "written" => 0 < q /\ q < nextSeq'
    /\ nextSeq' \in Nat /\ nextSeq <= nextSeq'
    /\ UNCHANGED <<reading, log, opLog, queue, answer>>

Steps == {"decide", "load", "write", "written", "unchanged", "lost", "refused"}

Turned(h) ==
    \E s \in Steps, k \in Nat, v \in Nat, q \in Nat : Turn(h, s, k, v, q)

(* It answers it, and the answer is recorded unless one was.               *)
Ruled(h, r) ==
    /\ handler[h].todo # {}
    /\ r \in Result /\ r.op = Current(h)
    /\ Answered(h, r) /\ Recorded(r)
    /\ \/ log' = log
       \/ /\ handler[h].step = "written"
          /\ log' = log \cup {[seq |-> handler[h].seq, op |-> Current(h)]}
    /\ UNCHANGED <<reading, nextSeq, queue, answer>>

(* What the step of a mutation under way rests on.                         *)
TurnReason(h) ==
    LET i == ItemOf[Current(h)]
    IN  /\ handler[h].step = "find" => opLog[Current(h)] = NoResult
        /\ handler'[h].step = "load" => reading[Current(h)] > handler'[h].clock
        /\ handler'[h].step = "unchanged" => Says(Stored(i)) = Writes[Current(h)]
        /\ handler'[h].step = "write" =>
              /\ handler[h].step = "load"
              /\ handler'[h].version = Version(i)
              /\ reading[Current(h)] > handler[h].clock => Wins(Current(h)) \/ i \in outrun'
        /\ handler'[h].step = "written" =>
              /\ handler[h].step = "write" /\ handler[h].version = Version(i)
              /\ ~Locked(i)
              /\ handler'[h].seq = nextSeq /\ nextSeq' = nextSeq + 1

(* What an answer rests on.                                                *)
RuleReason(h, r) ==
    LET i == ItemOf[Current(h)]
        new == [seq |-> handler[h].seq, op |-> Current(h)]
    IN  \/ log' = log /\ opLog[Current(h)] # NoResult /\ r = opLog[Current(h)]
        \/ /\ r.result = "APPLIED" /\ handler[h].step = "written"
           /\ log' = log \cup {new} /\ r.state = new
        \/ /\ r.result = "APPLIED" /\ handler[h].step = "unchanged"
           /\ log' = log /\ r.state = Stored(i)
        \/ /\ r.result # "APPLIED" /\ handler[h].step \in {"lost", "refused"}
           /\ log' = log
           /\ r.result = "REJECTED" \/ r.state = Stored(i)

(* It ends; its answer may go out.                                         *)
Ended(h) ==
    /\ handler' = [handler EXCEPT ![h] = NoHandler]
    /\ answer' \in [Devices -> [results : SUBSET Result, cursor : Nat]]
    /\ \A d \in Devices : answer'[d].results \subseteq answer[d].results \cup handler[h].results
    /\ UNCHANGED <<reading, log, nextSeq, opLog, queue>>

(* A device works for itself: what leaves a queue was answered.            *)
Local ==
    /\ queue' \in [Devices -> SUBSET Ops]
    /\ answer' \in [Devices -> [results : SUBSET Result, cursor : Nat]]
    /\ \A d \in Devices :
          /\ queue'[d] \subseteq queue[d]
          /\ \A m \in queue[d] : m \in queue'[d] \/ \E r \in answer[d].results : r.op = m
          /\ answer'[d].results \subseteq answer[d].results
    /\ UNCHANGED serverVars

LEMMA WorkShapes ==
    ASSUME PushInv, NEW h \in Handlers, Work(h)
    PROVE  \/ Turned(h) /\ TurnReason(h)
           \/ \E r \in Result : Ruled(h, r) /\ RuleReason(h, r)
<1> USE DEF At
<1>0. UNCHANGED <<queue, answer>> /\ Types /\ Numbered /\ Owned
  BY DEF Work, deviceVars, PushInv
<1>1. /\ nextSeq \in Nat /\ handler \in [Handlers -> Handler \cup {NoHandler}]
      /\ reading \in [Ops -> Nat]
  BY DEF PushInv, Types, ServerTypeOK
<1>2. ASSUME handler[h].todo # {}
      PROVE  /\ handler[h] \in Handler
             /\ handler[h].clock \in Nat /\ handler[h].version \in Nat /\ handler[h].seq \in Nat
             /\ Current(h) \in Ops /\ ItemOf[Current(h)] \in Items
             /\ ClockOf(ItemOf[Current(h)]) \in Nat /\ reading[Current(h)] \in Nat
  <2>1. handler[h] \in Handler /\ Current(h) \in Ops /\ ItemOf[Current(h)] \in Items
    BY <1>0, <1>2, CurrentIsLeast, SyncAssumption
  <2> QED
    BY <1>0, <1>1, <2>1, ClockType DEF Handler
<1>3. ASSUME NEW s \in {"decide", "load", "write", "unchanged", "lost", "refused"},
             NEW k \in Nat, NEW v \in Nat, handler[h].todo # {},
             handler' = [handler EXCEPT ![h].step = s, ![h].clock = k, ![h].version = v],
             UNCHANGED <<reading, log, nextSeq, opLog>>
      PROVE  /\ Turned(h) /\ handler'[h].step = s
             /\ handler'[h].clock = k /\ handler'[h].version = v
  <2>1. handler' = [handler EXCEPT ![h].step = s, ![h].clock = k, ![h].version = v,
                                   ![h].seq = handler[h].seq]
    BY <1>1, <1>2, <1>3 DEF Handler
  <2>2. Turn(h, s, k, v, handler[h].seq)
    <3>1. s # "written" /\ nextSeq' \in Nat /\ nextSeq <= nextSeq'
          /\ UNCHANGED <<reading, log, opLog, queue, answer>>
      BY <1>0, <1>1, <1>3
    <3> QED
      BY <1>3, <2>1, <3>1, Zenon DEF Turn
  <2>3. s \in Steps /\ handler[h].seq \in Nat
    BY <1>2, <1>3 DEF Steps
  <2>4. Turned(h)
    BY <1>3, <2>2, <2>3, Zenon DEF Turned
  <2>5. handler'[h].step = s /\ handler'[h].clock = k /\ handler'[h].version = v
    BY <1>1, <1>2, <1>3 DEF Handler
  <2> QED
    BY <2>4, <2>5
<1>4. ASSUME NEW s \in {"decide", "unchanged", "refused"},
             handler[h].todo # {}, Goto(h, s),
             UNCHANGED <<reading, log, nextSeq, opLog>>
      PROVE  Turned(h) /\ handler'[h].step = s
  <2>1. handler' = [handler EXCEPT ![h].step = s, ![h].clock = handler[h].clock,
                                   ![h].version = handler[h].version]
    BY <1>1, <1>2, <1>4 DEF Handler, Goto
  <2> QED
    BY <1>2, <1>3, <1>4, <2>1
<1>r. ASSUME Refused(h), handler[h].todo # {}, handler[h].step # "find",
             UNCHANGED <<reading, log, nextSeq, opLog>>
      PROVE  Turned(h) /\ TurnReason(h)
  <2>1. Turned(h) /\ handler'[h].step = "refused"
    BY <1>4, <1>r DEF Refused
  <2> QED
    BY <1>r, <2>1 DEF TurnReason
<1>5. CASE FindOp(h)
  <2>1. CASE SeenBefore(Current(h))
    <3> DEFINE r == opLog[Current(h)]
    <3>1. r \in Result /\ r.op = Current(h)
      BY <1>0, <1>5, <2>1, CurrentIsLeast DEF FindOp, SeenBefore, Types, ServerTypeOK, Owned
    <3>2. Recorded(r)
      BY <1>0, <1>5, <2>1, <3>1, CurrentIsLeast
         DEF FindOp, SeenBefore, Recorded, Types, ServerTypeOK
    <3>3. Ruled(h, r)
      BY <1>0, <1>5, <2>1, <3>1, <3>2 DEF FindOp, Ruled
    <3>4. RuleReason(h, r)
      BY <1>5, <2>1 DEF FindOp, SeenBefore, RuleReason
    <3> QED
      BY <3>1, <3>3, <3>4
  <2>2. CASE ~SeenBefore(Current(h))
    <3>1. Turned(h) /\ handler'[h].step = "decide"
      BY <1>4, <1>5, <2>2 DEF FindOp
    <3> QED
      BY <1>5, <2>2, <3>1 DEF FindOp, SeenBefore, TurnReason
  <2> QED
    BY <2>1, <2>2
<1>6. CASE Decide(h)
  <2>0. /\ handler[h].step = "decide" /\ handler[h].todo # {}
        /\ UNCHANGED <<reading, log, nextSeq, opLog>>
    BY <1>6 DEF Decide
  <2>1. CASE ~Refused(h)
    <3> DEFINE k == ClockOf(ItemOf[Current(h)])
    <3>1. PICK s \in {"load", "lost"} :
             /\ s = IF Wins(Current(h)) THEN "load" ELSE "lost"
             /\ handler' = [handler EXCEPT ![h].step = s, ![h].clock = k]
      BY <1>6, <2>1 DEF Decide
    <3>2. k \in Nat /\ handler[h].version \in Nat
      BY <1>2, <2>0
    <3>3. s = "load" => reading[Current(h)] > k
      BY <3>1 DEF Wins
    <3> HIDE DEF k
    <3>4. handler' = [handler EXCEPT ![h].step = s, ![h].clock = k,
                                     ![h].version = handler[h].version]
      BY <1>1, <1>2, <2>0, <3>1 DEF Handler
    <3>5. Turned(h) /\ handler'[h].step = s /\ handler'[h].clock = k
      BY <1>3, <2>0, <3>2, <3>4
    <3> QED
      BY <2>0, <3>3, <3>5 DEF TurnReason
  <2> QED
    BY <1>r, <2>0, <2>1
<1>7. CASE Load(h)
  <2>0. /\ handler[h].step = "load" /\ handler[h].todo # {}
        /\ UNCHANGED <<reading, log, nextSeq, opLog>>
    BY <1>7 DEF Load
  <2>1. CASE /\ Says(Stored(ItemOf[Current(h)])) = Writes[Current(h)]
             /\ Goto(h, "unchanged")
    <3>1. Turned(h) /\ handler'[h].step = "unchanged"
      BY <1>4, <2>0, <2>1
    <3> QED
      BY <2>0, <2>1, <3>1 DEF TurnReason
  <2>2. CASE handler' = [handler EXCEPT ![h].step = "write",
                                        ![h].version = Version(ItemOf[Current(h)])]
    <3> DEFINE v == Version(ItemOf[Current(h)])
    <3>1. v \in Nat /\ handler[h].clock \in Nat
      BY <1>0, <1>2, <2>0, VersionType
    <3> HIDE DEF v
    <3>2. handler' = [handler EXCEPT ![h].step = "write", ![h].clock = handler[h].clock,
                                     ![h].version = v]
      BY <1>1, <1>2, <2>0, <2>2 DEF Handler, v
    <3>3. Turned(h) /\ handler'[h].step = "write" /\ handler'[h].version = v
      BY <1>3, <2>0, <3>1, <3>2
    <3>4. outrun' = outrun \cup {i \in {ItemOf[Current(h)]} :
             reading[Current(h)] > handler[h].clock /\ reading[Current(h)] <= ClockOf(i)}
      BY <2>0 DEF Work, FindOp, Decide, Write, Unread, Commit, Refuse
    <3>5. reading[Current(h)] > handler[h].clock
          => Wins(Current(h)) \/ ItemOf[Current(h)] \in outrun'
      BY <1>2, <2>0, <3>4 DEF Wins
    <3> QED
      BY <2>0, <3>3, <3>5 DEF TurnReason, v
  <2> QED
    BY <1>7, <1>r, <2>0, <2>1, <2>2 DEF Load
<1>8. CASE Write(h)
  <2>0. handler[h].step = "write" /\ handler[h].todo # {}
    BY <1>8 DEF Write
  <2>1. CASE /\ handler[h].version = Version(ItemOf[Current(h)])
             /\ handler' = [handler EXCEPT ![h].step = "written", ![h].seq = nextSeq]
             /\ nextSeq' = nextSeq + 1
    <3>1. handler' = [handler EXCEPT ![h].step = "written", ![h].clock = handler[h].clock,
                                     ![h].version = handler[h].version, ![h].seq = nextSeq]
      BY <1>1, <1>2, <2>0, <2>1 DEF Handler
    <3>2. Turn(h, "written", handler[h].clock, handler[h].version, nextSeq)
      <4>1. /\ 0 < nextSeq /\ nextSeq < nextSeq' /\ nextSeq' \in Nat /\ nextSeq <= nextSeq'
            /\ UNCHANGED <<reading, log, opLog, queue, answer>>
            /\ handler[h].todo # {}
        BY <1>0, <1>1, <1>8, <2>1 DEF Write, Numbered
      <4> QED
        BY <3>1, <4>1, Zenon DEF Turn
    <3>3. handler[h].clock \in Nat /\ handler[h].version \in Nat /\ "written" \in Steps
      BY <1>2, <2>0 DEF Steps
    <3>4. Turned(h)
      BY <1>1, <3>2, <3>3, Zenon DEF Turned
    <3>5. handler'[h].step = "written" /\ handler'[h].seq = nextSeq
      BY <1>1, <1>2, <2>0, <2>1 DEF Handler
    <3>6. ~Locked(ItemOf[Current(h)])
      BY <1>8 DEF Write
    <3> QED
      BY <2>0, <2>1, <3>4, <3>5, <3>6 DEF TurnReason
  <2>2. CASE /\ handler[h].version # Version(ItemOf[Current(h)])
             /\ Goto(h, "refused") /\ UNCHANGED nextSeq
    <3>1. Turned(h) /\ handler'[h].step = "refused"
      BY <1>4, <1>8, <2>0, <2>2 DEF Write
    <3> QED
      BY <2>0, <3>1 DEF TurnReason
  <2> QED
    BY <1>8, <2>1, <2>2 DEF Write
<1>9. CASE Commit(h)
  <2>1. /\ handler[h].todo # {} /\ Current(h) \in Ops /\ handler[h].seq \in Nat
        /\ ItemOf[Current(h)] \in Items
    BY <1>0, <1>2, <1>9 DEF Commit
  <2>2. /\ Stored(ItemOf[Current(h)]) \in Change \cup {NoChange}
        /\ [seq |-> handler[h].seq, op |-> Current(h)] \in Change
    BY <1>0, <2>1, StoredIsLast DEF Change
  <2>3. UNCHANGED <<reading, nextSeq>>
    BY <1>9 DEF Commit
  <2>4. CASE At(h, "written")
    <3> DEFINE new == [seq |-> handler[h].seq, op |-> Current(h)]
               r == [op |-> Current(h), result |-> "APPLIED", state |-> new]
    <3>1. log' = log \cup {new} /\ Answered(h, r) /\ Recorded(r)
      BY <1>9, <2>4 DEF Commit
    <3>2. r \in Result /\ r.op = Current(h) /\ r.result = "APPLIED" /\ r.state = new
      BY <2>1, <2>2 DEF Result, Results
    <3> HIDE DEF r
    <3>3. Ruled(h, r) /\ RuleReason(h, r)
      BY <1>0, <2>1, <2>3, <2>4, <3>1, <3>2 DEF Ruled, RuleReason
    <3> QED
      BY <3>2, <3>3
  <2>5. CASE At(h, "unchanged") \/ At(h, "lost")
    <3> DEFINE verdict == IF At(h, "lost") THEN "MERGED" ELSE "APPLIED"
               r == [op |-> Current(h), result |-> verdict,
                     state |-> Stored(ItemOf[Current(h)])]
    <3>1. log' = log /\ Answered(h, r) /\ Recorded(r)
      BY <1>9, <2>5 DEF Commit
    <3>2. /\ r \in Result /\ r.op = Current(h) /\ r.state = Stored(ItemOf[Current(h)])
          /\ r.result = verdict
      BY <2>1, <2>2 DEF Result, Results
    <3> HIDE DEF r
    <3>3. Ruled(h, r) /\ RuleReason(h, r)
      BY <1>0, <2>1, <2>3, <2>5, <3>1, <3>2 DEF Ruled, RuleReason
    <3> QED
      BY <3>2, <3>3
  <2> QED
    BY <1>9, <2>4, <2>5 DEF Commit
<1>10. CASE Refuse(h)
  <2>1. handler[h].todo # {} /\ Current(h) \in Ops
    BY <1>0, <1>10, CurrentIsLeast DEF Refuse
  <2> QED
    BY <1>0, <1>10, <2>1 DEF Refuse, Ruled, RuleReason, Result, Results
<1>11. CASE Unread(h)
  <2>1. /\ Refused(h) /\ handler[h].todo # {} /\ handler[h].step # "find"
        /\ UNCHANGED <<reading, log, nextSeq, opLog>>
    BY <1>11 DEF Unread
  <2> QED
    BY <1>r, <2>1
<1> QED
  BY <1>5, <1>6, <1>7, <1>8, <1>9, <1>10, <1>11 DEF Work

-----------------------------------------------------------------------------
(* Each shape keeps the invariant.                                         *)

LEMMA ClocksStand ==
    ASSUME Clocks, UNCHANGED reading
    PROVE  Clocks'
<1>1. MadeOps' = MadeOps
  BY DEF MadeOps, Made
<1> QED
  BY <1>1 DEF Clocks, Made

LEMMA TurnedKeeps ==
    ASSUME PushInv, NEW h \in Handlers, Turned(h)
    PROVE  PushInv'
<1> USE DEF PushInv
<1>1. PICK s \in Steps, t \in Nat, v \in Nat, q \in Nat : Turn(h, s, t, v, q)
  BY DEF Turned
<1>2. /\ handler[h] \in Handler /\ handler \in [Handlers -> Handler \cup {NoHandler}]
      /\ UNCHANGED <<reading, log, opLog, queue, answer>>
  BY <1>1, CurrentIsLeast DEF Turn, Types, ServerTypeOK
<1>3. /\ handler'[h] = [handler[h] EXCEPT !.step = s, !.clock = t, !.version = v, !.seq = q]
      /\ \A k \in Handlers : k # h => handler'[k] = handler[k]
      /\ handler' \in [Handlers -> Handler \cup {NoHandler}]
  BY <1>1, <1>2 DEF Turn, Handler, Steps
<1>4. \A k \in Handlers : /\ handler'[k].todo = handler[k].todo
                          /\ handler'[k].results = handler[k].results
                          /\ handler'[k].dev = handler[k].dev
  <2>1. /\ handler'[h].todo = handler[h].todo
        /\ handler'[h].results = handler[h].results
        /\ handler'[h].dev = handler[h].dev
    <3> HIDE DEF PushInv
    <3> QED
      BY <1>2, <1>3 DEF Handler
  <2> QED
    BY <1>3, <2>1, Zenon
<1>5. Types'
  BY <1>1, <1>2, <1>3 DEF Types, ServerTypeOK, Turn
<1>6. Clocks'
  BY <1>2, ClocksStand
<1>7. Owned'
  <2>1. \A k \in Handlers : handler'[k].step \notin {"idle", "find"} => handler'[k].todo # {}
    BY <1>1, <1>3, <1>4 DEF Owned, Turn
  <2> QED
    BY <1>2, <1>4, <2>1 DEF Owned, Made
<1>8. Numbered'
  <2>1. handler'[h].step = "written" => 0 < handler'[h].seq /\ handler'[h].seq < nextSeq'
    BY <1>1, <1>2, <1>3 DEF Turn, Handler
  <2>2. \A k \in Handlers : k # h /\ handler[k].step = "written" => handler[k].seq \in Nat
    BY <1>2 DEF Handler, NoHandler
  <2>3. \A c \in log : c.seq \in Nat
    BY DEF Types, ServerTypeOK, Change
  <2>4. nextSeq \in Nat /\ nextSeq' \in Nat /\ nextSeq <= nextSeq'
    BY <1>1 DEF Turn, Types, ServerTypeOK
  <2>5. /\ IsFiniteSet(log)' /\ 0 < nextSeq'
        /\ \A c \in log' : 0 < c.seq /\ c.seq < nextSeq'
    BY <1>2, <2>3, <2>4 DEF Numbered
  <2>6. \A k \in Handlers : k # h /\ handler[k].step = "written" =>
           0 < handler[k].seq /\ handler[k].seq < nextSeq'
    BY <2>2, <2>4 DEF Numbered
  <2> QED
    BY <1>3, <2>1, <2>5, <2>6 DEF Numbered
<1>9. Answers'
  BY <1>2, <1>4 DEF Answers
<1>10. Ahead'
  BY <1>2, <1>4 DEF Ahead, Made
<1>11. NothingLost' /\ DeviceOrder'
  BY <1>2 DEF NothingLost, DeviceOrder, Made
<1> QED
  BY <1>5, <1>6, <1>7, <1>8, <1>9, <1>10, <1>11

(* What an answered mutation leaves behind.                                *)
LEMMA RuledWrites ==
    ASSUME PushInv, NEW h \in Handlers, NEW r \in Result, Ruled(h, r)
    PROVE  /\ handler'[h] = [handler[h] EXCEPT !.step = "find",
                                 !.todo = handler[h].todo \ {Current(h)},
                                 !.results = handler[h].results \cup {r},
                                 !.clock = 0, !.version = 0, !.seq = 0]
           /\ \A k \in Handlers : k # h => handler'[k] = handler[k]
           /\ handler' \in [Handlers -> Handler \cup {NoHandler}]
           /\ opLog' \in [Ops -> Result \cup {NoResult}]
           /\ opLog'[Current(h)] = IF opLog[Current(h)] = NoResult THEN r ELSE opLog[Current(h)]
           /\ opLog'[Current(h)] # NoResult
           /\ \A m \in Ops : m # Current(h) => opLog'[m] = opLog[m]
<1> USE DEF PushInv
<1>1. /\ Current(h) \in Ops /\ handler[h] \in Handler
      /\ handler \in [Handlers -> Handler \cup {NoHandler}]
      /\ opLog \in [Ops -> Result \cup {NoResult}]
  BY CurrentIsLeast DEF Ruled, Types, ServerTypeOK
<1>2. r # NoResult
  BY SyncAssumption DEF Result, NoResult
<1>3. [handler[h] EXCEPT !.step = "find", !.todo = handler[h].todo \ {Current(h)},
                         !.results = handler[h].results \cup {r},
                         !.clock = 0, !.version = 0, !.seq = 0] \in Handler
  BY <1>1 DEF Handler
<1>4. handler' = [handler EXCEPT ![h] =
                    [handler[h] EXCEPT !.step = "find", !.todo = handler[h].todo \ {Current(h)},
                                       !.results = handler[h].results \cup {r},
                                       !.clock = 0, !.version = 0, !.seq = 0]]
  BY <1>1 DEF Ruled, Answered
<1>5. opLog' = [opLog EXCEPT ![Current(h)] =
                  IF opLog[Current(h)] = NoResult THEN r ELSE opLog[Current(h)]]
  BY DEF Ruled, Recorded
<1> QED
  BY <1>1, <1>2, <1>3, <1>4, <1>5

LEMMA RuledAnswers ==
    ASSUME PushInv, NEW h \in Handlers, NEW r \in Result, Ruled(h, r)
    PROVE  /\ Running(h) /\ handler'[h].step = "find"
           /\ handler'[h].results = handler[h].results \cup {r}
           /\ handler'[h].dev = handler[h].dev
<1>1. handler[h] \in Handler /\ Running(h)
  BY CurrentIsLeast DEF PushInv, Ruled
<1>2. handler'[h] = [handler[h] EXCEPT !.step = "find",
                         !.todo = handler[h].todo \ {Current(h)},
                         !.results = handler[h].results \cup {r},
                         !.clock = 0, !.version = 0, !.seq = 0]
  BY RuledWrites
<1> QED
  BY <1>1, <1>2 DEF Handler

LEMMA RuledKeeps ==
    ASSUME PushInv, NEW h \in Handlers, NEW r \in Result, Ruled(h, r)
    PROVE  PushInv'
<1> USE DEF PushInv
<1>1. /\ Current(h) \in Ops /\ handler[h] \in Handler
      /\ Current(h) \in handler[h].todo
      /\ \A n \in handler[h].todo : reading[Current(h)] <= reading[n]
      /\ handler \in [Handlers -> Handler \cup {NoHandler}]
      /\ reading \in [Ops -> Nat]
      /\ UNCHANGED <<reading, nextSeq, queue, answer>>
      /\ r.op = Current(h)
  BY CurrentIsLeast DEF Ruled, Types, ServerTypeOK
<1>2. /\ handler'[h].step = "find" /\ handler'[h].dev = handler[h].dev
      /\ handler'[h].todo = handler[h].todo \ {Current(h)}
      /\ handler'[h].results = handler[h].results \cup {r}
      /\ handler'[h].seq = 0
      /\ \A k \in Handlers : k # h => handler'[k] = handler[k]
  <2>1. /\ handler'[h] = [handler[h] EXCEPT !.step = "find",
                              !.todo = handler[h].todo \ {Current(h)},
                              !.results = handler[h].results \cup {r},
                              !.clock = 0, !.version = 0, !.seq = 0]
        /\ \A k \in Handlers : k # h => handler'[k] = handler[k]
    BY RuledWrites
  <2> QED
    BY <1>1, <2>1 DEF Handler
<1>3. /\ opLog'[Current(h)] # NoResult
      /\ \A m \in Ops : m # Current(h) => opLog'[m] = opLog[m]
      /\ \A m \in Ops : opLog[m] # NoResult => opLog'[m] = opLog[m]
  BY RuledWrites
<1>4. \A c \in log' : c \in log
         \/ /\ handler[h].step = "written"
            /\ c = [seq |-> handler[h].seq, op |-> Current(h)]
  BY DEF Ruled
<1>5. Types'
  <2>1. log' \subseteq Change
    BY <1>1, <1>4 DEF Types, ServerTypeOK, Change, Handler
  <2> QED
    BY <1>1, <2>1, RuledWrites DEF Types, ServerTypeOK
<1>6. Clocks'
  BY <1>1, ClocksStand
<1>7. Owned'
  <2>1. \A k \in Handlers :
           /\ handler'[k].todo \subseteq handler[k].todo
           /\ handler'[k].dev = handler[k].dev
           /\ handler'[k].step \notin {"idle", "find"} => handler'[k].todo # {}
    BY <1>2 DEF Owned
  <2>2. Made(Current(h))
    BY <1>1 DEF Owned
  <2>3. \A c \in log' : Made(c.op)
    BY <1>4, <2>2 DEF Owned
  <2>4. opLog'[Current(h)].op = Current(h)
    <3>1. opLog'[Current(h)] = IF opLog[Current(h)] = NoResult THEN r ELSE opLog[Current(h)]
      BY RuledWrites
    <3>2. opLog[Current(h)] # NoResult => opLog[Current(h)].op = Current(h)
      BY <1>1 DEF Owned
    <3> QED
      BY <1>1, <3>1, <3>2
  <2> QED
    BY <1>1, <1>3, <2>1, <2>2, <2>3, <2>4 DEF Owned, Made
<1>8. Numbered'
  <2>1. IsFiniteSet(log')
    BY FS_AddElement DEF Ruled, Numbered
  <2>2. \A c \in log' : 0 < c.seq /\ c.seq < nextSeq'
    BY <1>1, <1>4 DEF Numbered
  <2> QED
    BY <1>1, <1>2, <2>1, <2>2 DEF Numbered
<1>9. Answers'
  <2>1. \A k \in Handlers : \A a \in handler[k].results : a.op \in Ops
    BY <1>1 DEF Handler, NoHandler, Result
  <2>2. \A d \in Devices : \A a \in answer[d].results : a.op \in Ops
    BY DEF Types, Result
  <2> QED
    BY <1>1, <1>2, <1>3, <2>1, <2>2 DEF Answers
<1>10. Ahead'
  BY <1>1, <1>2, <1>3 DEF Ahead, Made
<1>11. NothingLost'
  BY <1>1, <1>3 DEF NothingLost, Made
<1>12. DeviceOrder'
  <2> SUFFICES ASSUME NEW m \in Ops, NEW n \in Ops, DeviceOf[m] = DeviceOf[n],
                      Made(m), reading[m] < reading[n], opLog'[n] # NoResult
               PROVE  opLog'[m] # NoResult
    BY <1>1 DEF DeviceOrder, Made
  <2>1. CASE n # Current(h)
    BY <1>3, <2>1 DEF DeviceOrder
  <2>2. CASE n = Current(h)
    <3>1. DeviceOf[m] = handler[h].dev
      BY <1>1, <2>2 DEF Owned
    <3>2. m \in handler[h].todo \/ opLog[m] # NoResult
      BY <1>1, <2>2, <3>1 DEF Ahead
    <3>3. m \notin handler[h].todo
      BY <1>1, <2>2
    <3> QED
      BY <1>3, <3>2, <3>3
  <2> QED
    BY <2>1, <2>2
<1> QED
  BY <1>5, <1>6, <1>7, <1>8, <1>9, <1>10, <1>11, <1>12

LEMMA EndedKeeps ==
    ASSUME PushInv, NEW h \in Handlers, Ended(h)
    PROVE  PushInv'
<1> USE DEF PushInv
<1>1. /\ handler \in [Handlers -> Handler \cup {NoHandler}]
      /\ UNCHANGED <<reading, log, nextSeq, opLog, queue>>
  BY DEF Ended, Types, ServerTypeOK
<1>2. /\ handler'[h] = NoHandler
      /\ \A k \in Handlers : k # h => handler'[k] = handler[k]
      /\ handler' \in [Handlers -> Handler \cup {NoHandler}]
  BY <1>1 DEF Ended
<1>3. NoHandler.step = "idle" /\ NoHandler.todo = {} /\ NoHandler.results = {}
  BY DEF NoHandler
<1>4. Types'
  BY <1>1, <1>2 DEF Types, ServerTypeOK, Ended
<1>5. Clocks'
  BY <1>1, ClocksStand
<1>6. Owned'
  BY <1>1, <1>2, <1>3 DEF Owned, Made
<1>7. Numbered'
  BY <1>1, <1>2, <1>3 DEF Numbered
<1>8. Answers'
  BY <1>1, <1>2, <1>3 DEF Answers, Ended
<1>9. Ahead'
  BY <1>1, <1>2, <1>3 DEF Ahead, Made
<1>10. NothingLost' /\ DeviceOrder'
  BY <1>1 DEF NothingLost, DeviceOrder, Made
<1> QED
  BY <1>4, <1>5, <1>6, <1>7, <1>8, <1>9, <1>10

LEMMA LocalKeeps ==
    ASSUME PushInv, Local
    PROVE  PushInv'
<1> USE DEF PushInv
<1>1. UNCHANGED <<reading, log, nextSeq, opLog, handler>>
  BY DEF Local, serverVars
<1>2. Types'
  BY <1>1 DEF Types, ServerTypeOK, Local
<1>3. Clocks'
  BY <1>1, ClocksStand
<1>4. Owned' /\ Numbered' /\ Ahead' /\ DeviceOrder'
  BY <1>1 DEF Owned, Numbered, Ahead, DeviceOrder, Made, Local
<1>5. Answers'
  BY <1>1 DEF Answers, Local
<1>6. NothingLost'
  <2>1. \A m \in Ops : DeviceOf[m] \in Devices
    BY SyncAssumption
  <2> QED
    BY <1>1, <2>1 DEF NothingLost, Made, Answers, Local
<1> QED
  BY <1>2, <1>3, <1>4, <1>5, <1>6

(* A push begins with the head of a queue: what the device did before a    *)
(* mutation of it is in it, or was decided (NothingLost).                  *)
LEMMA PushKeeps ==
    ASSUME PushInv, NEW d \in Devices, Push(d)
    PROVE  PushInv'
<1> USE DEF PushInv
<1>1. PICK h \in Handlers, batch \in SUBSET queue[d] : Leading(d, batch) /\ Accept(h, d, batch)
  BY DEF Push
<1>2. /\ handler \in [Handlers -> Handler \cup {NoHandler}]
      /\ UNCHANGED <<reading, log, nextSeq, opLog, queue, answer>>
      /\ batch \subseteq Ops
      /\ reading \in [Ops -> Nat]
  BY <1>1 DEF Push, Accept, Types, ServerTypeOK
<1> DEFINE new == [NoHandler EXCEPT !.step = "find", !.dev = d, !.todo = batch]
<1>3. /\ new \in Handler
      /\ new.step = "find" /\ new.dev = d /\ new.todo = batch /\ new.results = {}
  BY <1>2 DEF NoHandler, Handler
<1>4. handler' = [handler EXCEPT ![h] = new]
  BY <1>1 DEF Accept
<1> HIDE DEF new
<1>5. /\ handler'[h] = new
      /\ \A k \in Handlers : k # h => handler'[k] = handler[k]
      /\ handler' \in [Handlers -> Handler \cup {NoHandler}]
  BY <1>2, <1>3, <1>4
<1>6. Types'
  BY <1>2, <1>5 DEF Types, ServerTypeOK
<1>7. Clocks'
  BY <1>2, ClocksStand
<1>8. Owned'
  BY <1>2, <1>3, <1>5 DEF Owned, Made
<1>9. Numbered'
  BY <1>2, <1>3, <1>5 DEF Numbered
<1>10. Answers'
  BY <1>2, <1>3, <1>5 DEF Answers
<1>11. Ahead'
  <2>1. ASSUME NEW n \in batch, NEW m \in Ops, Made(m), DeviceOf[m] = d,
               reading[m] < reading[n]
        PROVE  m \in batch \/ opLog[m] # NoResult
    BY <1>1, <2>1 DEF NothingLost, Leading
  <2> QED
    BY <1>2, <1>3, <1>5, <2>1 DEF Ahead, Made
<1>12. NothingLost' /\ DeviceOrder'
  BY <1>2 DEF NothingLost, DeviceOrder, Made
<1> QED
  BY <1>6, <1>7, <1>8, <1>9, <1>10, <1>11, <1>12

(* A new mutation is the latest of all.                                    *)
LEMMA EnqueueWrites ==
    ASSUME PushInv, NEW d \in Devices, NEW m \in Ops, Enqueue(d, m)
    PROVE  /\ reading' \in [Ops -> Nat]
           /\ ~Made(m) /\ reading'[m] # 0 /\ DeviceOf[m] = d
           /\ \A n \in Ops : n # m => reading'[n] = reading[n]
           /\ \A n \in Ops : reading[n] < reading'[m]
           /\ queue'[d] = queue[d] \cup {m}
           /\ \A e \in Devices : e # d => queue'[e] = queue[e]
           /\ queue' \in [Devices -> SUBSET Ops]
           /\ UNCHANGED <<log, nextSeq, opLog, handler, answer>>
           /\ Clocks'
<1> USE DEF PushInv
<1>1. /\ IsFiniteSet(MadeOps) /\ Cardinality(MadeOps) \in Nat
      /\ reading \in [Ops -> Nat]
      /\ queue \in [Devices -> SUBSET Ops]
  BY FS_CardinalityType DEF Clocks, Types, ServerTypeOK
<1>2. reading' = [reading EXCEPT ![m] = 1 + Cardinality(MadeOps)]
  BY DEF Enqueue, MadeOps
<1>3. /\ reading' \in [Ops -> Nat]
      /\ ~Made(m) /\ reading'[m] = 1 + Cardinality(MadeOps)
      /\ \A n \in Ops : n # m => reading'[n] = reading[n]
  BY <1>1, <1>2 DEF Enqueue
<1>4. \A n \in Ops : reading[n] < reading'[m]
  BY <1>1, <1>3 DEF Clocks
<1>5. MadeOps' = MadeOps \cup {m} /\ m \notin MadeOps
  BY <1>1, <1>3 DEF MadeOps, Made
<1>6. IsFiniteSet(MadeOps') /\ Cardinality(MadeOps') = Cardinality(MadeOps) + 1
  BY <1>1, <1>5, FS_AddElement
<1>7. Clocks'
  <2>1. \A n \in Ops : reading'[n] <= Cardinality(MadeOps)'
    BY <1>1, <1>3, <1>6 DEF Clocks
  <2>2. ASSUME NEW n \in Ops, NEW o \in Ops, reading'[n] # 0, reading'[n] = reading'[o]
        PROVE  n = o
    <3>1. CASE n = m \/ o = m
      BY <1>1, <1>3, <1>4, <2>2, <3>1
    <3>2. CASE n # m /\ o # m
      BY <1>3, <2>2, <3>2 DEF Clocks, Made
    <3> QED
      BY <3>1, <3>2
  <2> QED
    BY <1>6, <2>1, <2>2 DEF Clocks, Made
<1> QED
  BY <1>1, <1>3, <1>4, <1>7 DEF Enqueue

LEMMA EnqueueKeeps ==
    ASSUME PushInv, NEW d \in Devices, NEW m \in Ops, Enqueue(d, m)
    PROVE  PushInv'
<1> USE DEF PushInv
<1>1. /\ reading \in [Ops -> Nat]
      /\ handler \in [Handlers -> Handler \cup {NoHandler}]
      /\ UNCHANGED <<log, nextSeq, opLog, handler, answer>>
  BY EnqueueWrites DEF Types, ServerTypeOK
<1>2. \A n \in Ops : Made(n) => n # m /\ Made(n)' /\ reading'[n] = reading[n]
  BY EnqueueWrites DEF Made
<1>3. \A n \in Ops : Made(n)' => Made(n) \/ n = m
  BY EnqueueWrites DEF Made
<1>4. \A h \in Handlers : handler[h].todo \subseteq Ops
  BY <1>1 DEF Handler, NoHandler
<1>5. Types'
  BY EnqueueWrites DEF Types, ServerTypeOK
<1>6. Clocks'
  BY EnqueueWrites
<1>7. Owned'
  <2>1. \A e \in Devices : \A n \in queue'[e] : Made(n)' /\ DeviceOf[n] = e
    BY <1>2, EnqueueWrites DEF Owned, Types, Made
  <2>2. \A c \in log : c.op \in Ops
    BY DEF Types, ServerTypeOK, Change
  <2> QED
    BY <1>1, <1>2, <1>4, <2>1, <2>2 DEF Owned
<1>8. Numbered' /\ Answers'
  BY <1>1 DEF Numbered, Answers
<1>9. Ahead'
  <2> SUFFICES ASSUME NEW h \in Handlers, NEW n \in handler[h].todo, NEW o \in Ops,
                      Made(o)', DeviceOf[o] = handler[h].dev, reading'[o] < reading'[n]
               PROVE  o \in handler[h].todo \/ opLog[o] # NoResult
    BY <1>1 DEF Ahead
  <2>1. Made(n) /\ n \in Ops
    BY <1>4 DEF Owned
  <2>2. reading'[n] = reading[n]
    BY <1>2, <2>1
  <2>3. o # m
    BY <1>1, <2>1, <2>2, EnqueueWrites
  <2> QED
    BY <1>2, <1>3, <2>1, <2>2, <2>3 DEF Ahead
<1>10. NothingLost'
  <2>1. \A n \in Ops : DeviceOf[n] \in Devices
    BY SyncAssumption
  <2>2. \A e \in Devices : queue[e] \subseteq queue'[e]
    BY EnqueueWrites
  <2>3. m \in queue'[DeviceOf[m]]
    BY EnqueueWrites
  <2> QED
    BY <1>1, <1>3, <2>1, <2>2, <2>3 DEF NothingLost
<1>11. DeviceOrder'
  <2> SUFFICES ASSUME NEW o \in Ops, NEW n \in Ops, DeviceOf[o] = DeviceOf[n],
                      Made(o)', reading'[o] < reading'[n], opLog[n] # NoResult
               PROVE  opLog[o] # NoResult
    BY <1>1 DEF DeviceOrder
  <2>1. Made(n) /\ reading'[n] = reading[n]
    BY <1>2 DEF Owned
  <2>2. o # m
    BY <1>1, <2>1, EnqueueWrites
  <2> QED
    BY <1>2, <1>3, <2>1, <2>2 DEF DeviceOrder
<1> QED
  BY <1>5, <1>6, <1>7, <1>8, <1>9, <1>10, <1>11

LEMMA LocalShapes ==
    ASSUME PushInv, NEW d \in Devices,
           \/ Pull(d) \/ PullCut(d) \/ OpenStream(d) \/ Frame(d)
           \/ TimeOut(d) \/ Settle(d) \/ Drop(d)
    PROVE  Local
<1>1. /\ queue \in [Devices -> SUBSET Ops]
      /\ answer \in [Devices -> [results : SUBSET Result, cursor : Nat]]
  BY DEF PushInv, Types
<1>2. UNCHANGED serverVars
  BY DEF Pull, PullCut, OpenStream, Frame, TimeOut, Settle, Drop
<1>3. ASSUME UNCHANGED <<queue, answer>>
      PROVE  Local
  BY <1>1, <1>2, <1>3 DEF Local
<1>4. CASE Pull(d) \/ PullCut(d) \/ OpenStream(d) \/ Frame(d) \/ TimeOut(d)
  BY <1>3, <1>4 DEF Pull, PullCut, OpenStream, Frame, TimeOut
<1>5. NoAnswer \in [results : SUBSET Result, cursor : Nat] /\ NoAnswer.results = {}
  BY DEF NoAnswer
<1>6. CASE Drop(d)
  BY <1>1, <1>2, <1>5, <1>6 DEF Drop, Local
<1>7. CASE Settle(d)
  <2>1. queue' = [queue EXCEPT ![d] = Remaining(d)]
        /\ answer' = [answer EXCEPT ![d] = NoAnswer]
    BY <1>7 DEF Settle
  <2>2. /\ Remaining(d) \subseteq queue[d]
        /\ \A m \in queue[d] : m \in Remaining(d) \/ \E r \in answer[d].results : r.op = m
    BY DEF Remaining
  <2> QED
    BY <1>1, <1>2, <1>5, <2>1, <2>2 DEF Local
<1> QED
  BY <1>4, <1>6, <1>7

LEMMA EndShapes ==
    ASSUME PushInv, NEW h \in Handlers, PushFails(h) \/ Reply(h)
    PROVE  Ended(h)
<1>1. /\ answer \in [Devices -> [results : SUBSET Result, cursor : Nat]]
      /\ handler[h].results \subseteq Result
      /\ Latest \in Nat
  BY LatestType DEF PushInv, Types, ServerTypeOK, Handler, NoHandler
<1>2. CASE PushFails(h)
  BY <1>1, <1>2 DEF PushFails, Fail, Abandon, Ended
<1>3. CASE Reply(h)
  <2>1. UNCHANGED <<reading, log, nextSeq, opLog, queue>>
        /\ handler' = [handler EXCEPT ![h] = NoHandler]
    BY <1>3 DEF Reply, Finish
  <2> DEFINE sent == [results |-> handler[h].results, cursor |-> Latest]
  <2>2. sent \in [results : SUBSET Result, cursor : Nat] /\ sent.results = handler[h].results
    BY <1>1
  <2>3. answer' = [e \in Devices |-> IF Waiting(e, h) THEN sent ELSE answer[e]]
    BY <1>3 DEF Reply
  <2> HIDE DEF sent
  <2> QED
    BY <1>1, <2>1, <2>2, <2>3 DEF Ended
<1> QED
  BY <1>2, <1>3

(* Every step has one of the shapes.                                       *)
LEMMA StepShapes ==
    ASSUME PushInv, [Next]_vars
    PROVE  \/ \E d \in Devices, m \in Ops : Enqueue(d, m)
           \/ Local
           \/ \E d \in Devices : Push(d)
           \/ \E h \in Handlers : Work(h)
           \/ \E h \in Handlers : Ended(h)
<1>1. CASE UNCHANGED vars
  BY <1>1 DEF vars, deviceVars, Local, PushInv, Types
<1>2. CASE Next
  BY <1>2, LocalShapes, EndShapes DEF Next
<1> QED
  BY <1>1, <1>2

LEMMA PushInvInit ==
    ASSUME Init
    PROVE  PushInv
<1>1. \A m \in Ops : reading[m] = 0 /\ opLog[m] = NoResult /\ ~Made(m)
  BY DEF Init, ServerInit, Made
<1>2. \A h \in Handlers : handler[h] = NoHandler
  BY DEF Init, ServerInit
<1>3. NoHandler.step = "idle" /\ NoHandler.todo = {} /\ NoHandler.results = {}
  BY DEF NoHandler
<1>4. log = {} /\ \A d \in Devices : queue[d] = {} /\ answer[d].results = {}
  BY DEF Init, ServerInit, NoAnswer
<1>5. Types
  BY DEF Init, ServerInit, Types, ServerTypeOK, NoAnswer, NoResult
<1>6. Clocks
  <2>1. MadeOps = {}
    BY <1>1 DEF MadeOps
  <2> QED
    BY <1>1, <2>1, FS_EmptySet DEF Clocks
<1>7. Owned /\ Answers /\ Ahead
  BY <1>1, <1>2, <1>3, <1>4 DEF Owned, Answers, Ahead
<1>8. Numbered
  BY <1>2, <1>3, <1>4, FS_EmptySet DEF Numbered, Init, ServerInit
<1>9. NothingLost /\ DeviceOrder
  BY <1>1 DEF NothingLost, DeviceOrder
<1> QED
  BY <1>5, <1>6, <1>7, <1>8, <1>9 DEF PushInv

LEMMA PushInvStep ==
    ASSUME PushInv, [Next]_vars
    PROVE  PushInv'
  BY StepShapes, EnqueueKeeps, LocalKeeps, PushKeeps, WorkShapes, TurnedKeeps,
     RuledKeeps, EndedKeeps

LEMMA PushInvHolds == Spec => []PushInv
<1>1. Init => PushInv
  BY PushInvInit
<1>2. PushInv /\ [Next]_vars => PushInv'
  BY PushInvStep
<1> QED
  BY <1>1, <1>2, PTL DEF Spec

(* A queued change is never lost: whatever push fails, is cut off or is    *)
(* answered in part, it stays queued until the operation log holds what    *)
(* became of it.                                                           *)
THEOREM QueueIsNotLost == Spec => []NothingLost
<1>1. PushInv => NothingLost
  BY DEF PushInv
<1> QED
  BY <1>1, PushInvHolds, PTL

(* Nothing a device did is decided before what it did earlier, even when   *)
(* two pushes of the same queue are applied at once.                       *)
THEOREM DeviceOrderKept == Spec => []DeviceOrder
<1>1. PushInv => DeviceOrder
  BY DEF PushInv
<1> QED
  BY <1>1, PushInvHolds, PTL

-----------------------------------------------------------------------------
(* What the histories and the mutation under way keep from step to step.   *)

LeastOf(f, S) == CHOOSE m \in S : \A n \in S : f[m] <= f[n]

LEMMA CurrentStands ==
    ASSUME PushInv, NEW h \in Handlers, handler[h].todo # {},
           handler'[h].todo = handler[h].todo,
           \A m \in handler[h].todo : reading'[m] = reading[m]
    PROVE  Current(h)' = Current(h)
<1> DEFINE T == handler[h].todo
<1>1. Current(h) = LeastOf(reading, T) /\ Current(h)' = LeastOf(reading', T)
  BY DEF Current, First, LeastOf
<1>2. \A m \in T : m \in Ops /\ Made(m) /\ reading[m] \in Nat
  BY DEF PushInv, Types, ServerTypeOK, Owned, Handler, NoHandler
<1>3. ASSUME NEW f, \A m \in T : f[m] = reading[m]
      PROVE  LeastOf(f, T) \in T /\ \A n \in T : reading[LeastOf(f, T)] <= reading[n]
  <2> HIDE DEF T
  <2>1. T # {}
    BY DEF T
  <2>2. \E m \in T : \A n \in T : f[m] <= f[n]
    BY <1>2, <1>3, <2>1, LeastExists
  <2>3. LeastOf(f, T) \in T /\ \A n \in T : f[LeastOf(f, T)] <= f[n]
    BY <2>2 DEF LeastOf
  <2> QED
    BY <1>3, <2>3
<1>4. /\ Current(h) \in T /\ \A n \in T : reading[Current(h)] <= reading[n]
      /\ Current(h)' \in T /\ \A n \in T : reading[Current(h)'] <= reading[n]
  BY <1>1, <1>3
<1>5. reading[Current(h)] = reading[Current(h)']
  BY <1>2, <1>4
<1> QED
  BY <1>2, <1>4, <1>5 DEF PushInv, Clocks

(* Histories only grow.                                                    *)
LEMMA HistoriesGrow ==
    ASSUME [Next]_vars
    PROVE  overlapped \subseteq overlapped' /\ outrun \subseteq outrun'
<1>1. CASE UNCHANGED vars
  BY <1>1 DEF vars, history
<1>2. ASSUME NEW d \in Devices, NEW m \in Ops, Enqueue(d, m)
      PROVE  overlapped \subseteq overlapped' /\ outrun \subseteq outrun'
  BY <1>2 DEF Enqueue, history
<1>3. ASSUME NEW d \in Devices,
             \/ Pull(d) \/ PullCut(d) \/ OpenStream(d) \/ Frame(d)
             \/ TimeOut(d) \/ Settle(d) \/ Drop(d)
      PROVE  overlapped \subseteq overlapped' /\ outrun \subseteq outrun'
  BY <1>3 DEF Pull, PullCut, OpenStream, Frame, TimeOut, Settle, Drop, history
<1>4. ASSUME NEW d \in Devices, Push(d)
      PROVE  overlapped \subseteq overlapped' /\ outrun \subseteq outrun'
  BY <1>4 DEF Push
<1>5. ASSUME NEW h \in Handlers, Work(h)
      PROVE  overlapped \subseteq overlapped' /\ outrun \subseteq outrun'
  BY <1>5 DEF Work, history
<1>6. ASSUME NEW h \in Handlers, PushFails(h) \/ Reply(h)
      PROVE  overlapped \subseteq overlapped' /\ outrun \subseteq outrun'
  BY <1>6 DEF PushFails, Reply, history
<1> QED
  BY <1>1, <1>2, <1>3, <1>4, <1>5, <1>6 DEF Next

-----------------------------------------------------------------------------
(* A repeated push takes effect once.                                      *)

(* Two pushes of one device at a time are known of.                        *)
Alone ==
    \A h, k \in Handlers :
       h # k /\ Running(h) /\ Running(k) /\ handler[h].dev = handler[k].dev
       => handler[h].dev \in overlapped

Begun(h) == handler[h].step \notin {"idle", "find"}

(* The item said at some time what the mutation asks for.                  *)
Held(m) == \E c \in ChangesOf(ItemOf[m]) \cup {NoChange} : Says(c) = Writes[m]

(* What is being applied is not recorded yet, what is in the log is, and   *)
(* an item found to say it already said it.                                *)
Fresh ==
    /\ \A h \in Handlers : Begun(h) /\ handler[h].dev \notin overlapped
                           => opLog[Current(h)] = NoResult
    /\ \A c \in log : opLog[c.op] # NoResult
    /\ \A h \in Handlers : handler[h].step = "unchanged" => Held(Current(h))

EffectInv == Alone /\ Fresh /\ EffectOnce /\ RecordTellsEffect

(* What was said stays said.                                               *)
LEMMA HeldStands ==
    ASSUME NEW m, NEW n, Held(m), log \subseteq log', n = m
    PROVE  \E c \in ChangesOf(ItemOf[n])' \cup {NoChange} : Says(c) = Writes[n]
  BY DEF Held, ChangesOf

(* Records and changes that stand are as true as they were.                *)
LEMMA EffectLogStands ==
    ASSUME PushInv, EffectInv, UNCHANGED <<log, opLog>>, overlapped \subseteq overlapped'
    PROVE  EffectOnce' /\ RecordTellsEffect'
<1>1. \A m \in Ops : DeviceOf[m] \notin overlapped' => DeviceOf[m] \notin overlapped
  OBVIOUS
<1>2. \A c \in log : c.op \in Ops
  BY DEF PushInv, Types, ServerTypeOK, Change
<1>3. \A i : ChangesOf(i)' = ChangesOf(i)
  BY DEF ChangesOf
<1>4. EffectOnce'
  BY <1>1, <1>2 DEF EffectInv, EffectOnce
<1>5. RecordTellsEffect'
  BY <1>1, <1>3 DEF EffectInv, RecordTellsEffect
<1> QED
  BY <1>4, <1>5

(* A step that leaves the logs, the handlers and their order alone.        *)
LEMMA EffectStands ==
    ASSUME PushInv, EffectInv, UNCHANGED <<log, opLog>>,
           overlapped \subseteq overlapped',
           \A h \in Handlers : handler'[h] \in {handler[h], NoHandler},
           \A h \in Handlers : \A m \in handler[h].todo : reading'[m] = reading[m]
    PROVE  EffectInv'
<1>0. NoHandler.step = "idle"
  BY DEF NoHandler
<1>1. ASSUME NEW h \in Handlers, Begun(h)'
      PROVE  Begun(h) /\ handler'[h] = handler[h] /\ Current(h)' = Current(h)
  <2>1. handler'[h] = handler[h] /\ Begun(h)
    BY <1>0, <1>1 DEF Begun
  <2>2. handler[h].todo # {}
    BY <2>1 DEF Begun, PushInv, Owned
  <2> QED
    BY <2>1, <2>2, CurrentStands
<1>2. Alone'
  BY <1>0 DEF EffectInv, Alone, Running
<1>3. Fresh'
  <2>1. ASSUME NEW h \in Handlers, handler'[h].step = "unchanged"
        PROVE  Held(Current(h))'
    <3>1. Begun(h)'
      BY <2>1 DEF Begun
    <3>2. Held(Current(h)) /\ Current(h)' = Current(h)
      BY <1>1, <2>1, <3>1 DEF EffectInv, Fresh
    <3> QED
      BY <3>2, HeldStands DEF Held
  <2> QED
    BY <1>1, <2>1 DEF EffectInv, Fresh
<1>4. EffectOnce' /\ RecordTellsEffect'
  BY EffectLogStands
<1> QED
  BY <1>2, <1>3, <1>4 DEF EffectInv

LEMMA EffectPush ==
    ASSUME PushInv, EffectInv, NEW d \in Devices, Push(d)
    PROVE  EffectInv'
<1>1. PICK h \in Handlers, batch \in SUBSET queue[d] : Accept(h, d, batch)
  BY DEF Push
<1>2. /\ handler \in [Handlers -> Handler \cup {NoHandler}]
      /\ UNCHANGED <<reading, log, opLog>>
      /\ overlapped \subseteq overlapped'
      /\ (\E k \in Handlers : Running(k) /\ handler[k].dev = d) => d \in overlapped'
  BY <1>1 DEF Push, Accept, PushInv, Types, ServerTypeOK
<1>3. /\ handler'[h].step = "find" /\ handler'[h].dev = d
      /\ \A k \in Handlers : k # h => handler'[k] = handler[k]
      /\ ~Running(h)
  BY <1>1, <1>2 DEF Accept, NoHandler
<1>4. ASSUME NEW k \in Handlers, Begun(k)'
      PROVE  Begun(k) /\ handler'[k] = handler[k] /\ Current(k)' = Current(k)
  <2>1. handler'[k] = handler[k] /\ Begun(k)
    BY <1>3, <1>4 DEF Begun
  <2>2. handler[k].todo # {}
    BY <2>1 DEF Begun, PushInv, Owned
  <2> QED
    BY <1>2, <2>1, <2>2, CurrentStands
<1>5. Alone'
  BY <1>2, <1>3 DEF EffectInv, Alone, Running
<1>6. Fresh'
  <2>1. ASSUME NEW k \in Handlers, handler'[k].step = "unchanged"
        PROVE  Held(Current(k))'
    <3>1. Begun(k)'
      BY <2>1 DEF Begun
    <3>2. Held(Current(k)) /\ Current(k)' = Current(k)
      BY <1>4, <2>1, <3>1 DEF EffectInv, Fresh
    <3> QED
      BY <1>2, <3>2, HeldStands DEF Held
  <2> QED
    BY <1>2, <1>4, <2>1 DEF EffectInv, Fresh
<1>7. EffectOnce' /\ RecordTellsEffect'
  BY <1>2, EffectLogStands
<1> QED
  BY <1>5, <1>6, <1>7 DEF EffectInv

(* What a turn leaves of the handlers.                                     *)
LEMMA TurnedWrites ==
    ASSUME PushInv, NEW h \in Handlers, Turned(h)
    PROVE  /\ \A k \in Handlers : k # h => handler'[k] = handler[k]
           /\ handler'[h].todo = handler[h].todo /\ handler'[h].dev = handler[h].dev
           /\ handler'[h].results = handler[h].results /\ handler'[h].step \in Steps
           /\ Running(h) /\ handler[h].todo # {} /\ handler[h] \in Handler
           /\ \A k \in Handlers : handler[k].todo # {} => Current(k)' = Current(k)
           /\ UNCHANGED <<reading, log, opLog>>
<1>1. PICK s \in Steps, t \in Nat, v \in Nat, q \in Nat : Turn(h, s, t, v, q)
  BY DEF Turned
<1>2. /\ handler[h] \in Handler /\ handler \in [Handlers -> Handler \cup {NoHandler}]
      /\ handler[h].todo # {} /\ Running(h)
      /\ UNCHANGED <<reading, log, opLog>>
  BY <1>1, CurrentIsLeast DEF Turn, PushInv, Types, ServerTypeOK
<1>3. /\ handler'[h] = [handler[h] EXCEPT !.step = s, !.clock = t, !.version = v, !.seq = q]
      /\ \A k \in Handlers : k # h => handler'[k] = handler[k]
  BY <1>1, <1>2 DEF Turn
<1>4. /\ handler'[h].todo = handler[h].todo /\ handler'[h].dev = handler[h].dev
      /\ handler'[h].results = handler[h].results /\ handler'[h].step = s
  BY <1>2, <1>3 DEF Handler
<1>5. ASSUME NEW k \in Handlers, handler[k].todo # {}
      PROVE  Current(k)' = Current(k)
  BY <1>2, <1>3, <1>4, <1>5, CurrentStands
<1> QED
  BY <1>2, <1>3, <1>4, <1>5

LEMMA EffectTurned ==
    ASSUME PushInv, EffectInv, NEW h \in Handlers, Turned(h), TurnReason(h),
           UNCHANGED overlapped
    PROVE  EffectInv'
<1>1. /\ \A k \in Handlers : k # h => handler'[k] = handler[k]
      /\ handler'[h].dev = handler[h].dev /\ handler'[h].step \in Steps
      /\ Running(h) /\ handler[h].todo # {}
      /\ UNCHANGED <<reading, log, opLog>>
  BY TurnedWrites
<1>2. \A k \in Handlers : Begun(k) => Current(k)' = Current(k)
  BY TurnedWrites DEF Begun, PushInv, Owned
<1>3. Current(h)' = Current(h)
  BY <1>1, TurnedWrites
<1>4. Alone'
  BY <1>1 DEF EffectInv, Alone, Running, Steps
<1>5. handler[h].dev \notin overlapped => opLog[Current(h)] = NoResult
  <2>1. CASE handler[h].step = "find"
    BY <2>1 DEF TurnReason
  <2>2. CASE handler[h].step # "find"
    BY <1>1, <2>2 DEF EffectInv, Fresh, Begun, Running
  <2> QED
    BY <2>1, <2>2
<1>6. handler'[h].step = "unchanged" => Held(Current(h))
  <2>1. Current(h) \in Ops /\ ItemOf[Current(h)] \in Items
    BY <1>1, CurrentIsLeast, SyncAssumption DEF PushInv
  <2>2. Stored(ItemOf[Current(h)]) \in ChangesOf(ItemOf[Current(h)]) \cup {NoChange}
    BY <2>1, StoredIsLast DEF PushInv
  <2> QED
    BY <2>2 DEF TurnReason, Held
<1>7. Fresh'
  <2>1. ASSUME NEW k \in Handlers, handler'[k].step = "unchanged"
        PROVE  Held(Current(k))'
    <3>1. Held(Current(k)) /\ Current(k)' = Current(k)
      <4>1. CASE k = h
        BY <1>3, <1>6, <2>1, <4>1
      <4>2. CASE k # h
        BY <1>1, <1>2, <2>1, <4>2 DEF EffectInv, Fresh, Begun
      <4> QED
        BY <4>1, <4>2
    <3> QED
      BY <1>1, <3>1, HeldStands DEF Held
  <2>2. \A k \in Handlers : k # h /\ Begun(k)' => Begun(k)
    BY <1>1 DEF Begun
  <2> QED
    BY <1>1, <1>2, <1>3, <1>5, <2>1, <2>2 DEF EffectInv, Fresh
<1>8. EffectOnce' /\ RecordTellsEffect'
  BY <1>1, EffectLogStands
<1> QED
  BY <1>4, <1>7, <1>8 DEF EffectInv

LEMMA EffectRuled ==
    ASSUME PushInv, EffectInv, NEW h \in Handlers, NEW r \in Result,
           Ruled(h, r), RuleReason(h, r), UNCHANGED overlapped
    PROVE  EffectInv'
<1>1. /\ Current(h) \in Ops /\ handler[h] \in Handler /\ Running(h)
      /\ Current(h) \in handler[h].todo
      /\ DeviceOf[Current(h)] = handler[h].dev
      /\ UNCHANGED reading
  BY CurrentIsLeast DEF Ruled, PushInv, Owned
<1>2. /\ handler'[h].step = "find" /\ handler'[h].dev = handler[h].dev
      /\ \A k \in Handlers : k # h => handler'[k] = handler[k]
      /\ opLog'[Current(h)] = IF opLog[Current(h)] = NoResult THEN r ELSE opLog[Current(h)]
      /\ opLog'[Current(h)] # NoResult
      /\ \A m \in Ops : m # Current(h) => opLog'[m] = opLog[m]
  <2>1. handler'[h] = [handler[h] EXCEPT !.step = "find",
                          !.todo = handler[h].todo \ {Current(h)},
                          !.results = handler[h].results \cup {r},
                          !.clock = 0, !.version = 0, !.seq = 0]
    BY RuledWrites
  <2>2. handler'[h].step = "find" /\ handler'[h].dev = handler[h].dev
    BY <1>1, <2>1 DEF Handler
  <2> QED
    BY <2>2, RuledWrites
<1>3. ASSUME NEW k \in Handlers, Begun(k)'
      PROVE  /\ Begun(k) /\ k # h /\ handler'[k] = handler[k]
             /\ Current(k)' = Current(k)
             /\ Current(k) \in Ops /\ DeviceOf[Current(k)] = handler[k].dev
  <2>1. handler'[k] = handler[k] /\ Begun(k) /\ k # h
    BY <1>2, <1>3 DEF Begun
  <2>2. handler[k].todo # {}
    BY <2>1 DEF Begun, PushInv, Owned
  <2>3. Current(k) \in Ops /\ DeviceOf[Current(k)] = handler[k].dev
    BY <2>2, CurrentIsLeast DEF PushInv, Owned
  <2> QED
    BY <1>1, <2>1, <2>2, <2>3, CurrentStands
<1>4. Alone'
  BY <1>1, <1>2 DEF EffectInv, Alone, Running
<1>5. Fresh'
  <2>1. ASSUME NEW k \in Handlers, Begun(k)', handler'[k].dev \notin overlapped
        PROVE  opLog'[Current(k)'] = NoResult
    <3>1. Begun(k) /\ k # h /\ handler'[k] = handler[k] /\ Current(k)' = Current(k)
          /\ Current(k) \in Ops /\ DeviceOf[Current(k)] = handler[k].dev
      BY <1>3, <2>1
    <3>2. Running(k)
      BY <3>1 DEF Begun, Running
    <3>3. Current(k) # Current(h)
      BY <1>1, <2>1, <3>1, <3>2 DEF EffectInv, Alone
    <3> QED
      BY <1>2, <2>1, <3>1, <3>3 DEF EffectInv, Fresh
  <2>2. \A c \in log' : opLog'[c.op] # NoResult
    <3>1. \A c \in log : c.op \in Ops
      BY DEF PushInv, Types, ServerTypeOK, Change
    <3> QED
      BY <1>2, <3>1 DEF RuleReason, EffectInv, Fresh
  <2>3. log \subseteq log'
    BY DEF RuleReason
  <2>4. ASSUME NEW k \in Handlers, handler'[k].step = "unchanged"
        PROVE  Held(Current(k))'
    <3>1. Begun(k)'
      BY <2>4 DEF Begun
    <3>2. Held(Current(k)) /\ Current(k)' = Current(k)
      BY <1>3, <2>4, <3>1 DEF EffectInv, Fresh
    <3> QED
      BY <2>3, <3>2, HeldStands DEF Held
  <2> QED
    BY <2>1, <2>2, <2>4 DEF Fresh
<1>6. Begun(h) /\ handler[h].dev \notin overlapped =>
         /\ opLog[Current(h)] = NoResult
         /\ \A c \in log : c.op # Current(h)
  BY DEF EffectInv, Fresh
<1>7. EffectOnce'
  <2> SUFFICES ASSUME NEW b \in log', NEW c \in log', b.op = c.op,
                      DeviceOf[c.op] \notin overlapped
               PROVE  b = c
    BY DEF EffectOnce
  <2>1. CASE b \in log /\ c \in log
    BY <2>1 DEF EffectInv, EffectOnce
  <2>2. CASE log' # log
    <3>1. /\ log' = log \cup {[seq |-> handler[h].seq, op |-> Current(h)]}
          /\ handler[h].step = "written"
      BY <2>2 DEF RuleReason
    <3>2. Begun(h)
      BY <3>1 DEF Begun
    <3> QED
      BY <1>1, <1>6, <2>1, <3>1, <3>2
  <2> QED
    BY <2>1, <2>2
<1>8. RecordTellsEffect'
  <2>0. log \subseteq log'
    BY DEF RuleReason
  <2> SUFFICES ASSUME NEW m \in Ops, DeviceOf[m] \notin overlapped
               PROVE  /\ (\E c \in log' : c.op = m) => opLog'[m].result = "APPLIED"
                      /\ opLog'[m].result = "APPLIED" => Held(m)'
    BY DEF RecordTellsEffect, Held
  <2>1. /\ (\E c \in log : c.op = m) => opLog[m].result = "APPLIED"
        /\ opLog[m].result = "APPLIED" => Held(m)
    BY DEF EffectInv, RecordTellsEffect, Held
  <2>2. Held(m) => Held(m)'
    BY <2>0, HeldStands DEF Held
  <2>3. CASE m # Current(h)
    <3>1. opLog'[m] = opLog[m]
      BY <1>2, <2>3
    <3>2. (\E c \in log' : c.op = m) => \E c \in log : c.op = m
      BY <2>3 DEF RuleReason
    <3> QED
      BY <2>1, <2>2, <3>1, <3>2
  <2>4. CASE m = Current(h)
    <3>1. CASE log' = log /\ opLog[Current(h)] # NoResult
      BY <1>2, <2>1, <2>2, <2>4, <3>1
    <3>2. CASE /\ r.result = "APPLIED" /\ handler[h].step = "written"
               /\ log' = log \cup {[seq |-> handler[h].seq, op |-> Current(h)]}
      <4>1. Begun(h)
        BY <3>2 DEF Begun
      <4>2. opLog'[m] = r
        BY <1>1, <1>2, <1>6, <2>4, <4>1
      <4>3. Held(m)'
        <5> DEFINE new == [seq |-> handler[h].seq, op |-> Current(h)]
        <5>1. new \in log' /\ new.op = m
          BY <2>4, <3>2
        <5> HIDE DEF new
        <5>2. NoChange.op = NoOp
          BY DEF NoChange
        <5>3. Says(new) = Writes[m]
          BY <5>1, <5>2, SyncAssumption DEF Says
        <5>4. new \in ChangesOf(ItemOf[m])'
          BY <5>1 DEF ChangesOf
        <5> QED
          BY <5>3, <5>4 DEF Held, Says
      <4> QED
        BY <3>2, <4>2, <4>3
    <3>3. CASE r.result = "APPLIED" /\ handler[h].step = "unchanged" /\ log' = log
      <4>1. Begun(h) /\ Held(m)
        BY <2>4, <3>3 DEF Begun, EffectInv, Fresh
      <4>2. opLog'[m] = r
        BY <1>1, <1>2, <1>6, <2>4, <4>1
      <4> QED
        BY <2>2, <3>3, <4>1, <4>2
    <3>4. CASE r.result # "APPLIED" /\ log' = log
      <4>1. opLog[Current(h)] = NoResult => \A c \in log : c.op # Current(h)
        BY DEF EffectInv, Fresh
      <4> QED
        BY <1>2, <2>1, <2>2, <2>4, <3>4, <4>1
    <3> QED
      BY <3>1, <3>2, <3>3, <3>4 DEF RuleReason
  <2> QED
    BY <2>3, <2>4
<1> QED
  BY <1>4, <1>5, <1>7, <1>8 DEF EffectInv

LEMMA EffectInvStep ==
    ASSUME PushInv, EffectInv, [Next]_vars
    PROVE  EffectInv'
<1>0. overlapped \subseteq overlapped'
  BY HistoriesGrow
<1>1. ASSUME NEW d \in Devices, NEW m \in Ops, Enqueue(d, m)
      PROVE  EffectInv'
  <2>1. \A h \in Handlers : \A n \in handler[h].todo : n \in Ops /\ Made(n)
    BY DEF PushInv, Types, ServerTypeOK, Owned, Handler, NoHandler
  <2>2. \A h \in Handlers : \A n \in handler[h].todo : reading'[n] = reading[n]
    BY <1>1, <2>1, EnqueueWrites
  <2>3. UNCHANGED <<log, opLog, handler>>
    BY <1>1, EnqueueWrites
  <2> QED
    BY <1>0, <2>2, <2>3, EffectStands
<1>2. CASE Local
  BY <1>0, <1>2, EffectStands DEF Local, serverVars
<1>3. ASSUME NEW d \in Devices, Push(d)
      PROVE  EffectInv'
  BY <1>3, EffectPush
<1>4. ASSUME NEW h \in Handlers, Work(h)
      PROVE  EffectInv'
  <2>1. UNCHANGED overlapped
    BY <1>4 DEF Work, history
  <2> QED
    BY <1>4, <2>1, WorkShapes, EffectTurned, EffectRuled
<1>5. ASSUME NEW h \in Handlers, Ended(h)
      PROVE  EffectInv'
  <2>1. \A k \in Handlers : handler'[k] \in {handler[k], NoHandler}
    BY <1>5 DEF Ended, PushInv, Types, ServerTypeOK
  <2> QED
    BY <1>0, <1>5, <2>1, EffectStands DEF Ended
<1> QED
  BY <1>1, <1>2, <1>3, <1>4, <1>5, StepShapes

LEMMA EffectInvHolds == Spec => []EffectInv
<1>1. Init => EffectInv
  <2> SUFFICES ASSUME Init PROVE EffectInv
    OBVIOUS
  <2>1. /\ log = {} /\ \A m \in Ops : opLog[m] = NoResult
        /\ \A h \in Handlers : handler[h].step = "idle"
    BY DEF Init, ServerInit, NoHandler
  <2>2. NoResult.result # "APPLIED"
    BY DEF NoResult
  <2> QED
    BY <2>1, <2>2 DEF EffectInv, Alone, Fresh, Begun, Running, EffectOnce, RecordTellsEffect
<1>2. PushInv /\ EffectInv /\ [Next]_vars => EffectInv'
  BY EffectInvStep
<1> QED
  BY <1>1, <1>2, PushInvHolds, PTL DEF Spec

(* A mutation pushed again, after a lost answer or a failure, is in the    *)
(* change log at most once, unless the repeat ran beside the first.        *)
THEOREM RepeatTakesEffectOnce == Spec => []EffectOnce
<1>1. EffectInv => EffectOnce
  BY DEF EffectInv
<1> QED
  BY <1>1, EffectInvHolds, PTL

(* The operation log calls applied what is in the change log, and nothing  *)
(* that its item never said, with the same exception.                      *)
THEOREM RecordIsTrue == Spec => []RecordTellsEffect
<1>1. EffectInv => RecordTellsEffect
  BY DEF EffectInv
<1> QED
  BY <1>1, EffectInvHolds, PTL

-----------------------------------------------------------------------------
(* The later reading wins.                                                 *)

(* A row is locked by one push, from its write on.                         *)
Locks ==
    \A h, k \in Handlers :
       /\ handler[h].step = "written" /\ handler[k].step = "written"
       /\ ItemOf[Current(h)] = ItemOf[Current(k)]
       => h = k

(* What is to be written won against the clock it was compared with.  What *)
(* is being written is newer than what stands, by its number and, if the   *)
(* clock has not moved since it was asked, by its reading.                 *)
Newer(h) ==
    LET i == ItemOf[Current(h)]
    IN  /\ handler[h].step = "load" => reading[Current(h)] > handler[h].clock
        /\ handler[h].step = "written" => \A c \in ChangesOf(i) : c.seq < handler[h].seq
        /\ handler[h].step = "write" => handler[h].version <= Version(i)
        /\ /\ \/ handler[h].step = "written"
              \/ handler[h].step = "write" /\ handler[h].version = Version(i)
           /\ i \notin outrun
           => \A c \in ChangesOf(i) : reading[c.op] < reading[Current(h)]

OneNumber ==
    \A b, c \in log : ItemOf[b.op] = ItemOf[c.op] /\ b.seq = c.seq => b = c

OrderInv == Locks /\ (\A h \in Handlers : Newer(h)) /\ OneNumber /\ LaterWins

Writing(h) == handler[h].step \in {"load", "write", "written"}

(* What a step may leave alone of a push that is writing.                  *)
LEMMA NewerStands ==
    ASSUME PushInv, NEW h \in Handlers, Newer(h),
           handler'[h] = handler[h], Writing(h),
           \A m \in Ops : Made(m) => reading'[m] = reading[m],
           {c \in log' : ItemOf[c.op] = ItemOf[Current(h)]} = ChangesOf(ItemOf[Current(h)]),
           outrun \subseteq outrun'
    PROVE  Newer(h)' /\ Current(h)' = Current(h)
<1>1. handler[h].todo # {}
  BY DEF Writing, PushInv, Owned
<1>2. Current(h) \in Ops /\ Made(Current(h))
  BY <1>1, CurrentIsLeast DEF PushInv, Owned
<1>3. \A m \in handler[h].todo : reading'[m] = reading[m]
  BY <1>1, CurrentIsLeast DEF PushInv, Owned, Handler
<1>4. Current(h)' = Current(h)
  BY <1>1, <1>3, CurrentStands
<1> DEFINE i == ItemOf[Current(h)]
<1>5. ChangesOf(ItemOf[Current(h)])' = ChangesOf(i) /\ Version(ItemOf[Current(h)])' = Version(i)
  BY <1>4 DEF Version, ChangesOf
<1>6. \A c \in ChangesOf(i) : reading'[c.op] = reading[c.op]
  BY DEF ChangesOf, PushInv, Owned, Types, ServerTypeOK, Change
<1>7. reading'[Current(h)'] = reading[Current(h)] /\ ItemOf[Current(h)'] = i
  BY <1>2, <1>4
<1>8. Newer(h)'
  <2>0. handler[h].step = "load" => reading'[Current(h)'] > handler[h].clock
    BY <1>7 DEF Newer
  <2>1. handler[h].step = "written" => \A c \in ChangesOf(i) : c.seq < handler[h].seq
    BY DEF Newer
  <2>2. handler[h].step = "write" => handler[h].version <= Version(i)
    BY DEF Newer
  <2>3. /\ \/ handler[h].step = "written"
           \/ handler[h].step = "write" /\ handler[h].version = Version(i)
        /\ i \notin outrun'
        => \A c \in ChangesOf(i) : reading'[c.op] < reading'[Current(h)']
    <3>1. i \notin outrun' => i \notin outrun
      OBVIOUS
    <3>2. /\ \/ handler[h].step = "written"
             \/ handler[h].step = "write" /\ handler[h].version = Version(i)
          /\ i \notin outrun
          => \A c \in ChangesOf(i) : reading[c.op] < reading[Current(h)]
      BY DEF Newer
    <3> QED
      BY <1>6, <1>7, <3>1, <3>2
  <2> HIDE DEF i
  <2> QED
    BY <1>5, <1>7, <2>0, <2>1, <2>2, <2>3 DEF Newer
<1> QED
  BY <1>4, <1>8

(* A push that is not writing has nothing to show.                         *)
LEMMA NewerIdle ==
    ASSUME NEW h \in Handlers, ~Writing(h)'
    PROVE  Newer(h)'
  BY DEF Writing, Newer

(* A step that leaves the log alone, and the pushes that are writing.      *)
LEMMA OrderStands ==
    ASSUME PushInv, OrderInv, UNCHANGED log, outrun \subseteq outrun',
           \A m \in Ops : Made(m) => reading'[m] = reading[m],
           \A h \in Handlers : handler'[h] = handler[h] \/ ~Writing(h)'
    PROVE  OrderInv'
<1>1. \A i : {c \in log' : ItemOf[c.op] = i} = ChangesOf(i)
  BY DEF ChangesOf
<1>2. ASSUME NEW h \in Handlers
      PROVE  Newer(h)' /\ (Writing(h)' => handler'[h] = handler[h] /\ Current(h)' = Current(h))
  <2>1. CASE ~Writing(h)'
    BY <2>1, NewerIdle
  <2>2. CASE Writing(h)'
    <3>1. handler'[h] = handler[h] /\ Writing(h)
      BY <2>2 DEF Writing
    <3>2. Newer(h)
      BY DEF OrderInv
    <3> QED
      BY <1>1, <3>1, <3>2, NewerStands
  <2> QED
    BY <2>1, <2>2
<1>3. Locks'
  <2>1. \A h \in Handlers : handler'[h].step = "written" => Writing(h)'
    BY DEF Writing
  <2> QED
    BY <1>2, <2>1 DEF OrderInv, Locks
<1>4. OneNumber'
  BY DEF OrderInv, OneNumber
<1>5. LaterWins'
  <2>1. \A c \in log : reading'[c.op] = reading[c.op] /\ c.op \in Ops
    BY DEF PushInv, Owned, Types, ServerTypeOK, Change
  <2>2. \A c \in log : ItemOf[c.op] \notin outrun' => ItemOf[c.op] \notin outrun
    OBVIOUS
  <2> QED
    BY <2>1, <2>2 DEF OrderInv, LaterWins
<1> QED
  BY <1>2, <1>3, <1>4, <1>5 DEF OrderInv

(* The reading of what an item holds is the latest of its readings.        *)
LEMMA ClockIsLatest ==
    ASSUME PushInv, OrderInv, NEW m \in Ops, Wins(m), ItemOf[m] \notin outrun
    PROVE  \A c \in ChangesOf(ItemOf[m]) : reading[c.op] < reading[m]
<1> DEFINE i == ItemOf[m]
<1> SUFFICES ASSUME NEW c \in ChangesOf(i)
             PROVE  reading[c.op] < reading[m]
  OBVIOUS
<1>1. i \in Items
  BY SyncAssumption
<1>2. Stored(i) \in ChangesOf(i) /\ c.seq <= Stored(i).seq
  BY <1>1, StoredIsLast DEF PushInv
<1> DEFINE last == Stored(i)
<1>3. /\ last \in log /\ c \in log /\ ItemOf[last.op] = i /\ ItemOf[c.op] = i
      /\ last.seq \in Nat /\ c.seq \in Nat /\ last.op \in Ops /\ c.op \in Ops
      /\ c.seq <= last.seq /\ last # NoChange
  BY <1>2, ChangeIsOne DEF ChangesOf, PushInv
<1>4. reading[last.op] < reading[m]
  <2>1. reading[m] > ClockOf(i)
    BY DEF Wins
  <2>2. ClockOf(i) = reading[last.op]
    BY <1>3 DEF ClockOf
  <2>3. reading[m] \in Nat /\ reading[last.op] \in Nat
    BY <1>3 DEF PushInv, Types, ServerTypeOK
  <2> QED
    BY <2>1, <2>2, <2>3
<1>5. c = last \/ reading[c.op] < reading[last.op]
  BY <1>3 DEF OrderInv, OneNumber, LaterWins
<1>6. reading[m] \in Nat /\ reading[last.op] \in Nat /\ reading[c.op] \in Nat
  BY <1>3 DEF PushInv, Types, ServerTypeOK
<1> QED
  BY <1>4, <1>5, <1>6

LEMMA OrderLogStands ==
    ASSUME OrderInv, UNCHANGED <<reading, log>>, outrun \subseteq outrun'
    PROVE  OneNumber' /\ LaterWins'
<1>1. \A c \in log : ItemOf[c.op] \notin outrun' => ItemOf[c.op] \notin outrun
  OBVIOUS
<1> QED
  BY <1>1 DEF OrderInv, OneNumber, LaterWins

LEMMA OrderTurned ==
    ASSUME PushInv, OrderInv, NEW h \in Handlers, Turned(h), TurnReason(h),
           outrun \subseteq outrun'
    PROVE  OrderInv'
<1>1. /\ \A k \in Handlers : k # h => handler'[k] = handler[k]
      /\ handler[h].todo # {} /\ handler[h] \in Handler
      /\ UNCHANGED <<reading, log>>
      /\ Current(h)' = Current(h)
  BY TurnedWrites
<1> DEFINE i == ItemOf[Current(h)]
<1>2. /\ Current(h) \in Ops /\ i \in Items
      /\ ItemOf[Current(h)'] = i
      /\ ChangesOf(ItemOf[Current(h)])' = ChangesOf(i)
      /\ Version(ItemOf[Current(h)])' = Version(i)
      /\ reading'[Current(h)'] = reading[Current(h)]
  BY <1>1, CurrentIsLeast, SyncAssumption DEF PushInv, ChangesOf, Version
<1>3. CASE ~Writing(h)'
  BY <1>1, <1>3, OrderStands
<1>4. CASE Writing(h)'
  <2>1. ASSUME NEW k \in Handlers, k # h
        PROVE  Newer(k)' /\ (Writing(k) => Current(k)' = Current(k))
    <3>1. handler'[k] = handler[k]
      BY <1>1, <2>1
    <3>2. CASE ~Writing(k)
      BY <3>1, <3>2, NewerIdle DEF Writing
    <3>3. CASE Writing(k)
      <4>1. {c \in log' : ItemOf[c.op] = ItemOf[Current(k)]} = ChangesOf(ItemOf[Current(k)])
        BY <1>1 DEF ChangesOf
      <4>2. Newer(k)
        BY DEF OrderInv
      <4> QED
        BY <1>1, <3>1, <3>3, <4>1, <4>2, NewerStands
    <3> QED
      BY <3>2, <3>3
  <2>0. CASE handler'[h].step = "load"
    <3>1. Newer(h)'
      BY <1>1, <2>0 DEF TurnReason, Newer
    <3>2. Locks'
      BY <1>1, <2>0, <2>1 DEF OrderInv, Locks, Writing
    <3> QED
      BY <1>1, <2>1, <3>1, <3>2, OrderLogStands DEF OrderInv
  <2>2. CASE handler'[h].step = "write"
    <3>0. reading[Current(h)] > handler[h].clock
      BY <2>2 DEF TurnReason, OrderInv, Newer
    <3>1. handler'[h].version = Version(i) /\ (Wins(Current(h)) \/ i \in outrun')
      BY <2>2, <3>0 DEF TurnReason
    <3>2. i \notin outrun' => \A c \in ChangesOf(i) : reading[c.op] < reading[Current(h)]
      BY <1>2, <3>1, ClockIsLatest
    <3>3. Version(i) \in Nat
      BY VersionType DEF PushInv
    <3>4. Newer(h)'
      <4> HIDE DEF i
      <4> QED
        BY <1>1, <1>2, <2>2, <3>1, <3>2, <3>3 DEF Newer
    <3>5. Locks'
      BY <1>1, <2>1, <2>2 DEF OrderInv, Locks, Writing
    <3> QED
      BY <1>1, <2>1, <3>4, <3>5, OrderLogStands DEF OrderInv
  <2>3. CASE handler'[h].step = "written"
    <3>1. /\ handler[h].step = "write" /\ handler[h].version = Version(i)
          /\ ~Locked(i) /\ handler'[h].seq = nextSeq
      BY <2>3 DEF TurnReason
    <3>2. i \notin outrun' => \A c \in ChangesOf(i) : reading[c.op] < reading[Current(h)]
      BY <3>1 DEF OrderInv, Newer
    <3>3. \A c \in ChangesOf(i) : c.seq < nextSeq
      BY DEF ChangesOf, PushInv, Numbered
    <3>4. Newer(h)'
      <4> HIDE DEF i
      <4> QED
        BY <1>1, <1>2, <2>3, <3>1, <3>2, <3>3 DEF Newer
    <3>5. ASSUME NEW k \in Handlers, k # h, handler'[k].step = "written"
          PROVE  ItemOf[Current(k)'] # i
      <4>1. handler[k].step = "written" /\ handler[k].todo # {} /\ Writing(k)
        BY <1>1, <3>5 DEF PushInv, Owned, Writing
      <4>2. ItemOf[Current(k)] # i
        BY <3>1, <4>1 DEF Locked, At
      <4> QED
        BY <2>1, <3>5, <4>1, <4>2
    <3>6. Locks'
      <4>1. \A j, k \in Handlers : j # h /\ k # h /\ handler'[j].step = "written"
               /\ handler'[k].step = "written" /\ ItemOf[Current(j)'] = ItemOf[Current(k)']
               => j = k
        BY <1>1, <2>1 DEF OrderInv, Locks, Writing
      <4> HIDE DEF i
      <4> QED
        BY <1>2, <3>5, <4>1 DEF Locks
    <3> QED
      BY <1>1, <2>1, <3>4, <3>6, OrderLogStands DEF OrderInv
  <2> QED
    BY <1>4, <2>0, <2>2, <2>3 DEF Writing
<1> QED
  BY <1>3, <1>4

(* A commit adds the newest change of its item, and of no other.           *)
LEMMA OrderCommit ==
    ASSUME PushInv, OrderInv, NEW h \in Handlers, NEW r \in Result, Ruled(h, r),
           handler[h].step = "written",
           log' = log \cup {[seq |-> handler[h].seq, op |-> Current(h)]},
           outrun \subseteq outrun'
    PROVE  OrderInv'
<1> DEFINE i == ItemOf[Current(h)]
           new == [seq |-> handler[h].seq, op |-> Current(h)]
<1>1. /\ Current(h) \in Ops /\ handler[h] \in Handler
      /\ \A k \in Handlers : k # h => handler'[k] = handler[k]
      /\ handler'[h].step = "find"
      /\ UNCHANGED reading
  <2>1. Current(h) \in Ops /\ handler[h] \in Handler
    BY CurrentIsLeast DEF Ruled, PushInv
  <2>2. handler'[h] = [handler[h] EXCEPT !.step = "find",
                          !.todo = handler[h].todo \ {Current(h)},
                          !.results = handler[h].results \cup {r},
                          !.clock = 0, !.version = 0, !.seq = 0]
    BY RuledWrites
  <2>3. handler'[h].step = "find"
    BY <2>1, <2>2 DEF Handler
  <2> QED
    BY <2>1, <2>3, RuledWrites DEF Ruled
<1>2. new.op = Current(h) /\ new.seq = handler[h].seq /\ new.seq \in Nat
  BY <1>1 DEF Handler
<1>3. log' = log \cup {new}
  OBVIOUS
<1> HIDE DEF new
<1>4. /\ \A c \in ChangesOf(i) : c.seq < new.seq
      /\ i \notin outrun => \A c \in ChangesOf(i) : reading[c.op] < reading[new.op]
  BY <1>2 DEF OrderInv, Newer
<1>5. \A c \in log : c.seq \in Nat /\ c.op \in Ops /\ reading[c.op] \in Nat
  BY DEF PushInv, Types, ServerTypeOK, Change
<1>6. \A c \in log : ItemOf[c.op] = i => c \in ChangesOf(i)
  BY DEF ChangesOf
<1>7. OneNumber'
  <2> SUFFICES ASSUME NEW b \in log', NEW c \in log', ItemOf[b.op] = ItemOf[c.op], b.seq = c.seq
               PROVE  b = c
    BY DEF OneNumber
  <2>1. CASE b \in log /\ c \in log
    BY <2>1 DEF OrderInv, OneNumber
  <2>2. CASE b = new \/ c = new
    BY <1>2, <1>3, <1>4, <1>5, <1>6, <2>2
  <2> QED
    BY <1>3, <2>1, <2>2
<1>8. LaterWins'
  <2> SUFFICES ASSUME NEW b \in log', NEW c \in log', ItemOf[b.op] = ItemOf[c.op],
                      ItemOf[b.op] \notin outrun', b.seq < c.seq
               PROVE  reading[b.op] < reading[c.op]
    BY <1>1 DEF LaterWins
  <2>0. ItemOf[b.op] \notin outrun
    OBVIOUS
  <2>1. CASE b \in log /\ c \in log
    BY <2>0, <2>1 DEF OrderInv, LaterWins
  <2>2. CASE b = new /\ c = new
    BY <1>2, <2>2
  <2>3. CASE b = new /\ c \in log
    <3>1. c \in ChangesOf(i)
      BY <1>2, <1>6, <2>3
    <3> QED
      BY <1>2, <1>4, <1>5, <2>3, <3>1
  <2>4. CASE b \in log /\ c = new
    <3>1. b \in ChangesOf(i) /\ i \notin outrun
      BY <1>2, <1>6, <2>0, <2>4
    <3> QED
      BY <1>4, <2>4, <3>1
  <2> QED
    BY <1>3, <2>1, <2>2, <2>3, <2>4
<1>9. ASSUME NEW k \in Handlers, k # h, Writing(k)
      PROVE  Newer(k)' /\ Current(k)' = Current(k)
  <2>1. handler'[k] = handler[k] /\ Newer(k) /\ handler[k].todo # {}
    BY <1>1, <1>9 DEF OrderInv, Writing, PushInv, Owned
  <2> DEFINE j == ItemOf[Current(k)]
  <2>2. CASE j # i
    <3>1. {c \in log' : ItemOf[c.op] = j} = ChangesOf(j)
      BY <1>2, <1>3, <2>2 DEF ChangesOf
    <3> QED
      BY <1>1, <1>9, <2>1, <3>1, NewerStands
  <2>3. CASE j = i
    <3>1. handler[k].step \in {"load", "write"}
      BY <1>9, <2>3 DEF OrderInv, Locks, Writing
    <3>2. Current(k)' = Current(k)
      BY <1>1, <2>1, CurrentStands
    <3>a. CASE handler[k].step = "load"
      BY <1>1, <2>1, <3>2, <3>a DEF Newer
    <3>b. CASE handler[k].step = "write"
      <4>3. ChangesOf(ItemOf[Current(k)])' = ChangesOf(i) \cup {new}
        BY <1>2, <1>3, <2>3, <3>2 DEF ChangesOf
      <4>4. new \notin ChangesOf(i)
        BY <1>2, <1>4
      <4>5. Version(ItemOf[Current(k)])' = Version(i) + 1
        <5>1. IsFiniteSet(ChangesOf(i))
          BY VersionType DEF PushInv
        <5> QED
          BY <4>3, <4>4, <5>1, FS_AddElement DEF Version
      <4>6. handler[k].version <= Version(i)
        BY <2>1, <2>3, <3>b DEF Newer
      <4>7. handler[k].version \in Nat /\ Version(i) \in Nat
        BY <2>1, CurrentIsLeast, VersionType DEF PushInv, Handler
      <4>8. handler'[k].step = "write" /\ handler'[k].version < Version(ItemOf[Current(k)])'
        BY <2>1, <3>b, <4>5, <4>6, <4>7
      <4>9. Version(ItemOf[Current(k)])' \in Nat /\ handler'[k].version \in Nat
        BY <2>1, <4>5, <4>7
      <4> QED
        BY <3>2, <4>8, <4>9 DEF Newer
    <3> QED
      BY <3>1, <3>2, <3>a, <3>b
  <2> QED
    BY <2>2, <2>3
<1>10. \A k \in Handlers : Newer(k)'
  <2>1. ASSUME NEW k \in Handlers, ~(k # h /\ Writing(k))
        PROVE  Newer(k)'
    BY <1>1, <2>1, NewerIdle DEF Writing
  <2> QED
    BY <1>9, <2>1
<1>11. Locks'
  BY <1>1, <1>9 DEF OrderInv, Locks, Writing
<1> QED
  BY <1>7, <1>8, <1>10, <1>11 DEF OrderInv

LEMMA OrderInvStep ==
    ASSUME PushInv, OrderInv, [Next]_vars
    PROVE  OrderInv'
<1>0. outrun \subseteq outrun'
  BY HistoriesGrow
<1>1. ASSUME NEW d \in Devices, NEW m \in Ops, Enqueue(d, m)
      PROVE  OrderInv'
  BY <1>0, <1>1, EnqueueWrites, OrderStands
<1>2. CASE Local
  BY <1>0, <1>2, OrderStands DEF Local, serverVars
<1>3. ASSUME NEW d \in Devices, Push(d)
      PROVE  OrderInv'
  <2>1. PICK h \in Handlers, batch \in SUBSET queue[d] : Accept(h, d, batch)
    BY <1>3 DEF Push
  <2>2. \A k \in Handlers : handler'[k] = handler[k] \/ ~Writing(k)'
    BY <2>1 DEF Accept, NoHandler, Writing, PushInv, Types, ServerTypeOK
  <2> QED
    BY <1>0, <2>1, <2>2, OrderStands DEF Accept
<1>4. ASSUME NEW h \in Handlers, Work(h)
      PROVE  OrderInv'
  <2>1. CASE Turned(h) /\ TurnReason(h)
    BY <1>0, <2>1, OrderTurned
  <2>2. ASSUME NEW r \in Result, Ruled(h, r), RuleReason(h, r)
        PROVE  OrderInv'
    <3>1. CASE log' = log
      <4>1. handler'[h] = [handler[h] EXCEPT !.step = "find",
                              !.todo = handler[h].todo \ {Current(h)},
                              !.results = handler[h].results \cup {r},
                              !.clock = 0, !.version = 0, !.seq = 0]
            /\ \A k \in Handlers : k # h => handler'[k] = handler[k]
        BY <2>2, RuledWrites
      <4>2. handler[h] \in Handler
        BY <2>2, CurrentIsLeast DEF Ruled, PushInv
      <4>3. ~Writing(h)'
        BY <4>1, <4>2 DEF Handler, Writing
      <4> QED
        BY <1>0, <2>2, <3>1, <4>1, <4>3, OrderStands DEF Ruled
    <3>2. CASE log' # log
      BY <1>0, <2>2, <3>2, OrderCommit DEF RuleReason
    <3> QED
      BY <3>1, <3>2
  <2> QED
    BY <1>4, <2>1, <2>2, WorkShapes
<1>5. ASSUME NEW h \in Handlers, Ended(h)
      PROVE  OrderInv'
  <2>1. \A k \in Handlers : handler'[k] = handler[k] \/ ~Writing(k)'
    BY <1>5 DEF Ended, PushInv, Types, ServerTypeOK, Writing, NoHandler
  <2> QED
    BY <1>0, <1>5, <2>1, OrderStands DEF Ended
<1> QED
  BY <1>1, <1>2, <1>3, <1>4, <1>5, StepShapes

LEMMA OrderInvHolds == Spec => []OrderInv
<1>1. Init => OrderInv
  <2> SUFFICES ASSUME Init PROVE OrderInv
    OBVIOUS
  <2>1. log = {} /\ \A h \in Handlers : handler[h].step = "idle"
    BY DEF Init, ServerInit, NoHandler
  <2> QED
    BY <2>1 DEF OrderInv, Locks, Newer, OneNumber, LaterWins
<1>2. PushInv /\ OrderInv /\ [Next]_vars => OrderInv'
  BY OrderInvStep
<1> QED
  BY <1>1, <1>2, PushInvHolds, PTL DEF Spec

(* An item's changes are committed in the order they were made, whichever  *)
(* devices made them, unless its clock moved between the comparison and    *)
(* the write: the row's version and its lock keep every other race out.    *)
THEOREM LaterReadingWins == Spec => []LaterWins
<1>1. OrderInv => LaterWins
  BY DEF OrderInv
<1> QED
  BY <1>1, OrderInvHolds, PTL

-----------------------------------------------------------------------------
(* A device at rest shows what the server holds.                           *)

(* What an answer shows of its item is a change of the item, or none.      *)
Word(r, changes) ==
    r.result # "REJECTED" =>
       \/ r.state = NoChange
       \/ r.state \in changes /\ ItemOf[r.state.op] = ItemOf[r.op]

Worded ==
    /\ \A m \in Ops : Word(opLog[m], log)
    /\ \A h \in Handlers : \A r \in handler[h].results : Word(r, log)
    /\ \A d \in Devices : \A r \in answer[d].results : Word(r, log)

LEMMA WordStands ==
    ASSUME NEW S, NEW T, S \subseteq T, NEW r, Word(r, S)
    PROVE  Word(r, T)
  BY DEF Word

(* Records stand, the answers are those there were.                        *)
LEMMA WordedStands ==
    ASSUME Worded, UNCHANGED <<log, opLog>>,
           \A h \in Handlers : handler'[h].results \subseteq handler[h].results,
           \A d \in Devices : \A r \in answer'[d].results :
              r \in answer[d].results \/ \E h \in Handlers : r \in handler[h].results
    PROVE  Worded'
<1>1. \A m \in Ops : Word(opLog'[m], log')
  BY DEF Worded
<1>2. \A h \in Handlers : \A r \in handler'[h].results : Word(r, log')
  BY DEF Worded
<1>3. \A d \in Devices : \A r \in answer'[d].results : Word(r, log')
  BY DEF Worded
<1> QED
  BY <1>1, <1>2, <1>3 DEF Worded

(* An answer shows what its transaction wrote, or what the item holds.     *)
LEMMA RuledWord ==
    ASSUME PushInv, Worded, NEW h \in Handlers, NEW r \in Result,
           Ruled(h, r), RuleReason(h, r)
    PROVE  Word(r, log') /\ log \subseteq log'
<1> DEFINE i == ItemOf[Current(h)]
           new == [seq |-> handler[h].seq, op |-> Current(h)]
<1>1. Current(h) \in Ops /\ i \in Items /\ r.op = Current(h)
  BY CurrentIsLeast, SyncAssumption DEF PushInv, Ruled
<1>2. log \subseteq log'
  BY DEF RuleReason
<1>3. new.op = Current(h)
  OBVIOUS
<1> HIDE DEF new
<1>4. CASE r = opLog[Current(h)]
  BY <1>1, <1>2, <1>4, WordStands DEF Worded
<1>5. CASE r.state = new /\ log' = log \cup {new}
  BY <1>1, <1>3, <1>5 DEF Word
<1>6. CASE r.state = Stored(i)
  <2>1. Stored(i) \in ChangesOf(i) \cup {NoChange}
    BY <1>1, StoredIsLast DEF PushInv
  <2> QED
    BY <1>1, <1>2, <1>6, <2>1 DEF Word, ChangesOf
<1>7. CASE r.result = "REJECTED"
  BY <1>2, <1>7 DEF Word
<1> QED
  BY <1>2, <1>4, <1>5, <1>6, <1>7 DEF RuleReason, new

LEMMA WordedStep ==
    ASSUME PushInv, Worded, [Next]_vars
    PROVE  Worded'
<1>1. ASSUME NEW d \in Devices, NEW m \in Ops, Enqueue(d, m)
      PROVE  Worded'
  <2>1. UNCHANGED <<log, opLog, handler, answer>>
    BY <1>1, EnqueueWrites
  <2> QED
    BY <2>1, WordedStands
<1>2. CASE Local
  BY <1>2, WordedStands DEF Local, serverVars
<1>3. ASSUME NEW d \in Devices, Push(d)
      PROVE  Worded'
  <2>1. PICK h \in Handlers, batch \in SUBSET queue[d] : Accept(h, d, batch)
    BY <1>3 DEF Push
  <2>2. \A k \in Handlers : handler'[k].results \subseteq handler[k].results
    BY <2>1 DEF Accept, NoHandler, PushInv, Types, ServerTypeOK
  <2>3. UNCHANGED <<log, opLog, answer>>
    BY <1>3, <2>1 DEF Push, Accept
  <2> QED
    BY <2>2, <2>3, WordedStands
<1>4. ASSUME NEW h \in Handlers, Work(h), Turned(h)
      PROVE  Worded'
  <2>1. \A k \in Handlers : handler'[k].results = handler[k].results
    BY <1>4, TurnedWrites
  <2>2. UNCHANGED <<log, opLog, answer>>
    BY <1>4, TurnedWrites DEF Work, deviceVars
  <2> QED
    BY <2>1, <2>2, WordedStands
<1>5. ASSUME NEW h \in Handlers, NEW r \in Result, Ruled(h, r), RuleReason(h, r)
      PROVE  Worded'
  <2>1. Word(r, log') /\ log \subseteq log'
    BY <1>5, RuledWord
  <2>2. /\ \A k \in Handlers : handler'[k].results \subseteq handler[k].results \cup {r}
        /\ \A m \in Ops : opLog'[m] \in {opLog[m], r}
        /\ UNCHANGED answer
    <3>1. /\ handler'[h].results = handler[h].results \cup {r}
          /\ \A k \in Handlers : k # h => handler'[k] = handler[k]
      BY <1>5, RuledWrites, RuledAnswers
    <3>2. \A m \in Ops : opLog'[m] \in {opLog[m], r}
      <4>1. /\ \A m \in Ops : m # Current(h) => opLog'[m] = opLog[m]
            /\ opLog'[Current(h)] = IF opLog[Current(h)] = NoResult THEN r
                                                                   ELSE opLog[Current(h)]
        BY <1>5, RuledWrites
      <4> QED
        BY <4>1
    <3> QED
      BY <1>5, <3>1, <3>2 DEF Ruled
  <2>3. \A m \in Ops : Word(opLog'[m], log')
    BY <2>1, <2>2, WordStands DEF Worded
  <2>4. \A k \in Handlers : \A q \in handler'[k].results : Word(q, log')
    BY <2>1, <2>2, WordStands DEF Worded
  <2>5. \A d \in Devices : \A q \in answer'[d].results : Word(q, log')
    BY <2>1, <2>2, WordStands DEF Worded
  <2> QED
    BY <2>3, <2>4, <2>5 DEF Worded
<1>6. ASSUME NEW h \in Handlers, Ended(h)
      PROVE  Worded'
  <2>1. \A k \in Handlers : handler'[k].results \subseteq handler[k].results
    BY <1>6 DEF Ended, PushInv, Types, ServerTypeOK, NoHandler
  <2> QED
    BY <1>6, <2>1, WordedStands DEF Ended
<1> QED
  BY <1>1, <1>2, <1>3, <1>4, <1>5, <1>6, StepShapes, WorkShapes

DeviceTypes ==
    /\ copy \in [Devices -> [Items -> Values]]
    /\ held \in [Devices -> Nat]
    /\ conn \in [Devices -> {"down", "caught", "stream"}]
    /\ pos \in [Devices -> Nat]
    /\ push \in [Devices -> {"idle", "due", "answered"} \cup Handlers]
    /\ faults \in 0 .. MaxFaults
    /\ adrift \in [Devices -> SUBSET Items]
    /\ overlapped \subseteq Devices
    /\ outrun \subseteq Items

(* The last of some changes is one of them.                                *)
LEMMA LastOfSome ==
    ASSUME PushInv, NEW S \in SUBSET log, S # {}
    PROVE  /\ Last(S) \in S /\ Last(S).seq \in Nat /\ Last(S).op \in Ops
           /\ \A c \in S : c.seq <= Last(S).seq
<1>1. nextSeq \in Nat /\ \A c \in S : c.seq \in Nat /\ c.seq <= nextSeq /\ c.op \in Ops
  BY DEF PushInv, Types, ServerTypeOK, Change, Numbered
<1>2. Last(S) \in S /\ \A c \in S : c.seq <= Last(S).seq
  BY <1>1, LastIsGreatest
<1> QED
  BY <1>1, <1>2

LEMMA SaysType ==
    ASSUME NEW c \in Change \cup {NoChange}
    PROVE  Says(c) \in Values
<1>1. c # NoChange => c.op \in Ops
  BY DEF Change
<1> QED
  BY <1>1, SyncAssumption DEF Says

LEMMA TranscribedType ==
    ASSUME PushInv, DeviceTypes, NEW d \in Devices, NEW records \in SUBSET log
    PROVE  /\ Transcribed(d, records) \in [Items -> Values]
           /\ ItemsOf(records) \subseteq Items
<1>1. ASSUME NEW i \in Items
      PROVE  (IF {c \in records : ItemOf[c.op] = i} = {} THEN copy[d][i]
              ELSE Says(Last({c \in records : ItemOf[c.op] = i}))) \in Values
  <2> DEFINE own == {c \in records : ItemOf[c.op] = i}
  <2>1. own \in SUBSET log
    OBVIOUS
  <2>2. copy[d][i] \in Values
    BY DEF DeviceTypes
  <2> HIDE DEF own
  <2>3. own # {} => Last(own) \in Change
    BY <2>1, LastOfSome DEF PushInv, Types, ServerTypeOK
  <2>4. (IF own = {} THEN copy[d][i] ELSE Says(Last(own))) \in Values
    BY <2>2, <2>3, SaysType
  <2> QED
    BY <2>4 DEF own
<1>2. \A c \in records : ItemOf[c.op] \in Items
  BY SyncAssumption DEF PushInv, Types, ServerTypeOK, Change
<1> QED
  BY <1>1, <1>2 DEF Transcribed, ItemsOf

(* What an answer says of an item last.                                    *)
LEMMA LastWordIsOne ==
    ASSUME PushInv, NEW d \in Devices, NEW i, Words(d, i) # {}
    PROVE  /\ LastWord(Words(d, i)) \in Words(d, i)
           /\ LastWord(Words(d, i)).state \in Change \cup {NoChange}
<1> DEFINE S == Words(d, i)
           f == [r \in S |-> reading[r.op]]
<1>0. S \subseteq Result /\ S # {}
  BY DEF PushInv, Types, Words
<1> HIDE DEF S
<1>1. Cardinality(MadeOps) \in Nat
  BY FS_CardinalityType DEF PushInv, Clocks
<1>2. \A r \in S : f[r] \in Nat /\ f[r] <= Cardinality(MadeOps)
  BY <1>0 DEF Result, PushInv, Types, ServerTypeOK, Clocks
<1>3. \A r \in S : f[r] = reading[r.op]
  OBVIOUS
<1> HIDE DEF f
<1>4. \E r \in S : \A q \in S : f[q] <= f[r]
  BY <1>0, <1>1, <1>2, GreatestExists
<1>5. \E r \in S : \A q \in S : reading[q.op] <= reading[r.op]
  BY <1>3, <1>4
<1>6. LastWord(S) \in S
  BY <1>5 DEF LastWord
<1>7. LastWord(S).state \in Change \cup {NoChange}
  BY <1>0, <1>6 DEF Result
<1> QED
  BY <1>6, <1>7 DEF S

LEMMA AdoptedType ==
    ASSUME PushInv, DeviceTypes, NEW d \in Devices
    PROVE  Adopted(d) \in [Items -> Values]
<1>1. ASSUME NEW i \in Items, Words(d, i) # {}
      PROVE  Says(LastWord(Words(d, i)).state) \in Values
  BY <1>1, LastWordIsOne, SaysType
<1>2. \A i \in Items : copy[d][i] \in Values
  BY DEF DeviceTypes
<1> QED
  BY <1>1, <1>2 DEF Adopted

LEMMA PagesAreOfTheLog ==
    ASSUME NEW at, NEW n
    PROVE  FirstAfter(at, n) \in SUBSET log
  BY DEF FirstAfter, After

LEMMA DeviceTypesStep ==
    ASSUME PushInv, DeviceTypes, [Next]_vars
    PROVE  DeviceTypes'
<1>0. MaxFaults \in Nat
  BY DeviceAssumption
<1> USE DEF DeviceTypes
<1>1. CASE UNCHANGED vars
  BY <1>1 DEF vars, deviceVars, history
<1>2. ASSUME NEW d \in Devices, NEW m \in Ops, Enqueue(d, m)
      PROVE  DeviceTypes'
  BY <1>2, SyncAssumption DEF Enqueue, history
<1>3. ASSUME NEW d \in Devices, Pull(d)
      PROVE  DeviceTypes'
  <2> DEFINE page == FirstAfter(held[d], PageSize)
             cursor == IF page = {} THEN held[d] ELSE Last(page).seq
  <2>1. /\ page \in SUBSET log
        /\ Transcribed(d, page) \in [Items -> Values]
    BY PagesAreOfTheLog, TranscribedType
  <2>2. cursor \in Nat
    BY <2>1, LastOfSome
  <2>3. Due(queue[d]) \in {"idle", "due"}
    BY DEF Due
  <2> HIDE DEF page, cursor
  <2>4. /\ copy' = [copy EXCEPT ![d] = Transcribed(d, page)]
        /\ held' = [held EXCEPT ![d] = cursor]
        /\ pos' = [pos EXCEPT ![d] = cursor]
        /\ adrift' = [adrift EXCEPT ![d] = @ \ ItemsOf(page)]
        /\ UNCHANGED <<faults, overlapped, outrun>>
    BY <1>3 DEF Pull, page, cursor
  <2>5. /\ conn' \in [Devices -> {"down", "caught", "stream"}]
        /\ push' \in [Devices -> {"idle", "due", "answered"} \cup Handlers]
    BY <1>3, <2>3 DEF Pull
  <2> QED
    BY <2>1, <2>2, <2>4, <2>5
<1>4. ASSUME NEW d \in Devices, PullCut(d)
      PROVE  DeviceTypes'
  <2>1. PICK n \in 1 .. PageSize :
           /\ copy' = [copy EXCEPT ![d] = Transcribed(d, FirstAfter(held[d], n))]
           /\ adrift' = [adrift EXCEPT ![d] = @ \ ItemsOf(FirstAfter(held[d], n))]
           /\ UNCHANGED held
    BY <1>4 DEF PullCut, CutShort
  <2>2. Transcribed(d, FirstAfter(held[d], n)) \in [Items -> Values]
    BY PagesAreOfTheLog, TranscribedType
  <2>3. faults' \in 0 .. MaxFaults /\ UNCHANGED <<conn, pos, push, overlapped, outrun>>
    BY <1>0, <1>4 DEF PullCut, Fault
  <2> QED
    BY <2>1, <2>2, <2>3
<1>5. ASSUME NEW d \in Devices, OpenStream(d)
      PROVE  DeviceTypes'
  BY <1>5 DEF OpenStream, history
<1>6. ASSUME NEW d \in Devices, Frame(d)
      PROVE  DeviceTypes'
  <2>1. PICK c \in FirstAfter(pos[d], 1) :
           /\ copy' = [copy EXCEPT ![d] = Transcribed(d, {c})]
           /\ held' = [held EXCEPT ![d] = c.seq]
           /\ pos' = [pos EXCEPT ![d] = c.seq]
           /\ adrift' = [adrift EXCEPT ![d] = @ \ {ItemOf[c.op]}]
    BY <1>6 DEF Frame
  <2>2. c \in log /\ {c} \in SUBSET log
    BY PagesAreOfTheLog
  <2>3. Transcribed(d, {c}) \in [Items -> Values] /\ c.seq \in Nat
    BY <2>2, TranscribedType DEF PushInv, Types, ServerTypeOK, Change
  <2>4. UNCHANGED <<conn, push, faults, overlapped, outrun>>
    BY <1>6 DEF Frame
  <2> QED
    BY <2>1, <2>3, <2>4
<1>7. ASSUME NEW d \in Devices, Push(d)
      PROVE  DeviceTypes'
  BY <1>7 DEF Push
<1>8. ASSUME NEW d \in Devices, Settle(d)
      PROVE  DeviceTypes'
  <2>1. Adopted(d) \in [Items -> Values] /\ answer[d].cursor \in Nat
    BY AdoptedType DEF PushInv, Types
  <2>2. Due(Remaining(d)) \in {"idle", "due"}
    BY DEF Due
  <2>3. /\ copy' = [copy EXCEPT ![d] = Adopted(d)]
        /\ held' = [held EXCEPT ![d] = answer[d].cursor]
        /\ push' = [push EXCEPT ![d] = Due(Remaining(d))]
        /\ adrift' = [adrift EXCEPT ![d] = {i \in @ : Words(d, i) = {}} \cup
              {i \in Items : Stale(d, i) \/ Leapt(d, i) \/ Misled(d, i)}]
        /\ UNCHANGED <<conn, pos, faults, overlapped, outrun>>
    BY <1>8 DEF Settle
  <2> QED
    BY <2>1, <2>2, <2>3
<1>9. ASSUME NEW d \in Devices, TimeOut(d) \/ Drop(d)
      PROVE  DeviceTypes'
  <2>1. faults' \in 0 .. MaxFaults /\ UNCHANGED <<copy, held, adrift, overlapped, outrun>>
    BY <1>0, <1>9 DEF TimeOut, Drop, Fault, history
  <2>2. CASE TimeOut(d)
    BY <2>1, <2>2 DEF TimeOut
  <2>3. CASE Drop(d)
    BY <2>1, <2>3 DEF Drop
  <2> QED
    BY <1>9, <2>2, <2>3
<1>10. ASSUME NEW h \in Handlers, Work(h)
       PROVE  DeviceTypes'
  <2>1. UNCHANGED <<copy, held, conn, pos, push, faults>>
    BY <1>10 DEF Work, deviceVars
  <2>2. adrift' \in [Devices -> SUBSET Items]
    <3>1. CASE Commit(h) /\ adrift' = [d \in Devices |-> adrift[d] \cup
             {ItemOf[c.op] : c \in {b \in log' \ log : b.seq <= held[d] \/ b.seq <= pos[d]}}]
      <4>1. \A c \in log' : c.op \in Ops
        BY PushInvStep DEF PushInv, Types, ServerTypeOK, Change
      <4> QED
        BY <3>1, <4>1, SyncAssumption
    <3> QED
      BY <1>10, <3>1 DEF Work, history
  <2>3. overlapped' \subseteq Devices
    BY <1>10 DEF Work, history
  <2>4. outrun' \subseteq Items
    <3>1. CASE Load(h)
      <4>1. ItemOf[Current(h)] \in Items
        BY <3>1, CurrentIsLeast, SyncAssumption DEF Load, At, PushInv
      <4> QED
        BY <1>10, <4>1 DEF Work, history
    <3> QED
      BY <1>10, <3>1 DEF Work, history
  <2> QED
    BY <2>1, <2>2, <2>3, <2>4
<1>11. ASSUME NEW h \in Handlers, PushFails(h) \/ Reply(h)
       PROVE  DeviceTypes'
  BY <1>0, <1>11 DEF PushFails, Reply, Fault, Unanswered, history
<1> QED
  BY <1>1, <1>2, <1>3, <1>4, <1>5, <1>6, <1>7, <1>8, <1>9, <1>10, <1>11 DEF Next

(* A device that is down is not pushing, and reads on from its store.      *)
Connected ==
    \A d \in Devices : conn[d] = "down" => push[d] = "idle" /\ pos[d] = held[d]

(* An item's copy is the server's, or something is left to come: a change  *)
(* past the cursor, the answer to the mutation it predicts; or it was left *)
(* behind.                                                                 *)
Follows(d, i, cursor) ==
    \/ i \in adrift[d]
    \/ \E m \in queue[d] : ItemOf[m] = i /\ copy[d][i] = Writes[m]
    \/ \E c \in ChangesOf(i) : c.seq > cursor
    \/ copy[d][i] = Says(Stored(i))

(* From where the stream is read, and from where it would be read again.   *)
CopyInv ==
    /\ Connected
    /\ \A d \in Devices, i \in Items : Follows(d, i, pos[d]) /\ Follows(d, i, held[d])

LEMMA StoredStands ==
    ASSUME UNCHANGED log, NEW i
    PROVE  /\ Stored(i)' = Stored(i) /\ ChangesOf(i)' = ChangesOf(i)
           /\ Says(Stored(i))' = Says(Stored(i))
<1>1. ChangesOf(i)' = ChangesOf(i)
  BY DEF ChangesOf
<1>2. Stored(i)' = Stored(i)
  BY <1>1 DEF Stored, Last
<1> QED
  BY <1>1, <1>2 DEF Says

(* What a device that does nothing keeps.                                  *)
LEMMA FollowsStands ==
    ASSUME NEW d, NEW i, NEW cursor, Follows(d, i, cursor), UNCHANGED log,
           i \in adrift[d] => i \in adrift'[d],
           queue[d] \subseteq queue'[d],
           copy'[d][i] = copy[d][i]
    PROVE  \/ i \in adrift'[d]
           \/ \E m \in queue'[d] : ItemOf[m] = i /\ copy'[d][i] = Writes[m]
           \/ \E c \in ChangesOf(i)' : c.seq > cursor
           \/ copy'[d][i] = Says(Stored(i))'
  BY StoredStands DEF Follows

(* A page is all there is up to its last entry.                            *)
LEMMA PageIsWhole ==
    ASSUME PushInv, NEW at \in Nat, NEW n \in Nat, NEW c \in FirstAfter(at, n),
           NEW b \in After(at), b.seq <= c.seq
    PROVE  b \in FirstAfter(at, n)
<1> DEFINE Upto(x) == {y \in After(at) : y.seq <= x.seq}
<1>1. \A y \in log : y.seq \in Nat
  BY DEF PushInv, Types, ServerTypeOK, Change
<1>2. After(at) \subseteq log /\ c \in After(at)
  BY DEF After, FirstAfter
<1>3. Upto(b) \in SUBSET Upto(c) /\ Upto(c) \in SUBSET log
  BY <1>1, <1>2
<1>4. IsFiniteSet(Upto(c))
  BY <1>3, FS_Subset DEF PushInv, Numbered
<1>5. Cardinality(Upto(b)) <= Cardinality(Upto(c))
  BY <1>3, <1>4, FS_Subset
<1>6. Cardinality(Upto(b)) \in Nat /\ Cardinality(Upto(c)) \in Nat
  BY <1>3, <1>4, FS_Subset, FS_CardinalityType
<1>7. Cardinality(Upto(c)) <= n
  BY DEF FirstAfter
<1>8. Cardinality(Upto(b)) <= n
  <2> HIDE DEF Upto
  <2> QED BY <1>5, <1>6, <1>7
<1> QED
  BY <1>8 DEF FirstAfter

(* Reading all that lies between two cursors brings the copy to the second *)
(* as it was to the first, the items left behind with it.                  *)
LEMMA ReadOn ==
    ASSUME PushInv, OrderInv, NEW d \in Devices, NEW i \in Items,
           NEW at \in Nat, NEW to \in Nat, NEW page \in SUBSET log,
           \A c \in page : c.seq > at /\ c.seq <= to,
           \A c \in log : c.seq > at /\ c.seq <= to => c \in page,
           Follows(d, i, at), UNCHANGED <<log, queue>>,
           copy'[d][i] = Transcribed(d, page)[i],
           adrift'[d] = adrift[d] \ ItemsOf(page)
    PROVE  \/ i \in adrift'[d]
           \/ \E m \in queue'[d] : ItemOf[m] = i /\ copy'[d][i] = Writes[m]
           \/ \E c \in ChangesOf(i)' : c.seq > to
           \/ copy'[d][i] = Says(Stored(i))'
<1> DEFINE own == {c \in page : ItemOf[c.op] = i}
<1>0. Says(Stored(i))' = Says(Stored(i)) /\ ChangesOf(i)' = ChangesOf(i)
  BY StoredStands
<1>1. \A c \in log : c.seq \in Nat
  BY DEF PushInv, Types, ServerTypeOK, Change
<1>2. CASE own = {}
  <2>1. copy'[d][i] = copy[d][i] /\ i \notin ItemsOf(page)
    BY <1>2 DEF Transcribed, ItemsOf
  <2>2. \A c \in ChangesOf(i) : c.seq > at => c.seq > to
    BY <1>1, <1>2 DEF ChangesOf
  <2> QED
    BY <1>0, <2>1, <2>2 DEF Follows
<1>3. CASE own # {}
  <2>1. copy'[d][i] = Says(Last(own))
    BY <1>3 DEF Transcribed
  <2>2. own \in SUBSET log /\ own \subseteq ChangesOf(i) /\ ChangesOf(i) \in SUBSET log
    BY DEF ChangesOf
  <2>3. /\ Last(own) \in own /\ \A c \in own : c.seq <= Last(own).seq
        /\ Last(ChangesOf(i)) \in ChangesOf(i)
        /\ \A c \in ChangesOf(i) : c.seq <= Last(ChangesOf(i)).seq
    <3> HIDE DEF own
    <3> QED BY <1>3, <2>2, LastOfSome
  <2> DEFINE o == Last(own)
             l == Last(ChangesOf(i))
  <2>4. Stored(i) = l
    BY <1>3, <2>2 DEF Stored
  <2>5. CASE l.seq > to
    BY <1>0, <2>3, <2>5
  <2>6. CASE ~(l.seq > to)
    <3>1. /\ o \in log /\ l \in log /\ o.seq \in Nat /\ l.seq \in Nat
          /\ ItemOf[o.op] = i /\ ItemOf[l.op] = i /\ o.seq > at
          /\ o.seq <= l.seq
      BY <1>1, <2>2, <2>3 DEF ChangesOf
    <3>2. l \in own
      BY <2>6, <3>1
    <3>3. l.seq <= o.seq
      BY <2>3, <3>2
    <3>4. l = o
      <4> HIDE DEF l, o
      <4> QED BY <3>1, <3>3 DEF OrderInv, OneNumber
    <3> QED
      BY <1>0, <2>1, <2>4, <3>4
  <2> QED
    BY <2>5, <2>6
<1> QED
  BY <1>2, <1>3

SyncInv == PushInv /\ OrderInv /\ Worded /\ DeviceTypes /\ CopyInv

(* A step that reads nothing and writes nothing to the log.                *)
LEMMA CopyStands ==
    ASSUME CopyInv, UNCHANGED <<log, pos, held>>,
           \A d \in Devices : /\ adrift[d] \subseteq adrift'[d]
                              /\ queue[d] \subseteq queue'[d]
                              /\ \A i \in Items : \/ copy'[d][i] = copy[d][i]
                                                  \/ \E m \in queue'[d] :
                                                        /\ ItemOf[m] = i
                                                        /\ copy'[d][i] = Writes[m],
           Connected'
    PROVE  CopyInv'
<1> SUFFICES ASSUME NEW d \in Devices, NEW i \in Items
             PROVE  Follows(d, i, pos[d])' /\ Follows(d, i, held[d])'
  BY DEF CopyInv
<1>1. CASE \E m \in queue'[d] : ItemOf[m] = i /\ copy'[d][i] = Writes[m]
  BY <1>1 DEF Follows
<1>2. CASE copy'[d][i] = copy[d][i]
  <2>1. Follows(d, i, pos[d]) /\ Follows(d, i, held[d])
    BY DEF CopyInv
  <2>2. /\ i \in adrift[d] => i \in adrift'[d]
        /\ queue[d] \subseteq queue'[d]
    OBVIOUS
  <2>3. Follows(d, i, pos[d])'
    <3>1. \/ i \in adrift'[d]
          \/ \E m \in queue'[d] : ItemOf[m] = i /\ copy'[d][i] = Writes[m]
          \/ \E c \in ChangesOf(i)' : c.seq > pos[d]
          \/ copy'[d][i] = Says(Stored(i))'
      BY <1>2, <2>1, <2>2, FollowsStands
    <3> QED
      BY <3>1 DEF Follows
  <2>4. Follows(d, i, held[d])'
    <3>1. \/ i \in adrift'[d]
          \/ \E m \in queue'[d] : ItemOf[m] = i /\ copy'[d][i] = Writes[m]
          \/ \E c \in ChangesOf(i)' : c.seq > held[d]
          \/ copy'[d][i] = Says(Stored(i))'
      BY <1>2, <2>1, <2>2, FollowsStands
    <3> QED
      BY <3>1 DEF Follows
  <2> QED
    BY <2>3, <2>4
<1> QED
  BY <1>1, <1>2

LEMMA CopyPull ==
    ASSUME SyncInv, NEW d \in Devices, Pull(d)
    PROVE  CopyInv'
<1> USE DEF SyncInv
<1> DEFINE page == FirstAfter(held[d], PageSize)
           cursor == IF page = {} THEN held[d] ELSE Last(page).seq
<1>1. page \in SUBSET log /\ held[d] \in Nat /\ PageSize \in Nat
  BY PagesAreOfTheLog, DeviceAssumption DEF DeviceTypes
<1>2. /\ cursor \in Nat
      /\ \A c \in page : c.seq > held[d] /\ c.seq <= cursor
  <2>1. \A c \in page : c.seq > held[d]
    BY DEF FirstAfter, After
  <2> QED
    BY <1>1, <2>1, LastOfSome
<1>3. ASSUME NEW c \in log, c.seq > held[d], c.seq <= cursor
      PROVE  c \in page
  <2>1. c.seq \in Nat
    BY DEF PushInv, Types, ServerTypeOK, Change
  <2>2. page # {}
    BY <1>1, <1>3, <2>1
  <2>3. Last(page) \in page /\ c.seq <= Last(page).seq /\ c \in After(held[d])
    BY <1>1, <1>3, <2>2, LastOfSome DEF After
  <2> QED
    BY <1>1, <2>3, PageIsWhole
<1>4. /\ copy' = [copy EXCEPT ![d] = Transcribed(d, page)]
      /\ held' = [held EXCEPT ![d] = cursor]
      /\ pos' = [pos EXCEPT ![d] = cursor]
      /\ adrift' = [adrift EXCEPT ![d] = @ \ ItemsOf(page)]
      /\ UNCHANGED <<log, queue>>
  BY DEF Pull, serverVars
<1>5. Connected'
  BY <1>4 DEF Pull, CopyInv, Connected, DeviceTypes
<1> HIDE DEF page, cursor
<1>6. ASSUME NEW i \in Items
      PROVE  Follows(d, i, pos[d])' /\ Follows(d, i, held[d])'
  <2>1. /\ copy'[d][i] = Transcribed(d, page)[i]
        /\ adrift'[d] = adrift[d] \ ItemsOf(page)
        /\ held'[d] = cursor /\ pos'[d] = cursor
    BY <1>4 DEF DeviceTypes
  <2>2. Follows(d, i, held[d])
    BY DEF CopyInv
  <2> QED
    BY <1>1, <1>2, <1>3, <1>4, <2>1, <2>2, ReadOn DEF Follows
<1>7. ASSUME NEW e \in Devices, e # d, NEW i \in Items
      PROVE  Follows(e, i, pos[e])' /\ Follows(e, i, held[e])'
  <2>1. /\ copy'[e] = copy[e] /\ adrift'[e] = adrift[e]
        /\ held'[e] = held[e] /\ pos'[e] = pos[e]
    BY <1>4, <1>7 DEF DeviceTypes
  <2>2. Follows(e, i, pos[e]) /\ Follows(e, i, held[e])
    BY DEF CopyInv
  <2> QED
    BY <1>4, <2>1, <2>2, FollowsStands DEF Follows
<1> QED
  BY <1>5, <1>6, <1>7 DEF CopyInv

LEMMA CopyFrame ==
    ASSUME SyncInv, NEW d \in Devices, Frame(d)
    PROVE  CopyInv'
<1> USE DEF SyncInv
<1>1. PICK c \in FirstAfter(pos[d], 1) :
         /\ copy' = [copy EXCEPT ![d] = Transcribed(d, {c})]
         /\ held' = [held EXCEPT ![d] = c.seq]
         /\ pos' = [pos EXCEPT ![d] = c.seq]
         /\ adrift' = [adrift EXCEPT ![d] = @ \ {ItemOf[c.op]}]
  BY DEF Frame
<1>2. /\ c \in log /\ c \in After(pos[d]) /\ c.seq \in Nat /\ pos[d] \in Nat
      /\ c.seq > pos[d]
      /\ UNCHANGED <<log, queue, conn, push>>
  BY DEF Frame, serverVars, FirstAfter, After, PushInv, Types, ServerTypeOK, Change, DeviceTypes
<1>3. ASSUME NEW b \in log, b.seq > pos[d], b.seq <= c.seq
      PROVE  b \in {c}
  <2> DEFINE upto == {x \in After(pos[d]) : x.seq <= c.seq}
  <2>1. b \in upto /\ c \in upto
    BY <1>2, <1>3 DEF After
  <2>2. upto \in SUBSET log
    BY DEF After
  <2>3. Cardinality(upto) <= 1
    BY DEF FirstAfter
  <2> HIDE DEF upto
  <2>4. IsFiniteSet(upto)
    BY <2>2, FS_Subset DEF PushInv, Numbered
  <2>5. /\ IsFiniteSet(upto \ {c})
        /\ Cardinality(upto \ {c}) = Cardinality(upto) - 1
        /\ Cardinality(upto) \in Nat /\ Cardinality(upto \ {c}) \in Nat
    BY <2>1, <2>4, FS_RemoveElement, FS_CardinalityType
  <2>6. Cardinality(upto \ {c}) = 0
    BY <2>3, <2>5
  <2>7. upto \ {c} = {}
    BY <2>5, <2>6, FS_EmptySet
  <2> QED
    BY <2>1, <2>7
<1>4. ItemsOf({c}) = {ItemOf[c.op]}
  BY DEF ItemsOf
<1>5. Connected'
  BY <1>1, <1>2 DEF Frame, CopyInv, Connected, DeviceTypes
<1>6. ASSUME NEW i \in Items
      PROVE  Follows(d, i, pos[d])' /\ Follows(d, i, held[d])'
  <2>1. /\ copy'[d][i] = Transcribed(d, {c})[i]
        /\ adrift'[d] = adrift[d] \ ItemsOf({c})
        /\ held'[d] = c.seq /\ pos'[d] = c.seq
    BY <1>1, <1>4 DEF DeviceTypes
  <2>2. Follows(d, i, pos[d])
    BY DEF CopyInv
  <2>3. {c} \in SUBSET log /\ \A x \in {c} : x.seq > pos[d] /\ x.seq <= c.seq
    BY <1>2
  <2>4. \A x \in log : x.seq > pos[d] /\ x.seq <= c.seq => x \in {c}
    BY <1>3
  <2>5. \/ i \in adrift'[d]
        \/ \E m \in queue'[d] : ItemOf[m] = i /\ copy'[d][i] = Writes[m]
        \/ \E x \in ChangesOf(i)' : x.seq > c.seq
        \/ copy'[d][i] = Says(Stored(i))'
    BY <1>2, <2>1, <2>2, <2>3, <2>4, ReadOn
  <2> QED
    BY <2>1, <2>5 DEF Follows
<1>7. ASSUME NEW e \in Devices, e # d, NEW i \in Items
      PROVE  Follows(e, i, pos[e])' /\ Follows(e, i, held[e])'
  <2>1. /\ copy'[e] = copy[e] /\ adrift'[e] = adrift[e]
        /\ held'[e] = held[e] /\ pos'[e] = pos[e]
    BY <1>1, <1>7 DEF DeviceTypes
  <2>2. Follows(e, i, pos[e]) /\ Follows(e, i, held[e])
    BY DEF CopyInv
  <2> QED
    BY <1>2, <2>1, <2>2, FollowsStands DEF Follows
<1> QED
  BY <1>5, <1>6, <1>7 DEF CopyInv

(* A page cut short leaves its items with a change still to come.          *)
LEMMA CopyPullCut ==
    ASSUME SyncInv, NEW d \in Devices, PullCut(d)
    PROVE  CopyInv'
<1> USE DEF SyncInv
<1>1. PICK n \in 1 .. PageSize :
         /\ copy' = [copy EXCEPT ![d] = Transcribed(d, FirstAfter(held[d], n))]
         /\ adrift' = [adrift EXCEPT ![d] = @ \ ItemsOf(FirstAfter(held[d], n))]
         /\ UNCHANGED held
  BY DEF PullCut, CutShort
<1> DEFINE applied == FirstAfter(held[d], n)
<1>2. /\ UNCHANGED <<log, queue, held, pos, conn, push>>
      /\ pos[d] = held[d]
  BY <1>1 DEF PullCut, serverVars, CopyInv, Connected
<1>3. \A c \in applied : c \in log /\ c.seq > held[d]
  BY DEF FirstAfter, After
<1>4. Connected'
  BY <1>2 DEF CopyInv, Connected
<1>5. ASSUME NEW i \in Items
      PROVE  Follows(d, i, pos[d])' /\ Follows(d, i, held[d])'
  <2> HIDE DEF applied
  <2>0. copy'[d] = Transcribed(d, applied) /\ adrift'[d] = adrift[d] \ ItemsOf(applied)
    BY <1>1 DEF DeviceTypes, applied
  <2>1. CASE \E c \in applied : ItemOf[c.op] = i
    <3>1. \E c \in ChangesOf(i)' : c.seq > held[d]
      BY <1>2, <1>3, <2>1 DEF ChangesOf
    <3> QED
      BY <1>2, <3>1 DEF Follows
  <2>2. CASE \A c \in applied : ItemOf[c.op] # i
    <3>1. copy'[d][i] = copy[d][i] /\ (i \in adrift[d] => i \in adrift'[d])
      BY <2>0, <2>2 DEF Transcribed, ItemsOf
    <3>2. Follows(d, i, pos[d]) /\ Follows(d, i, held[d])
      BY DEF CopyInv
    <3> QED
      BY <1>2, <3>1, <3>2, FollowsStands DEF Follows
  <2> QED
    BY <2>1, <2>2
<1>6. ASSUME NEW e \in Devices, e # d, NEW i \in Items
      PROVE  Follows(e, i, pos[e])' /\ Follows(e, i, held[e])'
  <2>1. copy'[e] = copy[e] /\ adrift'[e] = adrift[e]
    BY <1>1, <1>6 DEF DeviceTypes
  <2>2. Follows(e, i, pos[e]) /\ Follows(e, i, held[e])
    BY DEF CopyInv
  <2> QED
    BY <1>2, <2>1, <2>2, FollowsStands DEF Follows
<1> QED
  BY <1>4, <1>5, <1>6 DEF CopyInv

(* An answer settled.  What it says last of an item is the item's last     *)
(* change, or there is one to come, or the answer was overtaken.           *)
LEMMA SettledWord ==
    ASSUME SyncInv, NEW d \in Devices, NEW i \in Items, Words(d, i) # {}, ~Stale(d, i),
           NEW cursor \in {pos[d], answer[d].cursor},
           ~\E c \in ChangesOf(i) : c.seq > cursor
    PROVE  Adopted(d)[i] = Says(Stored(i))
<1> USE DEF SyncInv
<1> DEFINE w == LastWord(Words(d, i))
<1>1. /\ w \in answer[d].results /\ w.result # "REJECTED" /\ ItemOf[w.op] = i
      /\ w.state \in Change \cup {NoChange}
  <2>1. w \in Words(d, i) /\ w.state \in Change \cup {NoChange}
    BY LastWordIsOne
  <2> HIDE DEF w
  <2> QED
    BY <2>1 DEF Words
<1>2. Adopted(d)[i] = Says(w.state)
  BY DEF Adopted
<1>3. \A c \in ChangesOf(i) : ~(c.seq > w.state.seq /\ (c.seq <= pos[d] \/ c.seq <= answer[d].cursor))
  BY DEF Stale
<1> HIDE DEF w
<1>4. \A c \in ChangesOf(i) : c \in log /\ c.seq \in Nat /\ 0 < c.seq /\ ItemOf[c.op] = i
  BY DEF ChangesOf, PushInv, Types, ServerTypeOK, Change, Numbered
<1>5. w.state.seq \in Nat /\ cursor \in Nat
  BY <1>1 DEF Change, NoChange, DeviceTypes, PushInv, Types
<1>6. \A c \in ChangesOf(i) : c.seq <= w.state.seq
  BY <1>3, <1>4, <1>5
<1>7. CASE w.state = NoChange
  <2>1. w.state.seq = 0
    BY <1>7 DEF NoChange
  <2>2. ChangesOf(i) = {}
    BY <1>4, <1>6, <2>1
  <2> QED
    BY <1>2, <1>7, <2>2 DEF Stored
<1>8. CASE w.state # NoChange
  <2>1. w.state \in ChangesOf(i)
    BY <1>1, <1>8 DEF Worded, Word, ChangesOf
  <2>2. Stored(i) \in ChangesOf(i) /\ w.state.seq <= Stored(i).seq
    BY <2>1, StoredIsLast DEF PushInv
  <2>3. w.state.seq = Stored(i).seq
    BY <1>4, <1>5, <1>6, <2>2
  <2>4. w.state = Stored(i)
    BY <1>4, <2>1, <2>2, <2>3 DEF OrderInv, OneNumber
  <2> QED
    BY <1>2, <2>4
<1> QED
  BY <1>7, <1>8

LEMMA CopySettle ==
    ASSUME SyncInv, NEW d \in Devices, Settle(d)
    PROVE  CopyInv'
<1> USE DEF SyncInv
<1> DEFINE cursor == answer[d].cursor
           Left(i) == Stale(d, i) \/ Leapt(d, i) \/ Misled(d, i)
<1>1. /\ queue' = [queue EXCEPT ![d] = Remaining(d)]
      /\ copy' = [copy EXCEPT ![d] = Adopted(d)]
      /\ held' = [held EXCEPT ![d] = cursor]
      /\ push' = [push EXCEPT ![d] = Due(Remaining(d))]
      /\ adrift' = [adrift EXCEPT ![d] = {i \in @ : Words(d, i) = {}} \cup {i \in Items : Left(i)}]
      /\ push[d] = "answered"
      /\ UNCHANGED <<log, conn, pos>>
  BY DEF Settle, serverVars
<1>2. conn[d] # "down"
  BY <1>1 DEF CopyInv, Connected
<1>3. Connected'
  BY <1>1, <1>2 DEF CopyInv, Connected, DeviceTypes
<1> HIDE DEF Left
<1>4. /\ queue'[d] = Remaining(d) /\ copy'[d] = Adopted(d) /\ held'[d] = cursor
      /\ pos'[d] = pos[d]
      /\ adrift'[d] = {i \in adrift[d] : Words(d, i) = {}} \cup {i \in Items : Left(i)}
      /\ cursor \in Nat /\ pos[d] \in Nat /\ held[d] \in Nat
  BY <1>1 DEF DeviceTypes, PushInv, Types
<1>5. \A c \in log : c.seq \in Nat
  BY DEF PushInv, Types, ServerTypeOK, Change
<1>6. ASSUME NEW i \in Items
      PROVE  Follows(d, i, pos[d])' /\ Follows(d, i, held[d])'
  <2>0. ChangesOf(i)' = ChangesOf(i) /\ Says(Stored(i))' = Says(Stored(i))
    BY <1>1, StoredStands
  <2>1. CASE i \in adrift'[d]
    BY <2>1 DEF Follows
  <2>2. CASE i \notin adrift'[d] /\ Words(d, i) # {}
    <3>1. ~Stale(d, i)
      BY <1>4, <2>2 DEF Left
    <3>2. (\E c \in ChangesOf(i) : c.seq > pos[d]) \/ Adopted(d)[i] = Says(Stored(i))
      BY <2>2, <3>1, SettledWord
    <3>3. (\E c \in ChangesOf(i) : c.seq > cursor) \/ Adopted(d)[i] = Says(Stored(i))
      BY <2>2, <3>1, SettledWord
    <3> HIDE DEF cursor
    <3> QED
      BY <1>4, <2>0, <3>2, <3>3 DEF Follows
  <2>3. CASE i \notin adrift'[d] /\ Words(d, i) = {}
    <3>1. i \notin adrift[d] /\ ~Leapt(d, i) /\ ~Misled(d, i)
      BY <1>4, <2>3 DEF Left
    <3>2. copy'[d][i] = copy[d][i]
      BY <1>4, <2>3 DEF Adopted
    <3>3. Follows(d, i, pos[d]) /\ Follows(d, i, held[d])
      BY DEF CopyInv
    <3>4. ASSUME NEW m \in queue[d], ItemOf[m] = i, copy[d][i] = Writes[m]
          PROVE  m \in queue'[d]
      <4>1. \A r \in answer[d].results : r.op # m
        BY <2>3, <3>1, <3>4 DEF Misled
      <4> QED
        BY <1>4, <4>1 DEF Remaining
    <3>5. CASE \E m \in queue[d] : ItemOf[m] = i /\ copy[d][i] = Writes[m]
      BY <3>2, <3>4, <3>5 DEF Follows
    <3>6. CASE copy[d][i] = Says(Stored(i))
      BY <2>0, <3>2, <3>6 DEF Follows
    <3>7. CASE /\ \E c \in ChangesOf(i) : c.seq > pos[d]
               /\ \E c \in ChangesOf(i) : c.seq > held[d]
      <4>1. PICK b \in ChangesOf(i) : b.seq > pos[d]
        BY <3>7
      <4>2. PICK c \in ChangesOf(i) : c.seq > held[d]
        BY <3>7
      <4>3. b.seq \in Nat /\ c.seq \in Nat
        BY <1>5 DEF ChangesOf
      <4>4. \/ b.seq > cursor \/ c.seq > cursor
        <5>1. ~(b.seq > held[d] /\ b.seq > pos[d] /\ b.seq <= cursor)
          BY <2>3, <3>1 DEF Leapt
        <5>2. ~(c.seq > held[d] /\ c.seq > pos[d] /\ c.seq <= cursor)
          BY <2>3, <3>1 DEF Leapt
        <5> HIDE DEF cursor
        <5> QED
          BY <1>4, <4>1, <4>2, <4>3, <5>1, <5>2
      <4> HIDE DEF cursor
      <4> QED
        BY <1>4, <2>0, <4>1, <4>4 DEF Follows
    <3> QED
      BY <3>1, <3>3, <3>5, <3>6, <3>7 DEF Follows
  <2> QED
    BY <2>1, <2>2, <2>3
<1>8. ASSUME NEW e \in Devices, e # d, NEW i \in Items
      PROVE  Follows(e, i, pos[e])' /\ Follows(e, i, held[e])'
  <2>1. /\ copy'[e] = copy[e] /\ adrift'[e] = adrift[e] /\ queue'[e] = queue[e]
        /\ held'[e] = held[e] /\ pos'[e] = pos[e]
    BY <1>1, <1>8 DEF DeviceTypes, PushInv, Types
  <2>2. Follows(e, i, pos[e]) /\ Follows(e, i, held[e])
    BY DEF CopyInv
  <2>3. UNCHANGED log
    BY <1>1
  <2> HIDE DEF SyncInv
  <2>4. Follows(e, i, pos[e])'
    BY <2>1, <2>2, <2>3, FollowsStands DEF Follows
  <2>5. Follows(e, i, held[e])'
    BY <2>1, <2>2, <2>3, FollowsStands DEF Follows
  <2> QED
    BY <2>4, <2>5
<1> QED
  BY <1>3, <1>6, <1>8 DEF CopyInv

LEMMA CopyDrop ==
    ASSUME SyncInv, NEW d \in Devices, Drop(d)
    PROVE  CopyInv'
<1> USE DEF SyncInv
<1>1. /\ pos' = [pos EXCEPT ![d] = held[d]]
      /\ conn' = [conn EXCEPT ![d] = "down"]
      /\ push' = [push EXCEPT ![d] = "idle"]
      /\ UNCHANGED <<log, queue, copy, held, adrift>>
  BY DEF Drop, serverVars, history
<1>2. Connected'
  BY <1>1 DEF CopyInv, Connected, DeviceTypes
<1>3. ASSUME NEW e \in Devices, NEW i \in Items
      PROVE  Follows(e, i, pos[e])' /\ Follows(e, i, held[e])'
  <2>1. pos'[e] \in {pos[e], held[e]} /\ held'[e] = held[e]
    BY <1>1 DEF DeviceTypes
  <2>2. Follows(e, i, pos[e]) /\ Follows(e, i, held[e])
    BY DEF CopyInv
  <2> QED
    BY <1>1, <2>1, <2>2, FollowsStands DEF Follows
<1> QED
  BY <1>2, <1>3 DEF CopyInv

(* A commit: behind a cursor it leaves the device adrift, past both it is  *)
(* still to come.                                                          *)
LEMMA CopyWork ==
    ASSUME SyncInv, NEW h \in Handlers, Work(h)
    PROVE  CopyInv'
<1> USE DEF SyncInv
<1>1. UNCHANGED <<queue, copy, held, conn, pos, push>>
  BY DEF Work, deviceVars
<1>2. Connected'
  BY <1>1 DEF CopyInv, Connected
<1>3. CASE log' = log
  <2>1. \A d \in Devices : adrift[d] \subseteq adrift'[d]
    BY DEF Work, history
  <2> QED
    BY <1>1, <1>2, <1>3, <2>1, CopyStands
<1>4. CASE log' # log
  <2>1. handler[h].step = "written"
    BY <1>4 DEF Work, FindOp, Decide, Load, Write, Unread, Commit, Refuse, At
  <2>2. Commit(h) /\ At(h, "written")
    BY <1>4, <2>1 DEF Work, FindOp, Decide, Load, Write, Unread, Commit, Refuse, At
  <2> DEFINE new == [seq |-> handler[h].seq, op |-> Current(h)]
  <2>3. /\ log' = log \cup {new}
        /\ adrift' = [d \in Devices |-> adrift[d] \cup
              {ItemOf[c.op] : c \in {b \in log' \ log : b.seq <= held[d] \/ b.seq <= pos[d]}}]
    BY <1>4, <2>1, <2>2 DEF Work, FindOp, Decide, Load, Write, Unread, Commit, Refuse, At
  <2>4. /\ Current(h) \in Ops /\ new.op = Current(h) /\ new.seq \in Nat
        /\ new.seq = handler[h].seq
    BY <2>2, CurrentIsLeast DEF At, PushInv, Handler
  <2> HIDE DEF new
  <2>5. new \notin log
    <3>1. \A c \in ChangesOf(ItemOf[Current(h)]) : c.seq < new.seq
      BY <2>1, <2>4 DEF OrderInv, Newer
    <3> QED
      BY <2>4, <3>1 DEF ChangesOf
  <2>6. ASSUME NEW d \in Devices, NEW i \in Items, NEW cursor \in {held[d], pos[d]}
        PROVE  \/ i \in adrift'[d]
               \/ \E m \in queue'[d] : ItemOf[m] = i /\ copy'[d][i] = Writes[m]
               \/ \E c \in ChangesOf(i)' : c.seq > cursor
               \/ copy'[d][i] = Says(Stored(i))'
    <3>1. Follows(d, i, cursor) /\ cursor \in Nat /\ held[d] \in Nat /\ pos[d] \in Nat
      BY DEF CopyInv, DeviceTypes
    <3>2. CASE i = ItemOf[new.op]
      <4>1. CASE new.seq <= held[d] \/ new.seq <= pos[d]
        BY <2>3, <2>5, <3>2, <4>1
      <4>2. CASE ~(new.seq <= held[d] \/ new.seq <= pos[d])
        <5>1. new.seq > cursor
          BY <2>4, <3>1, <4>2
        <5>2. new \in ChangesOf(i)'
          BY <2>3, <3>2 DEF ChangesOf
        <5> QED
          BY <5>1, <5>2
      <4> QED
        BY <4>1, <4>2
    <3>3. CASE i # ItemOf[new.op]
      <4>1. ChangesOf(i)' = ChangesOf(i)
        BY <2>3, <3>3 DEF ChangesOf
      <4>2. Says(Stored(i))' = Says(Stored(i))
        BY <4>1 DEF Stored, Last, Says
      <4>3. adrift[d] \subseteq adrift'[d]
        BY <2>3
      <4> QED
        BY <1>1, <3>1, <4>1, <4>2, <4>3 DEF Follows
    <3> QED
      BY <3>2, <3>3
  <2> QED
    BY <1>1, <1>2, <2>6 DEF CopyInv, Follows
<1> QED
  BY <1>3, <1>4

LEMMA CopyInvStep ==
    ASSUME SyncInv, [Next]_vars
    PROVE  CopyInv'
<1> USE DEF SyncInv
<1>0. \A h \in Handlers : h \notin {"idle", "due", "answered"}
  BY DeviceAssumption
<1>1. CASE UNCHANGED vars
  <2>1. Connected'
    BY <1>1 DEF vars, deviceVars, CopyInv, Connected
  <2> QED
    BY <1>1, <2>1, CopyStands DEF vars, serverVars, deviceVars, history
<1>2. ASSUME NEW d \in Devices, NEW m \in Ops, Enqueue(d, m)
      PROVE  CopyInv'
  <2>1. Connected'
    BY <1>2 DEF Enqueue, CopyInv, Connected, DeviceTypes
  <2>2. /\ queue'[d] = queue[d] \cup {m}
        /\ \A e \in Devices : e # d => queue'[e] = queue[e]
    BY <1>2, EnqueueWrites
  <2>3. \A e \in Devices : \A i \in Items :
           e # d \/ i # ItemOf[m] => copy'[e][i] = copy[e][i]
    BY <1>2 DEF Enqueue, DeviceTypes
  <2>4. UNCHANGED <<log, pos, held, adrift>>
    BY <1>2 DEF Enqueue, history
  <2>a. copy'[d][ItemOf[m]] = Writes[m]
    BY <1>2, SyncAssumption DEF Enqueue, DeviceTypes
  <2>5. \A e \in Devices : \A i \in Items :
           \/ copy'[e][i] = copy[e][i]
           \/ \E n \in queue'[e] : ItemOf[n] = i /\ copy'[e][i] = Writes[n]
    BY <2>2, <2>3, <2>a
  <2> QED
    BY <2>1, <2>2, <2>4, <2>5, CopyStands
<1>3. ASSUME NEW d \in Devices, OpenStream(d) \/ Push(d) \/ TimeOut(d)
      PROVE  CopyInv'
  <2>1. UNCHANGED <<log, queue, copy, held, pos, adrift>>
    BY <1>3 DEF OpenStream, Push, TimeOut, Accept, serverVars, history
  <2>2. Connected'
    <3>1. CASE OpenStream(d)
      BY <3>1 DEF OpenStream, CopyInv, Connected, DeviceTypes
    <3>2. CASE Push(d)
      BY <3>2 DEF Push, CopyInv, Connected, DeviceTypes
    <3>3. CASE TimeOut(d)
      BY <3>3 DEF TimeOut, CopyInv, Connected, DeviceTypes
    <3> QED
      BY <1>3, <3>1, <3>2, <3>3
  <2> QED
    BY <2>1, <2>2, CopyStands
<1>4. ASSUME NEW h \in Handlers, PushFails(h) \/ Reply(h)
      PROVE  CopyInv'
  <2>1. UNCHANGED <<log, queue, copy, held, pos, conn, adrift>>
    BY <1>4 DEF PushFails, Reply, Fail, Finish, history
  <2>2. \A d \in Devices : push[d] = "idle" => push'[d] = "idle"
    BY <1>0, <1>4 DEF PushFails, Reply, Unanswered, Waiting
  <2>3. Connected'
    BY <2>1, <2>2 DEF CopyInv, Connected
  <2> QED
    BY <2>1, <2>3, CopyStands
<1>5. CASE Next
  BY <1>2, <1>3, <1>4, <1>5, CopyPull, CopyPullCut, CopyFrame, CopySettle, CopyDrop, CopyWork
     DEF Next
<1> QED
  BY <1>1, <1>5

LEMMA SyncInvHolds == Spec => []SyncInv
<1>1. Init => SyncInv
  <2> SUFFICES ASSUME Init PROVE SyncInv
    OBVIOUS
  <2>1. PushInv
    BY PushInvInit
  <2>2. /\ log = {} /\ \A h \in Handlers : handler[h].step = "idle"
        /\ \A m \in Ops : opLog[m] = NoResult
    BY DEF Init, ServerInit, NoHandler
  <2>3. OrderInv /\ Worded
    <3>1. OrderInv
      BY <2>2 DEF OrderInv, Locks, Newer, OneNumber, LaterWins
    <3>2. Worded
      BY DEF Init, ServerInit, Worded, Word, NoResult, NoHandler, NoAnswer
    <3> QED
      BY <3>1, <3>2
  <2>4. DeviceTypes
    BY DeviceAssumption, SyncAssumption DEF Init, DeviceTypes
  <2>5. \A i \in Items : Says(Stored(i)) = Untouched
    BY <2>2 DEF Stored, ChangesOf, Says
  <2>6. CopyInv
    BY <2>5 DEF Init, CopyInv, Connected, Follows
  <2> QED
    BY <2>1, <2>3, <2>4, <2>6 DEF SyncInv
<1>2. SyncInv /\ [Next]_vars => SyncInv'
  BY PushInvStep, OrderInvStep, WordedStep, DeviceTypesStep, CopyInvStep DEF SyncInv
<1> QED
  BY <1>1, <1>2, PTL DEF Spec

(* The state of the server and of the devices is always of its type.       *)
THEOREM SyncTypes == Spec => []TypeOK
<1>1. SyncInv => TypeOK
  BY DEF SyncInv, PushInv, Types, DeviceTypes, TypeOK
<1> QED
  BY <1>1, SyncInvHolds, PTL

(* A device at rest shows what the server holds, whatever tabs were closed *)
(* in the middle of a page and whatever answers were lost: only a change   *)
(* committed behind a cursor, an answer that was overtaken or whose cursor *)
(* is past one, and a refusal of what it predicted leave it behind.        *)
THEOREM DevicesConverge == Spec => []ConvergesUnlessAdrift
<1>1. SyncInv => ConvergesUnlessAdrift
  <2> SUFFICES ASSUME SyncInv, NEW d \in Devices, AtRest(d), NEW i \in Items
               PROVE  i \in adrift[d] \/ copy[d][i] = Says(Stored(i))
    BY DEF ConvergesUnlessAdrift
  <2>1. Follows(d, i, pos[d])
    BY DEF SyncInv, CopyInv
  <2>2. \A c \in ChangesOf(i) : ~(c.seq > pos[d])
    BY DEF AtRest, After, ChangesOf
  <2> QED
    BY <2>1, <2>2 DEF Follows, AtRest
<1> QED
  BY <1>1, SyncInvHolds, PTL

-----------------------------------------------------------------------------
(* A device is told what is recorded.                                      *)

(* A device waits for a push of its own that is being applied.             *)
Awaited ==
    \A d \in Devices : \A h \in Handlers :
       push[d] = h => Running(h) /\ handler[h].dev = d

(* What a push that meets no repeat of its own has to answer is recorded.  *)
Telling ==
    \A h \in Handlers :
       Running(h) /\ handler[h].dev \notin overlapped
       => \A r \in handler[h].results : r = opLog[r.op]

TellInv == Awaited /\ Telling /\ ToldUnlessOverlapped

(* A record stands, and the answers are recorded ones.                     *)
LEMMA RecordStands ==
    ASSUME PushInv, [Next]_vars, NEW m \in Ops, opLog[m] # NoResult
    PROVE  opLog'[m] = opLog[m]
<1>1. ASSUME NEW h \in Handlers, Work(h) PROVE opLog'[m] = opLog[m]
  <2>1. CASE Turned(h)
    BY <2>1, TurnedWrites
  <2>2. ASSUME NEW r \in Result, Ruled(h, r) PROVE opLog'[m] = opLog[m]
    BY <2>2, RuledWrites
  <2> QED
    BY <1>1, <2>1, <2>2, WorkShapes
<1>2. ASSUME NEW d \in Devices, Push(d) PROVE opLog'[m] = opLog[m]
  BY <1>2 DEF Push, Accept
<1> QED
  BY <1>1, <1>2, StepShapes, EnqueueWrites DEF Local, serverVars, Ended

LEMMA AnswersStand ==
    ASSUME PushInv, [Next]_vars, NEW r,
           \/ \E h \in Handlers : r \in handler[h].results
           \/ \E d \in Devices : r \in answer[d].results
    PROVE  opLog'[r.op] = opLog[r.op]
<1>1. r \in Result
  BY DEF PushInv, Types, ServerTypeOK, Handler, NoHandler
<1>2. r.op \in Ops /\ opLog[r.op] # NoResult
  BY <1>1 DEF PushInv, Answers, Result
<1> QED
  BY <1>2, RecordStands

(* A device that lets go of answers, or of none, is told nothing else.     *)
LEMMA ToldStands ==
    ASSUME PushInv, ToldUnlessOverlapped, [Next]_vars,
           \A d \in Devices : answer'[d].results \subseteq answer[d].results
    PROVE  ToldUnlessOverlapped'
<1>1. ASSUME NEW d \in Devices, d \notin overlapped', NEW r \in answer'[d].results
      PROVE  r = opLog'[r.op]
  <2>1. d \notin overlapped /\ r \in answer[d].results
    BY <1>1, HistoriesGrow
  <2>2. r = opLog[r.op] /\ opLog'[r.op] = opLog[r.op]
    BY <2>1, AnswersStand DEF ToldUnlessOverlapped, ToldAsRecorded
  <2> QED
    BY <2>2
<1> QED
  BY <1>1 DEF ToldUnlessOverlapped, ToldAsRecorded

LEMMA TellingStands ==
    ASSUME PushInv, Telling, [Next]_vars, NEW h \in Handlers,
           handler'[h] \in {handler[h], NoHandler},
           Running(h)', handler'[h].dev \notin overlapped',
           NEW r \in handler'[h].results
    PROVE  r = opLog'[r.op]
<1>1. handler'[h] = handler[h] /\ Running(h)
  BY DEF Running, NoHandler
<1>2. r \in handler[h].results /\ handler[h].dev \notin overlapped
  BY <1>1, HistoriesGrow
<1>3. opLog'[r.op] = opLog[r.op]
  BY <1>2, AnswersStand
<1> QED
  BY <1>1, <1>2, <1>3 DEF Telling

(* An answer says what is recorded: it is the first, or was read there.    *)
LEMMA RuledTells ==
    ASSUME PushInv, EffectInv, NEW h \in Handlers, NEW r \in Result,
           Ruled(h, r), RuleReason(h, r), handler[h].dev \notin overlapped
    PROVE  r = opLog'[r.op]
<1>1. /\ opLog'[Current(h)] = IF opLog[Current(h)] = NoResult THEN r ELSE opLog[Current(h)]
      /\ r.op = Current(h)
  BY RuledWrites DEF Ruled
<1>2. CASE opLog[Current(h)] # NoResult
  <2>1. ~Begun(h)
    BY <1>2 DEF EffectInv, Fresh
  <2>2. r = opLog[Current(h)]
    BY <2>1 DEF RuleReason, Begun
  <2> QED
    BY <1>1, <1>2, <2>2
<1> QED
  BY <1>1, <1>2

LEMMA WorkTells ==
    ASSUME PushInv, EffectInv, TellInv, NEW h \in Handlers, Work(h), [Next]_vars
    PROVE  TellInv'
<1> USE DEF TellInv
<1>1. UNCHANGED <<push, answer, overlapped>>
  BY DEF Work, deviceVars, history
<1>2. ToldUnlessOverlapped'
  BY <1>1, ToldStands
<1>3. CASE Turned(h)
  <2>1. handler'[h].results = handler[h].results /\ handler'[h].dev = handler[h].dev
    BY <1>3, TurnedWrites
  <2>2. /\ \A k \in Handlers : k # h => handler'[k] = handler[k]
        /\ Running(h) /\ Running(h)' /\ UNCHANGED opLog
    BY <1>3, TurnedWrites DEF Running, Steps
  <2>3. Awaited'
    BY <1>1, <2>1, <2>2 DEF Awaited, Running
  <2>4. Telling'
    BY <1>1, <2>1, <2>2 DEF Telling, Running
  <2> QED
    BY <1>2, <2>3, <2>4
<1>4. ASSUME NEW r \in Result, Ruled(h, r), RuleReason(h, r)
      PROVE  TellInv'
  <2>1. Running(h) /\ \A k \in Handlers : k # h => handler'[k] = handler[k]
    BY <1>4, RuledWrites, RuledAnswers
  <2>2. /\ handler'[h].results = handler[h].results \cup {r}
        /\ handler'[h].dev = handler[h].dev /\ handler'[h].step = "find"
    BY <1>4, RuledAnswers
  <2>3. Awaited'
    BY <1>1, <2>1, <2>2 DEF Awaited, Running
  <2>4. ASSUME NEW k \in Handlers, Running(k)', handler'[k].dev \notin overlapped',
               NEW q \in handler'[k].results
        PROVE  q = opLog'[q.op]
    <3>1. CASE k # h
      BY <2>1, <2>4, <3>1, TellingStands
    <3>2. CASE k = h /\ q = r
      BY <1>1, <1>4, <2>2, <2>4, <3>2, RuledTells
    <3>3. CASE k = h /\ q \in handler[h].results
      BY <1>1, <2>1, <2>2, <2>4, <3>3, AnswersStand DEF Telling
    <3> QED
      BY <2>2, <2>4, <3>1, <3>2, <3>3
  <2>5. Telling'
    BY <2>4 DEF Telling
  <2> QED
    BY <1>2, <2>3, <2>5
<1> QED
  BY <1>3, <1>4, WorkShapes

LEMMA EndTells ==
    ASSUME PushInv, DeviceTypes, TellInv, NEW h \in Handlers, PushFails(h) \/ Reply(h),
           [Next]_vars
    PROVE  TellInv'
<1> USE DEF TellInv
<1>0. /\ h \notin {"idle", "due", "answered"}
      /\ \A k \in Handlers : k \notin {"idle", "due", "answered"}
  BY DeviceAssumption
<1>1. /\ handler' = [handler EXCEPT ![h] = NoHandler]
      /\ UNCHANGED <<opLog, overlapped>>
      /\ \A d \in Devices :
            push'[d] = IF push[d] = h THEN push'[d] ELSE push[d]
      /\ \A d \in Devices : push'[d] # h
      /\ \A d \in Devices : push[d] = h => push'[d] \in {"idle", "answered"}
  BY <1>0 DEF PushFails, Reply, Fail, Abandon, Finish, Unanswered, Waiting, history
<1>2. \A k \in Handlers : handler'[k] = IF k = h THEN NoHandler ELSE handler[k]
  BY <1>1 DEF PushInv, Types, ServerTypeOK
<1>3. Awaited'
  BY <1>0, <1>1, <1>2 DEF Awaited, Running
<1>4. Telling'
  BY <1>2, TellingStands DEF Telling
<1>5. CASE PushFails(h)
  <2>1. ToldUnlessOverlapped'
    BY <1>5, ToldStands DEF PushFails
  <2> QED
    BY <1>3, <1>4, <2>1
<1>6. CASE Reply(h)
  <2>1. ASSUME NEW d \in Devices \ overlapped, NEW r \in answer'[d].results
        PROVE  r = opLog[r.op]
    <3>1. CASE Waiting(d, h)
      <4>1. Running(h) /\ handler[h].dev = d
        BY <3>1 DEF Waiting, Awaited
      <4>2. r \in handler[h].results
        BY <1>6, <2>1, <3>1 DEF Reply
      <4> QED
        BY <4>1, <4>2 DEF Telling
    <3>2. CASE ~Waiting(d, h)
      <4>1. r \in answer[d].results
        BY <1>6, <2>1, <3>2 DEF Reply
      <4> QED
        BY <4>1 DEF ToldUnlessOverlapped, ToldAsRecorded
    <3> QED
      BY <3>1, <3>2
  <2>2. ToldUnlessOverlapped'
    BY <1>1, <2>1 DEF ToldUnlessOverlapped, ToldAsRecorded
  <2> QED
    BY <1>3, <1>4, <2>2
<1> QED
  BY <1>5, <1>6

LEMMA PushTells ==
    ASSUME PushInv, DeviceTypes, TellInv, NEW d \in Devices, Push(d), [Next]_vars
    PROVE  TellInv'
<1> USE DEF TellInv
<1>1. PICK h \in Handlers, batch \in SUBSET queue[d] :
         Accept(h, d, batch) /\ push' = [push EXCEPT ![d] = h]
  BY DEF Push
<1>2. /\ handler'[h].step = "find" /\ handler'[h].dev = d /\ handler'[h].results = {}
      /\ \A k \in Handlers : k # h => handler'[k] = handler[k]
      /\ ~Running(h)
  BY <1>1 DEF Accept, NoHandler, PushInv, Types, ServerTypeOK
<1>3. push'[d] = h /\ \A e \in Devices : e # d => push'[e] = push[e]
  BY <1>1 DEF DeviceTypes
<1>4. Awaited'
  BY <1>2, <1>3 DEF Awaited, Running
<1>5. Telling'
  BY <1>2, TellingStands DEF Telling
<1>6. ToldUnlessOverlapped'
  BY ToldStands DEF Push
<1> QED
  BY <1>4, <1>5, <1>6

(* What a device does for itself: it stops waiting, or goes on.            *)
LEMMA LocalTells ==
    ASSUME PushInv, TellInv, [Next]_vars, UNCHANGED handler,
           \A d \in Devices : push'[d] \in Handlers => push'[d] = push[d],
           \A d \in Devices : answer'[d].results \subseteq answer[d].results
    PROVE  TellInv'
<1> USE DEF TellInv
<1>1. Awaited'
  BY DEF Awaited, Running
<1>2. Telling'
  BY TellingStands DEF Telling
<1>3. ToldUnlessOverlapped'
  BY ToldStands
<1> QED
  BY <1>1, <1>2, <1>3

LEMMA TellInvStep ==
    ASSUME PushInv, EffectInv, DeviceTypes, TellInv, [Next]_vars
    PROVE  TellInv'
<1>0. \A h \in Handlers : h \notin {"idle", "due", "answered"}
  BY DeviceAssumption
<1>1. CASE UNCHANGED vars
  BY <1>1, LocalTells DEF vars, serverVars, deviceVars
<1>2. ASSUME NEW d \in Devices, NEW m \in Ops, Enqueue(d, m) PROVE TellInv'
  <2>1. \A e \in Devices : push'[e] \in Handlers => push'[e] = push[e]
    BY <1>0, <1>2 DEF Enqueue, DeviceTypes
  <2> QED
    BY <1>2, <2>1, LocalTells DEF Enqueue
<1>3. ASSUME NEW d \in Devices,
             \/ Pull(d) \/ PullCut(d) \/ OpenStream(d) \/ Frame(d)
             \/ TimeOut(d) \/ Settle(d) \/ Drop(d)
      PROVE  TellInv'
  <2>1. Local
    BY <1>3, LocalShapes
  <2>2. \A e \in Devices : push'[e] \in Handlers => push'[e] = push[e]
    BY <1>0, <1>3 DEF Pull, PullCut, OpenStream, Frame, TimeOut, Settle, Drop, Due,
                      DeviceTypes
  <2> QED
    BY <2>1, <2>2, LocalTells DEF Local, serverVars
<1> QED
  BY <1>1, <1>2, <1>3, PushTells, WorkTells, EndTells DEF Next

(* Whatever was lost and sent again, a device none of whose pushes met its *)
(* own repeat is told of each change what the operation log keeps of it.   *)
THEOREM DevicesAreTold == Spec => []ToldUnlessOverlapped
<1>1. Init => TellInv
  <2>1. \A h \in Handlers : h \notin {"idle", "due", "answered"}
    BY DeviceAssumption
  <2> QED
    BY <2>1 DEF Init, ServerInit, NoHandler, NoAnswer, TellInv, Awaited, Telling, Running,
                ToldUnlessOverlapped, ToldAsRecorded
<1>2. SyncInv /\ EffectInv /\ TellInv /\ [Next]_vars => TellInv'
  BY TellInvStep DEF SyncInv
<1>3. TellInv => ToldUnlessOverlapped
  BY DEF TellInv
<1> QED
  BY <1>1, <1>2, <1>3, SyncInvHolds, EffectInvHolds, PTL DEF Spec
=============================================================================
