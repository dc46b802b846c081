---------------------------- MODULE OutboxProofs ----------------------------
(***************************************************************************)
(* ExactlyOnce and DisjointRounds of Outbox, for every number of events,   *)
(* consumers and workers.  ExactlyOnce alone is not inductive: a commit    *)
(* must know that the events of its batch are still pending, that no other *)
(* round holds them, that no record of them was there when the subscribers *)
(* were asked, and that it therefore carries a reaction for every          *)
(* interested subscriber.  The same invariant shows that Outbox implements *)
(* EventDelivery.  InOrderUnlessSkipped rests on one of its own, about     *)
(* what a claim leaves behind.                                             *)
(***************************************************************************)
EXTENDS Outbox, FiniteSetTheorems, TLAPS

(* Only a transaction under way holds events, and one that handed them     *)
(* over carries a reaction of every interested subscriber.                 *)
RoundShape ==
    \A w \in Workers :
        /\ round[w].pc \in {"idle", "taken", "failing"} => round[w].batch = {}
        /\ round[w].pc \in {"handed", "counted"} =>
              \A c \in Consumers, e \in Events :
                  <<c, e>> \in round[w].reactions
                      <=> e \in round[w].batch /\ Interested(c, e)

(* A record of a consumption is only there for an event that left.         *)
RecordsSettled ==
    \A c \in Consumers, e \in Events :
        <<c, e>> \in consumed => event[e] \in {"dispatched", "swept"}

OutboxInv == DisjointRounds /\ RoundShape /\ RecordsSettled /\ ExactlyOnce

USE DEF Nobody

-----------------------------------------------------------------------------
LEMMA CappedInRange ==
    ASSUME NEW n \in Nat PROVE Capped(n) \in 0..(MaxAttempts + 1)
BY OutboxAssumption DEF Capped

LEMMA InitTypes == Init => TypeOK
BY OutboxAssumption DEF Init, TypeOK, Job, Round, NoRound

LEMMA NoRoundType == NoRound \in Round
BY OutboxAssumption DEF NoRound, Round

LEMMA WaitingType == ASSUME NEW due \in BOOLEAN PROVE Waiting(due) \in Job
BY OutboxAssumption DEF Waiting, Job

(* Every step of a round leaves a round behind.                            *)
LEMMA SetRoundType ==
    ASSUME TypeOK, NEW w \in Workers, NEW with \in Round, SetRound(w, with)
    PROVE  round' \in [Workers -> Round]
BY DEF TypeOK, SetRound

LEMMA FailRoundType ==
    ASSUME TypeOK, NEW w \in Workers, FailRound(w)
    PROVE  round' \in [Workers -> Round]
<1>1. [NoRound EXCEPT !.pc = "failing", !.attempts = round[w].attempts] \in Round
  BY NoRoundType DEF TypeOK, Round
<1>2. QED
  BY <1>1, SetRoundType DEF FailRound

LEMMA EndRoundType ==
    ASSUME TypeOK, NEW w \in Workers, EndRound(w)
    PROVE  round' \in [Workers -> Round]
BY NoRoundType, SetRoundType DEF EndRound

LEMMA TypeStep == TypeOK /\ [Next]_vars => TypeOK'
<1> SUFFICES ASSUME TypeOK, [Next]_vars PROVE TypeOK'
  OBVIOUS
<1> USE OutboxAssumption
<1>1. ASSUME NEW e \in Events, Append(e) PROVE TypeOK'
  <2>1. job' \in Job
    BY <1>1, WaitingType DEF Append, TypeOK, Job
  <2>2. QED
    BY <1>1, <2>1 DEF Append, TypeOK
<1>2. ASSUME NEW e \in Events, SweepEvent(e) PROVE TypeOK'
  BY <1>2 DEF SweepEvent, TypeOK
<1>3. ASSUME NEW r \in Consumers \X Events, SweepConsumption(r) PROVE TypeOK'
  BY <1>3 DEF SweepConsumption, TypeOK
<1>4. CASE Requeue
  BY <1>4, WaitingType DEF Requeue, TypeOK
<1>5. CASE Cancel
  BY <1>5 DEF Cancel, TypeOK, Job
<1>6. ASSUME NEW w \in Workers, Take(w) PROVE TypeOK'
  <2> DEFINE a == Capped(job.attempts + 1)
  <2>1. a \in 0..(MaxAttempts + 1)
    BY CappedInRange DEF TypeOK, Job
  <2>2. job' \in Job
    BY <1>6, <2>1 DEF Take, Job
  <2>3. \E p \in {"failing", "taken"} :
            SetRound(w, [NoRound EXCEPT !.attempts = a, !.pc = p])
    BY <1>6 DEF Take
  <2>4. round' \in [Workers -> Round]
    <3>1. PICK p \in {"failing", "taken"} :
              SetRound(w, [NoRound EXCEPT !.attempts = a, !.pc = p])
      BY <2>3
    <3>2. [NoRound EXCEPT !.attempts = a, !.pc = p] \in Round
      BY <2>1, NoRoundType DEF Round
    <3>3. QED
      BY <3>1, <3>2, SetRoundType
  <2>5. QED
    BY <1>6, <2>2, <2>4 DEF Take, TypeOK
<1>7. ASSUME NEW w \in Workers, ClaimEvents(w) PROVE TypeOK'
  <2>1. Claimable(w) \in SUBSET Events
    BY DEF Claimable, Free, Pending
  <2>0. Skipped(w) \in SUBSET Events
    BY DEF Skipped, Pending
  <2>2. [round[w] EXCEPT !.pc = "claimed", !.batch = Claimable(w)] \in Round
    BY <2>1 DEF TypeOK, Round
  <2>3. QED
    BY <1>7, <2>0, <2>2, SetRoundType DEF ClaimEvents, TypeOK
<1>8. ASSUME NEW w \in Workers, Deliver(w) PROVE TypeOK'
  <2>1. Reactions(round[w].batch) \in SUBSET (Consumers \X Events)
    BY DEF Reactions, TypeOK, Round
  <2>2. [round[w] EXCEPT !.pc = "handed",
             !.reactions = Reactions(round[w].batch)] \in Round
    BY <2>1 DEF TypeOK, Round
  <2>3. QED
    BY <1>8, <2>2, SetRoundType DEF Deliver, TypeOK
<1>9. ASSUME NEW w \in Workers, Count(w) PROVE TypeOK'
  <2>1. [round[w] EXCEPT !.pc = "counted",
             !.remaining = Pending \ round[w].batch # {}] \in Round
    BY DEF TypeOK, Round
  <2>2. QED
    BY <1>9, <2>1, SetRoundType DEF Count, TypeOK
<1>10. ASSUME NEW w \in Workers, Commit(w) PROVE TypeOK'
  <2>1. job' \in Job
    BY <1>10, WaitingType DEF Commit, NextRound, TypeOK, Round
  <2>2. round' \in [Workers -> Round]
    BY <1>10, EndRoundType, FailRoundType DEF Commit
  <2>3. consumed' \in SUBSET (Consumers \X Events)
    BY <1>10 DEF Commit, TypeOK, Round
  <2>4. acted' \in [Consumers \X Events -> 0..2]
    BY <1>10 DEF Commit, TypeOK
  <2>5. QED
    BY <1>10, <2>1, <2>2, <2>3, <2>4 DEF Commit, TypeOK
<1>11. ASSUME NEW w \in Workers, LeaseLost(w) PROVE TypeOK'
  BY <1>11, EndRoundType DEF LeaseLost, TypeOK
<1>12. ASSUME NEW w \in Workers, RoundFails(w) PROVE TypeOK'
  BY <1>12, FailRoundType DEF RoundFails, TypeOK
<1>13. ASSUME NEW w \in Workers, Fail(w) PROVE TypeOK'
  <2>1. CASE ~Fenced(w)
    BY <1>13, <2>1, EndRoundType DEF Fail, TypeOK
  <2>2. CASE Fenced(w)
    <3> DEFINE st == IF round[w].attempts >= MaxAttempts
                     THEN "DEAD_LETTER" ELSE "PENDING"
    <3>1. job' = [job EXCEPT !.holder = Nobody, !.due = FALSE, !.state = st]
      BY <1>13, <2>2 DEF Fail
    <3>2. st \in {"DEAD_LETTER", "PENDING"}
      OBVIOUS
    <3> HIDE DEF st
    <3>3. job' \in Job
      BY <3>1, <3>2 DEF TypeOK, Job
    <3>4. QED
      BY <1>13, <3>3, EndRoundType DEF Fail, TypeOK
  <2>3. QED
    BY <2>1, <2>2
<1>14. ASSUME NEW w \in Workers, Crash(w) PROVE TypeOK'
  BY <1>14, EndRoundType DEF Crash, TypeOK
<1>15. CASE ComeDue
  BY <1>15 DEF ComeDue, TypeOK, Job
<1>16. CASE Trouble
  BY <1>16 DEF Trouble, TypeOK
<1>17. CASE UNCHANGED vars
  BY <1>17 DEF vars, TypeOK
<1>18. QED
  BY <1>1, <1>2, <1>3, <1>4, <1>5, <1>6, <1>7, <1>8, <1>9, <1>10, <1>11, <1>12,
     <1>13, <1>14, <1>15, <1>16, <1>17 DEF Next, Dispatch

(* The outbox, its records, its job and its rounds stay well typed         *)
(* (Outbox.go, OutboxBus.go).                                              *)
THEOREM OutboxTypes == Spec => []TypeOK
BY InitTypes, TypeStep, PTL DEF Spec

-----------------------------------------------------------------------------
(* Exactly once.                                                           *)

LEMMA InitExact == Init => OutboxInv
BY DEF Init, OutboxInv, DisjointRounds, RoundShape, RecordsSettled, ExactlyOnce,
       NoRound, Pending

(* A step that leaves the events, the records and the reactions alone      *)
(* keeps the invariant when every round keeps its batch, or drops it.      *)
LEMMA RoundsOnly ==
    ASSUME TypeOK, OutboxInv, UNCHANGED <<event, consumed, acted>>,
           \A w \in Workers :
               \/ round'[w] = round[w]
               \/ /\ round'[w].batch = {}
                  /\ round'[w].pc \in {"idle", "taken", "failing"}
    PROVE  OutboxInv'
<1>1. DisjointRounds'
  BY DEF OutboxInv, DisjointRounds, Pending
<1>2. RoundShape'
  BY DEF OutboxInv, RoundShape, Interested
<1>3. RecordsSettled' /\ ExactlyOnce'
  BY DEF OutboxInv, RecordsSettled, ExactlyOnce, Interested
<1>4. QED
  BY <1>1, <1>2, <1>3 DEF OutboxInv

(* A round that ended or failed holds nothing.                             *)
LEMMA Ended ==
    ASSUME TypeOK, NEW w \in Workers, EndRound(w) \/ FailRound(w)
    PROVE  /\ round'[w].batch = {}
           /\ round'[w].pc \in {"idle", "failing"}
           /\ \A v \in Workers \ {w} : round'[v] = round[v]
<1>1. CASE EndRound(w)
  BY <1>1 DEF EndRound, SetRound, NoRound, TypeOK
<1>2. CASE FailRound(w)
  BY <1>2 DEF FailRound, SetRound, NoRound, TypeOK
<1>3. QED
  BY <1>1, <1>2

LEMMA ClaimStep ==
    ASSUME TypeOK, OutboxInv, NEW w \in Workers, ClaimEvents(w)
    PROVE  OutboxInv'
<1>1. /\ round'[w].batch = Claimable(w)
      /\ round'[w].pc = "claimed"
      /\ \A v \in Workers \ {w} : round'[v] = round[v]
  BY DEF ClaimEvents, SetRound, TypeOK, Round
<1>2. /\ Claimable(w) \subseteq Pending
      /\ \A v \in Workers \ {w} : Claimable(w) \cap round[v].batch = {}
  BY DEF Claimable, Free, Locked
<1>3. UNCHANGED <<event, consumed, acted>>
  BY DEF ClaimEvents
<1>4. DisjointRounds'
  <2>1. Pending' = Pending
    BY <1>3 DEF Pending
  <2>2. QED
    BY <1>1, <1>2, <2>1 DEF OutboxInv, DisjointRounds
<1>5. RoundShape'
  BY <1>1 DEF OutboxInv, RoundShape, Interested
<1>6. RecordsSettled' /\ ExactlyOnce'
  BY <1>3 DEF OutboxInv, RecordsSettled, ExactlyOnce, Interested
<1>7. QED
  BY <1>4, <1>5, <1>6 DEF OutboxInv

LEMMA DeliverStep ==
    ASSUME TypeOK, OutboxInv, NEW w \in Workers, Deliver(w)
    PROVE  OutboxInv'
<1>1. /\ round'[w].batch = round[w].batch
      /\ round'[w].pc = "handed"
      /\ round'[w].reactions = Reactions(round[w].batch)
      /\ \A v \in Workers \ {w} : round'[v] = round[v]
  BY DEF Deliver, SetRound, TypeOK, Round
<1>2. UNCHANGED <<event, consumed, acted>>
  BY DEF Deliver
<1>3. DisjointRounds'
  BY <1>1, <1>2 DEF OutboxInv, DisjointRounds, Pending
<1>4. \A c \in Consumers, e \in Events :
          <<c, e>> \in Reactions(round[w].batch)
              <=> e \in round[w].batch /\ Interested(c, e)
  <2> SUFFICES ASSUME NEW c \in Consumers, NEW e \in Events
               PROVE  <<c, e>> \in Reactions(round[w].batch)
                          <=> e \in round[w].batch /\ Interested(c, e)
    OBVIOUS
  <2>1. e \in round[w].batch => <<c, e>> \notin consumed
    BY DEF OutboxInv, DisjointRounds, RecordsSettled, Pending
  <2>2. QED
    BY <2>1 DEF Reactions
<1>5. RoundShape'
  BY <1>1, <1>4 DEF OutboxInv, RoundShape, Interested
<1>6. RecordsSettled' /\ ExactlyOnce'
  BY <1>2 DEF OutboxInv, RecordsSettled, ExactlyOnce, Interested
<1>7. QED
  BY <1>3, <1>5, <1>6 DEF OutboxInv

LEMMA CountStep ==
    ASSUME TypeOK, OutboxInv, NEW w \in Workers, Count(w)
    PROVE  OutboxInv'
<1>1. /\ round'[w].batch = round[w].batch
      /\ round'[w].pc = "counted"
      /\ round'[w].reactions = round[w].reactions
      /\ \A v \in Workers \ {w} : round'[v] = round[v]
  BY DEF Count, SetRound, TypeOK, Round
<1>2. UNCHANGED <<event, consumed, acted>> /\ round[w].pc = "handed"
  BY DEF Count
<1>3. DisjointRounds'
  BY <1>1, <1>2 DEF OutboxInv, DisjointRounds, Pending
<1>4. RoundShape'
  BY <1>1, <1>2 DEF OutboxInv, RoundShape, Interested
<1>5. RecordsSettled' /\ ExactlyOnce'
  BY <1>2 DEF OutboxInv, RecordsSettled, ExactlyOnce, Interested
<1>6. QED
  BY <1>3, <1>4, <1>5 DEF OutboxInv

LEMMA CommitStep ==
    ASSUME TypeOK, OutboxInv, NEW w \in Workers, Commit(w)
    PROVE  OutboxInv'
<1> DEFINE B == round[w].batch
           R == round[w].reactions
<1>1. /\ round'[w].batch = {}
      /\ round'[w].pc \in {"idle", "failing"}
      /\ \A v \in Workers \ {w} : round'[v] = round[v]
  BY Ended DEF Commit
<1>2. /\ \A e \in Events : event'[e] = IF e \in B THEN "dispatched" ELSE event[e]
      /\ consumed' = consumed \cup R
      /\ \A c \in Consumers, e \in Events :
            acted'[<<c, e>>] = IF <<c, e>> \in R /\ acted[<<c, e>>] < 2
                               THEN acted[<<c, e>>] + 1 ELSE acted[<<c, e>>]
  BY DEF Commit
<1>3. \A c \in Consumers, e \in Events : <<c, e>> \in R <=> e \in B /\ Interested(c, e)
  BY DEF Commit, OutboxInv, RoundShape
<1>4. B \subseteq Pending /\ \A v \in Workers \ {w} : round[v].batch \cap B = {}
  BY DEF OutboxInv, DisjointRounds
<1> HIDE DEF B, R
<1>5. DisjointRounds'
  <2>1. Pending' = Pending \ B
    BY <1>2 DEF Pending
  <2>2. QED
    BY <1>1, <1>4, <2>1 DEF OutboxInv, DisjointRounds
<1>6. RoundShape'
  BY <1>1 DEF OutboxInv, RoundShape, Interested
<1>7. RecordsSettled'
  BY <1>2, <1>3 DEF OutboxInv, RecordsSettled
<1>8. ExactlyOnce'
  <2> SUFFICES ASSUME NEW c \in Consumers, NEW e \in Events
               PROVE  acted'[<<c, e>>] =
                          IF event'[e] \in {"dispatched", "swept"} /\ Interested(c, e)
                          THEN 1 ELSE 0
    BY DEF ExactlyOnce, Interested
  <2>1. CASE e \in B
    <3>1. event[e] = "pending" /\ event'[e] = "dispatched"
      BY <1>2, <1>4, <2>1 DEF Pending
    <3>2. acted[<<c, e>>] = 0
      BY <3>1 DEF OutboxInv, ExactlyOnce
    <3>3. QED
      BY <1>2, <1>3, <2>1, <3>1, <3>2
  <2>2. CASE e \notin B
    <3>1. event'[e] = event[e] /\ acted'[<<c, e>>] = acted[<<c, e>>]
      BY <1>2, <1>3, <2>2
    <3>2. QED
      BY <3>1 DEF OutboxInv, ExactlyOnce
  <2>3. QED
    BY <2>1, <2>2
<1>9. QED
  BY <1>5, <1>6, <1>7, <1>8 DEF OutboxInv

LEMMA AppendStep ==
    ASSUME TypeOK, OutboxInv, NEW e \in Events, Append(e)
    PROVE  OutboxInv'
<1>1. /\ event[e] = "absent"
      /\ \A d \in Events : event'[d] = IF d = e THEN "pending" ELSE event[d]
      /\ UNCHANGED <<consumed, acted, round>>
  BY DEF Append, TypeOK
<1>2. Pending \subseteq Pending'
  BY <1>1 DEF Pending
<1>3. DisjointRounds'
  BY <1>1, <1>2 DEF OutboxInv, DisjointRounds
<1>4. RoundShape'
  BY <1>1 DEF OutboxInv, RoundShape, Interested
<1>5. RecordsSettled'
  BY <1>1 DEF OutboxInv, RecordsSettled
<1>6. ExactlyOnce'
  BY <1>1 DEF OutboxInv, ExactlyOnce, Interested
<1>7. QED
  BY <1>3, <1>4, <1>5, <1>6 DEF OutboxInv

LEMMA SweepEventStep ==
    ASSUME TypeOK, OutboxInv, NEW e \in Events, SweepEvent(e)
    PROVE  OutboxInv'
<1>1. /\ event[e] = "dispatched"
      /\ \A d \in Events : event'[d] = IF d = e THEN "swept" ELSE event[d]
      /\ UNCHANGED <<consumed, acted, round>>
  BY DEF SweepEvent, TypeOK
<1>2. Pending' = Pending
  BY <1>1 DEF Pending
<1>3. DisjointRounds'
  BY <1>1, <1>2 DEF OutboxInv, DisjointRounds
<1>4. RoundShape'
  BY <1>1 DEF OutboxInv, RoundShape, Interested
<1>5. RecordsSettled'
  BY <1>1 DEF OutboxInv, RecordsSettled
<1>6. ExactlyOnce'
  BY <1>1 DEF OutboxInv, ExactlyOnce, Interested
<1>7. QED
  BY <1>3, <1>4, <1>5, <1>6 DEF OutboxInv

LEMMA SweepConsumptionStep ==
    ASSUME TypeOK, OutboxInv, NEW r \in Consumers \X Events, SweepConsumption(r)
    PROVE  OutboxInv'
<1>1. consumed' \subseteq consumed /\ UNCHANGED <<event, acted, round>>
  BY DEF SweepConsumption
<1>2. DisjointRounds' /\ RoundShape'
  BY <1>1 DEF OutboxInv, DisjointRounds, RoundShape, Pending, Interested
<1>3. RecordsSettled' /\ ExactlyOnce'
  BY <1>1 DEF OutboxInv, RecordsSettled, ExactlyOnce, Interested
<1>4. QED
  BY <1>2, <1>3 DEF OutboxInv

LEMMA ExactStep == TypeOK /\ OutboxInv /\ [Next]_vars => OutboxInv'
<1> SUFFICES ASSUME TypeOK, OutboxInv, [Next]_vars PROVE OutboxInv'
  OBVIOUS
<1>1. ASSUME NEW w \in Workers, Take(w) PROVE OutboxInv'
  <2>1. /\ round'[w].batch = {}
        /\ round'[w].pc \in {"taken", "failing"}
        /\ \A v \in Workers \ {w} : round'[v] = round[v]
    BY <1>1 DEF Take, SetRound, NoRound, TypeOK
  <2>2. QED
    BY <1>1, <2>1, RoundsOnly DEF Take
<1>2. ASSUME NEW w \in Workers, LeaseLost(w) \/ RoundFails(w) \/ Fail(w) \/ Crash(w)
      PROVE  OutboxInv'
  <2>1. /\ round'[w].batch = {}
        /\ round'[w].pc \in {"idle", "failing"}
        /\ \A v \in Workers \ {w} : round'[v] = round[v]
    BY <1>2, Ended DEF LeaseLost, RoundFails, Fail, Crash
  <2>2. UNCHANGED <<event, consumed, acted>>
    BY <1>2 DEF LeaseLost, RoundFails, Fail, Crash
  <2>3. QED
    BY <2>1, <2>2, RoundsOnly
<1>3. CASE Requeue \/ Cancel \/ ComeDue \/ Trouble \/ UNCHANGED vars
  <2>1. UNCHANGED <<event, consumed, acted, round>>
    BY <1>3 DEF Requeue, Cancel, ComeDue, Trouble, vars
  <2>2. QED
    BY <2>1, RoundsOnly
<1>4. QED
  BY <1>1, <1>2, <1>3, ClaimStep, DeliverStep, CountStep, CommitStep, AppendStep,
     SweepEventStep, SweepConsumptionStep DEF Next, Dispatch

(* Every interested subscriber reacts to every event exactly once, whatever *)
(* rounds overlap, fail or crash (Dispatcher.Run, eventbus.Once).          *)
THEOREM DeliveredExactlyOnce == Spec => []ExactlyOnce
<1>1. OutboxInv => ExactlyOnce
  BY DEF OutboxInv
<1>2. QED
  BY <1>1, InitTypes, TypeStep, InitExact, ExactStep, PTL DEF Spec

(* Rounds that overlap divide the events between them (ClaimPendingEvents). *)
THEOREM RoundsStayDisjoint == Spec => []DisjointRounds
<1>1. OutboxInv => DisjointRounds
  BY DEF OutboxInv
<1>2. QED
  BY <1>1, InitTypes, TypeStep, InitExact, ExactStep, PTL DEF Spec

-----------------------------------------------------------------------------
(* The order.                                                              *)

(* What stands before an event of a batch and still waits is in the batch  *)
(* too, or was passed over, or came too late for the batch.                *)
BatchInOrder ==
    \A w \in Workers, d \in Pending, e \in Events :
        e \in round[w].batch /\ d < e => d \in round[w].batch \cup skipped \cup belated

OrderInv == BatchInOrder /\ InOrderUnlessSkipped

(* A claim takes with an event every free one before it: there are fewer.  *)
LEMMA ClaimTakesEarlier ==
    ASSUME NEW w \in Workers, NEW e \in Claimable(w), NEW d \in Free(w), d < e
    PROVE  d \in Claimable(w)
<1>1. Free(w) \subseteq Nat /\ e \in Nat /\ d \in Nat
  BY OutboxAssumption DEF Free, Pending, Claimable
<1> DEFINE below(x) == {f \in Free(w) : f < x}
<1>2. IsFiniteSet(below(e))
  <2>1. \A f \in below(e) : f <= e
    BY <1>1
  <2>2. below(e) \in SUBSET Nat
    BY <1>1
  <2> HIDE DEF below
  <2> QED
    BY <1>1, <2>1, <2>2, FS_BoundedSetOfNaturals
<1>3. below(d) \in SUBSET below(e)
  BY <1>1
<1>4. Cardinality(below(e)) < Batch
  BY DEF Claimable
<1>5. /\ IsFiniteSet(below(d))
      /\ Cardinality(below(d)) <= Cardinality(below(e))
  <2> HIDE DEF below
  <2> QED
    BY <1>2, <1>3, FS_Subset
<1>6. Cardinality(below(d)) \in Nat /\ Cardinality(below(e)) \in Nat
  <2> HIDE DEF below
  <2> QED
    BY <1>2, <1>5, FS_CardinalityType
<1>7. Cardinality(below(d)) < Batch
  <2> HIDE DEF below
  <2> QED
    BY <1>4, <1>5, <1>6, OutboxAssumption
<1> QED
  BY <1>7 DEF Claimable

LEMMA OrderInit == Init => OrderInv
BY DEF Init, OrderInv, BatchInOrder, InOrderUnlessSkipped, NoRound, Pending

(* Rounds that keep or drop their batch keep the order.                    *)
LEMMA OrderRoundsOnly ==
    ASSUME TypeOK, OrderInv, UNCHANGED <<event, skipped, belated>>,
           \A w \in Workers : round'[w].batch \in {round[w].batch, {}}
    PROVE  OrderInv'
<1>1. InOrderUnlessSkipped'
  BY DEF OrderInv, InOrderUnlessSkipped
<1>2. Pending' = Pending
  BY DEF Pending
<1>3. BatchInOrder'
  BY <1>2 DEF OrderInv, BatchInOrder
<1> QED
  BY <1>1, <1>3 DEF OrderInv

LEMMA OrderClaim ==
    ASSUME TypeOK, OrderInv, NEW w \in Workers, ClaimEvents(w)
    PROVE  OrderInv'
<1>1. /\ round'[w].batch = Claimable(w)
      /\ \A v \in Workers \ {w} : round'[v] = round[v]
  BY DEF ClaimEvents, SetRound, TypeOK, Round
<1>2. /\ event' = event /\ Pending' = Pending
      /\ skipped' = skipped \cup Skipped(w) /\ belated' = belated
  BY DEF ClaimEvents, Pending
<1>3. InOrderUnlessSkipped'
  BY <1>2 DEF OrderInv, InOrderUnlessSkipped
<1>4. ASSUME NEW v \in Workers, NEW d \in Pending, NEW e \in Events,
             e \in round'[v].batch, d < e
      PROVE  d \in round'[v].batch \cup skipped' \cup belated'
  <2>1. CASE v # w
    BY <1>1, <1>2, <1>4, <2>1 DEF OrderInv, BatchInOrder
  <2>2. CASE v = w /\ d \in Free(w)
    BY <1>1, <1>4, <2>2, ClaimTakesEarlier
  <2>3. CASE v = w /\ d \notin Free(w)
    BY <1>1, <1>2, <1>4, <2>3 DEF Skipped
  <2> QED
    BY <2>1, <2>2, <2>3
<1>5. BatchInOrder'
  BY <1>2, <1>4 DEF BatchInOrder
<1> QED
  BY <1>3, <1>5 DEF OrderInv

(* What a commit takes off the histories is what it dispatches.            *)
LEMMA OrderCommit ==
    ASSUME TypeOK, DisjointRounds, OrderInv, NEW w \in Workers, Commit(w)
    PROVE  OrderInv'
<1> DEFINE B == round[w].batch
<1>1. /\ round'[w].batch = {}
      /\ \A v \in Workers \ {w} : round'[v] = round[v]
  BY Ended DEF Commit
<1>2. /\ \A e \in Events : event'[e] = IF e \in B THEN "dispatched" ELSE event[e]
      /\ skipped' = skipped \ B
      /\ belated' = belated \ B
  BY DEF Commit
<1>3. \A d \in Pending, e \in Events :
         e \in B /\ d < e => d \in B \cup skipped \cup belated
  BY DEF OrderInv, BatchInOrder
<1> HIDE DEF B
<1>4. Pending' = Pending \ B
  BY <1>2 DEF Pending
<1>5. BatchInOrder'
  <2> SUFFICES ASSUME NEW v \in Workers, NEW d \in Pending', NEW e \in Events,
                      e \in round'[v].batch, d < e
               PROVE  d \in round'[v].batch \cup skipped' \cup belated'
    BY DEF BatchInOrder
  <2>1. v # w /\ round'[v] = round[v]
    BY <1>1
  <2>2. d \in round[v].batch \cup skipped \cup belated
    BY <1>4, <2>1 DEF OrderInv, BatchInOrder
  <2> QED
    BY <1>2, <1>4, <2>1, <2>2
<1>6. ASSUME NEW d \in Events, NEW e \in Events, d < e,
             event'[e] \in {"dispatched", "swept"}, event'[d] = "pending"
      PROVE  d \in skipped' \cup belated'
  <2>1. d \in Pending /\ d \notin B
    BY <1>2, <1>6 DEF Pending
  <2>2. CASE e \in B
    BY <1>2, <1>3, <1>6, <2>1, <2>2
  <2>3. CASE e \notin B
    BY <1>2, <1>6, <2>1, <2>3 DEF OrderInv, InOrderUnlessSkipped, Pending
  <2> QED
    BY <2>2, <2>3
<1>7. InOrderUnlessSkipped'
  BY <1>6 DEF InOrderUnlessSkipped
<1> QED
  BY <1>5, <1>7 DEF OrderInv

(* An event that comes after a later one was claimed is belated.           *)
LEMMA OrderAppend ==
    ASSUME TypeOK, OrderInv, NEW f \in Events, Append(f)
    PROVE  OrderInv'
<1>1. /\ event[f] = "absent"
      /\ \A d \in Events : event'[d] = IF d = f THEN "pending" ELSE event[d]
      /\ UNCHANGED <<round, skipped>>
      /\ belated \subseteq belated'
      /\ (\E d \in Events : d > f /\ Claimed(d)) => f \in belated'
  BY DEF Append, TypeOK
<1>2. Events \subseteq Nat
  BY OutboxAssumption
<1>3. ASSUME NEW w \in Workers, NEW d \in Pending', NEW e \in Events,
             e \in round[w].batch, d < e
      PROVE  d \in round[w].batch \cup skipped \cup belated'
  <2>1. CASE d = f
    <3>1. e > f /\ Claimed(e)
      BY <1>2, <1>3, <2>1 DEF Claimed, Locked
    <3> QED
      BY <1>1, <2>1, <3>1
  <2>2. CASE d # f
    <3>1. d \in Pending
      BY <1>1, <1>3, <2>2 DEF Pending
    <3> QED
      BY <1>1, <1>3, <3>1 DEF OrderInv, BatchInOrder
  <2> QED
    BY <2>1, <2>2
<1>4. BatchInOrder'
  BY <1>1, <1>3 DEF BatchInOrder
<1>5. ASSUME NEW d \in Events, NEW e \in Events, d < e,
             event'[e] \in {"dispatched", "swept"}, event'[d] = "pending"
      PROVE  d \in skipped' \cup belated'
  <2>1. event[e] \in {"dispatched", "swept"}
    BY <1>1, <1>5
  <2>2. CASE d = f
    <3>1. e > f /\ Claimed(e)
      BY <1>2, <1>5, <2>1, <2>2 DEF Claimed
    <3> QED
      BY <1>1, <2>2, <3>1
  <2>3. CASE d # f
    BY <1>1, <1>5, <2>1, <2>3 DEF OrderInv, InOrderUnlessSkipped
  <2> QED
    BY <2>2, <2>3
<1>6. InOrderUnlessSkipped'
  BY <1>5 DEF InOrderUnlessSkipped
<1> QED
  BY <1>4, <1>6 DEF OrderInv

LEMMA OrderSweep ==
    ASSUME TypeOK, OrderInv, NEW f \in Events, SweepEvent(f)
    PROVE  OrderInv'
<1>1. /\ event[f] = "dispatched"
      /\ \A d \in Events : event'[d] = IF d = f THEN "swept" ELSE event[d]
      /\ UNCHANGED <<round, skipped, belated>>
  BY DEF SweepEvent, TypeOK
<1>2. Pending' = Pending
  BY <1>1 DEF Pending
<1>3. InOrderUnlessSkipped'
  BY <1>1 DEF OrderInv, InOrderUnlessSkipped
<1>4. BatchInOrder'
  BY <1>1, <1>2 DEF OrderInv, BatchInOrder
<1> QED
  BY <1>3, <1>4 DEF OrderInv

LEMMA OrderStep == TypeOK /\ OutboxInv /\ OrderInv /\ [Next]_vars => OrderInv'
<1> SUFFICES ASSUME TypeOK, OutboxInv, OrderInv, [Next]_vars PROVE OrderInv'
  OBVIOUS
<1>0. DisjointRounds
  BY DEF OutboxInv
<1>1. ASSUME NEW w \in Workers, Take(w) PROVE OrderInv'
  <2>1. \A v \in Workers : round'[v].batch \in {round[v].batch, {}}
    BY <1>1 DEF Take, SetRound, NoRound, TypeOK
  <2> QED
    BY <1>1, <2>1, OrderRoundsOnly DEF Take
<1>2. ASSUME NEW w \in Workers, Deliver(w) \/ Count(w) PROVE OrderInv'
  <2>1. \A v \in Workers : round'[v].batch \in {round[v].batch, {}}
    <3>1. CASE Deliver(w)
      BY <3>1 DEF Deliver, SetRound, TypeOK, Round
    <3>2. CASE Count(w)
      BY <3>2 DEF Count, SetRound, TypeOK, Round
    <3> QED
      BY <1>2, <3>1, <3>2
  <2> QED
    BY <1>2, <2>1, OrderRoundsOnly DEF Deliver, Count
<1>3. ASSUME NEW w \in Workers, LeaseLost(w) \/ RoundFails(w) \/ Fail(w) \/ Crash(w)
      PROVE  OrderInv'
  <2>1. \A v \in Workers : round'[v].batch \in {round[v].batch, {}}
    BY <1>3, Ended DEF LeaseLost, RoundFails, Fail, Crash
  <2>2. UNCHANGED <<event, skipped, belated>>
    BY <1>3 DEF LeaseLost, RoundFails, Fail, Crash
  <2> QED
    BY <2>1, <2>2, OrderRoundsOnly
<1>4. ASSUME \/ \E r \in Consumers \X Events : SweepConsumption(r)
             \/ Requeue \/ Cancel \/ ComeDue \/ Trouble \/ UNCHANGED vars
      PROVE  OrderInv'
  <2>1. UNCHANGED <<event, skipped, belated, round>>
    BY <1>4 DEF SweepConsumption, Requeue, Cancel, ComeDue, Trouble, vars
  <2> QED
    BY <2>1, OrderRoundsOnly
<1> QED
  BY <1>0, <1>1, <1>2, <1>3, <1>4, OrderClaim, OrderCommit, OrderAppend, OrderSweep
     DEF Next, Dispatch

(* An event overtakes an earlier one of its aggregate only if that one was *)
(* locked by another round when it was claimed, or was written after that  *)
(* (ClaimPendingEvents, Outbox.Append).                                    *)
THEOREM OrderUnlessSkipped == Spec => []InOrderUnlessSkipped
<1>1. OrderInv => InOrderUnlessSkipped
  BY DEF OrderInv
<1> QED
  BY <1>1, InitTypes, TypeStep, InitExact, ExactStep, OrderInit, OrderStep, PTL DEF Spec

-----------------------------------------------------------------------------
(* The refinement.                                                         *)

LEMMA DeliveryInit == Init => Delivery!Init
BY DEF Init, Delivery!Init

(* A commit is a delivery of its batch: what it carries are the reactions  *)
(* of the batch's audience, none of which there was before.                *)
LEMMA CommitDelivers ==
    ASSUME TypeOK, OutboxInv, NEW w \in Workers, Commit(w)
    PROVE  Delivery!Next
<1>0. PICK batch \in SUBSET Events : batch = round[w].batch
  BY DEF TypeOK, Round
<1>1. \A e \in batch : event[e] = "pending"
  BY <1>0 DEF OutboxInv, DisjointRounds, Pending
<1>2. \A c \in Consumers, e \in batch : acted[<<c, e>>] = 0
  BY <1>1 DEF OutboxInv, ExactlyOnce
<1>3. event' = [e \in Events |-> IF e \in batch THEN "dispatched" ELSE event[e]]
  BY <1>0 DEF Commit
<1>4. \A c \in Consumers, e \in Events :
         <<c, e>> \in round[w].reactions <=> e \in batch /\ Interested(c, e)
  BY <1>0 DEF Commit, OutboxInv, RoundShape
<1> DEFINE Audience == [e \in Events |-> {c \in Consumers : Interested(c, e)}]
<1>5. \A c \in Consumers, e \in Events :
         acted'[<<c, e>>] = IF e \in batch /\ c \in Audience[e] THEN 1 ELSE acted[<<c, e>>]
  <2> SUFFICES ASSUME NEW c \in Consumers, NEW e \in Events
               PROVE  acted'[<<c, e>>] = IF e \in batch /\ Interested(c, e)
                                         THEN 1 ELSE acted[<<c, e>>]
    OBVIOUS
  <2>1. acted'[<<c, e>>] = IF <<c, e>> \in round[w].reactions /\ acted[<<c, e>>] < 2
                           THEN acted[<<c, e>>] + 1 ELSE acted[<<c, e>>]
    BY DEF Commit
  <2> QED
    BY <1>2, <1>4, <2>1
<1>6. acted' = [r \in Consumers \X Events |->
                   IF r[2] \in batch /\ r[1] \in Audience[r[2]] THEN 1 ELSE acted[r]]
  <2>1. acted' = [r \in Consumers \X Events |-> acted'[r]]
    BY DEF Commit
  <2>2. \A r \in Consumers \X Events :
           acted'[r] = IF r[2] \in batch /\ r[1] \in Audience[r[2]] THEN 1 ELSE acted[r]
    <3> HIDE DEF Audience
    <3> QED
      BY <1>5
  <2> HIDE DEF Audience
  <2> QED
    BY <2>1, <2>2
<1>7. Delivery!Deliver(batch)
  BY <1>1, <1>2, <1>3, <1>6 DEF Delivery!Deliver
<1> QED
  BY <1>7 DEF Delivery!Next

LEMMA DeliveryStep ==
    TypeOK /\ OutboxInv /\ [Next]_vars => [Delivery!Next]_(Delivery!vars)
<1> SUFFICES ASSUME TypeOK, OutboxInv, [Next]_vars
             PROVE  Delivery!Next \/ UNCHANGED <<event, acted>>
  BY DEF Delivery!vars
<1>1. ASSUME NEW e \in Events, Append(e) PROVE Delivery!Next
  <2>1. Delivery!Append(e)
    BY <1>1 DEF Append, Delivery!Append
  <2> QED
    BY <2>1 DEF Delivery!Next
<1>2. ASSUME NEW e \in Events, SweepEvent(e) PROVE Delivery!Next
  <2>1. Delivery!Sweep(e)
    BY <1>2 DEF SweepEvent, Delivery!Sweep
  <2> QED
    BY <2>1 DEF Delivery!Next
<1>3. ASSUME NEW w \in Workers,
             \/ Take(w) \/ ClaimEvents(w) \/ Deliver(w) \/ Count(w) \/ LeaseLost(w)
             \/ Fail(w) \/ RoundFails(w) \/ Crash(w)
      PROVE  UNCHANGED <<event, acted>>
  BY <1>3 DEF Take, ClaimEvents, Deliver, Count, LeaseLost, Fail, RoundFails, Crash
<1>4. ASSUME \/ \E r \in Consumers \X Events : SweepConsumption(r)
             \/ Requeue \/ Cancel \/ ComeDue \/ Trouble \/ UNCHANGED vars
      PROVE  UNCHANGED <<event, acted>>
  BY <1>4 DEF SweepConsumption, Requeue, Cancel, ComeDue, Trouble, vars
<1> QED
  BY <1>1, <1>2, <1>3, <1>4, CommitDelivers DEF Next, Dispatch

(* The dispatcher delivers each batch to its whole audience in one step,   *)
(* to whoever writes events or reacts to them (Dispatcher.Run).            *)
THEOREM OutboxIsDelivery == Spec => IsDelivery
BY DeliveryInit, DeliveryStep, InitTypes, TypeStep, InitExact, ExactStep, PTL
   DEF Spec, IsDelivery, Delivery!Spec
=============================================================================
