------------------------ MODULE CircuitBreakerProofs ------------------------
(***************************************************************************)
(* Theorems about CircuitBreaker, for every number of callers and every    *)
(* configuration NewBreaker can produce.                                   *)
(***************************************************************************)
EXTENDS CircuitBreaker, FiniteSetTheorems, TLAPS

(* What a record of the breaker's fields looks like in TypeOK.             *)
Fields == [state : States, failures : 0..(FailureThreshold - 1),
           successes : 0..(SuccessThreshold - 1),
           probes : 0..HalfOpenProbes, cooling : 0..OpenFor]

(* expireCoolDown yields a well-formed breaker, half-open with no probes   *)
(* counted when it moved the state, and the same breaker otherwise.        *)
LEMMA ExpireType ==
    ASSUME NEW b \in Fields
    PROVE  /\ ExpireCoolDown(b) \in Fields
           /\ Expired(b) => /\ ExpireCoolDown(b).state = "half_open"
                            /\ ExpireCoolDown(b).probes = 0
           /\ ~Expired(b) => ExpireCoolDown(b) = b
<1>1. 0 \in 0..(SuccessThreshold - 1) /\ 0 \in 0..HalfOpenProbes
  BY BreakerAssumption
<1>2. CASE Expired(b)
  <2>1. ExpireCoolDown(b) = [b EXCEPT !.state = "half_open", !.successes = 0, !.probes = 0]
    BY <1>2 DEF ExpireCoolDown
  <2> QED
    BY <1>1, <1>2, <2>1 DEF Fields, States
<1>3. CASE ~Expired(b)
  BY <1>3 DEF ExpireCoolDown
<1> QED
  BY <1>2, <1>3

(* Giving a probe's slot back keeps the breaker well-formed, leaves its    *)
(* state alone and counts one probe less, unless none was counted.         *)
LEMMA ReturnType ==
    ASSUME NEW b \in Fields
    PROVE  /\ ReturnProbe(b) \in Fields
           /\ ReturnProbe(b).state = b.state
           /\ b.state = "half_open" =>
                 ReturnProbe(b).probes = IF b.probes > 0 THEN b.probes - 1 ELSE 0
  BY BreakerAssumption DEF Fields, ReturnProbe, States

(* A counted failure yields a well-formed breaker that is not half-open.   *)
LEMMA FailureType ==
    ASSUME NEW b \in Fields
    PROVE  AfterFailure(b) \in Fields /\ AfterFailure(b).state # "half_open"
<1>1. Trip(b) \in Fields /\ Trip(b).state = "open"
  BY BreakerAssumption DEF Fields, Trip, States
<1>2. CASE b.state = "half_open" \/ b.failures + 1 >= FailureThreshold
  BY <1>1, <1>2 DEF AfterFailure
<1>3. CASE ~(b.state = "half_open" \/ b.failures + 1 >= FailureThreshold)
  <2>1. b.failures + 1 \in 0..(FailureThreshold - 1) /\ 0 \in 0..(SuccessThreshold - 1)
    BY <1>3, BreakerAssumption DEF Fields
  <2>2. AfterFailure(b) = [b EXCEPT !.failures = b.failures + 1, !.successes = 0]
    BY <1>3 DEF AfterFailure
  <2> QED
    BY <1>3, <2>1, <2>2 DEF Fields
<1> QED
  BY <1>2, <1>3

(* A success yields a well-formed breaker; still half-open, it was so      *)
(* before and counts the same probes.                                      *)
LEMMA SuccessType ==
    ASSUME NEW b \in Fields
    PROVE  /\ AfterSuccess(b) \in Fields
           /\ AfterSuccess(b).state = "half_open" =>
                 b.state = "half_open" /\ AfterSuccess(b).probes = b.probes
<1>1. 0 \in 0..(FailureThreshold - 1) /\ 0 \in 0..(SuccessThreshold - 1)
  BY BreakerAssumption
<1>2. CASE b.state # "half_open"
  <2>1. AfterSuccess(b) = [b EXCEPT !.failures = 0]
    BY <1>2 DEF AfterSuccess
  <2> QED
    BY <1>1, <1>2, <2>1 DEF Fields
<1>3. CASE b.state = "half_open" /\ b.successes + 1 >= SuccessThreshold
  <2>1. AfterSuccess(b) = [b EXCEPT !.state = "closed", !.failures = 0, !.successes = 0]
    BY <1>3 DEF AfterSuccess, Closed
  <2> QED
    BY <1>1, <2>1 DEF Fields, States
<1>4. CASE b.state = "half_open" /\ ~(b.successes + 1 >= SuccessThreshold)
  <2>1. AfterSuccess(b) = [b EXCEPT !.successes = b.successes + 1]
    BY <1>4 DEF AfterSuccess
  <2>2. b.successes + 1 \in 0..(SuccessThreshold - 1)
    BY <1>4, BreakerAssumption DEF Fields
  <2> QED
    BY <1>4, <2>1, <2>2 DEF Fields
<1> QED
  BY <1>2, <1>3, <1>4

(* A call's record.                                                        *)
Call == [running : BOOLEAN, owes : States \cup {"none"}]

(* What a step may owe the observer is a state or nothing.                 *)
LEMMA OwedType ==
    ASSUME NEW a \in Fields, NEW b \in Fields
    PROVE  Owed(a, b) \in States \cup {"none"}
  BY DEF Owed, Fields

(* Every call of the spell that is counted as in flight is in flight.      *)
InFlight == \A c \in probing : call[c].running

(* The inductive invariant.  NoLeakedProbe alone is not inductive: a call  *)
(* that enters as a probe must not be in the set already, which InFlight   *)
(* gives.                                                                  *)
BreakerInv ==
    /\ TypeOK
    /\ InFlight
    /\ NoLeakedProbe

(* The invariant in the vocabulary of the lemmas above.                    *)
LEMMA InvParts ==
    BreakerInv <=> /\ breaker \in Fields
                   /\ call \in [Callers -> Call]
                   /\ probing \in SUBSET Callers
                   /\ gauge \in States
                   /\ healthy \in BOOLEAN
                   /\ leaked \in Nat
                   /\ strayed \in Nat
                   /\ InFlight
                   /\ NoLeakedProbe
  BY DEF BreakerInv, TypeOK, Fields, Call

(* The initial state satisfies the invariant.                              *)
LEMMA BreakerInit == Init => BreakerInv
<1> SUFFICES ASSUME Init PROVE BreakerInv
  OBVIOUS
<1>1. TypeOK
  BY BreakerAssumption DEF Init, TypeOK, States
<1>2. NoLeakedProbe /\ InFlight
  BY DEF Init, NoLeakedProbe, InFlight
<1> QED
  BY <1>1, <1>2 DEF BreakerInv

(* enter preserves the invariant.                                          *)
LEMMA EnterKeeps ==
    ASSUME BreakerInv, NEW c \in Callers, Enter(c)
    PROVE  BreakerInv'
<1> DEFINE b == ExpireCoolDown(breaker)
           admitted == Admitted(b)
           fresh == IF Expired(breaker) THEN {} ELSE probing
           lost == IF Expired(breaker) THEN 0 ELSE leaked
<1>1. /\ breaker \in Fields /\ call \in [Callers -> Call]
      /\ probing \in SUBSET Callers /\ gauge \in States /\ healthy \in BOOLEAN
      /\ InFlight /\ NoLeakedProbe /\ leaked \in Nat /\ strayed \in Nat
  BY InvParts
<1>2. b \in Fields
  BY <1>1, ExpireType
<1>3. fresh \in SUBSET Callers /\ IsFiniteSet(fresh) /\ Cardinality(fresh) \in Nat
  BY <1>1, BreakerAssumption, FS_Subset, FS_EmptySet, FS_CardinalityType
<1>4. b.state = "half_open" => b.probes <= Cardinality(fresh) + lost
  <2>1. CASE Expired(breaker)
    BY <2>1, <1>1, ExpireType, FS_EmptySet
  <2>2. CASE ~Expired(breaker)
    BY <2>2, <1>1, ExpireType DEF NoLeakedProbe
  <2> QED
    BY <2>1, <2>2
<1>5. \A p \in fresh : call[p].running /\ p # c
  BY <1>1 DEF Enter, Ready, InFlight
<1>6. /\ call' = [call EXCEPT ![c] = [running |-> admitted, owes |-> Owed(breaker, b)]]
      /\ IF admitted /\ b.state = "half_open"
         THEN breaker' = [b EXCEPT !.probes = b.probes + 1] /\ probing' = fresh \cup {c}
         ELSE breaker' = b /\ probing' = fresh
      /\ leaked' = lost /\ gauge' = gauge /\ healthy' = healthy
      /\ strayed' \in {0, strayed}
  BY DEF Enter
<1>7. [running |-> admitted, owes |-> Owed(breaker, b)] \in Call
  <2>1. Owed(breaker, b) \in States \cup {"none"}
    BY <1>1, <1>2, OwedType
  <2>2. admitted \in BOOLEAN
    BY DEF Admitted
  <2> HIDE DEF b, admitted
  <2> QED
    BY <2>1, <2>2 DEF Call
<1>a. lost \in Nat
  BY <1>1
<1> HIDE DEF b, fresh, admitted, lost
<1>8. call' \in [Callers -> Call]
  BY <1>1, <1>6, <1>7
<1>9. CASE admitted /\ b.state = "half_open"
  <2>1. b.probes + 1 \in 0..HalfOpenProbes
    BY <1>2, <1>9, BreakerAssumption DEF Fields, admitted, Admitted
  <2>2. breaker' \in Fields /\ breaker'.probes = b.probes + 1
    BY <1>2, <1>6, <1>9, <2>1 DEF Fields
  <2>3. Cardinality(probing') = Cardinality(fresh) + 1
    BY <1>3, <1>5, <1>6, <1>9, FS_AddElement
  <2>4. NoLeakedProbe'
    BY <1>2, <1>3, <1>4, <1>6, <1>9, <1>a, <2>2, <2>3 DEF NoLeakedProbe, Fields
  <2>5. InFlight'
    BY <1>1, <1>5, <1>6, <1>9, <1>3 DEF InFlight
  <2>6. probing' \in SUBSET Callers
    BY <1>3, <1>6, <1>9
  <2> QED
    BY <1>1, <1>6, <1>8, <1>a, <2>2, <2>4, <2>5, <2>6 DEF BreakerInv, TypeOK, Fields, Call
<1>10. CASE ~(admitted /\ b.state = "half_open")
  <2>1. InFlight'
    BY <1>1, <1>3, <1>5, <1>6, <1>10 DEF InFlight
  <2>2. NoLeakedProbe'
    BY <1>4, <1>6, <1>10 DEF NoLeakedProbe
  <2>3. breaker' \in Fields /\ probing' \in SUBSET Callers
    BY <1>2, <1>3, <1>6, <1>10
  <2> QED
    BY <1>1, <1>6, <1>8, <1>a, <2>1, <2>2, <2>3 DEF BreakerInv, TypeOK, Fields, Call
<1> QED
  BY <1>9, <1>10

(* leave preserves the invariant.                                          *)
LEMMA LeaveKeeps ==
    ASSUME BreakerInv, NEW c \in Callers, Leave(c)
    PROVE  BreakerInv'
<1> DEFINE b == ReturnProbe(breaker)
<1>1. /\ breaker \in Fields /\ call \in [Callers -> Call]
      /\ probing \in SUBSET Callers /\ gauge \in States /\ healthy \in BOOLEAN
      /\ InFlight /\ NoLeakedProbe /\ leaked \in Nat /\ strayed \in Nat
  BY InvParts
<1>2. PICK after \in {AfterFailure(b), AfterSuccess(b)} :
         /\ breaker' = after
         /\ call' = [call EXCEPT ![c] = [running |-> FALSE, owes |-> Owed(b, after)]]
  BY DEF Leave
<1>3. /\ probing' = probing \ {c} /\ leaked' = leaked /\ gauge' = gauge /\ healthy' = healthy
      /\ strayed' \in {strayed, strayed + 1}
  BY DEF Leave
<1>4. b \in Fields /\ b.state = breaker.state
  BY <1>1, ReturnType
<1>5. after \in Fields
  BY <1>2, <1>4, FailureType, SuccessType
<1>6. call' \in [Callers -> Call]
  <2>1. Owed(b, after) \in States \cup {"none"}
    BY <1>4, <1>5, OwedType
  <2>2. [running |-> FALSE, owes |-> Owed(b, after)] \in Call
    BY <2>1 DEF Call
  <2> QED
    BY <1>1, <1>2, <2>2
<1>7. InFlight'
  BY <1>1, <1>2, <1>3 DEF InFlight
<1>8. NoLeakedProbe'
  <2> SUFFICES ASSUME after.state = "half_open"
               PROVE  after.probes <= Cardinality(probing') + leaked
    BY <1>2, <1>3 DEF NoLeakedProbe
  <2>1. after = AfterSuccess(b)
    BY <1>2, <1>4, FailureType
  <2>2. breaker.state = "half_open" /\ after.probes = b.probes
    BY <1>4, <2>1, SuccessType
  <2>3. after.probes = IF breaker.probes > 0 THEN breaker.probes - 1 ELSE 0
    BY <1>1, <2>2, ReturnType
  <2>4. /\ Cardinality(probing) \in Nat
        /\ Cardinality(probing') = IF c \in probing THEN Cardinality(probing) - 1
                                                    ELSE Cardinality(probing)
        /\ Cardinality(probing') \in Nat
    <3>1. IsFiniteSet(probing) /\ IsFiniteSet(probing \ {c})
      BY <1>1, BreakerAssumption, FS_Subset
    <3> QED
      BY <1>3, <3>1, FS_RemoveElement, FS_CardinalityType
  <2>5. /\ breaker.probes <= Cardinality(probing) + leaked
        /\ breaker.probes \in Nat /\ leaked \in Nat
    BY <1>1, <2>2, BreakerAssumption DEF NoLeakedProbe, Fields
  <2> QED
    BY <2>3, <2>4, <2>5
<1> QED
  BY <1>1, <1>2, <1>3, <1>5, <1>6, <1>7, <1>8 DEF BreakerInv, TypeOK, Fields, Call

(* How many calls are left in flight when one leaves.                      *)
LEMMA OneLess ==
    ASSUME probing \in SUBSET Callers, NEW c
    PROVE  /\ Cardinality(probing) \in Nat
           /\ Cardinality(probing \ {c}) = IF c \in probing THEN Cardinality(probing) - 1
                                                           ELSE Cardinality(probing)
<1>1. IsFiniteSet(probing)
  BY BreakerAssumption, FS_Subset
<1> QED
  BY <1>1, FS_RemoveElement, FS_CardinalityType

(* A panic preserves the invariant: the slot it keeps is counted.          *)
LEMMA PanicKeeps ==
    ASSUME BreakerInv, NEW c \in Callers, Panic(c)
    PROVE  BreakerInv'
<1>1. /\ breaker \in Fields /\ call \in [Callers -> Call]
      /\ probing \in SUBSET Callers /\ gauge \in States /\ healthy \in BOOLEAN
      /\ InFlight /\ NoLeakedProbe /\ leaked \in Nat /\ strayed \in Nat
  BY InvParts
<1>2. /\ call' = [call EXCEPT ![c].running = FALSE] /\ probing' = probing \ {c}
      /\ leaked' = IF c \in probing THEN leaked + 1 ELSE leaked
      /\ breaker' = breaker /\ gauge' = gauge /\ healthy' = healthy /\ strayed' = strayed
  BY DEF Panic
<1>3. call' \in [Callers -> Call]
  BY <1>1, <1>2 DEF Call
<1>4. InFlight'
  BY <1>1, <1>2 DEF InFlight
<1>5. leaked' \in Nat /\ Cardinality(probing') + leaked' = Cardinality(probing) + leaked
  BY <1>1, <1>2, OneLess
<1>6. NoLeakedProbe'
  BY <1>1, <1>2, <1>5 DEF NoLeakedProbe
<1> QED
  BY <1>1, <1>2, <1>3, <1>4, <1>5, <1>6 DEF BreakerInv, TypeOK, Fields, Call

(* A reader of the state preserves the invariant.                          *)
LEMMA StateKeeps ==
    ASSUME BreakerInv, NEW c \in Callers, State(c)
    PROVE  BreakerInv'
<1>1. /\ breaker \in Fields /\ call \in [Callers -> Call]
      /\ gauge \in States /\ healthy \in BOOLEAN
  BY InvParts
<1>2. /\ call' = [call EXCEPT ![c].owes = "half_open"] /\ probing' = {}
      /\ breaker' = ExpireCoolDown(breaker) /\ gauge' = gauge /\ healthy' = healthy
      /\ leaked' = 0 /\ strayed' = 0
      /\ Expired(breaker)
  BY DEF State
<1>3. call' \in [Callers -> Call]
  BY <1>1, <1>2 DEF Call, States
<1>4. breaker' \in Fields /\ breaker'.probes = 0
  BY <1>1, <1>2, ExpireType
<1>5. InFlight' /\ NoLeakedProbe'
  BY <1>2, <1>4, FS_EmptySet DEF InFlight, NoLeakedProbe
<1> QED
  BY <1>1, <1>2, <1>3, <1>4, <1>5 DEF BreakerInv, TypeOK, Fields, Call

(* A notification preserves the invariant.                                 *)
LEMMA NotifyKeeps ==
    ASSUME BreakerInv, NEW c \in Callers, Notify(c)
    PROVE  BreakerInv'
<1>1. /\ breaker \in Fields /\ call \in [Callers -> Call]
      /\ probing \in SUBSET Callers /\ healthy \in BOOLEAN
      /\ InFlight /\ NoLeakedProbe /\ leaked \in Nat /\ strayed \in Nat
  BY InvParts
<1>2. /\ call' = [call EXCEPT ![c].owes = "none"] /\ gauge' = call[c].owes
      /\ call[c].owes # "none"
      /\ breaker' = breaker /\ probing' = probing /\ healthy' = healthy /\ leaked' = leaked
      /\ strayed' = strayed
  BY DEF Notify
<1>3. call' \in [Callers -> Call] /\ gauge' \in States
  BY <1>1, <1>2 DEF Call
<1>4. InFlight'
  BY <1>1, <1>2 DEF InFlight, Call
<1>5. NoLeakedProbe'
  BY <1>1, <1>2 DEF NoLeakedProbe
<1> QED
  BY <1>1, <1>2, <1>3, <1>4, <1>5 DEF BreakerInv, TypeOK, Fields, Call

(* Every step preserves the invariant.                                     *)
LEMMA BreakerStep == BreakerInv /\ [Next]_vars => BreakerInv'
<1> SUFFICES ASSUME BreakerInv, [Next]_vars PROVE BreakerInv'
  OBVIOUS
<1>1. ASSUME NEW c \in Callers, CallerStep(c) PROVE BreakerInv'
  BY <1>1, EnterKeeps, LeaveKeeps, PanicKeeps, StateKeeps, NotifyKeeps DEF CallerStep
<1>2. CASE Elapse
  <2>1. breaker' \in Fields /\ breaker'.state = "open"
    <3>1. breaker \in Fields
      BY InvParts
    <3>2. breaker.cooling - 1 \in 0..OpenFor
      BY <1>2, <3>1, BreakerAssumption DEF Elapse, Fields
    <3>3. breaker' = [breaker EXCEPT !.cooling = breaker.cooling - 1]
      BY <1>2 DEF Elapse
    <3> QED
      BY <1>2, <3>1, <3>2, <3>3 DEF Elapse, Fields
  <2>2. NoLeakedProbe'
    BY <2>1 DEF NoLeakedProbe
  <2>3. /\ call' = call /\ probing' = probing /\ gauge' = gauge /\ healthy' = healthy
        /\ leaked' = leaked /\ strayed' = strayed
    BY <1>2 DEF Elapse
  <2>4. InFlight'
    BY <2>3, InvParts DEF InFlight
  <2> QED
    BY <2>1, <2>2, <2>3, <2>4, InvParts DEF BreakerInv, TypeOK, Fields, Call
<1>3. CASE Dependency
  BY <1>3 DEF Dependency, BreakerInv, TypeOK, InFlight, NoLeakedProbe
<1>4. CASE UNCHANGED vars
  BY <1>4 DEF vars, BreakerInv, TypeOK, InFlight, NoLeakedProbe
<1> QED
  BY <1>1, <1>2, <1>3, <1>4 DEF Next

(* The fields stay in their ranges whatever the callers do: no counter     *)
(* reaches its threshold while the lock is free.                           *)
THEOREM BreakerTypes == Spec => []TypeOK
<1>1. BreakerInv => TypeOK
  BY DEF BreakerInv
<1> QED
  BY <1>1, BreakerInit, BreakerStep, PTL DEF Spec

(* A half-open breaker never counts a probe that is neither in flight nor  *)
(* lost to a panic, so without one it never refuses the probe it waits     *)
(* for.                                                                    *)
THEOREM NoProbeLeaks == Spec => []NoLeakedProbe
<1>1. BreakerInv => NoLeakedProbe
  BY DEF BreakerInv
<1> QED
  BY <1>1, BreakerInit, BreakerStep, PTL DEF Spec

(* What is in flight as a probe, or was lost to a panic, took a slot that  *)
(* is counted still or was given back by a stray.                          *)
SlotsCounted ==
    breaker.state = "half_open" => Cardinality(probing) + leaked <= breaker.probes + strayed

LEMMA SlotsInit == Init => SlotsCounted
BY DEF Init, SlotsCounted

LEMMA SlotsEnter ==
    ASSUME BreakerInv, SlotsCounted, NEW c \in Callers, Enter(c)
    PROVE  SlotsCounted'
<1> DEFINE b == ExpireCoolDown(breaker)
           fresh == IF Expired(breaker) THEN {} ELSE probing
           lost == IF Expired(breaker) THEN 0 ELSE leaked
           stray == IF Expired(breaker) THEN 0 ELSE strayed
<1>1. breaker \in Fields /\ probing \in SUBSET Callers /\ leaked \in Nat /\ strayed \in Nat
  BY InvParts
<1>2. b \in Fields
  BY <1>1, ExpireType
<1>3. IsFiniteSet(fresh) /\ Cardinality(fresh) \in Nat /\ lost \in Nat /\ stray \in Nat
  BY <1>1, BreakerAssumption, FS_Subset, FS_EmptySet, FS_CardinalityType
<1>4. b.state = "half_open" => Cardinality(fresh) + lost <= b.probes + stray
  <2>1. CASE Expired(breaker)
    BY <2>1, <1>1, ExpireType, FS_EmptySet
  <2>2. CASE ~Expired(breaker)
    BY <2>2, <1>1, ExpireType DEF SlotsCounted
  <2> QED
    BY <2>1, <2>2
<1>5. /\ \/ breaker' = b /\ probing' = fresh
         \/ breaker' = [b EXCEPT !.probes = b.probes + 1] /\ probing' = fresh \cup {c}
      /\ leaked' = lost /\ strayed' = stray
  BY DEF Enter
<1> HIDE DEF b, fresh, lost, stray
<1>6. CASE breaker' = b /\ probing' = fresh
  BY <1>4, <1>5, <1>6 DEF SlotsCounted
<1>7. CASE breaker' = [b EXCEPT !.probes = b.probes + 1] /\ probing' = fresh \cup {c}
  <2>1. breaker'.state = b.state /\ breaker'.probes = b.probes + 1 /\ b.probes \in Nat
    BY <1>2, <1>7, BreakerAssumption DEF Fields
  <2>2. Cardinality(probing') \in Nat /\ Cardinality(probing') <= Cardinality(fresh) + 1
    <3>1. Cardinality(fresh \cup {c}) \in {Cardinality(fresh), Cardinality(fresh) + 1}
      BY <1>3, FS_AddElement
    <3> QED
      BY <1>3, <1>7, <3>1
  <2> QED
    BY <1>3, <1>4, <1>5, <2>1, <2>2 DEF SlotsCounted
<1> QED
  BY <1>5, <1>6, <1>7

(* A slot given back was the caller's, or its caller is a stray.           *)
LEMMA SlotsLeave ==
    ASSUME BreakerInv, SlotsCounted, NEW c \in Callers, Leave(c)
    PROVE  SlotsCounted'
<1> DEFINE b == ReturnProbe(breaker)
<1>1. breaker \in Fields /\ probing \in SUBSET Callers /\ leaked \in Nat /\ strayed \in Nat
  BY InvParts
<1>2. PICK after \in {AfterFailure(b), AfterSuccess(b)} : breaker' = after
  BY DEF Leave
<1>3. /\ probing' = probing \ {c} /\ leaked' = leaked
      /\ strayed' = IF c \notin probing /\ b # breaker THEN strayed + 1 ELSE strayed
  BY DEF Leave
<1>4. b \in Fields /\ b.state = breaker.state
  BY <1>1, ReturnType
<1>5. /\ Cardinality(probing) \in Nat
      /\ Cardinality(probing') = IF c \in probing THEN Cardinality(probing) - 1
                                                  ELSE Cardinality(probing)
  BY <1>1, <1>3, OneLess
<1> SUFFICES ASSUME after.state = "half_open"
             PROVE  Cardinality(probing') + leaked' <= after.probes + strayed'
  BY <1>2 DEF SlotsCounted
<1>6. breaker.state = "half_open" /\ after.probes = b.probes
  <2>1. after = AfterSuccess(b)
    BY <1>2, <1>4, FailureType
  <2> QED
    BY <1>4, <2>1, SuccessType
<1>7. breaker.probes \in Nat /\ Cardinality(probing) + leaked <= breaker.probes + strayed
  BY <1>1, <1>6, BreakerAssumption DEF SlotsCounted, Fields
<1>8. CASE breaker.probes = 0
  <2>1. b = breaker
    BY <1>8 DEF ReturnProbe
  <2> QED
    BY <1>1, <1>3, <1>5, <1>6, <1>7, <2>1
<1>9. CASE breaker.probes > 0
  <2>1. b.probes = breaker.probes - 1
    BY <1>1, <1>6, <1>9, ReturnType
  <2>2. b # breaker
    BY <1>7, <2>1
  <2> HIDE DEF b
  <2> QED
    BY <1>1, <1>3, <1>5, <1>6, <1>7, <2>1, <2>2
<1> QED
  BY <1>7, <1>8, <1>9

LEMMA SlotsStep == BreakerInv /\ SlotsCounted /\ [Next]_vars => SlotsCounted'
<1> SUFFICES ASSUME BreakerInv, SlotsCounted, [Next]_vars PROVE SlotsCounted'
  OBVIOUS
<1>1. breaker \in Fields /\ probing \in SUBSET Callers /\ leaked \in Nat /\ strayed \in Nat
  BY InvParts
<1>2. ASSUME NEW c \in Callers, Panic(c) PROVE SlotsCounted'
  <2>1. Cardinality(probing') + leaked' = Cardinality(probing) + leaked
    BY <1>1, <1>2, OneLess DEF Panic
  <2> QED
    BY <1>2, <2>1 DEF Panic, SlotsCounted
<1>3. ASSUME NEW c \in Callers, State(c) PROVE SlotsCounted'
  <2>1. probing' = {} /\ leaked' = 0 /\ strayed' = 0 /\ breaker'.probes = 0
    BY <1>1, <1>3, ExpireType DEF State
  <2> QED
    BY <2>1, FS_EmptySet DEF SlotsCounted
<1>4. CASE Elapse
  <2>1. breaker'.state = "open"
    BY <1>1, <1>4 DEF Elapse, Fields
  <2> QED
    BY <2>1 DEF SlotsCounted
<1>5. ASSUME Dependency \/ UNCHANGED vars \/ \E c \in Callers : Notify(c)
      PROVE  SlotsCounted'
  BY <1>5 DEF Dependency, vars, Notify, SlotsCounted
<1> QED
  BY <1>2, <1>3, <1>4, <1>5, SlotsEnter, SlotsLeave DEF Next, CallerStep

(* A recovering dependency is asked by no more than HalfOpenProbes calls   *)
(* at once, and one more for every late call taken for a probe.            *)
THEOREM ProbesLimited == Spec => []ProbeLimit
<1>1. BreakerInv /\ SlotsCounted => ProbeLimit
  <2> SUFFICES ASSUME BreakerInv, SlotsCounted, breaker.state = "half_open"
               PROVE  Cardinality(probing) <= HalfOpenProbes + strayed
    BY DEF ProbeLimit
  <2>1. breaker \in Fields /\ probing \in SUBSET Callers /\ leaked \in Nat /\ strayed \in Nat
    BY InvParts
  <2>2. Cardinality(probing) \in Nat
    BY <2>1, BreakerAssumption, FS_Subset, FS_CardinalityType
  <2>3. breaker.probes \in Nat /\ breaker.probes <= HalfOpenProbes /\ HalfOpenProbes \in Nat
    BY <2>1, BreakerAssumption DEF Fields
  <2> QED
    BY <2>1, <2>2, <2>3 DEF SlotsCounted
<1> QED
  BY <1>1, BreakerInit, BreakerStep, SlotsInit, SlotsStep, PTL DEF Spec

(* Late answers never cut a cool-down short, and no call starts in one.    *)
THEOREM CoolDownHolds == Spec => OpenHolds
<1> DEFINE Step == breaker.state = "open" /\ breaker.cooling > 0 =>
                      /\ breaker'.state = "open"
                      /\ \A c \in Callers : call'[c].running => call[c].running
<1>1. ASSUME BreakerInv, [Next]_vars PROVE [Step]_vars
  <2> SUFFICES ASSUME breaker.state = "open", breaker.cooling > 0,
                      Next
               PROVE  /\ breaker'.state = "open"
                      /\ \A c \in Callers : call'[c].running => call[c].running
    BY <1>1
  <2>1. breaker \in Fields /\ call \in [Callers -> Call]
    BY <1>1, InvParts
  <2>2. ~Expired(breaker) /\ ExpireCoolDown(breaker) = breaker /\ ReturnProbe(breaker) = breaker
    BY DEF Expired, ExpireCoolDown, ReturnProbe
  <2>3. AfterFailure(breaker).state = "open" /\ AfterSuccess(breaker).state = "open"
    BY <2>1 DEF AfterFailure, AfterSuccess, Trip, Fields
  <2>4. ASSUME NEW c \in Callers, Enter(c)
        PROVE  breaker' = breaker /\ call' = [call EXCEPT ![c] = [running |-> FALSE, owes |-> Owed(breaker, breaker)]]
    <3>1. Admitted(breaker) = FALSE
      BY DEF Admitted
    <3> QED
      BY <2>2, <2>4, <3>1 DEF Enter
  <2>5. ASSUME NEW c \in Callers, Leave(c)
        PROVE  /\ breaker'.state = "open"
               /\ \E o : call' = [call EXCEPT ![c] = [running |-> FALSE, owes |-> o]]
    BY <2>2, <2>3, <2>5 DEF Leave
  <2>6. ASSUME NEW c \in Callers, CallerStep(c)
        PROVE  /\ breaker'.state = "open"
               /\ \A d \in Callers : call'[d].running => call[d].running
    <3>1. CASE Enter(c)
      BY <2>1, <2>4, <3>1
    <3>2. CASE Leave(c)
      BY <2>1, <2>5, <3>2
    <3>3. CASE Panic(c)
      BY <2>1, <3>3 DEF Panic, Call
    <3>4. CASE State(c)
      BY <2>2, <3>4 DEF State
    <3>5. CASE Notify(c)
      BY <2>1, <3>5 DEF Notify, Call
    <3> QED
      BY <2>6, <3>1, <3>2, <3>3, <3>4, <3>5 DEF CallerStep
  <2>7. CASE Elapse
    BY <2>1, <2>7 DEF Elapse, Fields
  <2>8. CASE Dependency
    BY <2>8 DEF Dependency
  <2> QED
    BY <2>6, <2>7, <2>8 DEF Next
<1> QED
  BY <1>1, BreakerInit, BreakerStep, PTL DEF Spec, OpenHolds
=============================================================================
