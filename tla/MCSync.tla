------------------------------- MODULE MCSync -------------------------------
(* Few mutations: m1 and m3 are the first device's, m2 the second's.  The  *)
(* devices race for the first item, where m2 asks for what it said before  *)
(* anyone touched it: an echo, or the undoing of m1.                       *)
EXTENDS Sync, TLC

CONSTANTS d1, d2, d3, i1, i2, m1, m2, m3, new, old

MCDeviceOf == [m \in Ops |-> IF m = m2 THEN d2 ELSE d1]

MCWrites == [m \in Ops |-> IF m = m2 THEN old ELSE new]

(* Every mutation asks for something new.                                  *)
AllNew == [m \in Ops |-> new]

(* The devices write the same item.                                        *)
Contended == [m \in Ops |-> IF m = m3 THEN i2 ELSE i1]

(* Each device writes an item of its own.                                  *)
Apart == [m \in Ops |-> IF m = m2 THEN i2 ELSE i1]

(* Bound: the change of the second item is the last to be made.            *)
InTurn == Made(m3) => Made(m1) /\ Made(m2)

HandlerSymmetry == Permutations(Handlers)
=============================================================================
