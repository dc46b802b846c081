----------------------------- MODULE MCJobQueue -----------------------------
(* Small instances of JobQueue for TLC.                                    *)
EXTENDS JobQueue, TLC

CONSTANT OldPod     \* slots of a pod that does not know any kind yet

NoKeys == [j \in Jobs |-> NoKey]
OneKey == [j \in Jobs |-> 1]
AllKinds == [s \in Slots |-> Jobs]

(* A rolling update: every pod claims, the old one cannot handle.          *)
RollingUpdate == [s \in Slots |-> IF s \in OldPod THEN {} ELSE Jobs]

(* The slots of equal pods may be exchanged, and so may the schedulers.    *)
Symmetry == Permutations(Slots \ OldPod) \cup Permutations(Schedulers)
=============================================================================
