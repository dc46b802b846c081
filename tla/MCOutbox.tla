------------------------------ MODULE MCOutbox ------------------------------
(* A small tenant for TLC: a consumer of everything that takes replays, and *)
(* one that wants the first events only and takes none.                     *)
EXTENDS Outbox, TLC

MCWants == [c \in Consumers |-> IF c = "index" THEN Events ELSE {1, 2}]
=============================================================================
