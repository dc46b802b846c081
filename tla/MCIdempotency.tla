--------------------------- MODULE MCIdempotency ----------------------------
(* A client that repeats one request and reuses its key for another.       *)
EXTENDS Idempotency

MCHashOf == [r \in Requests |-> IF r = 4 THEN "other" ELSE "same"]
=============================================================================
