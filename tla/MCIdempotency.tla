--------------------------- MODULE MCIdempotency ---------------------------
(* Three requests with two keys, retries of each other or not.             *)
EXTENDS Idempotency, TLC

CONSTANTS r1, r2, r3

MCRequests == {r1, r2, r3}
=============================================================================
