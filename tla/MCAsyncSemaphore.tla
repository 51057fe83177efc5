------------------------- MODULE MCAsyncSemaphore -------------------------
(* Four tasks for TLC; the interchangeable names are in the configuration. *)
EXTENDS AsyncSemaphore

CONSTANTS t1, t2, t3, t4
=============================================================================
