----------------------------- MODULE Semaphore -----------------------------
(* What a counting semaphore promises: at most InitialCount tasks hold it. *)
EXTENDS Naturals, FiniteSets

CONSTANTS Tasks, InitialCount

VARIABLE holders

Init == holders = {}

Acquire(t) ==
  /\ t \notin holders
  /\ Cardinality(holders) < InitialCount
  /\ holders' = holders \cup {t}

Leave(t) ==
  /\ t \in holders
  /\ holders' = holders \ {t}

Next == \E t \in Tasks : Acquire(t) \/ Leave(t)

Spec == Init /\ [][Next]_holders
=============================================================================
