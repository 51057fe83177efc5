--------------------------- MODULE AsyncSemaphore ---------------------------
(***************************************************************************)
(* The asynchronous semaphore under AsyncLock.  A task that finds no free  *)
(* count leaves a TaskCompletionSource in a queue; Release hands the count *)
(* over to the first of the queue, and calls SetResult only after it has   *)
(* left the lock.                                                          *)
(*                                                                         *)
(* AsyncLock is this semaphore with an InitialCount of 1: LockAsync waits, *)
(* and disposing the Releaser releases.                                    *)
(***************************************************************************)
EXTENDS Naturals, Sequences, FiniteSets

CONSTANTS
  Tasks,         \* activations of asynchronous methods that use the semaphore
  InitialCount

ASSUME InitialCountAssumption == InitialCount \in Nat

VARIABLES
  currentCount,
  waiters,
  woken,     \* taken out of the queue, SetResult is still to be called
  holders    \* history: WaitAsync has completed for them, and they have not released

semaphoreVars == <<currentCount, waiters, woken, holders>>

Waiting == {waiters[i] : i \in 1..Len(waiters)}

TypeOK ==
  /\ currentCount \in Nat
  /\ waiters \in Seq(Tasks)
  /\ woken \subseteq Tasks
  /\ holders \subseteq Tasks

Init ==
  /\ currentCount = InitialCount
  /\ waiters = <<>>
  /\ woken = {}
  /\ holders = {}

-----------------------------------------------------------------------------

\* Mutant: the count is not checked when nobody waits.
WaitAsyncUnchecked(t) ==
  /\ t \notin holders \cup woken \cup Waiting
  /\ IF currentCount > 0 \/ waiters = <<>>
       THEN /\ currentCount' = currentCount - 1
            /\ holders' = holders \cup {t}
            /\ UNCHANGED waiters
       ELSE /\ waiters' = Append(waiters, t)
            /\ UNCHANGED <<currentCount, holders>>
  /\ UNCHANGED woken

\* WaitAsync, under the lock on waiters.
WaitAsync(t) ==
  /\ t \notin holders \cup woken \cup Waiting
  /\ IF currentCount > 0
       THEN /\ currentCount' = currentCount - 1
            /\ holders' = holders \cup {t}
            /\ UNCHANGED waiters
       ELSE /\ waiters' = Append(waiters, t)
            /\ UNCHANGED <<currentCount, holders>>
  /\ UNCHANGED woken

\* Mutant: Release wakes nobody.
ReleaseWakesNobody(t) ==
  /\ t \in holders
  /\ holders' = holders \ {t}
  /\ currentCount' = currentCount + 1
  /\ UNCHANGED <<waiters, woken>>

\* Release up to the end of the lock on waiters.
Release(t) ==
  /\ t \in holders
  /\ holders' = holders \ {t}
  /\ IF waiters # <<>>
       THEN /\ woken' = woken \cup {Head(waiters)}
            /\ waiters' = Tail(waiters)
            /\ UNCHANGED currentCount
       ELSE /\ currentCount' = currentCount + 1
            /\ UNCHANGED <<waiters, woken>>

\* The end of Release: the task of the waiter t completes.
SetResult(t) ==
  /\ t \in woken
  /\ woken' = woken \ {t}
  /\ holders' = holders \cup {t}
  /\ UNCHANGED <<currentCount, waiters>>

Next == \E t \in Tasks : WaitAsync(t) \/ Release(t) \/ SetResult(t)

Spec == Init /\ [][Next]_semaphoreVars

\* The releasing thread calls SetResult, and what a task does under the lock ends: the
\* Releaser is disposed by a using block.
Fairness == \A t \in Tasks : WF_semaphoreVars(SetResult(t)) /\ WF_semaphoreVars(Release(t))

FairSpec == Spec /\ Fairness

-----------------------------------------------------------------------------
(* Properties *)

\* A count is never lost or doubled between the two halves of Release: it is free, held,
\* or on its way to a waiter.
CountConserved ==
  Cardinality(holders) + Cardinality(woken) + currentCount = InitialCount

\* Nobody waits while a count is free, so no later task overtakes one in the queue.
NobodyWaitsForNothing == waiters # <<>> => currentCount = 0

\* AsyncSemaphore is a semaphore, although the new holder becomes one outside the lock.
Promise == INSTANCE Semaphore
ImplementsSemaphore == Promise!Spec

\* Every task that waits gets its turn, whatever others do (the queue is first in, first out).
WaitersAreServed == \A t \in Tasks : t \in Waiting ~> t \in holders
=============================================================================
