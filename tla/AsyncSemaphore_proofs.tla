------------------------ MODULE AsyncSemaphore_proofs ------------------------
(***************************************************************************)
(* The semaphore never admits more than InitialCount tasks, for any set of *)
(* tasks and any count.                                                    *)
(*                                                                         *)
(* CountConserved is not inductive: a count that is handed over is added   *)
(* to woken, which keeps the sum only when the waiter was not there yet,   *)
(* and SetResult keeps it only when the task is not a holder.  Places adds *)
(* that a task is in one place at most, and once in the queue.             *)
(***************************************************************************)
EXTENDS AsyncSemaphore, SequenceTheorems, FiniteSetTheorems, TLAPS

Places ==
  /\ holders \cap woken = {}
  /\ Waiting \cap (holders \cup woken) = {}
  /\ \A i, j \in 1..Len(waiters) : waiters[i] = waiters[j] => i = j

Finite == IsFiniteSet(holders) /\ IsFiniteSet(woken)

IInv == TypeOK /\ Finite /\ Places /\ NobodyWaitsForNothing /\ CountConserved

-----------------------------------------------------------------------------

\* What the queue holds once a task has been appended.
LEMMA WaitingAfterAppend ==
  ASSUME TypeOK, NEW t \in Tasks, waiters' = Append(waiters, t)
  PROVE  Waiting' = Waiting \cup {t}
<1>1. /\ Len(waiters') = Len(waiters) + 1
      /\ \A i \in 1..Len(waiters) : waiters'[i] = waiters[i]
      /\ waiters'[Len(waiters) + 1] = t
  BY AppendProperties DEF TypeOK
<1>2. Len(waiters) \in Nat  BY LenProperties DEF TypeOK
<1> QED  BY <1>1, <1>2 DEF Waiting

\* The head of a queue without repetition is gone from its tail.
LEMMA WaitingAfterTail ==
  ASSUME TypeOK, Places, waiters # <<>>, waiters' = Tail(waiters)
  PROVE  /\ Head(waiters) \in Waiting
         /\ Waiting' = Waiting \ {Head(waiters)}
         /\ \A i, j \in 1..Len(waiters') : waiters'[i] = waiters'[j] => i = j
<1>1. /\ Len(waiters) \in Nat /\ Len(waiters) # 0
      /\ Len(waiters') = Len(waiters) - 1
      /\ \A i \in 1..Len(waiters') : waiters'[i] = waiters[i + 1]
      /\ Head(waiters) = waiters[1]
  BY HeadTailProperties, LenProperties, EmptySeq DEF TypeOK
<1>2. \A i, j \in 1..Len(waiters) : waiters[i] = waiters[j] => i = j  BY DEF Places
<1>3. Head(waiters) \in Waiting  BY <1>1 DEF Waiting
<1>4. Waiting' \subseteq Waiting \ {Head(waiters)}
  <2> SUFFICES ASSUME NEW i \in 1..Len(waiters')
               PROVE  waiters'[i] \in Waiting \ {waiters[1]}
    BY <1>1 DEF Waiting
  <2>1. i + 1 \in 1..Len(waiters) /\ 1 \in 1..Len(waiters) /\ i + 1 # 1  BY <1>1
  <2> QED  BY <2>1, <1>1, <1>2 DEF Waiting
<1>5. Waiting \ {Head(waiters)} \subseteq Waiting'
  <2> SUFFICES ASSUME NEW i \in 1..Len(waiters), waiters[i] # waiters[1]
               PROVE  waiters[i] \in Waiting'
    BY <1>1 DEF Waiting
  <2>1. i - 1 \in 1..Len(waiters') /\ (i - 1) + 1 = i  BY <1>1
  <2> QED  BY <2>1, <1>1 DEF Waiting
<1>6. \A i, j \in 1..Len(waiters') : waiters'[i] = waiters'[j] => i = j
  <2> SUFFICES ASSUME NEW i \in 1..Len(waiters'), NEW j \in 1..Len(waiters'),
                      waiters'[i] = waiters'[j]
               PROVE  i = j
    OBVIOUS
  <2>1. i + 1 \in 1..Len(waiters) /\ j + 1 \in 1..Len(waiters)  BY <1>1
  <2>2. i + 1 = j + 1  BY <2>1, <1>1, <1>2
  <2> QED  BY <2>2
<1> QED  BY <1>3, <1>4, <1>5, <1>6

-----------------------------------------------------------------------------

LEMMA InitialState == Init => IInv
<1> SUFFICES ASSUME Init PROVE IInv  OBVIOUS
<1> USE DEF Init
<1>1. TypeOK  BY InitialCountAssumption, EmptySeq DEF TypeOK
<1>2. Finite  BY FS_EmptySet DEF Finite
<1>3. Waiting = {} /\ Len(waiters) = 0  BY EmptySeq DEF Waiting
<1>4. Places  BY <1>3 DEF Places
<1>5. NobodyWaitsForNothing  BY DEF NobodyWaitsForNothing
<1>6. CountConserved  BY InitialCountAssumption, FS_EmptySet DEF CountConserved
<1> QED  BY <1>1, <1>2, <1>4, <1>5, <1>6 DEF IInv

LEMMA WaitAsyncStep ==
  ASSUME IInv, NEW t \in Tasks, WaitAsync(t)
  PROVE  IInv'
<1> USE DEF IInv
<1>1. CASE currentCount > 0
  <2>1. /\ currentCount' = currentCount - 1 /\ holders' = holders \cup {t}
        /\ waiters' = waiters /\ woken' = woken /\ t \notin holders \cup woken \cup Waiting
    BY <1>1 DEF WaitAsync
  <2>2. TypeOK'  BY <1>1, <2>1 DEF TypeOK
  <2>3. Cardinality(holders') = Cardinality(holders) + 1 /\ IsFiniteSet(holders')
    BY <2>1, FS_AddElement DEF Finite
  <2>4. Finite'  BY <2>1, <2>3 DEF Finite
  <2>5. Places'  BY <2>1 DEF Places, Waiting
  <2>6. NobodyWaitsForNothing'  BY <1>1, <2>1 DEF NobodyWaitsForNothing
  <2>7. CountConserved'
    BY <2>1, <2>3, FS_CardinalityType, InitialCountAssumption DEF CountConserved, Finite, TypeOK
  <2> QED  BY <2>2, <2>4, <2>5, <2>6, <2>7
<1>2. CASE ~(currentCount > 0)
  <2>1. /\ waiters' = Append(waiters, t) /\ currentCount' = currentCount
        /\ holders' = holders /\ woken' = woken /\ t \notin holders \cup woken \cup Waiting
    BY <1>2 DEF WaitAsync
  <2>2. TypeOK'  BY <2>1, AppendProperties DEF TypeOK
  <2>3. Finite'  BY <2>1 DEF Finite
  <2>4. Waiting' = Waiting \cup {t}  BY <2>1, WaitingAfterAppend
  <2>5. /\ Len(waiters) \in Nat /\ Len(waiters') = Len(waiters) + 1
        /\ \A i \in 1..Len(waiters) : waiters'[i] = waiters[i]
        /\ waiters'[Len(waiters) + 1] = t
    BY <2>1, AppendProperties, LenProperties DEF TypeOK
  <2>6. \A i, j \in 1..Len(waiters') : waiters'[i] = waiters'[j] => i = j
    <3> SUFFICES ASSUME NEW i \in 1..Len(waiters'), NEW j \in 1..Len(waiters'),
                        waiters'[i] = waiters'[j]
                 PROVE  i = j
      OBVIOUS
    <3>1. \A k \in 1..Len(waiters) : waiters[k] # t  BY <2>1 DEF Waiting
    <3>2. CASE i \in 1..Len(waiters) /\ j \in 1..Len(waiters)
      BY <3>2, <2>5 DEF Places
    <3>3. CASE i = Len(waiters) + 1 \/ j = Len(waiters) + 1
      BY <3>3, <3>1, <2>5
    <3> QED  BY <3>2, <3>3, <2>5
  <2>7. Places'  BY <2>1, <2>4, <2>6 DEF Places
  <2>8. NobodyWaitsForNothing'  BY <1>2, <2>1 DEF NobodyWaitsForNothing, TypeOK
  <2>9. CountConserved'  BY <2>1 DEF CountConserved
  <2> QED  BY <2>2, <2>3, <2>7, <2>8, <2>9
<1> QED  BY <1>1, <1>2

LEMMA ReleaseStep ==
  ASSUME IInv, NEW t \in Tasks, Release(t)
  PROVE  IInv'
<1> USE DEF IInv
<1>1. t \in holders /\ holders' = holders \ {t}  BY DEF Release
<1>2. /\ Cardinality(holders') = Cardinality(holders) - 1 /\ IsFiniteSet(holders')
      /\ Cardinality(holders) \in Nat
  BY <1>1, FS_RemoveElement, FS_CardinalityType DEF Finite
<1>3. CASE waiters # <<>>
  <2>1. /\ woken' = woken \cup {Head(waiters)} /\ waiters' = Tail(waiters)
        /\ currentCount' = currentCount
    BY <1>3 DEF Release
  <2>2. /\ Head(waiters) \in Waiting
        /\ Waiting' = Waiting \ {Head(waiters)}
        /\ \A i, j \in 1..Len(waiters') : waiters'[i] = waiters'[j] => i = j
    BY <1>3, <2>1, WaitingAfterTail
  <2>3. Head(waiters) \in Tasks /\ Tail(waiters) \in Seq(Tasks)
    BY <1>3, HeadTailProperties DEF TypeOK
  <2>4. TypeOK'  BY <1>1, <2>1, <2>3 DEF TypeOK
  <2>5. Head(waiters) \notin woken /\ Head(waiters) \notin holders
    BY <2>2 DEF Places
  <2>6. Cardinality(woken') = Cardinality(woken) + 1 /\ IsFiniteSet(woken')
    BY <2>1, <2>5, FS_AddElement DEF Finite
  <2>7. Finite'  BY <1>2, <2>6 DEF Finite
  <2>8. Places'  BY <1>1, <2>1, <2>2, <2>5 DEF Places
  <2>9. NobodyWaitsForNothing'  BY <1>3, <2>1 DEF NobodyWaitsForNothing
  <2>10. CountConserved'
    BY <1>2, <2>1, <2>6, FS_CardinalityType DEF CountConserved, Finite, TypeOK
  <2> QED  BY <2>4, <2>7, <2>8, <2>9, <2>10
<1>4. CASE waiters = <<>>
  <2>1. currentCount' = currentCount + 1 /\ waiters' = waiters /\ woken' = woken
    BY <1>4 DEF Release
  <2>2. TypeOK'  BY <1>1, <2>1 DEF TypeOK
  <2>3. Finite'  BY <1>2, <2>1 DEF Finite
  <2>4. Places'  BY <1>1, <2>1 DEF Places, Waiting
  <2>5. NobodyWaitsForNothing'  BY <1>4, <2>1 DEF NobodyWaitsForNothing
  <2>6. CountConserved'
    BY <1>2, <2>1, FS_CardinalityType DEF CountConserved, Finite, TypeOK
  <2> QED  BY <2>2, <2>3, <2>4, <2>5, <2>6
<1> QED  BY <1>3, <1>4

LEMMA SetResultStep ==
  ASSUME IInv, NEW t \in Tasks, SetResult(t)
  PROVE  IInv'
<1> USE DEF IInv
<1>1. /\ t \in woken /\ woken' = woken \ {t} /\ holders' = holders \cup {t}
      /\ currentCount' = currentCount /\ waiters' = waiters
  BY DEF SetResult
<1>2. t \notin holders  BY <1>1 DEF Places
<1>3. /\ Cardinality(holders') = Cardinality(holders) + 1 /\ IsFiniteSet(holders')
      /\ Cardinality(woken') = Cardinality(woken) - 1 /\ IsFiniteSet(woken')
      /\ Cardinality(woken) \in Nat /\ Cardinality(holders) \in Nat
  BY <1>1, <1>2, FS_AddElement, FS_RemoveElement, FS_CardinalityType DEF Finite
<1>4. TypeOK'  BY <1>1 DEF TypeOK
<1>5. Finite'  BY <1>3 DEF Finite
<1>6. Places'  BY <1>1, <1>2 DEF Places, Waiting
<1>7. NobodyWaitsForNothing'  BY <1>1 DEF NobodyWaitsForNothing
<1>8. CountConserved'  BY <1>1, <1>3 DEF CountConserved, TypeOK
<1> QED  BY <1>4, <1>5, <1>6, <1>7, <1>8

LEMMA InvariantStep == IInv /\ [Next]_semaphoreVars => IInv'
<1> SUFFICES ASSUME IInv, [Next]_semaphoreVars PROVE IInv'  OBVIOUS
<1>1. CASE Next
  <2> PICK t \in Tasks : WaitAsync(t) \/ Release(t) \/ SetResult(t)  BY <1>1 DEF Next
  <2> QED  BY WaitAsyncStep, ReleaseStep, SetResultStep
<1>2. CASE UNCHANGED semaphoreVars
  BY <1>2 DEF IInv, TypeOK, Finite, Places, Waiting, NobodyWaitsForNothing, CountConserved,
     semaphoreVars
<1> QED  BY <1>1, <1>2

-----------------------------------------------------------------------------

\* The inductive invariant holds in every reachable state.
THEOREM Invariant == Spec => []IInv
<1> QED  BY InitialState, InvariantStep, PTL DEF Spec

\* The variables keep their types, whatever order AsyncSemaphore's callers come in.
THEOREM TypeCorrect == Spec => []TypeOK
<1>1. IInv => TypeOK  BY DEF IInv
<1> QED  BY Invariant, <1>1, PTL

\* AsyncSemaphore.Release neither loses nor doubles a count.
THEOREM CountIsConserved == Spec => []CountConserved
<1>1. IInv => CountConserved  BY DEF IInv
<1> QED  BY Invariant, <1>1, PTL

\* AsyncSemaphore.WaitAsync never leaves a task in the queue while a count is free.
THEOREM NobodyWaits == Spec => []NobodyWaitsForNothing
<1>1. IInv => NobodyWaitsForNothing  BY DEF IInv
<1> QED  BY Invariant, <1>1, PTL

\* A step of the code is a step of a counting semaphore, or none: a task becomes a holder
\* in WaitAsync or in SetResult, and both times fewer than InitialCount tasks are holders.
LEMMA StepSimulation ==
  ASSUME IInv, [Next]_semaphoreVars
  PROVE  [Promise!Next]_holders
<1> USE DEF IInv
<1>0. /\ Cardinality(holders) \in Nat /\ Cardinality(woken) \in Nat
      /\ currentCount \in Nat /\ InitialCount \in Nat
      /\ Cardinality(holders) + Cardinality(woken) + currentCount = InitialCount
      /\ Promise!Cardinality(holders) = Cardinality(holders)
  <2>1. Promise!Cardinality(holders) = Cardinality(holders)
    BY DEF Promise!Cardinality, Cardinality
  <2> QED
    BY <2>1, FS_CardinalityType, InitialCountAssumption DEF Finite, TypeOK, CountConserved
<1>1. ASSUME NEW t \in Tasks, WaitAsync(t) PROVE [Promise!Next]_holders
  <2>1. CASE currentCount > 0
    <3>1. t \notin holders /\ holders' = holders \cup {t}  BY <1>1, <2>1 DEF WaitAsync
    <3>2. Cardinality(holders) < InitialCount
      BY <2>1, <1>0
    <3> QED  BY <1>0, <3>1, <3>2 DEF Promise!Next, Promise!Acquire
  <2>2. CASE ~(currentCount > 0)
    BY <1>1, <2>2 DEF WaitAsync
  <2> QED  BY <2>1, <2>2
<1>2. ASSUME NEW t \in Tasks, Release(t) PROVE [Promise!Next]_holders
  BY <1>2 DEF Release, Promise!Next, Promise!Leave
<1>3. ASSUME NEW t \in Tasks, SetResult(t) PROVE [Promise!Next]_holders
  <2>1. t \in woken /\ t \notin holders /\ holders' = holders \cup {t}
    BY <1>3 DEF SetResult, Places
  <2>2. Cardinality(woken) # 0  BY <2>1, FS_EmptySet DEF Finite
  <2>3. Cardinality(holders) < InitialCount
    BY <2>2, <1>0
  <2> QED  BY <1>0, <2>1, <2>3 DEF Promise!Next, Promise!Acquire
<1>4. CASE UNCHANGED semaphoreVars  BY <1>4 DEF semaphoreVars
<1> QED  BY <1>1, <1>2, <1>3, <1>4 DEF Next

\* AsyncSemaphore implements the counting semaphore for every InitialCount and every set of
\* tasks, finite or not.
THEOREM Implementation == Spec => ImplementsSemaphore
<1>1. Init => Promise!Init  BY DEF Init, Promise!Init
<1> QED  BY <1>1, Invariant, StepSimulation, PTL DEF Spec, ImplementsSemaphore, Promise!Spec

\* With a count of 1 two holders are one.
LEMMA OneHolder ==
  ASSUME IInv, InitialCount = 1, NEW s \in holders, NEW t \in holders
  PROVE  s = t
<1> SUFFICES ASSUME s # t PROVE FALSE  OBVIOUS
<1>1. {s, t} \subseteq holders /\ IsFiniteSet(holders)  BY DEF IInv, Finite
<1>2. Cardinality({s, t}) = 2
  <2>1. Cardinality({s}) = 1 /\ IsFiniteSet({s})  BY FS_Singleton
  <2>2. t \notin {s}  OBVIOUS
  <2>3. Cardinality({s} \cup {t}) = Cardinality({s}) + 1
    BY <2>1, <2>2, FS_AddElement, Zenon
  <2>4. {s, t} = {s} \cup {t}  OBVIOUS
  <2> QED  BY <2>1, <2>3, <2>4
<1>3. Cardinality({s, t}) <= Cardinality(holders)  BY <1>1, FS_Subset
<1>4. Cardinality(holders) <= 1
  <2>1. Cardinality(holders) \in Nat /\ Cardinality(woken) \in Nat /\ currentCount \in Nat
    BY FS_CardinalityType DEF IInv, Finite, TypeOK
  <2>2. Cardinality(holders) + Cardinality(woken) + currentCount = 1
    BY DEF IInv, CountConserved
  <2> QED  BY <2>1, <2>2
<1> QED  BY <1>2, <1>3, <1>4, FS_CardinalityType, <1>1

\* At most one task is inside a block that AsyncLock.LockAsync guards.
THEOREM MutualExclusion ==
  ASSUME InitialCount = 1
  PROVE  Spec => [](\A s, t \in Tasks : s \in holders /\ t \in holders => s = t)
<1>1. IInv => \A s, t \in Tasks : s \in holders /\ t \in holders => s = t  BY OneHolder
<1> QED  BY <1>1, Invariant, PTL
=============================================================================
