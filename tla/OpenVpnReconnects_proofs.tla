---------------------- MODULE OpenVpnReconnects_proofs ----------------------
(***************************************************************************)
(* The reconnects of the Windows connection engine are bounded, for every  *)
(* number of pool threads, sessions, calls, notifications and restarts.    *)
(*                                                                         *)
(* Bounded counts.  Everything that can still come to a reconnect is an    *)
(* element of one set (Chances): a status that asks for one, a reconnect   *)
(* in the queue, a Connect that starts, a session whose end has not been   *)
(* decided about.  A step exchanges one of them for another; only a call   *)
(* adds one.  A retry is counted when its status is rewritten and again    *)
(* when it is queued, and a fallback uses up a region, so the attempts and *)
(* what can raise them (Raises) are bounded, too.                          *)
(***************************************************************************)
EXTENDS OpenVpn_proofs, FiniteSetTheorems

-----------------------------------------------------------------------------
(* Counting *)

\* A set with no more than the elements of another, one of them exchanged or one added.
LEMMA Counted ==
  ASSUME NEW S, IsFiniteSet(S)
  PROVE  /\ \A T : T \subseteq S => IsFiniteSet(T) /\ Cardinality(T) <= Cardinality(S)
         /\ \A T, y : T \subseteq S \cup {y} => IsFiniteSet(T) /\ Cardinality(T) <= Cardinality(S) + 1
         /\ \A T, x, y : x \in S /\ T \subseteq (S \ {x}) \cup {y} =>
              IsFiniteSet(T) /\ Cardinality(T) <= Cardinality(S)
         /\ \A T, x : x \in S /\ T \subseteq S \ {x} =>
              IsFiniteSet(T) /\ Cardinality(T) <= Cardinality(S) - 1
         /\ \A T : IsFiniteSet(T) => Cardinality(T) \in Nat
<1>1. ASSUME NEW U, IsFiniteSet(U), NEW T, T \subseteq U
      PROVE  IsFiniteSet(T) /\ Cardinality(T) <= Cardinality(U)
  BY <1>1, FS_Subset
<1>2. ASSUME NEW T, IsFiniteSet(T) PROVE Cardinality(T) \in Nat
  BY <1>2, FS_CardinalityType
<1>3. ASSUME NEW U, IsFiniteSet(U), NEW y
      PROVE  IsFiniteSet(U \cup {y}) /\ Cardinality(U \cup {y}) <= Cardinality(U) + 1
  <2>1. /\ IsFiniteSet(U \cup {y})
        /\ Cardinality(U \cup {y}) = IF y \in U THEN Cardinality(U) ELSE Cardinality(U) + 1
    BY <1>3, FS_AddElement
  <2>2. Cardinality(U) \in Nat
    BY <1>2, <1>3
  <2> QED
    BY <2>1, <2>2
<1>4. ASSUME NEW x \in S
      PROVE  IsFiniteSet(S \ {x}) /\ Cardinality(S \ {x}) = Cardinality(S) - 1
  BY FS_RemoveElement
<1>5. ASSUME NEW T, NEW y, T \subseteq S \cup {y}
      PROVE  IsFiniteSet(T) /\ Cardinality(T) <= Cardinality(S) + 1
  <2>1. IsFiniteSet(T) /\ Cardinality(T) <= Cardinality(S \cup {y})
    BY <1>1, <1>3, <1>5
  <2>2. Cardinality(T) \in Nat /\ Cardinality(S) \in Nat
    BY <1>2, <2>1
  <2>3. IsFiniteSet(S \cup {y}) /\ Cardinality(S \cup {y}) <= Cardinality(S) + 1
    BY <1>3
  <2>4. Cardinality(S \cup {y}) \in Nat
    BY <1>2, <2>3
  <2> QED
    BY <2>1, <2>2, <2>3, <2>4
<1>6. ASSUME NEW T, NEW x \in S, NEW y, T \subseteq (S \ {x}) \cup {y}
      PROVE  IsFiniteSet(T) /\ Cardinality(T) <= Cardinality(S)
  <2> PICK R : R = S \ {x}
    OBVIOUS
  <2>1. IsFiniteSet(R) /\ Cardinality(R) = Cardinality(S) - 1
    BY <1>4
  <2>2. IsFiniteSet(R \cup {y}) /\ Cardinality(R \cup {y}) <= Cardinality(R) + 1
    BY <1>3, <2>1
  <2>3. IsFiniteSet(T) /\ Cardinality(T) <= Cardinality(R \cup {y})
    BY <1>1, <1>6, <2>2
  <2> QED
    BY <1>2, <2>1, <2>2, <2>3
<1>7. ASSUME NEW T, NEW x \in S, T \subseteq S \ {x}
      PROVE  IsFiniteSet(T) /\ Cardinality(T) <= Cardinality(S) - 1
  BY <1>1, <1>4, <1>7
<1> QED
  BY <1>1, <1>2, <1>5, <1>6, <1>7

\* There are no more images than elements.
LEMMA CountedImage ==
  ASSUME NEW S, IsFiniteSet(S), NEW f, NEW T, \A y \in T : \E x \in S : y = f[x]
  PROVE  IsFiniteSet(T) /\ Cardinality(T) <= Cardinality(S)
<1> DEFINE g == [x \in S |-> f[x]]
<1> DEFINE R == {f[x] : x \in S}
<1>1. g \in Surjection(S, R)
  BY DEF Surjection
<1>2. IsFiniteSet(R) /\ Cardinality(R) <= Cardinality(S)
  BY <1>1, FS_Surjection
<1>3. T \subseteq R
  OBVIOUS
<1> HIDE DEF R
<1>4. IsFiniteSet(T) /\ Cardinality(T) <= Cardinality(R)
  BY <1>2, <1>3, Counted
<1> QED
  BY <1>2, <1>4, Counted

\* The line k of s has been read.
Taken(s, k) ==
  /\ k \in process[s].written
  /\ \A i \in 1..Len(process[s].stream) : process[s].stream[i] # k

\* The reader of s takes no line any more that could change how the attempt ended.
Over(s) == ~Has(stack[Reader(s)], "read") \/ Taken(s, "AUTH_FAILED") \/ Taken(s, "CONNECTED_ERROR")

\* The errors after which TryReconnecting may reconnect.
Retried == RetryErrors \cup {"GeneralError"}

\* t is about to decide whether the end of s is followed by a reconnect.
Dying(t, s) ==
  /\ At(t, "changed") /\ Subject(t) = s
  /\ note[t].newState = "Disconnected" /\ note[t].error \in Retried

\* Session s has not ended yet, or it has not been decided what follows.
Live(s) == sess[s].state # "Disconnected" \/ ~Over(s) \/ \E t \in Threads : Dying(t, s)

\* All that can still make a reconnect, tagged: statuses that ask for one, connects about to
\* start a session, sessions, and the queue of the pool.
Chances ==
  {<<"note", t>> : t \in {u \in Threads : note[u].reconnect}}
    \cup {<<"connect", t>> : t \in {u \in Threads : At(u, "connect")}}
    \cup {<<"session", s>> : s \in {r \in Sessions : Live(r)}}
    \cup {<<"queue", i>> : i \in 1..reconnects}

\* Each was paid for by a call.
ChancesInv == IsFiniteSet(Chances) /\ Cardinality(Chances) <= calls

\* t is in a Connect that has not recorded its region yet.
InFlight(t) == \E l \in {"connect", "clean", "prepare", "launch"} : Has(stack[t], l)

\* A reconnect may yet go to region r.
Held(r) == r = latestSelectedRegion \/ \E t \in Threads : InFlight(t) /\ arg[t].region = r

\* What can still raise reconnectAttempts beyond the first retry: statuses that ask for a
\* reconnect, and regions with a protocol to fall back to.
Raises ==
  {<<"note", t>> : t \in {u \in Threads : note[u].reconnect}}
    \cup {<<"region", r>> : r \in {x \in 1..Len(regions) : regions[x] = "udp" /\ Held(x)}}

\* Until an attempt is counted, what could raise the counter was paid for by calls.  The first
\* retry is free: it counts one attempt and leaves a status that counts another, hence the 2.
AttemptsInv ==
  /\ IsFiniteSet(Raises)
  /\ reconnectAttempts = 0 => Cardinality(Raises) <= calls
  /\ reconnectAttempts > 0 => reconnectAttempts + Cardinality(Raises) <= calls + 2

\* Nothing is pushed above a connect or a change that was not reported.
ShapedInv == \A t \in Threads : \A i \in 2..Len(stack[t]) : stack[t][i].at \notin {"changed", "connect"}

\* t has decided on the status of its note, and is not done with it.
Told(t) ==
  /\ stack[t] # <<>>
  /\ \/ Head(stack[t]).at = "after"
     \/ /\ Head(stack[t]).at \in {"invoke", "enable", "unblock", "forget"}
        /\ Len(stack[t]) > 1 /\ stack[t][2].at = "after"

\* A reconnect is asked for by a status that is being told, and a connection is reported by the
\* reader of a session that has not ended.
NotesInv == \A t \in Threads :
  /\ note[t].reconnect => Told(t)
  /\ note[t].newState = "Connected" =>
       /\ At(t, "changed") \/ Told(t)
       /\ \E s \in Sessions : t = Reader(s) /\ ~Over(s)

\* A session dies once, and for good.
DyingInv == \A t \in Threads : \A s \in 0..MaxSessions : Dying(t, s) =>
  /\ s \in Sessions /\ s <= session
  /\ sess[s].state = "Disconnected" /\ Over(s)
  /\ \A u \in Threads : Dying(u, s) => u = t

\* Nobody ends the session a Connect has not started the reader of.
StartingInv == Starting => sess[session].state # "Disconnected"

\* Who ends the session in a method that holds the lock releases it afterwards.
UnlockInv == \A t \in Threads : Has(stack[t], "sessionDisconnect") => Has(stack[t], "unlock")

\* The inductive invariant.
Bounded ==
  /\ OutcomesInv /\ ShapedInv /\ NotesInv /\ DyingInv /\ StartingInv /\ UnlockInv
  /\ sess[0].state = "Disconnected"
  /\ ChancesInv /\ AttemptsInv

\* What a push leaves on the stacks.
LEMMA Moved ==
  ASSUME TypeOK, ShapedInv, NEW t \in Threads, stack[t] # <<>>, NEW f \in Seq(Frames),
         stack' = Pushed(stack, t, f), \A i \in 2..Len(f) : f[i].at \notin {"changed", "connect"}
  PROVE  /\ \A u \in Threads : u # t => stack'[u] = stack[u]
         /\ ShapedInv'
         /\ Len(f) > 0 => stack'[t] # <<>> /\ Head(stack'[t]) = f[1]
         /\ Len(f) = 0 => ~At(t, "changed")' /\ ~At(t, "connect")'
         /\ Len(f) = 0 /\ Len(stack[t]) > 1 => stack'[t] # <<>> /\ Head(stack'[t]) = stack[t][2]
         /\ Len(f) = 1 /\ Len(stack[t]) > 1 => Len(stack'[t]) > 1 /\ stack'[t][2] = stack[t][2]
         /\ Len(f) >= 2 => Len(stack'[t]) > 1 /\ stack'[t][2] = f[2]
<1>0. stack \in [Threads -> Seq(Frames)]
  BY DEF TypeOK
<1>1. /\ Pushed(stack, t, f) \in [Threads -> Seq(Frames)]
      /\ \A u \in Threads : u # t => Pushed(stack, t, f)[u] = stack[u]
      /\ Len(Pushed(stack, t, f)[t]) = Len(f) + Len(stack[t]) - 1
      /\ \A i \in 1..Len(Pushed(stack, t, f)[t]) :
           \/ i \in 1..Len(f) /\ Pushed(stack, t, f)[t][i] = f[i]
           \/ /\ i > Len(f)
              /\ i - Len(f) + 1 \in 2..Len(stack[t])
              /\ Pushed(stack, t, f)[t][i] = stack[t][i - Len(f) + 1]
  BY <1>0, AfterPush
<1> PICK new : new = Pushed(stack, t, f)
  OBVIOUS
<1> PICK q \in Seq(Frames) : q = stack[t]
  BY <1>0
<1> PICK p \in Seq(Frames) : p = new[t]
  BY <1>1
<1>2. /\ stack'[t] = p /\ \A u \in Threads : u # t => stack'[u] = stack[u]
      /\ Len(p) = Len(f) + Len(q) - 1
      /\ \A i \in 1..Len(p) :
           \/ i \in 1..Len(f) /\ p[i] = f[i]
           \/ i > Len(f) /\ i - Len(f) + 1 \in 2..Len(q) /\ p[i] = q[i - Len(f) + 1]
  BY <1>1
<1>3. Len(q) \in Nat /\ Len(q) >= 1 /\ Len(f) \in Nat /\ Len(p) \in Nat
  BY Innermost
<1>4. p # <<>> => Head(p) = p[1] /\ 1 \in 1..Len(p)
  BY Innermost
<1>5. Len(p) > 0 => p # <<>>
  OBVIOUS
<1>6. \A i \in 2..Len(q) : q[i].at \notin {"changed", "connect"}
  BY DEF ShapedInv
<1>7. ASSUME NEW i \in 2..Len(p) PROVE p[i].at \notin {"changed", "connect"}
  <2>1. i \in 1..Len(p) /\ (i \in 1..Len(f) => i \in 2..Len(f))
    BY <1>3
  <2> QED
    BY <1>2, <1>6, <2>1
<1>8. ShapedInv'
  <2>1. ASSUME NEW u \in Threads PROVE \A i \in 2..Len(stack'[u]) : stack'[u][i].at \notin {"changed", "connect"}
    BY <1>2, <1>7 DEF ShapedInv
  <2> QED
    BY <2>1 DEF ShapedInv
<1>9. Len(f) > 0 => p # <<>> /\ Head(p) = f[1]
  <2> SUFFICES ASSUME Len(f) > 0 PROVE p # <<>> /\ Head(p) = f[1]
    OBVIOUS
  <2>1. Len(p) > 0 /\ 1 \in 1..Len(p) /\ ~(1 > Len(f))
    BY <1>2, <1>3
  <2>2. p[1] = f[1]
    BY <1>2, <2>1
  <2> QED
    BY <1>4, <1>5, <2>1, <2>2
<1>10. ASSUME Len(f) = 0, p # <<>>
       PROVE  Head(p) = q[2] /\ 2 \in 2..Len(q)
  <2>1. ~(1 \in 1..Len(f)) /\ 1 - Len(f) + 1 = 2
    BY <1>10
  <2>2. 1 \in 1..Len(p) /\ Head(p) = p[1]
    BY <1>4, <1>10
  <2> QED
    BY <1>2, <2>1, <2>2
<1>11. Len(f) = 0 /\ Len(q) > 1 => p # <<>>
  BY <1>2, <1>3, <1>5
<1>12. ASSUME Len(f) = 1, Len(q) > 1 PROVE Len(p) > 1 /\ p[2] = q[2]
  <2>1. Len(p) > 1 /\ 2 \in 1..Len(p) /\ ~(2 \in 1..Len(f)) /\ 2 - Len(f) + 1 = 2
    BY <1>2, <1>3, <1>12
  <2> QED
    BY <1>2, <2>1
<1>13. ASSUME Len(f) >= 2 PROVE Len(p) > 1 /\ p[2] = f[2]
  <2>1. Len(p) > 1 /\ 2 \in 1..Len(p) /\ ~(2 > Len(f))
    BY <1>2, <1>3, <1>13
  <2> QED
    BY <1>2, <2>1
<1>14. Len(f) = 0 => ~At(t, "changed")' /\ ~At(t, "connect")'
  BY <1>2, <1>6, <1>10 DEF At
<1> QED
  BY <1>2, <1>8, <1>9, <1>10, <1>11, <1>12, <1>13, <1>14

\* A connect is all a thread is doing.
LEMMA OnlyConnect ==
  ASSUME TypeOK, ShapedInv, NEW t \in Threads, Has(stack[t], "connect")
  PROVE  At(t, "connect")
<1> PICK q \in Seq(Frames) : q = stack[t]
  BY DEF TypeOK
<1>1. PICK i \in 1..Len(q) : q[i].at = "connect"
  BY DEF Has
<1>2. i = 1
  BY <1>1 DEF ShapedInv
<1>3. q # <<>>
  BY <1>1
<1>4. Head(q) = q[1]
  BY <1>3, Innermost
<1> QED
  BY <1>1, <1>2, <1>3, <1>4 DEF At

\* Frames that start no connect, report no change but first, and open no method that ends a
\* session without its end.
Tame(q, f) ==
  /\ ~Has(f, "connect") /\ \A i \in 2..Len(f) : f[i].at # "changed"
  /\ Has(f, "sessionDisconnect") => Has(f, "unlock")
  /\ \A l \in BeforeReader : Has(f, l) => Head(q).at \in BeforeReader
  /\ \A l \in {"clean", "prepare", "launch"} : Has(f, l) => Head(q).at \in {"clean", "prepare", "launch"}

\* What most steps of t do: no session changes its state, and no reconnect is decided or started.
Calm(t) ==
  /\ stack[t] # <<>> /\ Head(stack[t]).at \notin Telling \cup {"after"}
  /\ \E f \in Seq(Frames) : stack' = Pushed(stack, t, f) /\ Tame(stack[t], f) /\ ~Has(f, "changed")
  /\ note'[t] = note[t] \/ (~note'[t].reconnect /\ note'[t].newState = "Disconnected")
  /\ \A u \in Threads : u # t => note'[u] = note[u]
  /\ session' = session /\ reconnects' = reconnects /\ calls' = calls
  /\ \A s \in 0..MaxSessions : sess'[s].state = sess[s].state
  /\ \A s \in Sessions : (Over(s) => Over(s)') /\ (Over(s)' => Over(s) \/ t = Reader(s))
  /\ regions' = regions /\ reconnectAttempts' = reconnectAttempts
  /\ latestSelectedRegion' = latestSelectedRegion
       \/ (InFlight(t) /\ latestSelectedRegion' = arg[t].region)
  /\ \A u \in Threads : arg'[u].region \in {arg[u].region, 0}

\* The frames a tame push leaves.
LEMMA TameFrames ==
  ASSUME Exclusive, ShapedInv, UnlockInv, NEW t \in Threads, stack[t] # <<>>, NEW f \in Seq(Frames),
         stack' = Pushed(stack, t, f), Tame(stack[t], f)
  PROVE  /\ \A u \in Threads : u # t => stack'[u] = stack[u]
         /\ ShapedInv' /\ UnlockInv'
         /\ Starting' => Starting
         /\ ~At(t, "connect")' /\ (At(t, "changed")' => Has(f, "changed"))
         /\ Len(f) > 0 => stack'[t] # <<>> /\ Head(stack'[t]) = f[1]
         /\ \A l : Has(stack[t], l) /\ Head(stack[t]).at # l => Has(stack'[t], l)
         /\ \A u \in Threads : InFlight(u)' => InFlight(u)
<1>t. TypeOK
  BY DEF Exclusive
<1>f. /\ Len(f) \in Nat /\ \A i \in 1..Len(f) : f[i].at # "connect"
      /\ \A i \in 2..Len(f) : f[i].at # "changed"
  BY DEF Tame, Has
<1>1. /\ \A u \in Threads : u # t => stack'[u] = stack[u]
      /\ ShapedInv'
      /\ Len(f) > 0 => stack'[t] # <<>> /\ Head(stack'[t]) = f[1]
      /\ Len(f) = 0 => ~At(t, "changed")' /\ ~At(t, "connect")'
  <2>1. \A i \in 2..Len(f) : f[i].at \notin {"changed", "connect"}
    BY <1>f
  <2> QED
    BY <1>t, <2>1, Moved
<1>2. ~At(t, "connect")' /\ (At(t, "changed")' => Has(f, "changed"))
  <2>1. CASE Len(f) = 0
    BY <1>1, <2>1
  <2>2. CASE Len(f) > 0
    <3>1. 1 \in 1..Len(f)
      BY <1>f, <2>2
    <3> QED
      BY <1>1, <1>f, <2>2, <3>1 DEF At, Has
  <2> QED
    BY <1>f, <2>1, <2>2
<1>3. /\ \A l : Has(stack'[t], l) => Has(f, l) \/ Has(stack[t], l)
      /\ \A l : Has(f, l) => Has(stack'[t], l)
      /\ \A l : Has(stack[t], l) /\ Head(stack[t]).at # l => Has(stack'[t], l)
  BY <1>t, Stepped
<1>4. /\ Has(stack[t], Head(stack[t]).at)
      /\ Head(stack[t]).at \in LastLabels =>
           \A l \in LockedLabels : Has(stack[t], l) => Head(stack[t]).at = l
  BY InsideLock
<1>5. ASSUME NEW u \in Threads, Has(stack'[u], "sessionDisconnect") PROVE Has(stack'[u], "unlock")
  <2>1. CASE u # t
    BY <1>1, <1>5, <2>1 DEF UnlockInv
  <2>2. CASE u = t /\ Has(f, "sessionDisconnect")
    BY <1>3, <2>2 DEF Tame
  <2>3. CASE u = t /\ ~Has(f, "sessionDisconnect")
    <3>1. Has(stack[t], "sessionDisconnect") /\ Has(stack[t], "unlock")
      BY <1>3, <1>5, <2>3 DEF UnlockInv
    <3>2. Head(stack[t]).at # "unlock"
      BY <1>4, <3>1 DEF LastLabels, LockedLabels
    <3> QED
      BY <1>3, <2>3, <3>1, <3>2
  <2> QED
    BY <2>1, <2>2, <2>3
<1>6. ASSUME NEW u \in Threads, NEW l \in BeforeReader, Has(stack'[u], l) PROVE Starting
  <2>1. CASE u # t
    BY <1>1, <1>6, <2>1 DEF Starting
  <2>2. CASE u = t /\ Has(stack[t], l)
    BY <2>2 DEF Starting
  <2>3. CASE u = t /\ Has(f, l)
    <3>1. Head(stack[t]).at \in BeforeReader
      BY <2>3 DEF Tame
    <3> QED
      BY <1>4, <3>1 DEF Starting
  <2> QED
    BY <1>3, <1>6, <2>1, <2>2, <2>3
<1>7. ASSUME NEW u \in Threads, NEW l \in {"connect", "clean", "prepare", "launch"}, Has(stack'[u], l)
      PROVE  InFlight(u)
  <2>1. CASE u # t
    BY <1>1, <1>7, <2>1 DEF InFlight
  <2>2. CASE u = t /\ Has(stack[t], l)
    BY <2>2 DEF InFlight
  <2>3. CASE u = t /\ Has(f, l)
    <3>1. Head(stack[t]).at \in {"clean", "prepare", "launch"}
      BY <2>3 DEF Tame
    <3> QED
      BY <1>4, <2>3, <3>1 DEF InFlight
  <2> QED
    BY <1>3, <1>7, <2>1, <2>2, <2>3
<1> QED
  BY <1>1, <1>2, <1>3, <1>5, <1>6, <1>7 DEF UnlockInv, Starting, InFlight

\* No new chance is there when no status asks for a reconnect, no connect begins and no session comes back.
LEMMA ChancesKept ==
  ASSUME TypeOK, TypeOK', ChancesInv,
         \A u \in Threads : note'[u].reconnect => note[u].reconnect,
         \A u \in Threads : At(u, "connect")' => At(u, "connect"),
         \A s \in Sessions : Live(s)' => Live(s),
         reconnects' <= reconnects, calls' >= calls
  PROVE  ChancesInv'
<1>1. Chances' \subseteq Chances
  <2>1. \A i \in 1..reconnects' : i \in 1..reconnects
    BY DEF TypeOK
  <2> QED
    BY <2>1 DEF Chances
<1>2. IsFiniteSet(Chances') /\ Cardinality(Chances') <= Cardinality(Chances)
  BY <1>1, Counted DEF ChancesInv
<1>3. Cardinality(Chances') \in Nat /\ Cardinality(Chances) \in Nat
  BY <1>2, Counted DEF ChancesInv
<1>4. calls \in Nat /\ calls' \in Nat
  BY DEF TypeOK
<1> QED
  BY <1>2, <1>3, <1>4 DEF ChancesInv

\* Nothing new can raise the number of attempts when no status asks for a reconnect and no
\* other region is held.
LEMMA AttemptsKept ==
  ASSUME TypeOK, TypeOK', AttemptsInv,
         \A u \in Threads : note'[u].reconnect => note[u].reconnect,
         regions' = regions, reconnectAttempts' = reconnectAttempts, calls' >= calls,
         \A r \in 1..Len(regions) : Held(r)' => Held(r)
  PROVE  AttemptsInv'
<1>1. Raises' \subseteq Raises
  BY DEF Raises
<1>2. IsFiniteSet(Raises') /\ Cardinality(Raises') <= Cardinality(Raises)
  BY <1>1, Counted DEF AttemptsInv
<1>3. Cardinality(Raises') \in Nat /\ Cardinality(Raises) \in Nat
  BY <1>2, Counted DEF AttemptsInv
<1>4. calls \in Nat /\ calls' \in Nat /\ reconnectAttempts \in Nat
  BY DEF TypeOK
<1> QED
  BY <1>2, <1>3, <1>4 DEF AttemptsInv

\* Regions stay held, or are let go, when no connect begins.
LEMMA HeldKept ==
  ASSUME TypeOK,
         \A u \in Threads : InFlight(u)' => InFlight(u),
         \A u \in Threads : arg'[u].region \in {arg[u].region, 0},
         latestSelectedRegion' = latestSelectedRegion
           \/ \E u \in Threads : InFlight(u) /\ latestSelectedRegion' = arg[u].region
  PROVE  \A r \in 1..Len(regions) : Held(r)' => Held(r)
<1> SUFFICES ASSUME NEW r \in 1..Len(regions), Held(r)' PROVE Held(r)
  OBVIOUS
<1>1. CASE r = latestSelectedRegion'
  BY <1>1 DEF Held
<1>2. ASSUME NEW u \in Threads, InFlight(u)', arg'[u].region = r PROVE Held(r)
  <2>1. r # 0
    OBVIOUS
  <2> QED
    BY <1>2, <2>1 DEF Held
<1> QED
  BY <1>1, <1>2 DEF Held

\* A calm step keeps the invariant.
LEMMA CalmKeeps ==
  ASSUME Exclusive, TypeOK', Bounded, OutcomesInv', NEW t \in Threads, Calm(t)
  PROVE  Bounded'
<1>t. TypeOK /\ 0 \in 0..MaxSessions
  BY BoundsAssumption DEF Exclusive, TypeOK
<1> PICK f \in Seq(Frames) :
      stack' = Pushed(stack, t, f) /\ Tame(stack[t], f) /\ ~Has(f, "changed")
  BY Zenon DEF Calm
<1>1. /\ \A u \in Threads : u # t => stack'[u] = stack[u]
      /\ ShapedInv' /\ UnlockInv'
      /\ Starting' => Starting
      /\ ~At(t, "changed")' /\ ~At(t, "connect")'
      /\ \A u \in Threads : InFlight(u)' => InFlight(u)
  BY TameFrames, Zenon DEF Calm, Bounded
<1>2. /\ note'[t] = note[t] \/ (~note'[t].reconnect /\ note'[t].newState = "Disconnected")
      /\ \A u \in Threads : u # t => note'[u] = note[u]
      /\ session' = session /\ reconnects' = reconnects /\ calls' = calls
      /\ \A s \in 0..MaxSessions : sess'[s].state = sess[s].state
      /\ \A s \in Sessions : (Over(s) => Over(s)') /\ (Over(s)' => Over(s) \/ t = Reader(s))
      /\ regions' = regions /\ reconnectAttempts' = reconnectAttempts
      /\ latestSelectedRegion' = latestSelectedRegion
           \/ (InFlight(t) /\ latestSelectedRegion' = arg[t].region)
      /\ \A u \in Threads : arg'[u].region \in {arg[u].region, 0}
  BY Zenon DEF Calm
<1>3. ~note[t].reconnect /\ note[t].newState # "Connected"
  <2>1. ~Told(t) /\ ~At(t, "changed")
    BY DEF Calm, Told, Telling, At
  <2> QED
    BY <2>1 DEF Bounded, NotesInv
<1>4. ~note'[t].reconnect /\ note'[t].newState # "Connected"
  BY <1>2, <1>3
<1>5. \A u \in Threads, s \in 0..MaxSessions : Dying(u, s)' => Dying(u, s)
  BY <1>1, <1>2 DEF Dying, At, Subject
<1>6. NotesInv'
  <2> SUFFICES ASSUME NEW u \in Threads, u # t
               PROVE  /\ note'[u].reconnect => Told(u)'
                      /\ note'[u].newState = "Connected" =>
                           /\ At(u, "changed")' \/ Told(u)'
                           /\ \E s \in Sessions : u = Reader(s) /\ ~Over(s)'
    BY <1>4 DEF NotesInv
  <2>1. stack'[u] = stack[u] /\ note'[u] = note[u]
    BY <1>1, <1>2
  <2>2. (Told(u)' <=> Told(u)) /\ (At(u, "changed")' <=> At(u, "changed"))
    BY <2>1 DEF Told, At
  <2> QED
    BY <1>2, <2>1, <2>2 DEF Bounded, NotesInv
<1>7. DyingInv'
  BY <1>2, <1>5 DEF Bounded, DyingInv
<1>8. StartingInv' /\ sess'[0].state = "Disconnected"
  BY <1>t, <1>1, <1>2 DEF Bounded, StartingInv, TypeOK
<1>9. \A s \in Sessions : Live(s)' => Live(s)
  BY <1>2, <1>5, SessionThreads DEF Live
<1>10. ChancesInv'
  <2>1. \A u \in Threads : note'[u].reconnect => note[u].reconnect
    BY <1>2, <1>4
  <2>2. \A u \in Threads : At(u, "connect")' => At(u, "connect")
    BY <1>1 DEF At
  <2>3. reconnects' <= reconnects /\ calls' >= calls
    BY <1>t, <1>2 DEF TypeOK
  <2> QED
    BY <1>t, <1>9, <2>1, <2>2, <2>3, ChancesKept DEF Bounded
<1>11. AttemptsInv'
  <2>1. \A u \in Threads : note'[u].reconnect => note[u].reconnect
    BY <1>2, <1>4
  <2>2. calls' >= calls
    BY <1>t, <1>2 DEF TypeOK
  <2>3. \A r \in 1..Len(regions) : Held(r)' => Held(r)
    BY <1>t, <1>1, <1>2, HeldKept
  <2> QED
    BY <1>t, <1>2, <2>1, <2>2, <2>3, AttemptsKept DEF Bounded
<1> QED
  BY <1>1, <1>6, <1>7, <1>8, <1>10, <1>11 DEF Bounded

\* The report of a change goes in front of tame frames.
LEMMA TameFront ==
  ASSUME NEW q, NEW f \in Seq(Frames), Tame(q, f), ~Has(f, "changed"), NEW s \in 0..MaxSessions
  PROVE  \E g \in Seq(Frames) :
           /\ g = <<Frame("changed", s)>> \o f /\ Tame(q, g)
           /\ Len(g) > 0 /\ g[1] = Frame("changed", s)
<1> PICK x \in Frames : x = Frame("changed", s) /\ x.at = "changed"
  BY FrameTyped DEF Labels
<1> PICK g : g = <<x>> \o f
  OBVIOUS
<1>1. /\ g \in Seq(Frames) /\ Len(g) = Len(f) + 1 /\ Len(f) \in Nat /\ g[1] = x
      /\ \A i \in 1..Len(f) + 1 : g[i] = IF i <= 1 THEN x ELSE f[i - 1]
  BY ConcatProperties
<1>2. \A i \in 1..Len(g) : i = 1 \/ (i - 1 \in 1..Len(f) /\ g[i] = f[i - 1])
  BY <1>1
<1>3. \A i \in 1..Len(f) : i + 1 \in 1..Len(g) /\ g[i + 1] = f[i]
  BY <1>1
<1>4. ASSUME NEW l, l # "changed" PROVE Has(g, l) <=> Has(f, l)
  <2>1. ASSUME NEW i \in 1..Len(g), g[i].at = l PROVE Has(f, l)
    <3>1. g[1].at = "changed"
      BY <1>1
    <3>2. i - 1 \in 1..Len(f) /\ f[i - 1].at = l
      BY <1>2, <1>4, <2>1, <3>1
    <3> QED
      BY <3>2 DEF Has
  <2>2. ASSUME NEW i \in 1..Len(f), f[i].at = l PROVE Has(g, l)
    BY <1>3, <2>2 DEF Has
  <2> QED
    BY <2>1, <2>2 DEF Has
<1>5. \A i \in 2..Len(g) : g[i].at # "changed"
  <2>1. \A i \in 2..Len(g) : i \in 1..Len(g) /\ i # 1
    BY <1>1
  <2> QED
    BY <1>2, <2>1 DEF Has
<1>6. Tame(q, g)
  <2>1. "changed" \notin {"connect", "sessionDisconnect", "unlock"} \cup BeforeReader
    BY DEF BeforeReader
  <2>2. {"clean", "prepare", "launch"} \subseteq BeforeReader
    BY DEF BeforeReader
  <2> QED
    BY <1>4, <1>5, <2>1, <2>2 DEF Tame
<1>7. Len(g) > 0 /\ g[1] = Frame("changed", s) /\ g = <<Frame("changed", s)>> \o f
  BY <1>1
<1> QED
  BY <1>1, <1>6, <1>7

\* What a change of a session's state by t leaves alone.
Turning(t) ==
  /\ stack[t] # <<>> /\ Head(stack[t]).at \notin Telling \cup {"after"}
  /\ session' = session /\ reconnects' = reconnects /\ calls' = calls
  /\ \A s \in Sessions : (Over(s) => Over(s)') /\ (Over(s)' => Over(s) \/ t = Reader(s))
  /\ regions' = regions /\ reconnectAttempts' = reconnectAttempts
  /\ latestSelectedRegion' = latestSelectedRegion /\ arg' = arg

\* A session that has not ended may change its state: the change will be reported, and if it
\* dies of what asks for a reconnect, it does so once.
LEMMA TurnKeeps ==
  ASSUME Exclusive, TypeOK', Bounded, OutcomesInv', NEW t \in Threads, Turning(t),
         NEW s \in Sessions, s <= session, NEW rec \in SessionRecords, NEW f \in Seq(Frames),
         SetSession(t, s, rec, f), Tame(stack[t], f), ~Has(f, "changed"),
         rec.state # sess[s].state,
         sess[s].state # "Disconnected" \/ ~Over(s),
         rec.state = "Disconnected" => Over(s)' \/ rec.lastError \notin Retried,
         rec.state = "Disconnected" /\ s = session => ~Starting,
         rec.state = "Connected" => t = Reader(s) /\ ~Over(s)'
  PROVE  Bounded'
<1>t. TypeOK /\ s \in 0..MaxSessions /\ 0 \in 0..MaxSessions /\ 0 # s
  BY SessionThreads, BoundsAssumption DEF Exclusive, Sessions
<1> PICK g \in Seq(Frames) :
      /\ g = <<Frame("changed", s)>> \o f /\ Tame(stack[t], g)
      /\ Len(g) > 0 /\ g[1] = Frame("changed", s)
  BY <1>t, TameFront
<1>g. /\ stack' = Pushed(stack, t, g)
      /\ note' = [note EXCEPT ![t] = Status(rec.state, rec.lastError, FALSE)]
      /\ sess' = [sess EXCEPT ![s] = rec]
  BY DEF SetSession, Continue, Pushed
<1>1. /\ \A u \in Threads : u # t => stack'[u] = stack[u]
      /\ ShapedInv' /\ UnlockInv'
      /\ Starting' => Starting
      /\ ~At(t, "connect")'
      /\ stack'[t] # <<>> /\ Head(stack'[t]) = Frame("changed", s)
      /\ \A u \in Threads : InFlight(u)' => InFlight(u)
  BY <1>g, TameFrames, Zenon DEF Turning, Bounded
<1>2. /\ session' = session /\ reconnects' = reconnects /\ calls' = calls
      /\ \A r \in Sessions : (Over(r) => Over(r)') /\ (Over(r)' => Over(r) \/ t = Reader(r))
      /\ regions' = regions /\ reconnectAttempts' = reconnectAttempts
      /\ latestSelectedRegion' = latestSelectedRegion /\ arg' = arg
      /\ stack[t] # <<>>
  BY Zenon DEF Turning
<1>3. /\ \A u \in Threads : u # t => note'[u] = note[u]
      /\ note'[t].newState = rec.state /\ note'[t].error = rec.lastError
      /\ ~note'[t].reconnect
  BY <1>g, <1>t DEF TypeOK, Status
<1>4. /\ sess'[s].state = rec.state
      /\ \A r \in 0..MaxSessions : r # s => sess'[r].state = sess[r].state
  BY <1>g, <1>t DEF TypeOK
<1>5. At(t, "changed")' /\ Head(stack'[t]).s = s
  BY <1>1, <1>t, FrameTyped DEF At, Labels
<1>6. \A u \in Threads : ~Dying(u, s)
  BY <1>t DEF Bounded, DyingInv
<1>7. ASSUME NEW u \in Threads, NEW r \in 0..MaxSessions, Dying(u, r)'
      PROVE  \/ u # t /\ r # s /\ Dying(u, r)
             \/ u = t /\ r = s /\ rec.state = "Disconnected" /\ Over(s)'
  <2>1. CASE u = t
    <3>1. r = s /\ rec.state = "Disconnected" /\ rec.lastError \in Retried
      BY <1>3, <1>5, <1>7, <2>1 DEF Dying, Subject
    <3> QED
      BY <2>1, <3>1
  <2>2. CASE u # t
    <3>1. Dying(u, r)
      BY <1>1, <1>3, <1>7, <2>2 DEF Dying, At, Subject
    <3> QED
      BY <1>6, <2>2, <3>1
  <2> QED
    BY <2>1, <2>2
<1>8. NotesInv'
  <2> SUFFICES ASSUME NEW u \in Threads
               PROVE  /\ note'[u].reconnect => Told(u)'
                      /\ note'[u].newState = "Connected" =>
                           /\ At(u, "changed")' \/ Told(u)'
                           /\ \E r \in Sessions : u = Reader(r) /\ ~Over(r)'
    BY DEF NotesInv
  <2>1. CASE u = t
    BY <1>3, <1>5, <2>1
  <2>2. CASE u # t
    <3>1. stack'[u] = stack[u] /\ note'[u] = note[u]
      BY <1>1, <1>3, <2>2
    <3>2. (Told(u)' <=> Told(u)) /\ (At(u, "changed")' <=> At(u, "changed"))
      BY <3>1 DEF Told, At
    <3> QED
      BY <1>2, <2>2, <3>1, <3>2 DEF Bounded, NotesInv
  <2> QED
    BY <2>1, <2>2
<1>9. DyingInv'
  <2> SUFFICES ASSUME NEW u \in Threads, NEW r \in 0..MaxSessions, Dying(u, r)'
               PROVE  /\ r \in Sessions /\ r <= session'
                      /\ sess'[r].state = "Disconnected" /\ Over(r)'
                      /\ \A v \in Threads : Dying(v, r)' => v = u
    BY DEF DyingInv
  <2>1. CASE r = s
    BY <1>2, <1>4, <1>7, <2>1
  <2>2. CASE r # s
    <3>1. Dying(u, r)
      BY <1>7, <2>2
    <3>2. /\ r \in Sessions /\ r <= session /\ sess[r].state = "Disconnected" /\ Over(r)
          /\ \A v \in Threads : Dying(v, r) => v = u
      BY <3>1 DEF Bounded, DyingInv
    <3> QED
      BY <1>2, <1>4, <1>7, <2>2, <3>2
  <2> QED
    BY <2>1, <2>2
<1>10. StartingInv' /\ sess'[0].state = "Disconnected"
  <2>1. sess'[0].state = "Disconnected"
    BY <1>t, <1>4 DEF Bounded
  <2>2. Starting' => sess'[session].state # "Disconnected"
    <3>1. CASE s = session
      BY <1>1, <1>4, <3>1
    <3>2. CASE s # session
      <4>1. session \in 0..MaxSessions
        BY <1>t DEF TypeOK
      <4> QED
        BY <1>1, <1>4, <3>2, <4>1 DEF Bounded, StartingInv
    <3> QED
      BY <3>1, <3>2
  <2> QED
    BY <1>2, <2>1, <2>2 DEF StartingInv
<1>11. \A u \in Threads : note'[u].reconnect => note[u].reconnect
  BY <1>3
<1>12. ChancesInv'
  <2>1. ASSUME NEW r \in Sessions, Live(r)' PROVE Live(r)
    <3>1. CASE r = s
      BY <3>1 DEF Live
    <3>2. CASE r # s
      <4>1. r \in 0..MaxSessions
        BY SessionThreads
      <4> QED
        BY <1>2, <1>4, <1>7, <2>1, <3>2, <4>1 DEF Live
    <3> QED
      BY <3>1, <3>2
  <2>2. \A u \in Threads : At(u, "connect")' => At(u, "connect")
    BY <1>1 DEF At
  <2>3. reconnects' <= reconnects /\ calls' >= calls
    BY <1>t, <1>2 DEF TypeOK
  <2> QED
    BY <1>t, <1>11, <2>1, <2>2, <2>3, ChancesKept DEF Bounded
<1>13. AttemptsInv'
  <2>1. calls' >= calls /\ \A u \in Threads : arg'[u].region \in {arg[u].region, 0}
    BY <1>t, <1>2 DEF TypeOK
  <2>2. \A r \in 1..Len(regions) : Held(r)' => Held(r)
    BY <1>t, <1>1, <1>2, <2>1, HeldKept
  <2> QED
    BY <1>t, <1>2, <1>11, <2>1, <2>2, AttemptsKept DEF Bounded
<1> QED
  BY <1>1, <1>8, <1>9, <1>10, <1>12, <1>13 DEF Bounded

\* Frames of these labels are tame.
TameLabels == Labels \ ({"changed", "connect", "sessionDisconnect", "read"} \cup BeforeReader)

\* Most frames are tame wherever they are pushed.
LEMMA TameOf ==
  ASSUME NEW f \in Seq(FramesOf(TameLabels)), NEW q
  PROVE  f \in Seq(Frames) /\ Tame(q, f) /\ ~Has(f, "changed") /\ ~Has(f, "read")
<1>1. f \in Seq(Frames) /\ \A l : Has(f, l) => l \in TameLabels
  BY LabelsOf
<1>2. \A i \in 1..Len(f) : Has(f, f[i].at)
  BY DEF Has
<1>3. Len(f) \in Nat
  BY <1>1
<1>4. \A i \in 2..Len(f) : i \in 1..Len(f)
  BY <1>3
<1>5. /\ "changed" \notin TameLabels /\ "connect" \notin TameLabels /\ "read" \notin TameLabels
      /\ "sessionDisconnect" \notin TameLabels /\ BeforeReader \cap TameLabels = {}
      /\ {"clean", "prepare", "launch"} \subseteq BeforeReader
  BY DEF TameLabels, BeforeReader
<1> QED
  BY <1>1, <1>2, <1>4, <1>5 DEF Tame

\* These are such frames.
LEMMA TameFew ==
  ASSUME NEW s \in 0..MaxSessions
  PROVE  /\ <<>> \in Seq(FramesOf(TameLabels))
         /\ \A a \in TameLabels : <<Frame(a, s)>> \in Seq(FramesOf(TameLabels))
         /\ \A a, b \in TameLabels : <<Frame(a, s), Frame(b, s)>> \in Seq(FramesOf(TameLabels))
         /\ \A a \in TameLabels, f \in Seq(FramesOf(TameLabels)) :
              <<Frame(a, s)>> \o f \in Seq(FramesOf(TameLabels))
         /\ {"stop", "waitExit", "stopped", "exited", "unlock", "failed", "disconnect", "stopRequested",
             "invoke", "enable", "unblock", "forget", "after", "connectedError", "authFailed", "errorReply",
             "storeOff"} \subseteq TameLabels
<1>1. TameLabels \subseteq Labels
  BY DEF TameLabels
<1>2. {"stop", "waitExit", "stopped", "exited", "unlock", "failed", "disconnect", "stopRequested",
       "invoke", "enable", "unblock", "forget", "after", "connectedError", "authFailed", "errorReply",
             "storeOff"} \subseteq TameLabels
  BY DEF TameLabels, Labels, BeforeReader
<1> QED
  BY <1>1, <1>2, FewFrames

\* The next frame of a Connect.
LEMMA TameNext ==
  ASSUME NEW q, NEW b \in BeforeReader, Head(q).at \in BeforeReader,
         b \in {"clean", "prepare", "launch"} => Head(q).at \in {"clean", "prepare", "launch"}
  PROVE  /\ <<Frame(b, 0)>> \in Seq(Frames) /\ Tame(q, <<Frame(b, 0)>>)
         /\ ~Has(<<Frame(b, 0)>>, "changed") /\ ~Has(<<Frame(b, 0)>>, "read")
<1>1. b \in Labels /\ 0 \in 0..MaxSessions
  BY BoundsAssumption DEF BeforeReader, Labels
<1> PICK x \in Frames : x = Frame(b, 0) /\ x.at = b
  BY <1>1, FrameTyped
<1>2. \A l : Has(<<x>>, l) <=> l = b
  BY DEF Has
<1>3. {"changed", "connect", "sessionDisconnect", "read"} \cap BeforeReader = {}
  BY DEF BeforeReader
<1>4. <<x>> \in Seq(Frames) /\ \A i \in 2..Len(<<x>>) : FALSE
  OBVIOUS
<1>5. Tame(q, <<x>>)
  BY <1>2, <1>3, <1>4 DEF Tame
<1> QED
  BY <1>2, <1>3, <1>4, <1>5

\* Tame frames with those that end a session under the lock.
LEMMA TameEnd ==
  ASSUME NEW q
  PROVE  \A f \in {<<Frame("stop", 0), Frame("sessionDisconnect", 0), Frame("unlock", 0)>>,
                   <<Frame("stop", 0), Frame("sessionDisconnect", 0), Frame("failed", 0), Frame("unlock", 0)>>,
                   <<Frame("stopRequested", 0)>>
                     \o <<Frame("stop", 0), Frame("sessionDisconnect", 0), Frame("unlock", 0)>>} :
           f \in Seq(Frames) /\ Tame(q, f) /\ ~Has(f, "changed") /\ ~Has(f, "read")
<1> PICK a, b, c, d, e :
      /\ a = Frame("stop", 0) /\ b = Frame("sessionDisconnect", 0) /\ c = Frame("failed", 0)
      /\ d = Frame("unlock", 0) /\ e = Frame("stopRequested", 0)
  OBVIOUS
<1>1. /\ a \in Frames /\ b \in Frames /\ c \in Frames /\ d \in Frames /\ e \in Frames
      /\ a.at = "stop" /\ b.at = "sessionDisconnect" /\ c.at = "failed" /\ d.at = "unlock"
      /\ e.at = "stopRequested"
  <2>1. 0 \in 0..MaxSessions
    BY BoundsAssumption
  <2>2. {"stop", "sessionDisconnect", "failed", "unlock", "stopRequested"} \subseteq Labels
    BY DEF Labels
  <2> QED
    BY <2>1, <2>2, FrameTyped
<1>3. ASSUME NEW f \in Seq(Frames), Has(f, "unlock"), 
             \A i \in 1..Len(f) : f[i] \in {a, b, c, d, e}
      PROVE  f \in Seq(Frames) /\ Tame(q, f) /\ ~Has(f, "changed") /\ ~Has(f, "read")
  <2>1. \A i \in 1..Len(f) : f[i].at \in {"stop", "sessionDisconnect", "failed", "unlock", "stopRequested"}
    BY <1>1, <1>3
  <2>2. \A i \in 2..Len(f) : i \in 1..Len(f)
    OBVIOUS
  <2>3. \A l : Has(f, l) => l \in {"stop", "sessionDisconnect", "failed", "unlock", "stopRequested"}
    BY <2>1 DEF Has
  <2>4. {"stop", "sessionDisconnect", "failed", "unlock", "stopRequested"} \cap BeforeReader = {}
    BY DEF BeforeReader
  <2>5. {"clean", "prepare", "launch"} \subseteq BeforeReader
    BY DEF BeforeReader
  <2> QED
    BY <1>3, <2>1, <2>2, <2>3, <2>4, <2>5 DEF Tame
<1>4. ASSUME NEW f, f = <<a, b, d>> \/ f = <<a, b, c, d>> \/ f = <<e>> \o <<a, b, d>>
      PROVE  f \in Seq(Frames) /\ Has(f, "unlock") /\ \A i \in 1..Len(f) : f[i] \in {a, b, c, d, e}
  <2>1. CASE f = <<a, b, d>>
    <3>1. f \in Seq(Frames) /\ Len(f) = 3 /\ f[1] = a /\ f[2] = b /\ f[3] = d
      BY <1>1, <2>1
    <3> QED
      BY <1>1, <3>1 DEF Has
  <2>2. CASE f = <<a, b, c, d>>
    <3>1. f \in Seq(Frames) /\ Len(f) = 4 /\ f[1] = a /\ f[2] = b /\ f[3] = c /\ f[4] = d
      BY <1>1, <2>2
    <3> QED
      BY <1>1, <3>1 DEF Has
  <2>3. CASE f = <<e>> \o <<a, b, d>>
    <3> PICK g, h : g = <<e>> /\ h = <<a, b, d>>
      OBVIOUS
    <3>2. /\ g \in Seq(Frames) /\ Len(g) = 1 /\ g[1] = e
          /\ h \in Seq(Frames) /\ Len(h) = 3 /\ h[1] = a /\ h[2] = b /\ h[3] = d
      BY <1>1
    <3>3. /\ f \in Seq(Frames) /\ Len(f) = Len(g) + Len(h)
          /\ \A i \in 1..Len(g) + Len(h) : f[i] = IF i <= Len(g) THEN g[i] ELSE h[i - Len(g)]
      BY <2>3, <3>2, ConcatProperties
    <3>1. f \in Seq(Frames) /\ Len(f) = 4 /\ f[1] = e /\ f[2] = a /\ f[3] = b /\ f[4] = d
      BY <3>2, <3>3
    <3> QED
      BY <1>1, <3>1 DEF Has
  <2> QED
    BY <1>4, <2>1, <2>2, <2>3
<1> QED
  BY <1>3, <1>4

\* A push of no frame of the reader leaves open which sessions are over.
LEMMA OverKept ==
  ASSUME TypeOK, NEW t \in Threads, stack[t] # <<>>, NEW f \in Seq(Frames),
         stack' = Pushed(stack, t, f), Head(stack[t]).at # "read", ~Has(f, "read"),
         \A s \in Sessions : /\ process'[s].stream = process[s].stream
                             /\ process'[s].written = process[s].written
  PROVE  \A s \in Sessions : Over(s)' <=> Over(s)
<1>1. /\ \A u \in Threads : u # t => stack'[u] = stack[u]
      /\ Has(stack'[t], "read") <=> Has(stack[t], "read")
  BY Stepped
<1>2. \A u \in Threads : Has(stack'[u], "read") <=> Has(stack[u], "read")
  BY <1>1
<1>3. \A s \in Sessions : \A k : Taken(s, k)' <=> Taken(s, k)
  BY DEF Taken
<1> QED
  BY <1>2, <1>3, SessionThreads DEF Over

\* What t notes at most: the status of a disconnect, or nothing.
Hushed(t) == note' = note \/ \E error : note' = [note EXCEPT ![t] = Status("Disconnected", error, FALSE)]

\* What t does to the arguments of its Connect at most.
ArgSettled(t) ==
  arg' = arg \/ arg' = [arg EXCEPT ![t] = NoArg] \/ \E error : arg' = [arg EXCEPT ![t].error = error]

\* A step that changes no session's state and notes no reconnect is calm.
LEMMA CalmPush ==
  ASSUME TypeOK, NEW t \in Threads, stack[t] # <<>>, Head(stack[t]).at \notin Telling \cup {"after", "read"},
         NEW f \in Seq(Frames), Continue(t, f), Tame(stack[t], f), ~Has(f, "changed"), ~Has(f, "read"),
         Hushed(t), ArgSettled(t), session' = session, reconnects' = reconnects, calls' = calls,
         \A s \in Sessions : /\ process'[s].stream = process[s].stream
                             /\ process'[s].written = process[s].written,
         \A s \in 0..MaxSessions : sess'[s].state = sess[s].state,
         regions' = regions, reconnectAttempts' = reconnectAttempts,
         latestSelectedRegion' = latestSelectedRegion
           \/ (InFlight(t) /\ latestSelectedRegion' = arg[t].region)
  PROVE  Calm(t)
<1>1. stack' = Pushed(stack, t, f)
  BY DEF Continue, Pushed
<1>2. \A s \in Sessions : Over(s)' <=> Over(s)
  BY <1>1, OverKept
<1>3. /\ note'[t] = note[t] \/ (~note'[t].reconnect /\ note'[t].newState = "Disconnected")
      /\ \A u \in Threads : u # t => note'[u] = note[u]
  BY DEF TypeOK, Hushed, Status
<1>4. ASSUME NEW u \in Threads PROVE arg'[u].region \in {arg[u].region, 0}
  <2>1. CASE arg' = arg
    BY <2>1
  <2>2. CASE arg' = [arg EXCEPT ![t] = NoArg]
    BY <2>2 DEF TypeOK, NoArg
  <2>3. ASSUME NEW error, arg' = [arg EXCEPT ![t].error = error] PROVE arg'[u].region = arg[u].region
    BY <2>3 DEF TypeOK, Args
  <2> QED
    BY <2>1, <2>2, <2>3 DEF ArgSettled
<1> QED
  BY <1>1, <1>2, <1>3, <1>4, Zenon DEF Calm

\* A steady step of a thread that has nothing to tell is calm.
LEMMA SteadyCalm ==
  ASSUME TypeOK, NEW t \in Threads, Steady(t), Head(stack[t]).at \notin Telling \cup {"after", "read"},
         NEW f \in Seq(Frames), Continue(t, f), Tame(stack[t], f), ~Has(f, "changed"), ~Has(f, "read"),
         Hushed(t), ArgSettled(t), UNCHANGED <<reconnects, calls, regions, reconnectAttempts>>,
         latestSelectedRegion' = latestSelectedRegion
           \/ (InFlight(t) /\ latestSelectedRegion' = arg[t].region)
  PROVE  Calm(t)
<1>1. /\ stack[t] # <<>> /\ session' = session /\ sess'[0].state = sess[0].state
      /\ \A s \in Sessions : /\ sess'[s].state = sess[s].state
                             /\ process'[s].stream = process[s].stream
                             /\ process'[s].written = process[s].written
  BY Zenon DEF Steady
<1>2. \A s \in 0..MaxSessions : s = 0 \/ s \in Sessions
  BY BoundsAssumption DEF Sessions
<1>3. \A s \in 0..MaxSessions : sess'[s].state = sess[s].state
  BY <1>1, <1>2
<1> QED
  BY <1>1, <1>3, CalmPush

\* The steps of Connect, of Disconnect and of StopOpenVpn that change no session's state are calm.
LEMMA CalmRun ==
  ASSUME Exclusive, ReadersInv, NEW t \in Threads,
         \/ ConnectWhenBusy(t) \/ ConnectWithoutNetwork(t) \/ Clean(t) \/ Prepare(t) \/ Launch(t)
         \/ Attach(t) \/ Bind(t) \/ BindRest(t) \/ Failed(t) \/ DisconnectWhenIdle(t)
         \/ StopOpenVpn(t) \/ Stopped(t) \/ SwitchOffUnblocks(t) \/ StoreSetting(t)
  PROVE  Calm(t)
<1>t. TypeOK
  BY DEF Exclusive
<1>s. 0 \in 0..MaxSessions /\ openVpnExe \in 0..MaxSessions
  BY <1>t, BoundsAssumption DEF TypeOK
<1>1. Steady(t)
  BY <1>t, SteadyRun
<1>2. ASSUME NEW f \in Seq(Frames), Continue(t, f), Tame(stack[t], f), ~Has(f, "changed"), ~Has(f, "read"),
             Head(stack[t]).at \notin Telling \cup {"after", "read"},
             Hushed(t), ArgSettled(t), UNCHANGED <<reconnects, calls, regions, reconnectAttempts>>,
             latestSelectedRegion' = latestSelectedRegion
               \/ (InFlight(t) /\ latestSelectedRegion' = arg[t].region)
      PROVE  Calm(t)
  BY <1>1, <1>2, <1>t, SteadyCalm
<1>3. ASSUME NEW f \in Seq(FramesOf(TameLabels)), Continue(t, f),
             Head(stack[t]).at \notin Telling \cup {"after", "read"},
             Hushed(t), ArgSettled(t), UNCHANGED <<reconnects, calls, regions, reconnectAttempts>>,
             latestSelectedRegion' = latestSelectedRegion
      PROVE  Calm(t)
  BY <1>2, <1>3, TameOf
<1>4. ASSUME NEW b \in BeforeReader, Continue(t, <<Frame(b, 0)>>), Head(stack[t]).at \in BeforeReader,
             b \in {"clean", "prepare", "launch"} => Head(stack[t]).at \in {"clean", "prepare", "launch"},
             Hushed(t), ArgSettled(t), UNCHANGED <<reconnects, calls, regions, reconnectAttempts>>,
             latestSelectedRegion' = latestSelectedRegion
               \/ (InFlight(t) /\ latestSelectedRegion' = arg[t].region)
      PROVE  Calm(t)
  <2>1. Head(stack[t]).at \notin Telling \cup {"after", "read"}
    BY <1>4 DEF BeforeReader, Telling
  <2> QED
    BY <1>2, <1>4, <2>1, TameNext
<1>5. ASSUME NEW error, Fail(t, error), Head(stack[t]).at \in BeforeReader, Hushed(t),
             UNCHANGED <<reconnects, calls, regions, reconnectAttempts, latestSelectedRegion>>
      PROVE  Calm(t)
  <2> PICK f : f = <<Frame("stop", 0), Frame("sessionDisconnect", 0), Frame("failed", 0), Frame("unlock", 0)>>
    OBVIOUS
  <2>1. Continue(t, f) /\ ArgSettled(t)
    BY <1>5, Zenon DEF Fail, ArgSettled
  <2>2. f \in Seq(Frames) /\ Tame(stack[t], f) /\ ~Has(f, "changed") /\ ~Has(f, "read")
    BY TameEnd
  <2>3. Head(stack[t]).at \notin Telling \cup {"after", "read"}
    BY <1>5 DEF BeforeReader, Telling
  <2> QED
    BY <1>2, <1>5, <2>1, <2>2, <2>3
<1>6. ASSUME NEW error, NEW f \in Seq(FramesOf(TameLabels)), NotifyError(t, error, f),
             Head(stack[t]).at \notin Telling \cup {"after", "read"},
             ArgSettled(t), UNCHANGED <<reconnects, calls, regions, reconnectAttempts, latestSelectedRegion>>
      PROVE  Calm(t)
  <2>1. Hushed(t)
    BY <1>6, Zenon DEF NotifyError, Hushed
  <2>2. <<Frame("invoke", 0)>> \o f \in Seq(FramesOf(TameLabels))
    BY <1>s, TameFew
  <2> QED
    BY <1>3, <1>6, <2>1, <2>2 DEF NotifyError
<1>7. /\ note' = note => Hushed(t)
      /\ arg' = arg \/ arg' = [arg EXCEPT ![t] = NoArg] => ArgSettled(t)
  BY DEF Hushed, ArgSettled
<1>8. /\ <<>> \in Seq(FramesOf(TameLabels)) /\ <<Frame("unlock", 0)>> \in Seq(FramesOf(TameLabels))
      /\ <<Frame("waitExit", openVpnExe)>> \in Seq(FramesOf(TameLabels))
      /\ <<Frame("storeOff", 0)>> \in Seq(FramesOf(TameLabels))
  BY <1>s, TameFew
<1>9. /\ {"clean", "prepare", "launch", "attach", "bind", "bindRest", "startReader"} \subseteq BeforeReader
      /\ (Telling \cup {"after", "read"}) \cap ({"connect", "failed", "disconnect", "stop", "stopped", "switchOff", "storeOff"} \cup BeforeReader) = {}
  BY DEF BeforeReader, Telling
<1> USE DEF At
<1>10. CASE ConnectWhenBusy(t)
  BY <1>10, <1>3, <1>7, <1>8, <1>9 DEF ConnectWhenBusy, engineVars, clientVars
<1>11. CASE ConnectWithoutNetwork(t)
  BY <1>11, <1>6, <1>7, <1>8, <1>9 DEF ConnectWithoutNetwork, clientVars
<1>12. CASE Clean(t)
  BY <1>12, <1>4, <1>7, <1>9 DEF Clean, engineVars, clientVars
<1>13. CASE Prepare(t)
  <2>1. /\ Head(stack[t]).at = "prepare" /\ Hushed(t)
        /\ UNCHANGED <<reconnects, calls, regions, reconnectAttempts, latestSelectedRegion>>
        /\ \/ Continue(t, <<Frame("launch", 0)>>) /\ ArgSettled(t)
           \/ \E error : Fail(t, error)
    BY <1>13, <1>7 DEF Prepare, engineVars, clientVars
  <2> QED
    BY <1>4, <1>5, <1>9, <2>1
<1>14. CASE Launch(t)
  <2>1. /\ Head(stack[t]).at = "launch" /\ Hushed(t)
        /\ UNCHANGED <<reconnects, calls, regions, reconnectAttempts>>
        /\ \/ Continue(t, <<Frame("attach", 0)>>) /\ ArgSettled(t) /\ latestSelectedRegion' = arg[t].region
           \/ Fail(t, "NoError") /\ latestSelectedRegion' = latestSelectedRegion
    BY <1>14, <1>7 DEF Launch, clientVars
  <2>2. InFlight(t)
    <3>1. Has(stack[t], Head(stack[t]).at)
      BY <1>14, InsideLock DEF Launch
    <3> QED
      BY <2>1, <3>1 DEF InFlight
  <2> QED
    BY <1>4, <1>5, <1>9, <2>1, <2>2
<1>15. CASE Attach(t)
  BY <1>15, <1>4, <1>5, <1>7, <1>9 DEF Attach, engineVars, clientVars
<1>16. CASE Bind(t)
  BY <1>16, <1>4, <1>5, <1>7, <1>9 DEF Bind, engineVars, clientVars
<1>17. CASE BindRest(t)
  BY <1>17, <1>4, <1>7, <1>9 DEF BindRest, engineVars, clientVars
<1>18. CASE Failed(t)
  BY <1>18, <1>3, <1>6, <1>7, <1>8, <1>9 DEF Failed, clientVars
<1>19. CASE DisconnectWhenIdle(t)
  BY <1>19, <1>3, <1>7, <1>8, <1>9 DEF DisconnectWhenIdle, engineVars, clientVars
<1>20. CASE StopOpenVpn(t)
  BY <1>20, <1>3, <1>7, <1>8, <1>9 DEF StopOpenVpn, engineVars, clientVars
<1>21. CASE Stopped(t)
  BY <1>21, <1>3, <1>7, <1>8, <1>9 DEF Stopped, clientVars
<1>22. CASE SwitchOffUnblocks(t)
  BY <1>22, <1>3, <1>7, <1>8, <1>9 DEF SwitchOffUnblocks, engineVars, clientVars
<1>23. CASE StoreSetting(t)
  BY <1>23, <1>3, <1>7, <1>8, <1>9 DEF StoreSetting, engineVars, clientVars
<1> QED
  BY <1>10, <1>11, <1>12, <1>13, <1>14, <1>15, <1>16, <1>17, <1>18, <1>19, <1>20, <1>21, <1>22, <1>23

\* So are the end of a method, of a wait for a process and of a request to stop.
LEMMA CalmRest ==
  ASSUME TypeOK, NEW t \in Threads,
         \/ Unlock(t) \/ WaitExit(t) \/ StopRequested(t)
         \/ Disconnect(t) /\ sess[session].state # "Connected"
  PROVE  Calm(t)
<1>s. 0 \in 0..MaxSessions /\ session \in 0..MaxSessions
  BY BoundsAssumption DEF TypeOK
<1>n. NoNote = Status("Disconnected", "NoError", FALSE)
  BY DEF NoNote
<1>1. /\ note' = note \/ note' = [note EXCEPT ![t] = NoNote] => Hushed(t)
      /\ arg' = arg \/ arg' = [arg EXCEPT ![t] = NoArg] => ArgSettled(t)
  BY <1>n, Zenon DEF Hushed, ArgSettled
<1>2. ASSUME NEW f \in Seq(FramesOf(TameLabels)), Continue(t, f), stack[t] # <<>>,
             Head(stack[t]).at \notin Telling \cup {"after", "read"},
             Hushed(t), ArgSettled(t), session' = session, UNCHANGED <<engineVars, calls>>,
             \A s \in 0..MaxSessions : sess'[s].state = sess[s].state,
             \A s \in Sessions : /\ process'[s].stream = process[s].stream
                                 /\ process'[s].written = process[s].written
      PROVE  Calm(t)
  <2>1. f \in Seq(Frames) /\ Tame(stack[t], f) /\ ~Has(f, "changed") /\ ~Has(f, "read")
    BY TameOf
  <2> QED
    BY <1>2, <2>1, CalmPush DEF engineVars
<1>3. CASE Unlock(t)
  <2>1. /\ stack[t] # <<>> /\ Head(stack[t]).at = "unlock" /\ Continue(t, <<>>)
        /\ note' = [note EXCEPT ![t] = NoNote] /\ arg' = [arg EXCEPT ![t] = NoArg]
        /\ session' = session /\ sess' = sess /\ process' = process /\ UNCHANGED <<engineVars, calls>>
    BY <1>3 DEF Unlock, At, sessionVars, systemVars, clientVars
  <2>2. <<>> \in Seq(FramesOf(TameLabels))
    BY <1>s, TameFew
  <2> QED
    BY <1>1, <1>2, <2>1, <2>2 DEF Telling
<1>4. CASE WaitExit(t)
  <2> PICK s : s = Subject(t)
    OBVIOUS
  <2>1. /\ stack[t] # <<>> /\ Head(stack[t]).at = "waitExit"
        /\ \E x : process' = [process EXCEPT ![s].raised = x]
        /\ \/ Continue(t, <<Frame("exited", s)>> \o <<Frame("stopped", s)>>)
           \/ Continue(t, <<>> \o <<Frame("stopped", s)>>)
        /\ note' = note /\ arg' = arg /\ session' = session /\ sess' = sess /\ UNCHANGED <<engineVars, calls>>
    BY <1>4 DEF WaitExit, At, sessionVars, clientVars
  <2>2. s \in 0..MaxSessions
    BY <2>1, Innermost DEF TypeOK, Subject, Frames
  <2>3. <<Frame("exited", s)>> \o <<Frame("stopped", s)>> \in Seq(FramesOf(TameLabels))
    BY <2>2, TameFew
  <2>4. <<>> \o <<Frame("stopped", s)>> \in Seq(FramesOf(TameLabels))
    BY <2>2, TameFew
  <2>5. \A r \in Sessions : /\ process'[r].stream = process[r].stream
                            /\ process'[r].written = process[r].written
    BY <2>1 DEF TypeOK, Processes
  <2> QED
    BY <1>1, <1>2, <2>1, <2>3, <2>4, <2>5 DEF Telling
<1>5. CASE StopRequested(t)
  <2>1. /\ stack[t] # <<>> /\ Head(stack[t]).at = "stopRequested" /\ Continue(t, <<>>)
        /\ note' = note /\ arg' = arg /\ sess' = [sess EXCEPT ![session].stopWasRequested = TRUE]
        /\ session' = session /\ process' = process /\ UNCHANGED <<engineVars, calls>>
    BY <1>5 DEF StopRequested, At, systemVars, clientVars
  <2>2. \A s \in 0..MaxSessions : sess'[s].state = sess[s].state
    BY <1>s, <2>1 DEF TypeOK, SessionRecords
  <2>3. <<>> \in Seq(FramesOf(TameLabels))
    BY <1>s, TameFew
  <2> QED
    BY <1>1, <1>2, <2>1, <2>2, <2>3 DEF Telling
<1>6. CASE Disconnect(t) /\ sess[session].state # "Connected"
  <2> PICK f : f = <<Frame("stop", 0), Frame("sessionDisconnect", 0), Frame("unlock", 0)>>
    OBVIOUS
  <2>1. /\ stack[t] # <<>> /\ Head(stack[t]).at = "disconnect" /\ Continue(t, f)
        /\ note' = note /\ arg' = arg /\ session' = session /\ sess' = sess /\ process' = process
        /\ UNCHANGED <<engineVars, calls>>
    BY <1>6 DEF Disconnect, At, systemVars, clientVars
  <2>2. f \in Seq(Frames) /\ Tame(stack[t], f) /\ ~Has(f, "changed") /\ ~Has(f, "read")
    BY TameEnd
  <2> QED
    BY <1>1, <2>1, <2>2, CalmPush DEF Telling, engineVars
<1> QED
  BY <1>3, <1>4, <1>5, <1>6

\* A session that is changed by a thread that is not reading keeps the invariant.
LEMMA SetsKeep ==
  ASSUME Exclusive, TypeOK', Bounded, OutcomesInv', NEW t \in Threads, NEW s \in 0..MaxSessions,
         NEW rec \in SessionRecords, NEW f \in Seq(Frames), SetSession(t, s, rec, f),
         Tame(stack[t], f), ~Has(f, "changed"), ~Has(f, "read"),
         stack[t] # <<>>, Head(stack[t]).at \notin Telling \cup {"after", "read"},
         session' = session, UNCHANGED <<engineVars, calls, arg, process>>,
         rec.state # sess[s].state =>
           /\ s <= session /\ sess[s].state # "Disconnected"
           /\ \/ rec.state = "Disconnecting"
              \/ /\ rec.state = "Disconnected" /\ (Over(s) \/ rec.lastError \notin Retried)
                 /\ s = session => ~Starting
  PROVE  Bounded'
<1>t. TypeOK
  BY DEF Exclusive
<1>1. CASE rec.state = sess[s].state
  <2>1. Continue(t, f) /\ note' = note /\ sess' = [sess EXCEPT ![s] = rec]
    BY <1>1 DEF SetSession
  <2>2. \A r \in 0..MaxSessions : sess'[r].state = sess[r].state
    BY <1>t, <1>1, <2>1 DEF TypeOK
  <2>3. Hushed(t) /\ ArgSettled(t)
    BY <2>1 DEF Hushed, ArgSettled
  <2>4. Calm(t)
    BY <1>t, <2>1, <2>2, <2>3, CalmPush DEF engineVars
  <2> QED
    BY <2>4, CalmKeeps
<1>2. CASE rec.state # sess[s].state
  <2>1. s \in Sessions
    BY <1>2 DEF Bounded, Sessions
  <2>2. \E g \in Seq(Frames) : stack' = Pushed(stack, t, g) /\ ~Has(g, "read")
    <3> PICK g : g = <<Frame("changed", s)>> \o f
      OBVIOUS
    <3>1. /\ <<Frame("changed", s)>> \in Seq(Frames) /\ Frame("changed", s).at = "changed"
          /\ Len(<<Frame("changed", s)>>) = 1
      BY FrameTyped DEF Labels
    <3>2. /\ g \in Seq(Frames) /\ Len(g) = Len(f) + 1 /\ Len(f) \in Nat /\ g[1] = Frame("changed", s)
          /\ \A i \in 1..Len(f) + 1 : g[i] = IF i <= 1 THEN Frame("changed", s) ELSE f[i - 1]
      BY <3>1, ConcatProperties
    <3>3. ASSUME NEW i \in 1..Len(g) PROVE g[i].at # "read"
      <4>1. CASE i = 1
        BY <3>1, <3>2, <4>1
      <4>2. CASE i # 1
        <5>1. i - 1 \in 1..Len(f) /\ g[i] = f[i - 1]
          BY <3>2, <4>2
        <5> QED
          BY <5>1 DEF Has
      <4> QED
        BY <4>1, <4>2
    <3> QED
      BY <1>2, <3>2, <3>3 DEF SetSession, Continue, Pushed, Has
  <2>3. \A r \in Sessions : Over(r)' <=> Over(r)
    BY <1>t, <2>2, OverKept
  <2>4. Turning(t)
    BY <2>3 DEF Turning, engineVars
  <2> QED
    BY <1>2, <2>1, <2>3, <2>4, TurnKeeps
<1> QED
  BY <1>1, <1>2

\* Disconnect, Session.Disconnect and OnOpenVpnExit keep the invariant.
LEMMA EndsKeep ==
  ASSUME Exclusive, ReadersInv, TypeOK', Bounded, OutcomesInv', NEW t \in Threads,
         \/ Disconnect(t) /\ sess[session].state = "Connected"
         \/ SessionDisconnect(t) \/ OnOpenVpnExit(t)
  PROVE  Bounded'
<1>0. TypeOK /\ session \in 0..MaxSessions
  BY DEF Exclusive, TypeOK
<1>t. TypeOK /\ 0 \in 0..MaxSessions /\ session \in 0..MaxSessions /\ session <= session
  BY <1>0, BoundsAssumption
<1>r. ASSUME NEW x \in SessionRecords, NEW state \in ConnectionStates
      PROVE  /\ [x EXCEPT !.state = state] \in SessionRecords
             /\ [x EXCEPT !.state = state].state = state
             /\ [x EXCEPT !.state = state, !.lastError = "NoError"] \in SessionRecords
             /\ [x EXCEPT !.state = state, !.lastError = "NoError"].state = state
             /\ [x EXCEPT !.state = state, !.lastError = "NoError"].lastError = "NoError"
  BY <1>r DEF SessionRecords, ErrorTypes
<1>c. "Disconnecting" \in ConnectionStates /\ "Disconnected" \in ConnectionStates /\ "NoError" \notin Retried
  BY DEF ConnectionStates, Retried, RetryErrors
<1>1. CASE Disconnect(t) /\ sess[session].state = "Connected"
  <2> PICK f, rec :
        /\ f = <<Frame("stopRequested", 0)>>
                 \o <<Frame("stop", 0), Frame("sessionDisconnect", 0), Frame("unlock", 0)>>
        /\ rec = [sess[session] EXCEPT !.state = "Disconnecting"]
    OBVIOUS
  <2>1. /\ stack[t] # <<>> /\ Head(stack[t]).at = "disconnect" /\ SetSession(t, session, rec, f)
        /\ session' = session /\ UNCHANGED <<engineVars, calls, arg, process>>
    BY <1>1 DEF Disconnect, SetState, At, systemVars, clientVars
  <2>2. f \in Seq(Frames) /\ Tame(stack[t], f) /\ ~Has(f, "changed") /\ ~Has(f, "read")
    BY TameEnd
  <2>3. sess[session] \in SessionRecords
    BY <1>t DEF TypeOK
  <2>4. rec \in SessionRecords /\ rec.state = "Disconnecting"
    BY <1>r, <1>c, <2>3
  <2> QED
    BY <1>1, <1>t, <2>1, <2>2, <2>4, SetsKeep DEF Telling
<1>2. CASE SessionDisconnect(t)
  <2> PICK rec : rec = [sess[session] EXCEPT !.state = "Disconnected", !.lastError = "NoError"]
    OBVIOUS
  <2>1. /\ stack[t] # <<>> /\ Head(stack[t]).at = "sessionDisconnect" /\ SetSession(t, session, rec, <<>>)
        /\ session' = session /\ UNCHANGED <<engineVars, calls, arg, process>>
    BY <1>2 DEF SessionDisconnect, At, systemVars, clientVars
  <2>2. <<>> \in Seq(FramesOf(TameLabels))
    BY <1>t, TameFew
  <2>3. /\ <<>> \in Seq(Frames) /\ Tame(stack[t], <<>>) /\ ~Has(<<>>, "changed") /\ ~Has(<<>>, "read")
    BY <2>2, TameOf
  <2>r. sess[session] \in SessionRecords
    BY <1>t DEF TypeOK
  <2>4. rec \in SessionRecords /\ rec.state = "Disconnected" /\ rec.lastError = "NoError"
    BY <1>r, <1>c, <2>r
  <2>5. ~Starting
    <3> SUFFICES ASSUME NEW u \in Threads, NEW l \in BeforeReader, Has(stack[u], l) PROVE FALSE
      BY DEF Starting
    <3>1. Has(stack[t], "sessionDisconnect") /\ lock = t
      BY <2>1, InsideLock DEF LockedLabels
    <3>2. Has(stack[t], "unlock")
      BY <3>1 DEF Bounded, UnlockInv
    <3>3. l \in LastLabels /\ l \in LockedLabels /\ l # "unlock" /\ "unlock" \in LastLabels
      BY DEF LastLabels, LockedLabels, BeforeReader
    <3>4. stack[u] # <<>>
      BY DEF Has
    <3>5. u = t
      BY <3>1, <3>3, <3>4, InsideLock
    <3> QED
      BY <3>2, <3>3, <3>5, OneLast
  <2> QED
    BY <1>t, <1>c, <2>1, <2>3, <2>4, <2>5, SetsKeep DEF Telling
<1>3. CASE OnOpenVpnExit(t)
  <2> PICK s : s = Subject(t)
    OBVIOUS
  <2> PICK rec : rec = [sess[s] EXCEPT !.state = "Disconnected"]
    OBVIOUS
  <2>1. /\ stack[t] # <<>> /\ Head(stack[t]).at = "exited" /\ process[s].closed = "yes"
        /\ \/ SetSession(t, s, rec, <<>>)
           \/ Continue(t, <<>>) /\ sess' = sess /\ note' = note
        /\ session' = session /\ UNCHANGED <<engineVars, calls, arg, process>>
    BY <1>3 DEF OnOpenVpnExit, SetState, At, systemVars, clientVars
  <2>2. s \in 0..MaxSessions
    BY <1>t, <2>1, Innermost DEF TypeOK, Subject, Frames
  <2>3. <<>> \in Seq(FramesOf(TameLabels))
    BY <1>t, TameFew
  <2>4. /\ <<>> \in Seq(Frames) /\ Tame(stack[t], <<>>) /\ ~Has(<<>>, "changed") /\ ~Has(<<>>, "read")
    BY <2>3, TameOf
  <2>5. CASE SetSession(t, s, rec, <<>>)
    <3>r. sess[s] \in SessionRecords
      BY <1>t, <2>2 DEF TypeOK
    <3>1. rec \in SessionRecords /\ rec.state = "Disconnected"
      BY <1>r, <1>c, <3>r
    <3>2. ASSUME sess[s].state # "Disconnected"
          PROVE  s <= session /\ Over(s) /\ (s = session => ~Starting)
      <4>1. s \in Sessions
        BY <2>2, <3>2 DEF Bounded, Sessions
      <4>2. s <= session
        BY <1>t, <2>1, <2>2, <4>1 DEF ReadersInv, Unstarted
      <4>3. stack[Reader(s)] = <<>>
        BY <2>1, <4>1 DEF ReadersInv
      <4>4. Over(s)
        BY <4>3 DEF Over, Has
      <4>5. s = session => ~Starting
        BY <2>1 DEF ReadersInv, Unstarted
      <4> QED
        BY <4>2, <4>4, <4>5
    <3> QED
      BY <1>t, <2>1, <2>2, <2>4, <2>5, <3>1, <3>2, SetsKeep DEF Telling
  <2>6. CASE Continue(t, <<>>) /\ sess' = sess /\ note' = note
    <3>1. Hushed(t) /\ ArgSettled(t)
      BY <2>1, <2>6 DEF Hushed, ArgSettled
    <3>2. Calm(t)
      BY <1>t, <2>1, <2>4, <2>6, <3>1, CalmPush DEF Telling, engineVars
    <3> QED
      BY <3>2, CalmKeeps
  <2> QED
    BY <2>1, <2>5, <2>6
<1> QED
  BY <1>1, <1>2, <1>3

\* A chance that takes the place of another, or one that a call pays for.
LEMMA ChancesExchanged ==
  ASSUME TypeOK, TypeOK', ChancesInv,
         \/ \E x \in Chances : \E y : Chances' \subseteq (Chances \ {x}) \cup {y} /\ calls' = calls
         \/ \E y : Chances' \subseteq Chances \cup {y} /\ calls' = calls + 1
         \/ Chances' \subseteq Chances /\ calls' >= calls
  PROVE  ChancesInv'
<1>1. IsFiniteSet(Chances) /\ Cardinality(Chances) <= calls /\ Cardinality(Chances) \in Nat
  BY Counted DEF ChancesInv
<1>2. calls \in Nat /\ calls' \in Nat
  BY DEF TypeOK
<1>3. CASE \E x \in Chances : \E y : Chances' \subseteq (Chances \ {x}) \cup {y} /\ calls' = calls
  <2>1. IsFiniteSet(Chances') /\ Cardinality(Chances') <= Cardinality(Chances) /\ calls' = calls
    BY <1>1, <1>3, Counted
  <2>2. Cardinality(Chances') \in Nat
    BY <2>1, Counted, <1>1
  <2> QED
    BY <1>1, <1>2, <2>1, <2>2 DEF ChancesInv
<1>4. CASE \E y : Chances' \subseteq Chances \cup {y} /\ calls' = calls + 1
  <2>1. IsFiniteSet(Chances') /\ Cardinality(Chances') <= Cardinality(Chances) + 1 /\ calls' = calls + 1
    BY <1>1, <1>4, Counted
  <2>2. Cardinality(Chances') \in Nat
    BY <2>1, Counted, <1>1
  <2> QED
    BY <1>1, <1>2, <2>1, <2>2 DEF ChancesInv
<1>5. CASE Chances' \subseteq Chances /\ calls' >= calls
  <2>1. IsFiniteSet(Chances') /\ Cardinality(Chances') <= Cardinality(Chances)
    BY <1>1, <1>5, Counted
  <2>2. Cardinality(Chances') \in Nat
    BY <2>1, Counted, <1>1
  <2> QED
    BY <1>1, <1>2, <1>5, <2>1, <2>2 DEF ChancesInv
<1> QED
  BY <1>3, <1>4, <1>5

\* The reader that starts is the reader of a session that is on.
LEMMA StartReaderBounded ==
  ASSUME Exclusive, ReadersInv, TypeOK', Bounded, OutcomesInv', NEW t \in Threads, StartReader(t)
  PROVE  Bounded'
<1> PICK R : R = Reader(session)
  OBVIOUS
<1>t. TypeOK
  BY DEF Exclusive
<1>0. /\ session' = session /\ sess' = sess /\ note' = note /\ process' = process
      /\ reconnects' = reconnects /\ calls' = calls /\ regions' = regions
      /\ reconnectAttempts' = reconnectAttempts /\ latestSelectedRegion' = latestSelectedRegion
      /\ arg' = arg /\ At(t, "startReader")
  BY DEF StartReader, sessionVars, engineVars, systemVars, clientVars
<1>1. /\ session \in Sessions /\ stack[R] = <<>> /\ t # R /\ R \in Threads
      /\ Has(stack[t], "startReader")
      /\ \A u \in Threads : u # t /\ u # R => stack'[u] = stack[u]
      /\ stack'[R] = <<Frame("read", session)>>
      /\ Len(stack'[t]) = Len(stack[t]) /\ Head(stack'[t]).at = "unlock"
      /\ \A i \in 2..Len(stack[t]) : stack'[t][i] = stack[t][i]
      /\ \A l : Has(stack'[t], l) => l = "unlock" \/ (Has(stack[t], l) /\ l \notin LockedLabels)
  BY StartReaderEffect, SessionThreads DEF Unstarted
<1>2. Frame("read", session).at = "read"
  BY DEF Frame
<1>3. /\ \A l : Has(stack'[R], l) => l = "read"
      /\ Len(stack'[R]) = 1 /\ Head(stack'[R]).at = "read"
  BY <1>1, <1>2 DEF Has
<1>4. sess[session].state # "Disconnected"
  BY <1>1 DEF Bounded, StartingInv, Starting, BeforeReader
<1>5. ShapedInv'
  <2>1. ASSUME NEW u \in Threads, NEW i \in 2..Len(stack'[u]) PROVE stack'[u][i].at \notin {"changed", "connect"}
    <3>1. CASE u = R
      BY <1>3, <2>1, <3>1
    <3>2. CASE u # R
      BY <1>1, <2>1, <3>2 DEF Bounded, ShapedInv
    <3> QED
      BY <3>1, <3>2
  <2> QED
    BY <2>1 DEF ShapedInv
<1>6. UnlockInv' /\ StartingInv'
  BY <1>0, <1>1, <1>3, <1>4 DEF Bounded, UnlockInv, StartingInv, LockedLabels
<1>7. ~At(t, "changed")' /\ ~At(t, "connect")' /\ ~At(R, "changed")' /\ ~At(R, "connect")'
  BY <1>1, <1>3 DEF At
<1>8. ASSUME NEW s \in Sessions, s # session
      PROVE  (Over(s) => Over(s)') /\ (Reader(s) # t => (Over(s)' => Over(s)))
  <2>1. Reader(s) # R /\ Reader(s) \in Threads
    BY <1>8, SessionThreads DEF Reader
  <2>2. Has(stack'[Reader(s)], "read") => Has(stack[Reader(s)], "read")
    BY <1>1, <2>1
  <2>3. Reader(s) # t => stack'[Reader(s)] = stack[Reader(s)]
    BY <1>1, <2>1
  <2> QED
    BY <1>0, <2>2, <2>3 DEF Over, Taken
<1>9. ~Told(t) /\ ~Told(R) /\ ~At(t, "changed") /\ ~At(R, "changed")
  BY <1>0, <1>1 DEF Told, At
<1>10. NotesInv'
  <2> SUFFICES ASSUME NEW u \in Threads
               PROVE  /\ note[u].reconnect => Told(u)'
                      /\ note[u].newState = "Connected" =>
                           /\ At(u, "changed")' \/ Told(u)'
                           /\ \E s \in Sessions : u = Reader(s) /\ ~Over(s)'
    BY <1>0 DEF NotesInv
  <2>1. CASE u \in {t, R}
    BY <1>1, <1>9, <2>1 DEF Bounded, NotesInv
  <2>2. CASE u \notin {t, R}
    <3>1. stack'[u] = stack[u]
      BY <1>1, <2>2
    <3>2. (Told(u)' <=> Told(u)) /\ (At(u, "changed")' <=> At(u, "changed"))
      BY <3>1 DEF Told, At
    <3>3. \A s \in Sessions : u = Reader(s) => s # session
      BY <2>2
    <3> QED
      BY <1>8, <2>2, <3>2, <3>3 DEF Bounded, NotesInv
  <2> QED
    BY <2>1, <2>2
<1>11. \A u \in Threads : \A s \in 0..MaxSessions : Dying(u, s)' => Dying(u, s)
  BY <1>0, <1>1, <1>7 DEF Dying, At, Subject
<1>12. DyingInv'
  <2> SUFFICES ASSUME NEW u \in Threads, NEW s \in 0..MaxSessions, Dying(u, s)'
               PROVE  /\ s \in Sessions /\ s <= session
                      /\ sess[s].state = "Disconnected" /\ Over(s)'
                      /\ \A v \in Threads : Dying(v, s)' => v = u
    BY <1>0 DEF DyingInv
  <2>1. /\ s \in Sessions /\ s <= session
        /\ sess[s].state = "Disconnected" /\ Over(s)
        /\ \A v \in Threads : Dying(v, s) => v = u
    BY <1>11 DEF Bounded, DyingInv
  <2> QED
    BY <1>4, <1>8, <1>11, <2>1
<1>13. \A s \in Sessions : Live(s)' => Live(s)
  BY <1>0, <1>4, <1>8, <1>11, SessionThreads DEF Live
<1>14. \A u \in Threads : At(u, "connect")' => At(u, "connect")
  BY <1>1, <1>7 DEF At
<1>15. reconnects' <= reconnects /\ calls' >= calls
  BY <1>t, <1>0 DEF TypeOK
<1>16. ChancesInv'
  BY <1>t, <1>0, <1>13, <1>14, <1>15, ChancesKept DEF Bounded
<1>17. AttemptsInv'
  <2>1. ASSUME NEW u \in Threads, NEW l \in {"connect", "clean", "prepare", "launch"}, Has(stack'[u], l)
        PROVE  Has(stack[u], l)
    <3>1. CASE u = R
      BY <1>3, <2>1, <3>1
    <3>2. CASE u # R
      BY <1>1, <2>1, <3>2
    <3> QED
      BY <3>1, <3>2
  <2>2. \A u \in Threads : InFlight(u)' => InFlight(u)
    BY <2>1 DEF InFlight
  <2>3. \A r \in 1..Len(regions) : Held(r)' => Held(r)
    BY <1>t, <1>0, <2>2, HeldKept
  <2> QED
    BY <1>t, <1>0, <1>15, <2>3, AttemptsKept DEF Bounded
<1> QED
  BY <1>0, <1>5, <1>6, <1>10, <1>12, <1>16, <1>17 DEF Bounded

\* The frames of a Connect that starts a session: the change is reported first.
LEMMA StartPushes ==
  ASSUME TypeOK, NEW t \in Threads, StartSession(t)
  PROVE  /\ \E f \in Seq(Frames) :
              /\ stack' = Pushed(stack, t, f) /\ Len(f) > 0
              /\ \A l : Has(f, l) => l \in {"changed", "clean"}
              /\ \A i \in 2..Len(f) : f[i].at \notin {"changed", "connect"}
              /\ \/ f[1].at = "clean" /\ note' = note
                 \/ \E error : note' = [note EXCEPT ![t] = Status("Connecting", error, FALSE)]
         /\ session + 1 \in Sessions /\ session' = session + 1 /\ session \in Nat
         /\ sess'[session + 1].state = "Connecting"
         /\ \A s \in 0..MaxSessions : s # session + 1 => sess'[s] = sess[s]
         /\ stack[t] # <<>> /\ Head(stack[t]).at = "connect" /\ lock = NoThread
         /\ sess[session].state = "Disconnected"
         /\ UNCHANGED <<engineVars, arg, process, calls>>
<1> PICK n : n = session + 1
  OBVIOUS
<1>0. /\ stack[t] # <<>> /\ Head(stack[t]).at = "connect" /\ lock = NoThread
      /\ sess[session].state = "Disconnected" /\ session < MaxSessions
      /\ session' = n /\ SetState(t, n, "Connecting", <<Frame("clean", 0)>>)
      /\ UNCHANGED <<engineVars, arg, process, calls>>
  <2>1. session' = n /\ SetState(t, session', "Connecting", <<Frame("clean", 0)>>)
    BY DEF StartSession
  <2>2. SetState(t, n, "Connecting", <<Frame("clean", 0)>>)
    BY <2>1, Zenon
  <2> QED
    BY <2>1, <2>2 DEF StartSession, At, systemVars, clientVars
<1>1. session \in 0..MaxSessions /\ MaxSessions \in Nat
  BY BoundsAssumption DEF TypeOK
<1>2. n \in Sessions /\ n \in 0..MaxSessions /\ session \in Nat /\ 0 \in 0..MaxSessions
  BY <1>0, <1>1 DEF Sessions
<1> PICK rec : rec = [sess[n] EXCEPT !.state = "Connecting"]
  OBVIOUS
<1>3. rec.state = "Connecting" /\ SetSession(t, n, rec, <<Frame("clean", 0)>>)
  BY <1>0, <1>2 DEF SetState, TypeOK, SessionRecords
<1>4. sess' = [sess EXCEPT ![n] = rec]
  BY <1>3 DEF SetSession
<1>5. sess'[n].state = "Connecting" /\ \A s \in 0..MaxSessions : s # n => sess'[s] = sess[s]
  BY <1>2, <1>3, <1>4 DEF TypeOK
<1>6. /\ rec.state = sess[n].state => note' = note
      /\ rec.state # sess[n].state =>
           \E error : note' = [note EXCEPT ![t] = Status("Connecting", error, FALSE)]
  BY <1>3, Zenon DEF SetSession
<1>7. /\ <<Frame("clean", 0)>> \in Seq(FramesOf({"changed", "clean"}))
      /\ <<Frame("changed", n)>> \o <<Frame("clean", 0)>> \in Seq(FramesOf({"changed", "clean"}))
  <2>1. {"changed", "clean"} \subseteq Labels /\ "clean" \in {"changed", "clean"} /\ "changed" \in {"changed", "clean"}
    BY DEF Labels
  <2>2. <<Frame("clean", 0)>> \in Seq(FramesOf({"changed", "clean"}))
    BY <1>2, <2>1, FewFrames
  <2> QED
    BY <1>2, <2>1, <2>2, FewFrames
<1>8. \E f \in Seq(FramesOf({"changed", "clean"})) :
         /\ stack' = Pushed(stack, t, f) /\ Len(f) > 0
         /\ \A i \in 2..Len(f) : f[i].at \notin {"changed", "connect"}
         /\ \/ f[1].at = "clean" /\ note' = note
            \/ \E error : note' = [note EXCEPT ![t] = Status("Connecting", error, FALSE)]
  <2>1. CASE rec.state = sess[n].state
    <3>1. stack' = Pushed(stack, t, <<Frame("clean", 0)>>)
      BY <1>3, <2>1 DEF SetSession, Continue, Pushed
    <3>2. Len(<<Frame("clean", 0)>>) > 0 /\ \A i \in 2..Len(<<Frame("clean", 0)>>) : FALSE
      OBVIOUS
    <3>3. <<Frame("clean", 0)>>[1].at = "clean" /\ note' = note
      BY <1>6, <2>1 DEF Frame
    <3> QED
      BY <1>7, <3>1, <3>2, <3>3
  <2>2. CASE rec.state # sess[n].state
    <3> PICK f : f = <<Frame("changed", n)>> \o <<Frame("clean", 0)>>
      OBVIOUS
    <3>1. stack' = Pushed(stack, t, f) /\ f \in Seq(FramesOf({"changed", "clean"}))
      BY <1>3, <1>7, <2>2 DEF SetSession, Continue, Pushed
    <3>2. Len(f) > 0 /\ \A i \in 1..Len(f) : f[i].at \in Telling => i = 1
      BY <1>2, StartFrames
    <3>3. f \in Seq(Frames) /\ \A l : Has(f, l) => l \in {"changed", "clean"}
      BY <3>1, LabelsOf
    <3>4. ASSUME NEW i \in 2..Len(f) PROVE f[i].at \notin {"changed", "connect"}
      <4>1. i \in 1..Len(f) /\ i # 1
        BY <3>3
      <4> QED
        BY <3>2, <3>3, <4>1 DEF Telling, Has
    <3>5. \E error : note' = [note EXCEPT ![t] = Status("Connecting", error, FALSE)]
      BY <1>6, <2>2
    <3> QED
      BY <3>1, <3>2, <3>4, <3>5
  <2> QED
    BY <2>1, <2>2
<1>9. \E f \in Seq(Frames) :
         /\ stack' = Pushed(stack, t, f) /\ Len(f) > 0
         /\ \A l : Has(f, l) => l \in {"changed", "clean"}
         /\ \A i \in 2..Len(f) : f[i].at \notin {"changed", "connect"}
         /\ \/ f[1].at = "clean" /\ note' = note
            \/ \E error : note' = [note EXCEPT ![t] = Status("Connecting", error, FALSE)]
  BY <1>8, LabelsOf
<1> QED
  BY <1>0, <1>2, <1>5, <1>9

\* A Connect exchanges its chance for the session it starts.
LEMMA StartBounded ==
  ASSUME Exclusive, TypeOK', Bounded, OutcomesInv', NEW t \in Threads, StartSession(t)
  PROVE  Bounded'
<1>t. TypeOK
  BY DEF Exclusive
<1> PICK n : n = session + 1
  OBVIOUS
<1> PICK f \in Seq(Frames) :
      /\ stack' = Pushed(stack, t, f) /\ Len(f) > 0
      /\ \A l : Has(f, l) => l \in {"changed", "clean"}
      /\ \A i \in 2..Len(f) : f[i].at \notin {"changed", "connect"}
      /\ \/ f[1].at = "clean" /\ note' = note
         \/ \E error : note' = [note EXCEPT ![t] = Status("Connecting", error, FALSE)]
  BY <1>t, StartPushes
<1>1. /\ n \in Sessions /\ session' = n /\ session \in Nat
      /\ sess'[n].state = "Connecting"
      /\ \A s \in 0..MaxSessions : s # n => sess'[s] = sess[s]
      /\ stack[t] # <<>> /\ Head(stack[t]).at = "connect" /\ lock = NoThread
  BY <1>t, StartPushes
<1>2. /\ regions' = regions /\ latestSelectedRegion' = latestSelectedRegion /\ arg' = arg
      /\ process' = process /\ reconnects' = reconnects /\ calls' = calls
      /\ reconnectAttempts' = reconnectAttempts
  BY <1>t, StartPushes DEF engineVars
<1>3. n \in Nat /\ n # 0 /\ session < n /\ 0 \in 0..MaxSessions /\ n \in 0..MaxSessions
  BY <1>1, BoundsAssumption DEF Sessions
<1>4. /\ \A u \in Threads : u # t => stack'[u] = stack[u]
      /\ ShapedInv' /\ Head(stack'[t]) = f[1] /\ stack'[t] # <<>>
      /\ \A l : Has(stack'[t], l) => l \in {"changed", "clean"} \/ Has(stack[t], l)
  <2>1. \A u \in Threads : u # t => stack'[u] = stack[u]
    BY <1>t, <1>1, Moved DEF Bounded
  <2>2. ShapedInv' /\ Head(stack'[t]) = f[1] /\ stack'[t] # <<>>
    BY <1>t, <1>1, Moved DEF Bounded
  <2>3. \A l : Has(stack'[t], l) => l \in {"changed", "clean"} \/ Has(stack[t], l)
    BY <1>t, <1>1, Stepped
  <2> QED
    BY <2>1, <2>2, <2>3
<1>5. f[1].at \in {"changed", "clean"}
  <2>1. 1 \in 1..Len(f)
    OBVIOUS
  <2> QED
    BY <2>1 DEF Has
<1>6. ~Told(t) /\ ~At(t, "changed") /\ At(t, "connect")
  BY <1>1 DEF Told, At
<1>7. /\ ~note'[t].reconnect /\ note'[t].newState # "Connected"
      /\ At(t, "changed")' => note'[t].newState # "Disconnected"
      /\ \A u \in Threads : u # t => note'[u] = note[u]
  <2>1. ~note[t].reconnect /\ note[t].newState # "Connected"
    BY <1>6 DEF Bounded, NotesInv
  <2>2. CASE f[1].at = "clean" /\ note' = note
    BY <1>4, <2>1, <2>2 DEF At
  <2>3. CASE \E error : note' = [note EXCEPT ![t] = Status("Connecting", error, FALSE)]
    BY <1>t, <2>3 DEF TypeOK, Status
  <2> QED
    BY <2>2, <2>3
<1>8. ~At(t, "connect")'
  BY <1>4, <1>5 DEF At
<1>9. \A s \in Sessions : Over(s) => Over(s)'
  <2>1. \A u \in Threads : Has(stack'[u], "read") => Has(stack[u], "read")
    BY <1>4
  <2> QED
    BY <1>2, <2>1, SessionThreads DEF Over, Taken
<1>10. UnlockInv'
  <2> SUFFICES ASSUME NEW u \in Threads, Has(stack'[u], "sessionDisconnect") PROVE Has(stack'[u], "unlock")
    BY DEF UnlockInv
  <2>1. u # t
    BY <1>1, <1>4, FreeLock DEF LockedLabels
  <2> QED
    BY <1>4, <2>1 DEF Bounded, UnlockInv
<1>11. StartingInv' /\ sess'[0].state = "Disconnected"
  BY <1>1, <1>3 DEF Bounded, StartingInv
<1>12. NotesInv'
  <2> SUFFICES ASSUME NEW u \in Threads, u # t
               PROVE  /\ note'[u].reconnect => Told(u)'
                      /\ note'[u].newState = "Connected" =>
                           /\ At(u, "changed")' \/ Told(u)'
                           /\ \E s \in Sessions : u = Reader(s) /\ ~Over(s)'
    BY <1>7 DEF NotesInv
  <2>1. stack'[u] = stack[u] /\ note'[u] = note[u]
    BY <1>4, <1>7
  <2>2. (Told(u)' <=> Told(u)) /\ (At(u, "changed")' <=> At(u, "changed"))
    BY <2>1 DEF Told, At
  <2>3. \A s \in Sessions : u = Reader(s) => (Over(s)' => Over(s))
    BY <1>2, <2>1 DEF Over, Taken
  <2> QED
    BY <2>1, <2>2, <2>3 DEF Bounded, NotesInv
<1>13. \A u \in Threads : \A s \in 0..MaxSessions : Dying(u, s)' => u # t /\ Dying(u, s)
  <2> SUFFICES ASSUME NEW u \in Threads, NEW s \in 0..MaxSessions, Dying(u, s)' PROVE u # t /\ Dying(u, s)
    OBVIOUS
  <2>1. u # t
    BY <1>7 DEF Dying
  <2>2. stack'[u] = stack[u] /\ note'[u] = note[u]
    BY <1>4, <1>7, <2>1
  <2> QED
    BY <2>1, <2>2 DEF Dying, At, Subject
<1>14. DyingInv'
  <2> SUFFICES ASSUME NEW u \in Threads, NEW s \in 0..MaxSessions, Dying(u, s)'
               PROVE  /\ s \in Sessions /\ s <= session'
                      /\ sess'[s].state = "Disconnected" /\ Over(s)'
                      /\ \A v \in Threads : Dying(v, s)' => v = u
    BY DEF DyingInv
  <2>1. /\ s \in Sessions /\ s <= session
        /\ sess[s].state = "Disconnected" /\ Over(s)
        /\ \A v \in Threads : Dying(v, s) => v = u
    BY <1>13 DEF Bounded, DyingInv
  <2>2. s \in Nat /\ s # n /\ s <= n
    BY <1>1, <1>3, <2>1 DEF Sessions
  <2> QED
    BY <1>1, <1>9, <1>13, <2>1, <2>2
<1>15. ChancesInv'
  <2>1. <<"connect", t>> \in Chances
    BY <1>6 DEF Chances
  <2>2. \A s \in Sessions : Live(s)' => s = n \/ Live(s)
    BY <1>1, <1>9, <1>13, SessionThreads DEF Live
  <2>3. \A u \in Threads : At(u, "connect")' => u # t /\ At(u, "connect")
    BY <1>4, <1>8 DEF At
  <2>4. \A u \in Threads : note'[u].reconnect => note[u].reconnect
    BY <1>7
  <2>5. ASSUME NEW x \in Chances' PROVE x = <<"session", n>> \/ (x \in Chances /\ x # <<"connect", t>>)
    <3>1. CASE x \in {<<"note", u>> : u \in {v \in Threads : note'[v].reconnect}}
      BY <2>4, <3>1 DEF Chances
    <3>2. CASE x \in {<<"connect", u>> : u \in {v \in Threads : At(v, "connect")'}}
      BY <2>3, <3>2 DEF Chances
    <3>3. CASE x \in {<<"session", s>> : s \in {r \in Sessions : Live(r)'}}
      BY <2>2, <3>3 DEF Chances
    <3>4. CASE x \in {<<"queue", i>> : i \in 1..reconnects}
      BY <3>4 DEF Chances
    <3> QED
      BY <1>2, <2>5, <3>1, <3>2, <3>3, <3>4 DEF Chances
  <2>6. Chances' \subseteq (Chances \ {<<"connect", t>>}) \cup {<<"session", n>>}
    BY <2>5
  <2> QED
    BY <1>t, <1>2, <2>1, <2>6, ChancesExchanged DEF Bounded
<1>16. AttemptsInv'
  <2>1. \A u \in Threads : note'[u].reconnect => note[u].reconnect
    BY <1>7
  <2>2. calls' >= calls
    BY <1>t, <1>2 DEF TypeOK
  <2>3. InFlight(t)
    <3>1. Has(stack[t], Head(stack[t]).at)
      BY <1>1, InsideLock
    <3> QED
      BY <1>1, <3>1 DEF InFlight
  <2>4. \A u \in Threads : InFlight(u)' => InFlight(u)
    BY <1>4, <2>3 DEF InFlight
  <2>5. \A r \in 1..Len(regions) : Held(r)' => Held(r)
    BY <1>t, <1>2, <2>4, HeldKept
  <2> QED
    BY <1>t, <1>2, <2>1, <2>2, <2>5, AttemptsKept DEF Bounded
<1> QED
  BY <1>4, <1>10, <1>11, <1>12, <1>14, <1>15, <1>16 DEF Bounded

\* What a step of t that tells its status leaves alone.
Relates(t, f) ==
  /\ stack[t] # <<>> /\ Head(stack[t]).at \in Telling \cup {"after"}
  /\ f \in Seq(FramesOf(TameLabels)) /\ Continue(t, f)
  /\ \A u \in Threads : u # t => note'[u] = note[u]
  /\ session' = session /\ sess' = sess /\ process' = process /\ calls' = calls
  /\ latestSelectedRegion' = latestSelectedRegion /\ arg' = arg

\* No session comes back by that, and one whose end is told is gone.
LEMMA RelatesEffect ==
  ASSUME Exclusive, Bounded, NEW t \in Threads, NEW f, Relates(t, f)
  PROVE  /\ f \in Seq(Frames) /\ stack' = Pushed(stack, t, f)
         /\ \A u \in Threads : u # t => stack'[u] = stack[u]
         /\ ShapedInv' /\ UnlockInv'
         /\ Starting' => Starting
         /\ \A s \in Sessions : Over(s)' <=> Over(s)
         /\ \A u \in Threads : \A s \in 0..MaxSessions : Dying(u, s)' => u # t /\ Dying(u, s)
         /\ \A s \in Sessions : Live(s)' => Live(s) /\ ~Dying(t, s)
         /\ \A u \in Threads : At(u, "connect")' => At(u, "connect")
         /\ \A r \in 1..Len(regions) : Held(r)' => Held(r)
<1>t. TypeOK
  BY DEF Exclusive
<1>0. /\ stack[t] # <<>> /\ Head(stack[t]).at \in Telling \cup {"after"}
      /\ f \in Seq(FramesOf(TameLabels)) /\ Continue(t, f)
      /\ \A u \in Threads : u # t => note'[u] = note[u]
      /\ session' = session /\ sess' = sess /\ process' = process
      /\ latestSelectedRegion' = latestSelectedRegion /\ arg' = arg
  BY DEF Relates
<1>1. f \in Seq(Frames) /\ Tame(stack[t], f) /\ ~Has(f, "changed") /\ ~Has(f, "read")
  BY <1>0, TameOf
<1>2. stack' = Pushed(stack, t, f)
  BY <1>0 DEF Continue, Pushed
<1>3. /\ \A u \in Threads : u # t => stack'[u] = stack[u]
      /\ ShapedInv' /\ UnlockInv'
      /\ Starting' => Starting
      /\ ~At(t, "changed")' /\ ~At(t, "connect")'
      /\ \A u \in Threads : InFlight(u)' => InFlight(u)
  BY <1>0, <1>1, <1>2, TameFrames, Zenon DEF Bounded
<1>4. \A s \in Sessions : Over(s)' <=> Over(s)
  <2>1. Head(stack[t]).at # "read"
    BY <1>0 DEF Telling
  <2> QED
    BY <1>t, <1>0, <1>1, <1>2, <2>1, OverKept
<1>5. \A u \in Threads : \A s \in 0..MaxSessions : Dying(u, s)' => u # t /\ Dying(u, s)
  <2> SUFFICES ASSUME NEW u \in Threads, NEW s \in 0..MaxSessions, Dying(u, s)' PROVE u # t /\ Dying(u, s)
    OBVIOUS
  <2>1. u # t
    BY <1>3 DEF Dying
  <2>2. stack'[u] = stack[u] /\ note'[u] = note[u]
    BY <1>0, <1>3, <2>1
  <2> QED
    BY <2>1, <2>2 DEF Dying, At, Subject
<1>6. ASSUME NEW s \in Sessions, Live(s)' PROVE Live(s) /\ ~Dying(t, s)
  <2>0. s \in 0..MaxSessions
    BY SessionThreads
  <2>1. Live(s)
    BY <1>0, <1>4, <1>5, <1>6, <2>0 DEF Live
  <2>2. ASSUME Dying(t, s) PROVE FALSE
    <3>1. /\ sess[s].state = "Disconnected" /\ Over(s)
          /\ \A u \in Threads : Dying(u, s) => u = t
      BY <2>0, <2>2 DEF Bounded, DyingInv
    <3>2. PICK u \in Threads : Dying(u, s)'
      BY <1>0, <1>4, <1>6, <3>1 DEF Live
    <3> QED
      BY <1>5, <2>0, <3>1, <3>2
  <2> QED
    BY <2>1, <2>2
<1>7. \A u \in Threads : At(u, "connect")' => At(u, "connect")
  BY <1>3 DEF At
<1>8. \A r \in 1..Len(regions) : Held(r)' => Held(r)
  BY <1>t, <1>0, <1>3, HeldKept
<1> QED
  BY <1>1, <1>2, <1>3, <1>4, <1>5, <1>6, <1>7, <1>8

\* It keeps the invariant if what is told afterwards is as it should be.
LEMMA RelatesKeeps ==
  ASSUME Exclusive, TypeOK', Bounded, OutcomesInv', NEW t \in Threads, NEW f, Relates(t, f),
         note'[t].reconnect => Told(t)',
         note'[t].newState = "Connected" => Told(t)' /\ note[t].newState = "Connected",
         ChancesInv', AttemptsInv'
  PROVE  Bounded'
<1>0. /\ \A u \in Threads : u # t => note'[u] = note[u]
      /\ session' = session /\ sess' = sess
  BY DEF Relates
<1>1. /\ \A u \in Threads : u # t => stack'[u] = stack[u]
      /\ ShapedInv' /\ UnlockInv'
      /\ Starting' => Starting
  BY RelatesEffect
<1>2. /\ \A s \in Sessions : Over(s)' <=> Over(s)
      /\ \A u \in Threads : \A s \in 0..MaxSessions : Dying(u, s)' => u # t /\ Dying(u, s)
  BY RelatesEffect
<1>3. NotesInv'
  <2> SUFFICES ASSUME NEW u \in Threads
               PROVE  /\ note'[u].reconnect => Told(u)'
                      /\ note'[u].newState = "Connected" =>
                           /\ At(u, "changed")' \/ Told(u)'
                           /\ \E s \in Sessions : u = Reader(s) /\ ~Over(s)'
    BY DEF NotesInv
  <2>1. CASE u = t
    BY <1>2, <2>1 DEF Bounded, NotesInv
  <2>2. CASE u # t
    <3>1. stack'[u] = stack[u] /\ note'[u] = note[u]
      BY <1>0, <1>1, <2>2
    <3>2. (Told(u)' <=> Told(u)) /\ (At(u, "changed")' <=> At(u, "changed"))
      BY <3>1 DEF Told, At
    <3> QED
      BY <1>2, <2>2, <3>1, <3>2 DEF Bounded, NotesInv
  <2> QED
    BY <2>1, <2>2
<1>4. DyingInv'
  BY <1>0, <1>2 DEF Bounded, DyingInv
<1>5. StartingInv' /\ sess'[0].state = "Disconnected"
  BY <1>0, <1>1 DEF Bounded, StartingInv
<1> QED
  BY <1>1, <1>3, <1>4, <1>5 DEF Bounded

\* The subscriber of a status changes nothing about it.
LEMMA ToldBounded ==
  ASSUME Exclusive, TypeOK', Bounded, OutcomesInv', NEW t \in Threads,
         Invoke(t) \/ Enable(t) \/ Unblock(t) \/ Forget(t)
  PROVE  Bounded'
<1>t. TypeOK
  BY DEF Exclusive
<1>0. /\ stack[t] # <<>> /\ Head(stack[t]).at \in {"invoke", "enable", "unblock", "forget"}
      /\ \E l \in {"enable", "unblock", "forget"} : Continue(t, <<Frame(l, 0)>>) \/ Continue(t, <<>>)
      /\ note' = note /\ session' = session /\ sess' = sess /\ process' = process /\ calls' = calls
      /\ latestSelectedRegion' = latestSelectedRegion /\ arg' = arg
      /\ reconnects' = reconnects /\ regions' = regions /\ reconnectAttempts' = reconnectAttempts
  <2>1. CASE Invoke(t)
    BY <2>1 DEF Invoke, At, sessionVars, engineVars, systemVars, clientVars
  <2>2. CASE Enable(t)
    BY <2>2 DEF Enable, At, sessionVars, engineVars, systemVars, clientVars
  <2>3. CASE Forget(t)
    BY <2>3 DEF Forget, At, sessionVars, engineVars, systemVars, clientVars
  <2>4. CASE Unblock(t)
    BY <2>4 DEF Unblock, At, sessionVars, engineVars, systemVars, clientVars
  <2> QED
    BY <2>1, <2>2, <2>3, <2>4
<1>1. 0 \in 0..MaxSessions
  BY BoundsAssumption
<1>2. /\ <<>> \in Seq(FramesOf(TameLabels)) /\ Len(<<>>) = 0
      /\ \A l \in {"enable", "unblock", "forget"} : 
           /\ <<Frame(l, 0)>> \in Seq(FramesOf(TameLabels)) /\ Len(<<Frame(l, 0)>>) = 1
           /\ <<Frame(l, 0)>>[1].at = l
  BY <1>1, TameFew DEF Frame
<1> PICK f \in Seq(FramesOf(TameLabels)) :
      Continue(t, f) /\ (Len(f) = 0 \/ (Len(f) = 1 /\ f[1].at \in {"enable", "unblock", "forget"}))
  BY <1>0, <1>2
<1>3. Relates(t, f)
  BY <1>0 DEF Relates, Telling
<1>4. f \in Seq(Frames) /\ stack' = Pushed(stack, t, f)
  BY <1>3, RelatesEffect
<1>5. /\ Len(f) = 1 => stack'[t] # <<>> /\ Head(stack'[t]) = f[1]
      /\ Len(f) = 0 /\ Len(stack[t]) > 1 => stack'[t] # <<>> /\ Head(stack'[t]) = stack[t][2]
      /\ Len(f) = 1 /\ Len(stack[t]) > 1 => Len(stack'[t]) > 1 /\ stack'[t][2] = stack[t][2]
  <2>1. \A i \in 2..Len(f) : f[i].at \notin {"changed", "connect"}
    OBVIOUS
  <2> QED
    BY <1>t, <1>0, <1>4, <2>1, Moved DEF Bounded
<1>6. Told(t) => Told(t)'
  <2> SUFFICES ASSUME Len(stack[t]) > 1, stack[t][2].at = "after" PROVE Told(t)'
    BY <1>0 DEF Told
  <2>1. CASE Len(f) = 0
    BY <1>5, <2>1 DEF Told
  <2>2. CASE Len(f) = 1 /\ f[1].at \in {"enable", "unblock", "forget"}
    BY <1>5, <2>2 DEF Told
  <2> QED
    BY <2>1, <2>2
<1>7. /\ note[t].reconnect => Told(t)
      /\ note[t].newState = "Connected" => Told(t)
  <2>1. ~At(t, "changed")
    BY <1>0 DEF At
  <2> QED
    BY <2>1 DEF Bounded, NotesInv
<1>8. /\ \A u \in Threads : note'[u].reconnect => note[u].reconnect
      /\ reconnects' <= reconnects /\ calls' >= calls
  BY <1>t, <1>0 DEF TypeOK
<1>9. /\ \A s \in Sessions : Live(s)' => Live(s)
      /\ \A u \in Threads : At(u, "connect")' => At(u, "connect")
      /\ \A r \in 1..Len(regions) : Held(r)' => Held(r)
  BY <1>3, RelatesEffect
<1>10. ChancesInv'
  BY <1>t, <1>8, <1>9, ChancesKept DEF Bounded
<1>11. AttemptsInv'
  BY <1>t, <1>0, <1>8, <1>9, AttemptsKept DEF Bounded
<1> QED
  BY <1>0, <1>3, <1>6, <1>7, <1>10, <1>11, RelatesKeeps

\* What OnStateChangedNotification decides: a retry is the first, a fallback takes a protocol away.
LEMMA ChangedEffect ==
  ASSUME TypeOK, NEW t \in Threads, Changed(t)
  PROVE  /\ stack[t] # <<>> /\ Head(stack[t]).at = "changed"
         /\ Continue(t, <<Frame("invoke", 0), Frame("after", 0)>>)
         /\ \A u \in Threads : u # t => note'[u] = note[u]
         /\ session' = session /\ sess' = sess /\ process' = process /\ calls' = calls
         /\ latestSelectedRegion' = latestSelectedRegion /\ arg' = arg /\ reconnects' = reconnects
         /\ note'[t].newState = "Connected" => note[t].newState = "Connected"
         /\ note'[t].reconnect =>
              /\ note[t].newState = "Disconnected" /\ note[t].error \in Retried
              /\ \/ reconnectAttempts = 0 /\ reconnectAttempts' = 1 /\ regions' = regions
                 \/ /\ latestSelectedRegion \in 1..Len(regions) /\ regions[latestSelectedRegion] = "udp"
                    /\ regions' = [regions EXCEPT ![latestSelectedRegion] = "tcp"]
                    /\ reconnectAttempts' = reconnectAttempts
         /\ ~note'[t].reconnect => regions' = regions /\ reconnectAttempts' = reconnectAttempts
<1> DEFINE again == TryReconnecting(note[t], isTriggeredByAutoconnect /\ ~killSwitch, reconnectAttempts,
                                    Protocol(latestSelectedRegion))
<1> DEFINE same == note[t].error \in RetryErrors
<1> DEFINE newState == IF again /\ same THEN "Connecting" ELSE note[t].newState
<1>0. /\ stack[t] # <<>> /\ Head(stack[t]).at = "changed"
      /\ Continue(t, <<Frame("invoke", 0), Frame("after", 0)>>)
      /\ session' = session /\ sess' = sess /\ process' = process /\ calls' = calls
      /\ latestSelectedRegion' = latestSelectedRegion /\ arg' = arg /\ reconnects' = reconnects
  BY DEF Changed, At, sessionVars, systemVars, clientVars
<1>1. /\ \E error : note' = [note EXCEPT ![t] = Status(newState, error, again)]
      /\ reconnectAttempts' = reconnectAttempts + (IF again /\ same THEN 1 ELSE 0)
      /\ regions' = IF again /\ ~same THEN [regions EXCEPT ![latestSelectedRegion] = "tcp"] ELSE regions
  BY Zenon DEF Changed
<1>2. /\ \A u \in Threads : u # t => note'[u] = note[u]
      /\ note'[t].newState = newState /\ note'[t].reconnect = again
  <2> HIDE DEF newState, again
  <2> QED
    BY <1>1 DEF TypeOK, Status
<1>3. again =>
        /\ note[t].newState = "Disconnected"
        /\ \/ note[t].error \in RetryErrors /\ reconnectAttempts < 1
           \/ note[t].error = "GeneralError" /\ Protocol(latestSelectedRegion) = "udp"
  BY Zenon DEF TryReconnecting, TryReconnectDueToOpenVpnError, RetryWithFallbackProtocol
<1>4. Protocol(latestSelectedRegion) = "udp" =>
        latestSelectedRegion \in 1..Len(regions) /\ regions[latestSelectedRegion] = "udp"
  BY DEF Protocol, TypeOK
<1>5. reconnectAttempts \in Nat /\ "GeneralError" \notin RetryErrors
  BY DEF TypeOK, RetryErrors
<1> HIDE DEF again
<1>6. note'[t].newState = "Connected" => note[t].newState = "Connected"
  BY <1>2
<1>7. ASSUME again
      PROVE  /\ note[t].newState = "Disconnected" /\ note[t].error \in Retried
             /\ \/ reconnectAttempts = 0 /\ reconnectAttempts' = 1 /\ regions' = regions
                \/ /\ latestSelectedRegion \in 1..Len(regions) /\ regions[latestSelectedRegion] = "udp"
                   /\ regions' = [regions EXCEPT ![latestSelectedRegion] = "tcp"]
                   /\ reconnectAttempts' = reconnectAttempts
  <2>1. CASE same
    BY <1>1, <1>3, <1>5, <1>7, <2>1 DEF Retried
  <2>2. CASE ~same
    BY <1>1, <1>3, <1>4, <1>5, <1>7, <2>2 DEF Retried
  <2> QED
    BY <2>1, <2>2
<1>8. ~again => regions' = regions /\ reconnectAttempts' = reconnectAttempts
  BY <1>1, <1>5
<1> QED
  BY <1>0, <1>2, <1>6, <1>7, <1>8

\* Less can raise the number of attempts, or one thing in place of another.
LEMMA RaisesExchanged ==
  ASSUME TypeOK, TypeOK', AttemptsInv, calls' = calls,
         \/ /\ reconnectAttempts' = reconnectAttempts
            /\ \/ Raises' \subseteq Raises
               \/ \E x \in Raises : \E y : Raises' \subseteq (Raises \ {x}) \cup {y}
         \/ /\ reconnectAttempts = 0 /\ reconnectAttempts' = 1
            /\ \E y : Raises' \subseteq Raises \cup {y}
         \/ /\ reconnectAttempts' = reconnectAttempts + 1
            /\ \E x \in Raises : Raises' \subseteq Raises \ {x}
  PROVE  AttemptsInv'
<1>1. IsFiniteSet(Raises) /\ Cardinality(Raises) \in Nat
  BY Counted DEF AttemptsInv
<1>2. calls \in Nat /\ reconnectAttempts \in Nat
  BY DEF TypeOK
<1>3. /\ reconnectAttempts = 0 => Cardinality(Raises) <= calls
      /\ reconnectAttempts > 0 => reconnectAttempts + Cardinality(Raises) <= calls + 2
  BY DEF AttemptsInv
<1>4. ASSUME IsFiniteSet(Raises'), Cardinality(Raises') \in Nat,
             reconnectAttempts' = 0 => Cardinality(Raises') <= calls,
             reconnectAttempts' > 0 => reconnectAttempts' + Cardinality(Raises') <= calls + 2
      PROVE  AttemptsInv'
  BY <1>4 DEF AttemptsInv
<1>5. CASE /\ reconnectAttempts' = reconnectAttempts
           /\ \/ Raises' \subseteq Raises
              \/ \E x \in Raises : \E y : Raises' \subseteq (Raises \ {x}) \cup {y}
  <2>1. IsFiniteSet(Raises') /\ Cardinality(Raises') <= Cardinality(Raises)
    BY <1>1, <1>5, Counted
  <2>2. Cardinality(Raises') \in Nat
    BY <1>1, <2>1, Counted
  <2>3. /\ reconnectAttempts' = 0 => Cardinality(Raises') <= calls
        /\ reconnectAttempts' > 0 => reconnectAttempts' + Cardinality(Raises') <= calls + 2
    BY <1>1, <1>2, <1>3, <1>5, <2>1, <2>2
  <2> QED
    BY <1>4, <2>1, <2>2, <2>3
<1>6. CASE /\ reconnectAttempts = 0 /\ reconnectAttempts' = 1
           /\ \E y : Raises' \subseteq Raises \cup {y}
  <2>1. IsFiniteSet(Raises') /\ Cardinality(Raises') <= Cardinality(Raises) + 1
    BY <1>1, <1>6, Counted
  <2>2. Cardinality(Raises') \in Nat
    BY <1>1, <2>1, Counted
  <2>3. /\ reconnectAttempts' = 0 => Cardinality(Raises') <= calls
        /\ reconnectAttempts' > 0 => reconnectAttempts' + Cardinality(Raises') <= calls + 2
    BY <1>1, <1>2, <1>3, <1>6, <2>1, <2>2
  <2> QED
    BY <1>4, <2>1, <2>2, <2>3
<1>7. CASE /\ reconnectAttempts' = reconnectAttempts + 1
           /\ \E x \in Raises : Raises' \subseteq Raises \ {x}
  <2>1. IsFiniteSet(Raises') /\ Cardinality(Raises') <= Cardinality(Raises) - 1
    BY <1>1, <1>7, Counted
  <2>2. Cardinality(Raises') \in Nat
    BY <1>1, <2>1, Counted
  <2>3. /\ reconnectAttempts' = 0 => Cardinality(Raises') <= calls
        /\ reconnectAttempts' > 0 => reconnectAttempts' + Cardinality(Raises') <= calls + 2
    BY <1>1, <1>2, <1>3, <1>7, <2>1, <2>2
  <2> QED
    BY <1>4, <2>1, <2>2, <2>3
<1> QED
  BY <1>5, <1>6, <1>7

\* A change that is answered with a reconnect exchanges the chance of its session, and is the
\* first retry or takes the protocol of the region.
LEMMA ChangedBounded ==
  ASSUME Exclusive, TypeOK', Bounded, OutcomesInv', NEW t \in Threads, Changed(t)
  PROVE  Bounded'
<1>t. TypeOK
  BY DEF Exclusive
<1> PICK f : f = <<Frame("invoke", 0), Frame("after", 0)>>
  OBVIOUS
<1>0. /\ stack[t] # <<>> /\ Head(stack[t]).at = "changed" /\ Continue(t, f)
      /\ \A u \in Threads : u # t => note'[u] = note[u]
      /\ session' = session /\ sess' = sess /\ process' = process /\ calls' = calls
      /\ latestSelectedRegion' = latestSelectedRegion /\ arg' = arg /\ reconnects' = reconnects
      /\ note'[t].newState = "Connected" => note[t].newState = "Connected"
  BY <1>t, ChangedEffect
<1>1. /\ note'[t].reconnect =>
           /\ note[t].newState = "Disconnected" /\ note[t].error \in Retried
           /\ \/ reconnectAttempts = 0 /\ reconnectAttempts' = 1 /\ regions' = regions
              \/ /\ latestSelectedRegion \in 1..Len(regions) /\ regions[latestSelectedRegion] = "udp"
                 /\ regions' = [regions EXCEPT ![latestSelectedRegion] = "tcp"]
                 /\ reconnectAttempts' = reconnectAttempts
      /\ ~note'[t].reconnect => regions' = regions /\ reconnectAttempts' = reconnectAttempts
  BY <1>t, ChangedEffect
<1>2. /\ f \in Seq(FramesOf(TameLabels)) /\ Len(f) = 2 /\ f[1].at = "invoke" /\ f[2].at = "after"
  <2>1. 0 \in 0..MaxSessions /\ "invoke" \in TameLabels /\ "after" \in TameLabels
    BY BoundsAssumption DEF TameLabels, Labels, BeforeReader
  <2> QED
    BY <2>1, TameFew DEF Frame
<1>3. Relates(t, f)
  BY <1>0, <1>2 DEF Relates, Telling
<1>4. f \in Seq(Frames) /\ stack' = Pushed(stack, t, f)
  BY <1>3, RelatesEffect
<1>5. Told(t)'
  <2>1. /\ stack'[t] # <<>> /\ Head(stack'[t]) = f[1]
        /\ Len(stack'[t]) > 1 /\ stack'[t][2] = f[2]
    <3>1. \A i \in 2..Len(f) : f[i].at \notin {"changed", "connect"}
      BY <1>2
    <3>2. Len(f) > 0 /\ Len(f) >= 2 /\ ShapedInv
      BY <1>2 DEF Bounded
    <3>3. /\ Len(f) > 0 => stack'[t] # <<>> /\ Head(stack'[t]) = f[1]
          /\ Len(f) >= 2 => Len(stack'[t]) > 1 /\ stack'[t][2] = f[2]
      BY <1>t, <1>0, <1>4, <3>1, <3>2, Moved
    <3> QED
      BY <3>2, <3>3
  <2> QED
    BY <1>2, <2>1 DEF Told
<1>6. /\ \A s \in Sessions : Live(s)' => Live(s) /\ ~Dying(t, s)
      /\ \A u \in Threads : At(u, "connect")' => At(u, "connect")
      /\ \A r \in 1..Len(regions) : Held(r)' => Held(r)
  BY <1>3, RelatesEffect
<1>7. \A u \in Threads : note'[u].reconnect => (u # t /\ note[u].reconnect) \/ (u = t /\ note'[t].reconnect)
  BY <1>0
<1>8. ChancesInv'
  <2>1. CASE note'[t].reconnect
    <3> PICK s : s = Subject(t)
      OBVIOUS
    <3>1. s \in 0..MaxSessions
      BY <1>t, <1>0, Innermost DEF TypeOK, Subject, Frames
    <3>2. Dying(t, s)
      BY <1>0, <1>1, <2>1 DEF Dying, At
    <3>3. s \in Sessions /\ Live(s)
      BY <3>1, <3>2 DEF Bounded, DyingInv, Live
    <3>4. <<"session", s>> \in Chances
      BY <3>3 DEF Chances
    <3>5. ASSUME NEW x \in Chances' PROVE x = <<"note", t>> \/ (x \in Chances /\ x # <<"session", s>>)
      <4>1. CASE x \in {<<"note", u>> : u \in {v \in Threads : note'[v].reconnect}}
        BY <1>7, <4>1 DEF Chances
      <4>2. CASE x \in {<<"connect", u>> : u \in {v \in Threads : At(v, "connect")'}}
        BY <1>6, <4>2 DEF Chances
      <4>3. CASE x \in {<<"session", r>> : r \in {q \in Sessions : Live(q)'}}
        BY <1>6, <3>2, <4>3 DEF Chances
      <4>4. CASE x \in {<<"queue", i>> : i \in 1..reconnects}
        BY <4>4 DEF Chances
      <4> QED
        BY <1>0, <3>5, <4>1, <4>2, <4>3, <4>4 DEF Chances
    <3>6. Chances' \subseteq (Chances \ {<<"session", s>>}) \cup {<<"note", t>>}
      BY <3>5
    <3> QED
      BY <1>t, <1>0, <3>4, <3>6, ChancesExchanged DEF Bounded
  <2>2. CASE ~note'[t].reconnect
    <3>1. reconnects' <= reconnects /\ calls' >= calls
      BY <1>t, <1>0 DEF TypeOK
    <3> QED
      BY <1>t, <1>6, <1>7, <2>2, <3>1, ChancesKept DEF Bounded
  <2> QED
    BY <2>1, <2>2
<1>9. AttemptsInv'
  <2>1. CASE note'[t].reconnect /\ regions' = regions /\ reconnectAttempts = 0 /\ reconnectAttempts' = 1
    <3>1. ASSUME NEW x \in Raises' PROVE x = <<"note", t>> \/ x \in Raises
      <4>1. CASE x \in {<<"note", u>> : u \in {v \in Threads : note'[v].reconnect}}
        BY <1>7, <4>1 DEF Raises
      <4>2. CASE x \in {<<"region", r>> : r \in {q \in 1..Len(regions) : regions[q] = "udp" /\ Held(q)'}}
        BY <1>6, <4>2 DEF Raises
      <4> QED
        BY <2>1, <3>1, <4>1, <4>2 DEF Raises
    <3>2. Raises' \subseteq Raises \cup {<<"note", t>>}
      BY <3>1
    <3> QED
      BY <1>t, <1>0, <2>1, <3>2, RaisesExchanged DEF Bounded
  <2>2. CASE /\ note'[t].reconnect
             /\ latestSelectedRegion \in 1..Len(regions) /\ regions[latestSelectedRegion] = "udp"
             /\ regions' = [regions EXCEPT ![latestSelectedRegion] = "tcp"]
             /\ reconnectAttempts' = reconnectAttempts
    <3> PICK r : r = latestSelectedRegion
      OBVIOUS
    <3>1. <<"region", r>> \in Raises
      BY <2>2 DEF Raises, Held
    <3>2. /\ Len(regions') = Len(regions)
          /\ \A q \in 1..Len(regions) : regions'[q] = "udp" => q # r /\ regions[q] = "udp"
      BY <1>t, <2>2 DEF TypeOK
    <3>3. ASSUME NEW x \in Raises' PROVE x = <<"note", t>> \/ (x \in Raises /\ x # <<"region", r>>)
      <4>1. CASE x \in {<<"note", u>> : u \in {v \in Threads : note'[v].reconnect}}
        BY <1>7, <4>1 DEF Raises
      <4>2. CASE x \in {<<"region", q>> : q \in {p \in 1..Len(regions') : regions'[p] = "udp" /\ Held(p)'}}
        BY <1>6, <3>2, <4>2 DEF Raises
      <4> QED
        BY <3>3, <4>1, <4>2 DEF Raises
    <3>4. Raises' \subseteq (Raises \ {<<"region", r>>}) \cup {<<"note", t>>}
      BY <3>3
    <3> QED
      BY <1>t, <1>0, <2>2, <3>1, <3>4, RaisesExchanged DEF Bounded
  <2>3. CASE ~note'[t].reconnect
    <3>1. regions' = regions /\ reconnectAttempts' = reconnectAttempts /\ calls' >= calls
      BY <1>t, <1>0, <1>1, <2>3 DEF TypeOK
    <3> QED
      BY <1>t, <1>6, <1>7, <2>3, <3>1, AttemptsKept DEF Bounded
  <2> QED
    BY <1>1, <2>1, <2>2, <2>3
<1> QED
  BY <1>0, <1>3, <1>5, <1>8, <1>9, RelatesKeeps

\* Whoever tells of a connection owes all that can still raise the attempts to the calls alone.
LEMMA RaisesPaid ==
  ASSUME Exclusive, ReadersInv, Bounded, NEW t \in Threads, note[t].newState = "Connected"
  PROVE  IsFiniteSet(Raises) /\ Cardinality(Raises) <= calls
<1>t. TypeOK
  BY DEF Exclusive
<1>1. PICK s \in Sessions : t = Reader(s) /\ ~Over(s)
  BY DEF Bounded, NotesInv
<1>2. stack[Reader(s)] # <<>> /\ Live(s)
  BY <1>1 DEF Over, Has, Live
<1> DEFINE Image(x) ==
      IF x[1] = "note" THEN x
      ELSE IF x[1] = "connect" THEN <<"region", arg[x[2]].region>>
      ELSE IF x = <<"session", s>> THEN <<"region", latestSelectedRegion>>
      ELSE <<"region", arg[lock].region>>
<1> DEFINE g == [x \in Chances |-> Image(x)]
<1>3. ASSUME NEW y \in Raises PROVE \E x \in Chances : y = Image(x)
  <2>1. CASE y \in {<<"note", u>> : u \in {v \in Threads : note[v].reconnect}}
    <3>1. PICK u \in Threads : y = <<"note", u>> /\ note[u].reconnect
      BY <2>1
    <3>2. <<"note", u>> \in Chances
      BY <3>1 DEF Chances
    <3>3. y = Image(<<"note", u>>)
      BY <3>1
    <3> QED
      BY <3>2, <3>3
  <2>2. CASE y \in {<<"region", r>> : r \in {x \in 1..Len(regions) : regions[x] = "udp" /\ Held(x)}}
    <3>1. PICK r \in 1..Len(regions) : y = <<"region", r>> /\ Held(r)
      BY <2>2
    <3>2. CASE r = latestSelectedRegion
      <4>1. <<"session", s>> \in Chances
        BY <1>2 DEF Chances
      <4>2. y = Image(<<"session", s>>)
        BY <3>1, <3>2
      <4> QED
        BY <4>1, <4>2
    <3>3. ASSUME NEW u \in Threads, InFlight(u), arg[u].region = r
          PROVE  \E x \in Chances : y = Image(x)
      <4>1. CASE Has(stack[u], "connect")
        <5>1. At(u, "connect")
          BY <1>t, <4>1, OnlyConnect DEF Bounded
        <5>2. <<"connect", u>> \in Chances
          BY <5>1 DEF Chances
        <5>3. y = Image(<<"connect", u>>)
          BY <3>1, <3>3
        <5> QED
          BY <5>2, <5>3
      <4>2. ASSUME NEW l \in {"clean", "prepare", "launch"}, Has(stack[u], l)
            PROVE  \E x \in Chances : y = Image(x)
        <5>1. Starting
          BY <4>2 DEF Starting, BeforeReader
        <5>2. session \in Sessions /\ stack[Reader(session)] = <<>> /\ sess[session].state # "Disconnected"
          BY <5>1 DEF ReadersInv, Unstarted, Bounded, StartingInv
        <5>3. session # s /\ Live(session)
          BY <1>2, <5>2 DEF Live
        <5>4. lock = u
          <6>1. stack[u] # <<>>
            BY <4>2 DEF Has
          <6>2. l \in LockedLabels
            BY DEF LockedLabels, LastLabels
          <6> QED
            BY <4>2, <6>1, <6>2, InsideLock
        <5>5. <<"session", session>> \in Chances
          BY <5>2, <5>3 DEF Chances
        <5>6. y = Image(<<"session", session>>)
          BY <3>1, <3>3, <5>3, <5>4
        <5> QED
          BY <5>5, <5>6
      <4> QED
        BY <3>3, <4>1, <4>2 DEF InFlight
    <3> QED
      BY <3>1, <3>2, <3>3 DEF Held
  <2> QED
    BY <2>1, <2>2 DEF Raises
<1>4. ASSUME NEW y \in Raises PROVE \E x \in Chances : y = g[x]
  BY <1>3
<1> HIDE DEF g, Image
<1>5. IsFiniteSet(Chances) /\ Cardinality(Chances) <= calls /\ Cardinality(Chances) \in Nat
  BY Counted DEF Bounded, ChancesInv
<1>6. IsFiniteSet(Raises) /\ Cardinality(Raises) <= Cardinality(Chances)
  BY <1>4, <1>5, CountedImage
<1>7. Cardinality(Raises) \in Nat /\ calls \in Nat
  BY <1>t, <1>6, Counted DEF TypeOK
<1> QED
  BY <1>5, <1>6, <1>7

\* The end of a status queues the reconnect it asks for, or forgets the attempts of a connection.
LEMMA AfterBounded ==
  ASSUME Exclusive, ReadersInv, TypeOK', Bounded, OutcomesInv', NEW t \in Threads, After(t)
  PROVE  Bounded'
<1>t. TypeOK
  BY DEF Exclusive
<1>0. /\ stack[t] # <<>> /\ Head(stack[t]).at = "after"
      /\ Continue(t, <<Frame("stop", 0)>>) \/ Continue(t, <<>>)
      /\ note' = [note EXCEPT ![t] = NoNote]
      /\ session' = session /\ sess' = sess /\ process' = process /\ calls' = calls
      /\ latestSelectedRegion' = latestSelectedRegion /\ arg' = arg /\ regions' = regions
  BY DEF After, At, sessionVars, systemVars, clientVars
<1>1. /\ reconnectAttempts' = IF note[t].reconnect THEN reconnectAttempts + 1
                              ELSE IF note[t].newState = "Connected" THEN 0
                              ELSE reconnectAttempts
      /\ reconnects' = reconnects + (IF note[t].reconnect THEN 1 ELSE 0)
  BY Zenon DEF After
<1>2. <<>> \in Seq(FramesOf(TameLabels)) /\ <<Frame("stop", 0)>> \in Seq(FramesOf(TameLabels))
  <2>1. 0 \in 0..MaxSessions /\ "stop" \in TameLabels
    BY BoundsAssumption DEF TameLabels, Labels, BeforeReader
  <2> QED
    BY <2>1, TameFew
<1>3. /\ \A u \in Threads : u # t => note'[u] = note[u]
      /\ ~note'[t].reconnect /\ note'[t].newState = "Disconnected"
  BY <1>t, <1>0 DEF TypeOK, NoNote, Status
<1> PICK f \in Seq(FramesOf(TameLabels)) : Continue(t, f)
  BY <1>0, <1>2
<1>4. Relates(t, f)
  BY <1>0, <1>3 DEF Relates
<1>5. /\ \A s \in Sessions : Live(s)' => Live(s)
      /\ \A u \in Threads : At(u, "connect")' => At(u, "connect")
      /\ \A r \in 1..Len(regions) : Held(r)' => Held(r)
  BY <1>4, RelatesEffect
<1>6. \A u \in Threads : note'[u].reconnect => u # t /\ note[u].reconnect
  BY <1>3
<1>7. reconnects \in Nat /\ calls \in Nat /\ reconnectAttempts \in Nat
  BY <1>t DEF TypeOK
<1>8. ASSUME NEW x \in Raises' PROVE x \in Raises /\ x # <<"note", t>>
  <2>1. CASE x \in {<<"note", u>> : u \in {v \in Threads : note'[v].reconnect}}
    BY <1>6, <2>1 DEF Raises
  <2>2. CASE x \in {<<"region", r>> : r \in {q \in 1..Len(regions) : regions[q] = "udp" /\ Held(q)'}}
    BY <1>5, <2>2 DEF Raises
  <2> QED
    BY <1>0, <1>8, <2>1, <2>2 DEF Raises
<1>9. ChancesInv'
  <2>1. CASE note[t].reconnect
    <3>1. <<"note", t>> \in Chances
      BY <2>1 DEF Chances
    <3> PICK n : n = reconnects + 1
      OBVIOUS
    <3>2. ASSUME NEW x \in Chances' PROVE x = <<"queue", n>> \/ (x \in Chances /\ x # <<"note", t>>)
      <4>1. CASE x \in {<<"note", u>> : u \in {v \in Threads : note'[v].reconnect}}
        BY <1>6, <4>1 DEF Chances
      <4>2. CASE x \in {<<"connect", u>> : u \in {v \in Threads : At(v, "connect")'}}
        BY <1>5, <4>2 DEF Chances
      <4>3. CASE x \in {<<"session", r>> : r \in {q \in Sessions : Live(q)'}}
        BY <1>5, <4>3 DEF Chances
      <4>4. CASE x \in {<<"queue", i>> : i \in 1..reconnects'}
        <5>1. \A i \in 1..reconnects' : i = n \/ i \in 1..reconnects
          BY <1>1, <1>7, <2>1
        <5> QED
          BY <4>4, <5>1 DEF Chances
      <4> QED
        BY <3>2, <4>1, <4>2, <4>3, <4>4 DEF Chances
    <3>3. Chances' \subseteq (Chances \ {<<"note", t>>}) \cup {<<"queue", n>>}
      BY <3>2
    <3> QED
      BY <1>t, <1>0, <3>1, <3>3, ChancesExchanged DEF Bounded
  <2>2. CASE ~note[t].reconnect
    <3>1. reconnects' <= reconnects /\ calls' >= calls
      BY <1>0, <1>1, <1>7, <2>2
    <3> QED
      BY <1>t, <1>5, <1>6, <3>1, ChancesKept DEF Bounded
  <2> QED
    BY <2>1, <2>2
<1>10. AttemptsInv'
  <2>1. CASE note[t].reconnect
    <3>1. <<"note", t>> \in Raises
      BY <2>1 DEF Raises
    <3>2. Raises' \subseteq Raises \ {<<"note", t>>} /\ reconnectAttempts' = reconnectAttempts + 1
      BY <1>1, <1>8, <2>1
    <3> QED
      BY <1>t, <1>0, <3>1, <3>2, RaisesExchanged DEF Bounded
  <2>2. CASE ~note[t].reconnect /\ note[t].newState = "Connected"
    <3>1. IsFiniteSet(Raises) /\ Cardinality(Raises) <= calls /\ Cardinality(Raises) \in Nat
      BY <2>2, RaisesPaid, Counted
    <3>2. Raises' \subseteq Raises
      BY <1>8
    <3>3. IsFiniteSet(Raises') /\ Cardinality(Raises') <= Cardinality(Raises)
      BY <3>1, <3>2, Counted
    <3>4. Cardinality(Raises') \in Nat
      BY <3>3, <3>1, Counted
    <3>5. reconnectAttempts' = 0
      BY <1>1, <2>2
    <3> QED
      BY <1>0, <1>7, <3>1, <3>3, <3>4, <3>5 DEF AttemptsInv
  <2>3. CASE ~note[t].reconnect /\ note[t].newState # "Connected"
    <3>1. Raises' \subseteq Raises /\ reconnectAttempts' = reconnectAttempts
      BY <1>1, <1>8, <2>3
    <3> QED
      BY <1>t, <1>0, <3>1, RaisesExchanged DEF Bounded
  <2> QED
    BY <2>1, <2>2, <2>3
<1> QED
  BY <1>3, <1>4, <1>9, <1>10, RelatesKeeps

\* Frames a reader pushes on top of the one it goes on with.
LineLabels == {"connectedError", "authFailed", "disconnect", "errorReply", "read"}

\* They are tame.
LEMMA LineTame ==
  ASSUME NEW f \in Seq(FramesOf(LineLabels)), NEW q
  PROVE  f \in Seq(Frames) /\ Tame(q, f) /\ ~Has(f, "changed")
<1>1. f \in Seq(Frames) /\ \A l : Has(f, l) => l \in LineLabels
  BY LabelsOf
<1>2. \A i \in 1..Len(f) : Has(f, f[i].at)
  BY DEF Has
<1>3. \A i \in 2..Len(f) : i \in 1..Len(f)
  BY <1>1
<1>4. /\ "changed" \notin LineLabels /\ "connect" \notin LineLabels
      /\ "sessionDisconnect" \notin LineLabels /\ BeforeReader \cap LineLabels = {}
      /\ {"clean", "prepare", "launch"} \subseteq BeforeReader
  BY DEF LineLabels, BeforeReader
<1> QED
  BY <1>1, <1>2, <1>3, <1>4 DEF Tame

\* What the handlers push.
LEMMA LineFrames ==
  ASSUME NEW s \in Sessions
  PROVE  /\ <<Frame("read", s)>> \in Seq(FramesOf(LineLabels)) /\ Has(<<Frame("read", s)>>, "read")
         /\ \A a \in {"connectedError", "authFailed"} :
              /\ <<Frame(a, s), Frame("read", s)>> \in Seq(FramesOf(LineLabels))
              /\ Has(<<Frame(a, s), Frame("read", s)>>, "read")
              /\ <<Frame(a, s)>> \o <<Frame("read", s)>> \in Seq(FramesOf(LineLabels))
              /\ Has(<<Frame(a, s)>> \o <<Frame("read", s)>>, "read")
         /\ <<Frame("disconnect", s), Frame("errorReply", s), Frame("read", s)>> \in Seq(FramesOf(LineLabels))
         /\ Has(<<Frame("disconnect", s), Frame("errorReply", s), Frame("read", s)>>, "read")
         /\ <<>> \o <<Frame("read", s)>> = <<Frame("read", s)>>
<1>0. s \in 0..MaxSessions /\ LineLabels \subseteq Labels
  BY SessionThreads DEF LineLabels, Labels
<1>1. \A a \in LineLabels : Frame(a, s) \in FramesOf(LineLabels) /\ Frame(a, s).at = a
  BY <1>0, FrameTyped DEF FramesOf
<1> PICK a, b, c, d, e :
      /\ a = Frame("read", s) /\ b = Frame("connectedError", s) /\ c = Frame("authFailed", s)
      /\ d = Frame("disconnect", s) /\ e = Frame("errorReply", s)
  OBVIOUS
<1>2. {a, b, c, d, e} \subseteq FramesOf(LineLabels) /\ a.at = "read"
  BY <1>1 DEF LineLabels
<1>3. <<a>> \in Seq(FramesOf(LineLabels)) /\ Has(<<a>>, "read") /\ <<>> \o <<a>> = <<a>>
  BY <1>2 DEF Has
<1>4. ASSUME NEW x \in {b, c}
      PROVE  /\ <<x, a>> \in Seq(FramesOf(LineLabels)) /\ Has(<<x, a>>, "read")
             /\ <<x>> \o <<a>> \in Seq(FramesOf(LineLabels)) /\ Has(<<x>> \o <<a>>, "read")
  <2>1. <<x, a>> \in Seq(FramesOf(LineLabels)) /\ Has(<<x, a>>, "read")
    BY <1>2 DEF Has
  <2> PICK y : y = <<a>>
    OBVIOUS
  <2>2. x \in Frames /\ x \in FramesOf(LineLabels) /\ y \in Seq(Frames) /\ Len(y) = 1 /\ y[1].at = "read"
    BY <1>2 DEF FramesOf
  <2> PICK z : z = <<x>> \o y
    OBVIOUS
  <2>3. z \in Seq(Frames) /\ Len(z) = 1 + Len(y) /\ z[1] = x /\ \A i \in 1..Len(y) : z[i + 1] = y[i]
    BY <2>2, Fronted
  <2>4. Len(z) = 2 /\ z[1] = x /\ z[2] = a
    BY <2>2, <2>3
  <2>5. Has(z, "read")
    BY <1>2, <2>4 DEF Has
  <2>6. z \in Seq(FramesOf(LineLabels))
    BY <1>2, <2>2, <2>3, <2>4
  <2> QED
    BY <2>1, <2>5, <2>6
<1>5. <<d, e, a>> \in Seq(FramesOf(LineLabels)) /\ Has(<<d, e, a>>, "read")
  BY <1>2 DEF Has
<1> QED
  BY <1>3, <1>4, <1>5

\* Taking a line ends a session's chances at most, and CONNECTED finds them whole.
LEMMA LineOver ==
  ASSUME TypeOK, LinesInv, OutcomesInv, NEW s \in Sessions, NEW kind, Read(s, kind),
         NEW f \in Seq(Frames), stack' = Pushed(stack, Reader(s), f), Has(f, "read")
  PROVE  /\ \A r \in Sessions : (Over(r) => Over(r)') /\ (Over(r)' => Over(r) \/ Reader(s) = Reader(r))
         /\ kind \in {"CONNECTED_ERROR", "AUTH_FAILED"} => Over(s)'
         /\ kind = "CONNECTED" => ~Over(s) /\ ~Over(s)'
<1>t. Reader(s) \in Threads /\ stack[Reader(s)] # <<>> /\ Head(stack[Reader(s)]).at = "read"
  BY SessionThreads DEF Read, At
<1>1. /\ \A r \in Sessions : r # s => process'[r] = process[r]
      /\ process'[s].written = process[s].written
      /\ Len(process[s].stream) \in Nat /\ Len(process[s].stream) >= 1
      /\ process[s].stream[1] = kind
      /\ Len(process'[s].stream) = Len(process[s].stream) - 1
      /\ \A i \in 1..Len(process'[s].stream) : process'[s].stream[i] = process[s].stream[i + 1]
  BY LineTaken
<1> PICK q, p : q = process[s].stream /\ p = process'[s].stream
  OBVIOUS
<1>2. /\ 1 \in 1..Len(q)
      /\ \A i \in 1..Len(p) : i + 1 \in 1..Len(q) /\ i + 1 # 1 /\ p[i] = q[i + 1]
  BY <1>1
<1>3. /\ \A u \in Threads : u # Reader(s) => stack'[u] = stack[u]
      /\ Has(stack'[Reader(s)], "read")
  BY <1>t, Stepped
<1>4. Has(stack[Reader(s)], "read")
  <2>1. stack[Reader(s)] \in Seq(Frames)
    BY <1>t DEF TypeOK
  <2> QED
    BY <1>t, <2>1, Innermost DEF Has
<1>5. \A k : Taken(s, k) => Taken(s, k)'
  BY <1>1, <1>2 DEF Taken
<1>6. ASSUME NEW r \in Sessions
      PROVE  (Over(r) => Over(r)') /\ (Over(r)' => Over(r) \/ Reader(s) = Reader(r))
  <2>1. CASE r = s
    BY <1>4, <1>5, <2>1 DEF Over
  <2>2. CASE r # s
    <3>1. Reader(r) # Reader(s) /\ Reader(r) \in Threads
      BY <2>2, SessionThreads DEF Reader
    <3> QED
      BY <1>1, <1>3, <2>2, <3>1 DEF Over, Taken
  <2> QED
    BY <2>1, <2>2
<1>7. kind \in process[s].written /\ \A i \in 1..Len(p) : p[i] # kind
  <2>1. \A i \in 1..Len(q) : q[i] \in process[s].written /\ \A j \in 1..Len(q) : q[i] = q[j] => i = j
    BY DEF LinesInv
  <2> QED
    BY <1>1, <1>2, <2>1
<1>8. kind \in {"CONNECTED_ERROR", "AUTH_FAILED"} => Over(s)'
  BY <1>1, <1>7 DEF Over, Taken
<1>9. ASSUME kind = "CONNECTED" PROVE ~Over(s) /\ ~Over(s)'
  <2>1. "AUTH_FAILED" \notin process[s].written /\ "CONNECTED_ERROR" \notin process[s].written
    BY <1>7, <1>9 DEF OutcomesInv, Outcomes
  <2> QED
    BY <1>1, <1>3, <1>4, <2>1 DEF Over, Taken
<1> QED
  BY <1>6, <1>8, <1>9

\* A line that is taken, and changes the session as the handlers do, keeps the invariant.
LEMMA LineBounded ==
  ASSUME Exclusive, LinesInv, ReadersInv, TypeOK', Bounded, NEW s \in Sessions, NEW kind, Read(s, kind),
         NEW rec \in SessionRecords, NEW f \in Seq(FramesOf(LineLabels)), Has(f, "read"),
         SetSession(Reader(s), s, rec, f), UNCHANGED engineVars,
         \/ rec.state = sess[s].state
         \/ rec.state = "Disconnected" /\ (kind \in {"CONNECTED_ERROR", "AUTH_FAILED"} \/ rec.lastError \notin Retried)
         \/ rec.state = "Connected" /\ kind = "CONNECTED"
         \/ sess[s].state = "Connected" /\ rec.state \in {"Connecting", "Disconnecting"}
  PROVE  Bounded'
<1> PICK t \in Threads : t = Reader(s)
  BY SessionThreads
<1>t. TypeOK /\ OutcomesInv /\ s \in 0..MaxSessions
  BY SessionThreads DEF Exclusive, Bounded
<1>0. /\ stack[t] # <<>> /\ Head(stack[t]).at = "read" /\ Head(stack[t]).at \notin Telling \cup {"after"}
      /\ session' = session /\ calls' = calls /\ arg' = arg
      /\ reconnects' = reconnects /\ regions' = regions /\ reconnectAttempts' = reconnectAttempts
      /\ latestSelectedRegion' = latestSelectedRegion
  BY DEF Read, At, clientVars, engineVars, Telling
<1>1. f \in Seq(Frames) /\ Tame(stack[t], f) /\ ~Has(f, "changed")
  BY LineTame
<1>2. OutcomesInv'
  BY <1>t, OutcomesRead
<1>3. sess' = [sess EXCEPT ![s] = rec]
  BY DEF SetSession
<1>4. CASE rec.state = sess[s].state
  <2>1. stack' = Pushed(stack, t, f) /\ note' = note
    BY <1>4 DEF SetSession, Continue, Pushed
  <2>2. \A r \in Sessions : (Over(r) => Over(r)') /\ (Over(r)' => Over(r) \/ t = Reader(r))
    BY <1>t, <1>1, <2>1, LineOver
  <2>3. \A r \in 0..MaxSessions : sess'[r].state = sess[r].state
    BY <1>t, <1>3, <1>4 DEF TypeOK
  <2>4. Calm(t)
    BY <1>0, <1>1, <2>1, <2>2, <2>3 DEF Calm
  <2> QED
    BY <1>2, <2>4, CalmKeeps
<1>5. CASE rec.state # sess[s].state
  <2> PICK g : g = <<Frame("changed", s)>> \o f
    OBVIOUS
  <2>1. stack' = Pushed(stack, t, g)
    BY <1>5 DEF SetSession, Continue, Pushed
  <2>2. g \in Seq(Frames) /\ Has(g, "read")
    <3>1. Frame("changed", s) \in Frames
      BY <1>t, FrameTyped DEF Labels
    <3>2. /\ g \in Seq(Frames) /\ Len(g) = 1 + Len(f) /\ Len(f) \in Nat
          /\ \A i \in 1..Len(f) : g[i + 1] = f[i]
      BY <1>1, <3>1, Fronted
    <3>3. PICK i \in 1..Len(f) : f[i].at = "read"
      BY DEF Has
    <3>4. i + 1 \in 1..Len(g) /\ g[i + 1].at = "read"
      BY <3>2, <3>3
    <3> QED
      BY <3>2, <3>4 DEF Has
  <2>3. /\ \A r \in Sessions : (Over(r) => Over(r)') /\ (Over(r)' => Over(r) \/ t = Reader(r))
        /\ kind \in {"CONNECTED_ERROR", "AUTH_FAILED"} => Over(s)'
        /\ kind = "CONNECTED" => ~Over(s) /\ ~Over(s)'
    BY <1>t, <2>1, <2>2, LineOver
  <2>4. Turning(t)
    BY <1>0, <2>3 DEF Turning
  <2>5. s <= session /\ (s = session => ~Starting)
    <3>1. session \in Nat /\ s \in Nat
      BY <1>t DEF TypeOK, Sessions
    <3>2. ~(s > session) /\ (s = session => ~Starting)
      BY <1>0 DEF ReadersInv, Unstarted
    <3> QED
      BY <3>1, <3>2
  <2>6. sess[s].state # "Disconnected" \/ ~Over(s)
    BY <1>5, <2>3
  <2>7. /\ rec.state = "Disconnected" => Over(s)' \/ rec.lastError \notin Retried
        /\ rec.state = "Connected" => t = Reader(s) /\ ~Over(s)'
    BY <1>5, <2>3
  <2> QED
    BY <1>1, <1>2, <1>5, <2>4, <2>5, <2>6, <2>7, TurnKeeps
<1> QED
  BY <1>4, <1>5

\* So does every handler of a notification.
LEMMA HandlersBounded ==
  ASSUME Exclusive, LinesInv, ReadersInv, TypeOK', Bounded, NEW s \in Sessions,
         \/ HandleStateNotification(s) \/ HandleAuthNotification(s) \/ HandleFatalNotification(s)
         \/ HandleLogNotification(s) \/ HandleErrorReply(s)
  PROVE  Bounded'
<1>t. TypeOK /\ s \in 0..MaxSessions /\ Reader(s) \in Threads
  BY SessionThreads DEF Exclusive
<1>r. sess[s] \in SessionRecords /\ sess = [sess EXCEPT ![s] = sess[s]]
  BY <1>t DEF TypeOK
<1>c. ConnectionStates = {"Disconnected", "Connecting", "Connected", "Disconnecting"}
  BY DEF ConnectionStates
<1>u. ASSUME NEW state \in ConnectionStates, NEW error \in ErrorTypes
      PROVE  /\ [sess[s] EXCEPT !.state = state] \in SessionRecords
             /\ [sess[s] EXCEPT !.state = state].state = state
             /\ [sess[s] EXCEPT !.lastError = error] \in SessionRecords
             /\ [sess[s] EXCEPT !.lastError = error].state = sess[s].state
             /\ [sess[s] EXCEPT !.state = state, !.lastError = error] \in SessionRecords
             /\ [sess[s] EXCEPT !.state = state, !.lastError = error].state = state
             /\ [sess[s] EXCEPT !.state = state, !.lastError = error].lastError = error
  BY <1>r, <1>u DEF SessionRecords
<1>1. ASSUME NEW kind, Read(s, kind), NEW rec \in SessionRecords, NEW f \in Seq(FramesOf(LineLabels)),
             Has(f, "read"), SetSession(Reader(s), s, rec, f), UNCHANGED engineVars,
             \/ rec.state = sess[s].state
             \/ rec.state = "Disconnected" /\ (kind \in {"CONNECTED_ERROR", "AUTH_FAILED"} \/ rec.lastError \notin Retried)
             \/ rec.state = "Connected" /\ kind = "CONNECTED"
             \/ sess[s].state = "Connected" /\ rec.state \in {"Connecting", "Disconnecting"}
      PROVE  Bounded'
  BY <1>1, LineBounded
<1>2. ASSUME NEW kind, Read(s, kind), NEW newState \in ConnectionStates, NEW f \in Seq(FramesOf(LineLabels)),
             Has(f, "read"), SetState(Reader(s), s, newState, f), UNCHANGED engineVars,
             \/ newState = "Disconnected" /\ kind \in {"CONNECTED_ERROR", "AUTH_FAILED"}
             \/ newState = "Connected" /\ kind = "CONNECTED"
             \/ sess[s].state = "Connected" /\ newState \in {"Connecting", "Disconnecting"}
      PROVE  Bounded'
  <2> PICK rec : rec = [sess[s] EXCEPT !.state = newState]
    OBVIOUS
  <2>1. SetSession(Reader(s), s, rec, f)
    BY <1>2 DEF SetState
  <2>2. rec \in SessionRecords /\ rec.state = newState
    BY <1>u DEF ErrorTypes
  <2> QED
    BY <1>1, <1>2, <2>1, <2>2
<1>3. ASSUME NEW kind, Read(s, kind), NEW f \in Seq(FramesOf(LineLabels)),
             Has(f, "read"), Continue(Reader(s), f), note' = note, sess' = sess, UNCHANGED engineVars
      PROVE  Bounded'
  <2>1. SetSession(Reader(s), s, sess[s], f)
    BY <1>3, <1>r DEF SetSession
  <2> QED
    BY <1>1, <1>3, <1>r, <2>1
<1>4. CASE HandleStateNotification(s)
  <2> DEFINE onto(kind, newState, frames) ==
        Read(s, kind) /\ SetState(Reader(s), s, newState, frames \o <<Frame("read", s)>>)
  <2> DEFINE ignored(kind) ==
        Read(s, kind) /\ Continue(Reader(s), <<Frame("read", s)>>) /\ UNCHANGED <<sess, note>>
  <2>1. /\ \/ onto("CONNECTED", "Connected", <<>>)
           \/ onto("CONNECTED_ERROR", "Disconnected", <<Frame("connectedError", s)>>)
           \/ sess[s].state = "Connected" /\ onto("RECONNECTING", "Connecting", <<>>)
           \/ ignored("RECONNECTING")
           \/ sess[s].state = "Connected" /\ onto("EXITING", "Disconnecting", <<>>)
           \/ ignored("EXITING")
        /\ UNCHANGED engineVars
    BY <1>4, Zenon DEF HandleStateNotification
  <2>2. CASE onto("CONNECTED", "Connected", <<>>)
    <3>1. SetState(Reader(s), s, "Connected", <<Frame("read", s)>>)
      BY <2>2, LineFrames
    <3> QED
      BY <1>2, <1>c, <2>1, <2>2, <3>1, LineFrames
  <2>3. CASE onto("CONNECTED_ERROR", "Disconnected", <<Frame("connectedError", s)>>)
    BY <1>2, <1>c, <2>1, <2>3, LineFrames
  <2>4. CASE sess[s].state = "Connected" /\ onto("RECONNECTING", "Connecting", <<>>)
    <3>1. SetState(Reader(s), s, "Connecting", <<Frame("read", s)>>)
      BY <2>4, LineFrames
    <3> QED
      BY <1>2, <1>c, <2>1, <2>4, <3>1, LineFrames
  <2>5. CASE ignored("RECONNECTING")
    BY <1>3, <2>1, <2>5, LineFrames
  <2>6. CASE sess[s].state = "Connected" /\ onto("EXITING", "Disconnecting", <<>>)
    <3>1. SetState(Reader(s), s, "Disconnecting", <<Frame("read", s)>>)
      BY <2>6, LineFrames
    <3> QED
      BY <1>2, <1>c, <2>1, <2>6, <3>1, LineFrames
  <2>7. CASE ignored("EXITING")
    BY <1>3, <2>1, <2>7, LineFrames
  <2> QED
    BY <2>1, <2>2, <2>3, <2>4, <2>5, <2>6, <2>7
<1>5. CASE HandleAuthNotification(s)
  <2> PICK f : f = <<Frame("authFailed", s), Frame("read", s)>>
    OBVIOUS
  <2>1. Read(s, "AUTH_FAILED") /\ SetState(Reader(s), s, "Disconnected", f) /\ UNCHANGED engineVars
    BY <1>5 DEF HandleAuthNotification
  <2>2. f \in Seq(FramesOf(LineLabels)) /\ Has(f, "read")
    BY LineFrames
  <2> QED
    BY <1>2, <1>c, <2>1, <2>2
<1>6. CASE HandleFatalNotification(s)
  <2>1. PICK error \in {"Fatal", "DnsError"} :
          SetSession(Reader(s), s, [sess[s] EXCEPT !.state = "Disconnected", !.lastError = error],
                     <<Frame("read", s)>>)
    BY <1>6 DEF HandleFatalNotification
  <2>2. Read(s, "FATAL") /\ UNCHANGED engineVars
    BY <1>6 DEF HandleFatalNotification
  <2>3. error \in ErrorTypes /\ error \notin Retried
    BY DEF ErrorTypes, Retried, RetryErrors
  <2> PICK rec : rec = [sess[s] EXCEPT !.state = "Disconnected", !.lastError = error]
    OBVIOUS
  <2>4. rec \in SessionRecords /\ rec.state = "Disconnected" /\ rec.lastError = error
    BY <1>u, <1>c, <2>3
  <2> QED
    BY <1>1, <2>1, <2>2, <2>3, <2>4, LineFrames
<1>7. CASE HandleLogNotification(s)
  <2>1. PICK kind \in {"LOG_ERROR", "LOG_SIGTERM"} :
          /\ Read(s, kind)
          /\ \E error \in IF kind = "LOG_ERROR" THEN {"GeneralError", "NetworkError"} ELSE SigtermErrors :
               sess' = [sess EXCEPT ![s].lastError = error]
    BY <1>7 DEF HandleLogNotification
  <2>2. PICK error \in ErrorTypes : sess' = [sess EXCEPT ![s].lastError = error]
    BY <2>1, InputsAssumption DEF ErrorTypes
  <2>3. Continue(Reader(s), <<Frame("read", s)>>) /\ note' = note /\ UNCHANGED engineVars
    BY <1>7 DEF HandleLogNotification
  <2> PICK rec : rec = [sess[s] EXCEPT !.lastError = error]
    OBVIOUS
  <2>4. rec \in SessionRecords /\ rec.state = sess[s].state
    BY <1>u, <1>c
  <2>5. sess' = [sess EXCEPT ![s] = rec]
    BY <2>2, Zenon
  <2>6. SetSession(Reader(s), s, rec, <<Frame("read", s)>>)
    BY <2>3, <2>4, <2>5 DEF SetSession
  <2> QED
    BY <1>1, <2>1, <2>3, <2>4, <2>6, LineFrames
<1>8. CASE HandleErrorReply(s)
  <2> PICK f : f = <<Frame("disconnect", s), Frame("errorReply", s), Frame("read", s)>>
    OBVIOUS
  <2>1. /\ Read(s, "ERROR_REPLY") /\ Continue(Reader(s), f) /\ note' = note /\ sess' = sess
        /\ UNCHANGED engineVars
    BY <1>8 DEF HandleErrorReply
  <2>2. f \in Seq(FramesOf(LineLabels)) /\ Has(f, "read")
    BY LineFrames
  <2> QED
    BY <1>3, <2>1, <2>2
<1> QED
  BY <1>4, <1>5, <1>6, <1>7, <1>8

\* The rest of what a reader does is calm.
LEMMA ReaderCalm ==
  ASSUME Exclusive, ReadersInv, NEW s \in Sessions, ErrorReply(s) \/ RecordError(s) \/ ReaderEnds(s)
  PROVE  Calm(Reader(s)) /\ \A r \in Sessions : /\ process'[r].stream = process[r].stream
                                                /\ process'[r].written = process[r].written
<1> PICK t \in Threads : t = Reader(s)
  BY SessionThreads
<1>t. TypeOK /\ s \in 0..MaxSessions /\ 0 \in 0..MaxSessions
  BY SessionThreads, BoundsAssumption DEF Exclusive
<1>1. /\ <<>> \in Seq(Frames) /\ Tame(stack[t], <<>>) /\ ~Has(<<>>, "changed") /\ ~Has(<<>>, "read")
  <2>1. <<>> \in Seq(FramesOf(TameLabels))
    BY <1>t, TameFew
  <2> QED
    BY <2>1, TameOf
<1>2. CASE ErrorReply(s)
  <2> PICK f : f = <<Frame("invoke", 0)>> \o <<>>
    OBVIOUS
  <2>1. /\ stack[t] # <<>> /\ Head(stack[t]).at = "errorReply" /\ Continue(t, f)
        /\ note' = [note EXCEPT ![t] = Status("Disconnected", "GeneralError", FALSE)]
        /\ session' = session /\ sess' = sess /\ reconnectAttempts' = reconnectAttempts
        /\ latestSelectedRegion' = latestSelectedRegion /\ regions' = regions /\ reconnects' = reconnects
        /\ arg' = arg /\ process' = process /\ calls' = calls
    BY <1>2 DEF ErrorReply, NotifyError, At, sessionVars, systemVars, clientVars
  <2>2. f \in Seq(FramesOf(TameLabels))
    BY <1>t, TameFew
  <2>3. f \in Seq(Frames) /\ Tame(stack[t], f) /\ ~Has(f, "changed") /\ ~Has(f, "read")
    BY <2>2, TameOf
  <2>4. Hushed(t) /\ ArgSettled(t)
    BY <2>1, Zenon DEF Hushed, ArgSettled
  <2> QED
    BY <1>t, <2>1, <2>3, <2>4, CalmPush DEF Telling
<1>3. CASE RecordError(s)
  <2>1. /\ stack[t] # <<>> /\ Head(stack[t]).at \in {"connectedError", "authFailed"} /\ Continue(t, <<>>)
        /\ \E error : sess' = [sess EXCEPT ![s].lastError = error]
        /\ session' = session /\ note' = note /\ arg' = arg /\ process' = process
        /\ UNCHANGED <<engineVars, calls>>
    <3>1. PICK cause \in {<<"connectedError", "ConnectedError">>, <<"authFailed", "GeneralError">>} :
            At(t, cause[1]) /\ sess' = [sess EXCEPT ![s].lastError = cause[2]]
      BY <1>3 DEF RecordError
    <3>2. cause[1] \in {"connectedError", "authFailed"}
      OBVIOUS
    <3>3. stack[t] # <<>> /\ Head(stack[t]).at \in {"connectedError", "authFailed"}
      BY <3>1, <3>2 DEF At
    <3>4. \E error : sess' = [sess EXCEPT ![s].lastError = error]
      BY <3>1
    <3>5. /\ Continue(t, <<>>) /\ session' = session /\ note' = note /\ arg' = arg /\ process' = process
          /\ UNCHANGED <<engineVars, calls>>
      BY <1>3 DEF RecordError, systemVars, clientVars
    <3> QED
      BY <3>3, <3>4, <3>5
  <2>2. Hushed(t) /\ ArgSettled(t)
    BY <2>1 DEF Hushed, ArgSettled
  <2>3. \A r \in 0..MaxSessions : sess'[r].state = sess[r].state
    BY <1>t, <2>1 DEF TypeOK, SessionRecords
  <2> QED
    BY <1>t, <1>1, <2>1, <2>2, <2>3, CalmPush DEF Telling, engineVars
<1>4. CASE ReaderEnds(s)
  <2>1. /\ stack[t] # <<>> /\ Head(stack[t]).at = "read" /\ Continue(t, <<>>)
        /\ \E closed : process' = [process EXCEPT ![s].closed = closed]
        /\ session' = session /\ sess' = sess /\ note' = note /\ arg' = arg
        /\ UNCHANGED <<engineVars, calls>>
    BY <1>4 DEF ReaderEnds, At, sessionVars, clientVars
  <2>2. stack' = Pushed(stack, t, <<>>)
    BY <2>1 DEF Continue, Pushed
  <2>3. \A r \in Sessions : process'[r].stream = process[r].stream /\ process'[r].written = process[r].written
    BY <1>t, <2>1 DEF TypeOK, Processes
  <2>4. (\A u \in Threads : u # t => stack'[u] = stack[u]) /\ stack'[t] = <<>>
    BY <1>t, <1>1, <2>1, <2>2, Stepped DEF ReadersInv
  <2>5. ASSUME NEW r \in Sessions PROVE (Over(r) => Over(r)') /\ (Over(r)' => Over(r) \/ t = Reader(r))
    <3>1. CASE t = Reader(r)
      BY <2>4, <3>1 DEF Over, Has
    <3>2. CASE t # Reader(r)
      BY <2>3, <2>4, <3>2, SessionThreads DEF Over, Taken
    <3> QED
      BY <3>1, <3>2
  <2> QED
    BY <1>1, <2>1, <2>2, <2>3, <2>5 DEF Calm, Telling, engineVars
<1> QED
  BY <1>2, <1>3, <1>4

\* An idle thread is given the frames of a call, of a reconnect or of an exit.
Given(t, q) ==
  /\ stack[t] = <<>> /\ \A s \in Sessions : t # Reader(s)
  /\ q \in Seq(Frames) /\ \A i \in 2..Len(q) : q[i].at \notin {"changed", "connect"}
  /\ \A l : Has(q, l) => l \in {"connect", "disconnect", "quit", "switchOff", "exited"}
  /\ stack' = [stack EXCEPT ![t] = q]
  /\ session' = session /\ sess' = sess /\ note' = note
  /\ \A s \in Sessions : /\ process'[s].stream = process[s].stream
                         /\ process'[s].written = process[s].written

\* No session comes back by that.
LEMMA GivenEffect ==
  ASSUME TypeOK, Bounded, NEW t \in Threads, NEW q, Given(t, q)
  PROVE  /\ \A u \in Threads : u # t => stack'[u] = stack[u]
         /\ stack'[t] = q
         /\ \A s \in Sessions : Over(s)' <=> Over(s)
         /\ \A u \in Threads : \A s \in 0..MaxSessions : Dying(u, s)' => Dying(u, s)
         /\ \A s \in Sessions : Live(s)' => Live(s)
         /\ \A u \in Threads : At(u, "connect")' => At(u, "connect") \/ (u = t /\ Has(q, "connect"))
         /\ \A u \in Threads : InFlight(u)' => InFlight(u) \/ (u = t /\ Has(q, "connect"))
<1>0. /\ stack[t] = <<>> /\ \A s \in Sessions : t # Reader(s)
      /\ q \in Seq(Frames) /\ \A l : Has(q, l) => l \in {"connect", "disconnect", "quit", "switchOff", "exited"}
      /\ stack' = [stack EXCEPT ![t] = q]
      /\ session' = session /\ sess' = sess /\ note' = note
      /\ \A s \in Sessions : /\ process'[s].stream = process[s].stream
                             /\ process'[s].written = process[s].written
  BY DEF Given
<1>1. (\A u \in Threads : u # t => stack'[u] = stack[u]) /\ stack'[t] = q
  BY <1>0 DEF TypeOK
<1>2. \A s \in Sessions : Over(s)' <=> Over(s)
  BY <1>0, <1>1, SessionThreads DEF Over, Taken
<1>3. q # <<>> => Has(q, Head(q).at)
  BY <1>0, Innermost DEF Has
<1>4. /\ ~At(t, "changed")'
      /\ At(t, "connect")' => Has(q, "connect")
  BY <1>0, <1>1, <1>3 DEF At
<1>5. \A u \in Threads : \A s \in 0..MaxSessions : Dying(u, s)' => Dying(u, s)
  BY <1>0, <1>1, <1>4 DEF Dying, At, Subject
<1>6. \A s \in Sessions : Live(s)' => Live(s)
  BY <1>0, <1>2, <1>5, SessionThreads DEF Live
<1>7. \A u \in Threads : At(u, "connect")' => At(u, "connect") \/ (u = t /\ Has(q, "connect"))
  BY <1>1, <1>4 DEF At
<1>8. \A u \in Threads : InFlight(u)' => InFlight(u) \/ (u = t /\ Has(q, "connect"))
  BY <1>0, <1>1 DEF InFlight
<1> QED
  BY <1>1, <1>2, <1>5, <1>6, <1>7, <1>8

\* It keeps the invariant if it pays for what it brings.
LEMMA GivenBounded ==
  ASSUME TypeOK, TypeOK', Bounded, NEW t \in Threads, NEW q, Given(t, q), ChancesInv', AttemptsInv'
  PROVE  Bounded'
<1>0. /\ stack[t] = <<>> /\ q \in Seq(Frames) /\ \A i \in 2..Len(q) : q[i].at \notin {"changed", "connect"}
      /\ \A l : Has(q, l) => l \in {"connect", "disconnect", "quit", "switchOff", "exited"}
      /\ session' = session /\ sess' = sess /\ note' = note
      /\ \A s \in Sessions : /\ process'[s].stream = process[s].stream
                             /\ process'[s].written = process[s].written
  BY DEF Given
<1>1. /\ \A u \in Threads : u # t => stack'[u] = stack[u]
      /\ stack'[t] = q
      /\ \A s \in Sessions : Over(s)' <=> Over(s)
      /\ \A u \in Threads : \A s \in 0..MaxSessions : Dying(u, s)' => Dying(u, s)
  BY GivenEffect
<1>2. OutcomesInv'
  BY <1>0, OutcomesSame DEF Bounded
<1>3. ShapedInv'
  <2>1. \A i \in 2..Len(q) : q[i].at \notin {"changed", "connect"}
    BY <1>0
  <2> QED
    BY <1>1, <2>1 DEF Bounded, ShapedInv
<1>4. UnlockInv'
  BY <1>0, <1>1 DEF Bounded, UnlockInv
<1>5. Starting' => Starting
  BY <1>0, <1>1 DEF Starting, BeforeReader
<1>6. StartingInv' /\ sess'[0].state = "Disconnected"
  BY <1>0, <1>5 DEF Bounded, StartingInv
<1>7. NotesInv'
  <2> SUFFICES ASSUME NEW u \in Threads
               PROVE  /\ note[u].reconnect => Told(u)'
                      /\ note[u].newState = "Connected" =>
                           /\ At(u, "changed")' \/ Told(u)'
                           /\ \E s \in Sessions : u = Reader(s) /\ ~Over(s)'
    BY <1>0 DEF NotesInv
  <2>1. CASE u = t
    <3>1. ~Told(t) /\ ~At(t, "changed")
      BY <1>0 DEF Told, At
    <3> QED
      BY <2>1, <3>1 DEF Bounded, NotesInv
  <2>2. CASE u # t
    <3>1. stack'[u] = stack[u]
      BY <1>1, <2>2
    <3>2. (Told(u)' <=> Told(u)) /\ (At(u, "changed")' <=> At(u, "changed"))
      BY <3>1 DEF Told, At
    <3> QED
      BY <1>1, <3>2 DEF Bounded, NotesInv
  <2> QED
    BY <2>1, <2>2
<1>8. DyingInv'
  BY <1>0, <1>1 DEF Bounded, DyingInv
<1> QED
  BY <1>2, <1>3, <1>4, <1>6, <1>7, <1>8 DEF Bounded

\* A call pays for what it brings.
LEMMA RaisesAdded ==
  ASSUME TypeOK, AttemptsInv, calls' = calls + 1, reconnectAttempts' = reconnectAttempts,
         NEW y, Raises' \subseteq Raises \cup {y}
  PROVE  AttemptsInv'
<1>1. IsFiniteSet(Raises) /\ Cardinality(Raises) \in Nat
  BY Counted DEF AttemptsInv
<1>2. IsFiniteSet(Raises') /\ Cardinality(Raises') <= Cardinality(Raises) + 1
  BY <1>1, Counted
<1>3. Cardinality(Raises') \in Nat
  BY <1>1, <1>2, Counted
<1>4. calls \in Nat /\ reconnectAttempts \in Nat
  BY DEF TypeOK
<1> QED
  BY <1>1, <1>2, <1>3, <1>4 DEF AttemptsInv

\* A Connect is a new chance with a new region; a reconnect that runs is not.
LEMMA CallsBounded ==
  ASSUME TypeOK, TypeOK', Bounded, NEW w \in Workers, Client(w) \/ RunReconnect(w)
  PROVE  Bounded'
<1>t. w \in Threads /\ \A s \in Sessions : w # Reader(s)
  BY ThreadsAssumption DEF Threads
<1>n. reconnects \in Nat /\ calls \in Nat /\ regions \in Seq(Protocols) /\ Len(regions) \in Nat
  BY DEF TypeOK
<1>f. /\ \A l \in {"connect", "disconnect", "switchOff"} :
           /\ <<Frame(l, 0)>> \in Seq(Frames) /\ Len(<<Frame(l, 0)>>) = 1
           /\ \A k : Has(<<Frame(l, 0)>>, k) <=> k = l
      /\ <<>> \in Seq(Frames) /\ Len(<<>>) = 0 /\ \A k : ~Has(<<>>, k)
      /\ <<Frame("disconnect", 0), Frame("quit", 0)>> \in Seq(Frames)
      /\ \A i \in 2..2 : <<Frame("disconnect", 0), Frame("quit", 0)>>[i].at = "quit"
      /\ \A k : Has(<<Frame("disconnect", 0), Frame("quit", 0)>>, k) => k \in {"disconnect", "quit"}
  <2>1. \A l \in {"connect", "disconnect", "switchOff", "quit"} : Frame(l, 0) \in Frames /\ Frame(l, 0).at = l
    BY FrameTyped, BoundsAssumption DEF Labels
  <2>2. \A l \in {"connect", "disconnect", "switchOff"} :
           /\ <<Frame(l, 0)>> \in Seq(Frames) /\ Len(<<Frame(l, 0)>>) = 1
           /\ \A k : Has(<<Frame(l, 0)>>, k) <=> k = l
    BY <2>1 DEF Has
  <2>3. <<>> \in Seq(Frames) /\ Len(<<>>) = 0 /\ \A k : ~Has(<<>>, k)
    BY DEF Has
  <2> PICK a, b : a = Frame("disconnect", 0) /\ b = Frame("quit", 0)
    OBVIOUS
  <2>4. a \in Frames /\ b \in Frames /\ a.at = "disconnect" /\ b.at = "quit"
    BY <2>1
  <2>5. /\ <<a, b>> \in Seq(Frames) /\ \A i \in 2..2 : <<a, b>>[i].at = "quit"
        /\ \A k : Has(<<a, b>>, k) => k \in {"disconnect", "quit"}
    BY <2>4 DEF Has
  <2> QED
    BY <2>2, <2>3, <2>5
<1>1. CASE CallConnect(w)
  <2>1. PICK protocol \in OfferedProtocols, auto \in BOOLEAN :
          /\ arg' = [arg EXCEPT ![w] = [region |-> Len(regions) + 1, autoconnect |-> auto, error |-> "NoError"]]
          /\ regions' = Append(regions, protocol)
    BY <1>1 DEF CallConnect
  <2>2. /\ stack[w] = <<>> /\ stack' = [stack EXCEPT ![w] = <<Frame("connect", 0)>>] /\ calls' = calls + 1
        /\ session' = session /\ sess' = sess /\ note' = note /\ process' = process
        /\ reconnects' = reconnects /\ reconnectAttempts' = reconnectAttempts
        /\ latestSelectedRegion' = latestSelectedRegion
    BY <1>1 DEF CallConnect, Call, Idle, sessionVars, systemVars
  <2>3. Given(w, <<Frame("connect", 0)>>)
    BY <1>t, <1>f, <2>2 DEF Given
  <2> PICK n : n = Len(regions) + 1
    OBVIOUS
  <2>4. /\ Len(regions') = n /\ \A r \in 1..n : r = n \/ (r \in 1..Len(regions) /\ regions'[r] = regions[r] /\ r # n)
    BY <1>n, <2>1, InputsAssumption
  <2>5. arg'[w].region = n /\ \A u \in Threads : u # w => arg'[u] = arg[u]
    BY <1>t, <2>1 DEF TypeOK
  <2>6. /\ \A s \in Sessions : Live(s)' => Live(s)
        /\ \A u \in Threads : At(u, "connect")' => At(u, "connect") \/ u = w
        /\ \A u \in Threads : InFlight(u)' => InFlight(u) \/ u = w
    BY <1>t, <2>3, GivenEffect
  <2>7. ASSUME NEW x \in Chances' PROVE x = <<"connect", w>> \/ x \in Chances
    <3>1. CASE x \in {<<"note", u>> : u \in {v \in Threads : note[v].reconnect}}
      BY <3>1 DEF Chances
    <3>2. CASE x \in {<<"connect", u>> : u \in {v \in Threads : At(v, "connect")'}}
      BY <2>6, <3>2 DEF Chances
    <3>3. CASE x \in {<<"session", r>> : r \in {q \in Sessions : Live(q)'}}
      BY <2>6, <3>3 DEF Chances
    <3>4. CASE x \in {<<"queue", i>> : i \in 1..reconnects}
      BY <3>4 DEF Chances
    <3> QED
      BY <2>2, <2>7, <3>1, <3>2, <3>3, <3>4 DEF Chances
  <2>8. Chances' \subseteq Chances \cup {<<"connect", w>>}
    BY <2>7
  <2>9. ASSUME NEW r \in 1..Len(regions), Held(r)' PROVE Held(r)
    <3>1. r # n
      BY <1>n, <2>4
    <3> QED
      BY <2>2, <2>5, <2>6, <2>9, <3>1 DEF Held
  <2>10. ASSUME NEW x \in Raises' PROVE x = <<"region", n>> \/ x \in Raises
    <3>1. CASE x \in {<<"note", u>> : u \in {v \in Threads : note[v].reconnect}}
      BY <3>1 DEF Raises
    <3>2. CASE x \in {<<"region", r>> : r \in {q \in 1..n : regions'[q] = "udp" /\ Held(q)'}}
      BY <2>4, <2>9, <3>2 DEF Raises
    <3> QED
      BY <2>2, <2>4, <2>10, <3>1, <3>2 DEF Raises
  <2>11. Raises' \subseteq Raises \cup {<<"region", n>>}
    BY <2>10
  <2>12. ChancesInv'
    BY <2>2, <2>8, ChancesExchanged DEF Bounded
  <2>13. AttemptsInv'
    BY <2>2, <2>11, RaisesAdded DEF Bounded
  <2> QED
    BY <1>t, <2>3, <2>12, <2>13, GivenBounded
<1>2. CASE CallDisconnect(w) \/ CallToggleKillSwitch(w) \/ CallUnblockTraffic(w) \/ CallStop(w)
  <2>1. /\ stack[w] = <<>> /\ calls' \in {calls, calls + 1}
        /\ \/ stack' = [stack EXCEPT ![w] = <<Frame("disconnect", 0)>>]
           \/ stack' = [stack EXCEPT ![w] = <<Frame("switchOff", 0)>>]
           \/ stack' = [stack EXCEPT ![w] = <<Frame("disconnect", 0), Frame("quit", 0)>>]
           \/ stack' = [stack EXCEPT ![w] = <<>>]
        /\ session' = session /\ sess' = sess /\ note' = note /\ process' = process /\ arg' = arg
        /\ UNCHANGED engineVars
    <3>1. CASE CallDisconnect(w)
      BY <3>1 DEF CallDisconnect, Call, Idle, sessionVars, systemVars
    <3>2. CASE CallToggleKillSwitch(w)
      <4>1. CASE killSwitch
        BY <3>2, <4>1 DEF CallToggleKillSwitch, Call, Idle, sessionVars, systemVars
      <4>2. CASE ~killSwitch
        BY <3>2, <4>2 DEF CallToggleKillSwitch, Call, Idle, sessionVars, systemVars
      <4> QED
        BY <4>1, <4>2
    <3>3. CASE CallUnblockTraffic(w)
      BY <3>3 DEF CallUnblockTraffic, Call, Idle, sessionVars, systemVars
    <3>4. CASE CallStop(w)
      BY <3>4 DEF CallStop, Idle, sessionVars, systemVars
    <3> QED
      BY <1>2, <3>1, <3>2, <3>3, <3>4
  <2> PICK q : /\ q \in {<<>>, <<Frame("disconnect", 0)>>, <<Frame("switchOff", 0)>>,
                         <<Frame("disconnect", 0), Frame("quit", 0)>>}
               /\ stack' = [stack EXCEPT ![w] = q]
    BY <2>1
  <2>2. /\ q \in Seq(Frames) /\ \A i \in 2..Len(q) : q[i].at \notin {"changed", "connect"}
        /\ \A k : Has(q, k) => k \in {"disconnect", "quit", "switchOff"}
    <3>1. CASE q = <<>>
      BY <1>f, <3>1
    <3>2. CASE q = <<Frame("disconnect", 0)>>
      BY <1>f, <3>2
    <3>3. CASE q = <<Frame("switchOff", 0)>>
      BY <1>f, <3>3
    <3>4. CASE q = <<Frame("disconnect", 0), Frame("quit", 0)>>
      <4>1. Len(q) = 2
        BY <3>4
      <4> QED
        BY <1>f, <3>4, <4>1
    <3> QED
      BY <3>1, <3>2, <3>3, <3>4
  <2>3. Given(w, q)
    BY <1>t, <2>1, <2>2 DEF Given
  <2>4. /\ \A s \in Sessions : Live(s)' => Live(s)
        /\ \A u \in Threads : At(u, "connect")' => At(u, "connect")
        /\ \A u \in Threads : InFlight(u)' => InFlight(u)
    BY <1>t, <2>2, <2>3, GivenEffect
  <2>5. calls' >= calls /\ reconnects' <= reconnects /\ regions' = regions
        /\ reconnectAttempts' = reconnectAttempts /\ latestSelectedRegion' = latestSelectedRegion
    BY <1>n, <2>1 DEF engineVars
  <2>6. ChancesInv'
    BY <2>1, <2>4, <2>5, ChancesKept DEF Bounded
  <2>7. \A r \in 1..Len(regions) : Held(r)' => Held(r)
    BY <2>1, <2>4, <2>5, HeldKept
  <2>8. AttemptsInv'
    BY <2>1, <2>5, <2>7, AttemptsKept DEF Bounded
  <2> QED
    BY <1>t, <2>3, <2>6, <2>8, GivenBounded
<1>3. CASE RunReconnect(w)
  <2>1. /\ stack[w] = <<>> /\ stack' = [stack EXCEPT ![w] = <<Frame("connect", 0)>>] /\ calls' = calls
        /\ reconnects > 0 /\ reconnects' = reconnects - 1
        /\ arg' = [arg EXCEPT ![w] = [NoArg EXCEPT !.region = latestSelectedRegion]]
        /\ session' = session /\ sess' = sess /\ note' = note /\ process' = process
        /\ reconnectAttempts' = reconnectAttempts /\ regions' = regions
        /\ latestSelectedRegion' = latestSelectedRegion
    BY <1>3 DEF RunReconnect, Idle, sessionVars, systemVars, clientVars
  <2>2. Given(w, <<Frame("connect", 0)>>)
    BY <1>t, <1>f, <2>1 DEF Given
  <2>3. arg'[w].region = latestSelectedRegion /\ \A u \in Threads : u # w => arg'[u] = arg[u]
    BY <1>t, <2>1 DEF TypeOK, NoArg
  <2>4. /\ \A s \in Sessions : Live(s)' => Live(s)
        /\ \A u \in Threads : At(u, "connect")' => At(u, "connect") \/ u = w
        /\ \A u \in Threads : InFlight(u)' => InFlight(u) \/ u = w
    BY <1>t, <2>2, GivenEffect
  <2> PICK n : n = reconnects
    OBVIOUS
  <2>5. \A i \in 1..reconnects' : i \in 1..reconnects /\ i # n
    BY <1>n, <2>1
  <2>6. ASSUME NEW x \in Chances' PROVE x = <<"connect", w>> \/ (x \in Chances /\ x # <<"queue", n>>)
    <3>1. CASE x \in {<<"note", u>> : u \in {v \in Threads : note[v].reconnect}}
      BY <3>1 DEF Chances
    <3>2. CASE x \in {<<"connect", u>> : u \in {v \in Threads : At(v, "connect")'}}
      BY <2>4, <3>2 DEF Chances
    <3>3. CASE x \in {<<"session", r>> : r \in {q \in Sessions : Live(q)'}}
      BY <2>4, <3>3 DEF Chances
    <3>4. CASE x \in {<<"queue", i>> : i \in 1..reconnects'}
      BY <2>5, <3>4 DEF Chances
    <3> QED
      BY <2>1, <2>6, <3>1, <3>2, <3>3, <3>4 DEF Chances
  <2>7. Chances' \subseteq (Chances \ {<<"queue", n>>}) \cup {<<"connect", w>>}
    BY <2>6
  <2>8. <<"queue", n>> \in Chances
    <3>1. n \in 1..reconnects
      BY <1>n, <2>1
    <3> QED
      BY <3>1 DEF Chances
  <2>9. ChancesInv'
    BY <2>1, <2>7, <2>8, ChancesExchanged DEF Bounded
  <2>10. \A r \in 1..Len(regions) : Held(r)' => Held(r)
    BY <2>1, <2>3, <2>4 DEF Held
  <2>11. calls' >= calls
    BY <1>n, <2>1
  <2>12. AttemptsInv'
    BY <2>1, <2>10, <2>11, AttemptsKept DEF Bounded
  <2> QED
    BY <1>t, <2>2, <2>9, <2>12, GivenBounded
<1> QED
  BY <1>1, <1>2, <1>3 DEF Client

\* An exit that is raised is nothing new: no reconnect comes of it.
LEMMA RaiseBounded ==
  ASSUME Exclusive, ReadersInv, TypeOK', Bounded, NEW s \in Sessions, RaiseExited(s)
  PROVE  Bounded'
<1>t. TypeOK
  BY DEF Exclusive
<1> PICK t : t = ExitThread(s)
  OBVIOUS
<1>1. /\ process[s].raised = "no"
      /\ process' = [process EXCEPT ![s].raised = Heard(s)]
      /\ stack' = [stack EXCEPT ![t] = IF Heard(s) = "heard" THEN <<Frame("exited", s)>> ELSE <<>>]
      /\ session' = session /\ sess' = sess /\ note' = note /\ arg' = arg
      /\ calls' = calls /\ UNCHANGED engineVars
  BY Zenon DEF RaiseExited, sessionVars, clientVars
<1>2. /\ regions' = regions /\ reconnectAttempts' = reconnectAttempts
      /\ latestSelectedRegion' = latestSelectedRegion /\ reconnects' = reconnects
  BY <1>1 DEF engineVars
<1>3. /\ t \in Threads /\ \A r \in Sessions : t # Reader(r)
  BY SessionThreads DEF ExitThread, Reader
<1>4. stack[t] = <<>>
  BY <1>1 DEF ReadersInv
<1>5. \A r \in Sessions : process'[r].stream = process[r].stream /\ process'[r].written = process[r].written
  <2>1. process \in [Sessions -> Processes]
    BY <1>t DEF TypeOK
  <2> PICK h : h = Heard(s)
    OBVIOUS
  <2>2. ASSUME NEW p \in Processes, NEW y, y = [p EXCEPT !.raised = h]
        PROVE  y.stream = p.stream /\ y.written = p.written
    BY <2>2 DEF Processes
  <2>3. process'[s] = [process[s] EXCEPT !.raised = h] /\ \A r \in Sessions : r # s => process'[r] = process[r]
    BY <1>1, <2>1
  <2>4. process[s] \in Processes
    BY <2>1
  <2>5. process'[s].stream = process[s].stream /\ process'[s].written = process[s].written
    BY <2>2, <2>3, <2>4
  <2> QED
    BY <2>3, <2>5
<1>6. PICK q : q \in {<<>>, <<Frame("exited", s)>>} /\ stack' = [stack EXCEPT ![t] = q]
  BY <1>1
<1>7. Frame("exited", s) \in Frames /\ Frame("exited", s).at = "exited"
  BY FrameTyped, BoundsAssumption DEF Labels, Sessions
<1>8. q \in Seq(Frames) /\ (\A i \in 2..Len(q) : FALSE) /\ \A k : Has(q, k) => k = "exited"
  <2>1. CASE q = <<>>
    BY <2>1, NoFrame
  <2>2. CASE q = <<Frame("exited", s)>>
    BY <1>7, <2>2 DEF Has
  <2> QED
    BY <1>6, <2>1, <2>2
<1>9. Given(t, q)
  BY <1>1, <1>3, <1>4, <1>5, <1>6, <1>8 DEF Given
<1>10. /\ \A r \in Sessions : Live(r)' => Live(r)
       /\ \A u \in Threads : At(u, "connect")' => At(u, "connect")
       /\ \A u \in Threads : InFlight(u)' => InFlight(u)
  BY <1>t, <1>3, <1>8, <1>9, GivenEffect
<1>n. calls' >= calls /\ reconnects' <= reconnects
  BY <1>t, <1>1, <1>2 DEF TypeOK
<1>11. ChancesInv'
  BY <1>t, <1>1, <1>n, <1>10, ChancesKept DEF Bounded
<1>12. \A r \in 1..Len(regions) : Held(r)' => Held(r)
  BY <1>t, <1>1, <1>2, <1>10, HeldKept
<1>13. AttemptsInv'
  BY <1>t, <1>1, <1>2, <1>n, <1>12, AttemptsKept DEF Bounded
<1> QED
  BY <1>t, <1>3, <1>9, <1>11, <1>13, GivenBounded

\* A process that writes or exits ends no session and starts none: it is the reader that does.
LEMMA UntouchedBounded ==
  ASSUME TypeOK, TypeOK', Bounded, OutcomesInv',
         UNCHANGED <<stack, session, sess, note, arg, calls>>, UNCHANGED engineVars,
         \A s \in Sessions : Over(s)' <=> Over(s)
  PROVE  Bounded'
<1>1. /\ stack' = stack /\ session' = session /\ sess' = sess /\ note' = note /\ arg' = arg
      /\ calls' = calls /\ regions' = regions /\ reconnectAttempts' = reconnectAttempts
      /\ latestSelectedRegion' = latestSelectedRegion /\ reconnects' = reconnects
  BY DEF engineVars
<1>2. calls' >= calls /\ reconnects' <= reconnects
  BY <1>1 DEF TypeOK
<1>3. \A t \in Threads : \A s \in 0..MaxSessions : Dying(t, s)' <=> Dying(t, s)
  BY <1>1 DEF Dying, At, Subject
<1>4. \A s \in Sessions : Live(s)' => Live(s)
  BY <1>1, <1>3, BoundsAssumption DEF Live, Sessions
<1>5. \A u \in Threads : (At(u, "connect")' <=> At(u, "connect")) /\ (InFlight(u)' <=> InFlight(u))
  BY <1>1 DEF At, InFlight
<1>6. ChancesInv'
  BY <1>1, <1>2, <1>4, <1>5, ChancesKept DEF Bounded
<1>7. \A r \in 1..Len(regions) : Held(r)' => Held(r)
  BY <1>1, <1>5, HeldKept
<1>8. AttemptsInv'
  BY <1>1, <1>2, <1>7, AttemptsKept DEF Bounded
<1>9. ShapedInv' /\ UnlockInv' /\ StartingInv' /\ sess'[0].state = "Disconnected"
  BY <1>1 DEF Bounded, ShapedInv, UnlockInv, StartingInv, Starting
<1>10. NotesInv'
  <2> SUFFICES ASSUME NEW t \in Threads
               PROVE  /\ note[t].reconnect => Told(t)'
                      /\ note[t].newState = "Connected" =>
                           /\ At(t, "changed")' \/ Told(t)'
                           /\ \E s \in Sessions : t = Reader(s) /\ ~Over(s)'
    BY <1>1 DEF NotesInv
  <2>1. (Told(t)' <=> Told(t)) /\ (At(t, "changed")' <=> At(t, "changed"))
    BY <1>1 DEF Told, At
  <2> QED
    BY <2>1 DEF Bounded, NotesInv
<1>11. DyingInv'
  BY <1>1, <1>3 DEF Bounded, DyingInv
<1> QED
  BY <1>6, <1>8, <1>9, <1>10, <1>11 DEF Bounded

\* What OpenVPN writes has not been read yet.
LEMMA WriteOver ==
  ASSUME TypeOK, LinesInv, NEW s \in Sessions, Write(s), stack' = stack
  PROVE  \A r \in Sessions : Over(r)' <=> Over(r)
<1> PICK q, p, w : q = process[s].stream /\ p = process'[s].stream /\ w = process[s].written
  OBVIOUS
<1>1. PICK kind \in Notifications :
         /\ MayWrite(s, kind)
         /\ \A r \in Sessions : r # s => process'[r] = process[r]
         /\ process'[s].written = w \cup {kind}
         /\ Len(q) \in Nat /\ Len(p) = Len(q) + 1 /\ p[Len(p)] = kind
         /\ \A i \in 1..Len(q) : p[i] = q[i]
  BY LineWritten
<1>2. kind \notin w
  BY <1>1 DEF MayWrite
<1>3. \A i \in 1..Len(p) : (i \in 1..Len(q) /\ p[i] = q[i]) \/ p[i] = kind
  BY <1>1
<1>4. Len(p) \in 1..Len(p) /\ \A i \in 1..Len(q) : i \in 1..Len(p)
  BY <1>1
<1>5. ASSUME NEW k PROVE Taken(s, k)' <=> Taken(s, k)
  <2>1. CASE k = kind
    <3>1. ~Taken(s, k)
      BY <1>2, <2>1 DEF Taken
    <3>2. ~Taken(s, k)'
      BY <1>1, <1>4, <2>1 DEF Taken
    <3> QED
      BY <3>1, <3>2
  <2>2. CASE k # kind
    <3>1. (\A i \in 1..Len(p) : p[i] # k) <=> (\A i \in 1..Len(q) : q[i] # k)
      BY <1>1, <1>3, <1>4, <2>2
    <3> QED
      BY <1>1, <2>2, <3>1 DEF Taken
  <2> QED
    BY <2>1, <2>2
<1>6. ASSUME NEW r \in Sessions PROVE Over(r)' <=> Over(r)
  <2>1. CASE r = s
    BY <1>5, <2>1 DEF Over
  <2>2. CASE r # s
    BY <1>1, <2>2 DEF Over, Taken
  <2> QED
    BY <2>1, <2>2
<1> QED
  BY <1>6

\* So neither adds a reconnect.
LEMMA ProcessBounded ==
  ASSUME Exclusive, LinesInv, TypeOK', Bounded,
         \/ \E s \in Sessions : Write(s) \/ Exit(s)
         \/ UNCHANGED vars
  PROVE  Bounded'
<1>t. TypeOK
  BY DEF Exclusive
<1>1. UNCHANGED <<stack, session, sess, note, arg, calls>> /\ UNCHANGED engineVars
  BY Zenon DEF Write, Exit, vars, sessionVars, threadVars, clientVars
<1>2. OutcomesInv' /\ \A r \in Sessions : Over(r)' <=> Over(r)
  <2>1. ASSUME NEW s \in Sessions, Write(s)
        PROVE  OutcomesInv' /\ \A r \in Sessions : Over(r)' <=> Over(r)
    <3>1. OutcomesInv
      BY DEF Bounded
    <3>2. stack' = stack
      BY <1>1
    <3> QED
      BY <1>t, <2>1, <3>1, <3>2, OutcomesWritten, WriteOver
  <2>2. ASSUME \A r \in Sessions : /\ process'[r].stream = process[r].stream
                                   /\ process'[r].written = process[r].written
        PROVE  OutcomesInv' /\ \A r \in Sessions : Over(r)' <=> Over(r)
    <3>1. OutcomesInv'
      BY <2>2, OutcomesSame DEF Bounded
    <3> QED
      BY <1>1, <2>2, <3>1 DEF Over, Taken
  <2>3. ASSUME NEW s \in Sessions, Exit(s)
        PROVE  \A r \in Sessions : /\ process'[r].stream = process[r].stream
                                   /\ process'[r].written = process[r].written
    <3>1. process' = [process EXCEPT ![s].status = "exited"]
      BY <2>3, Zenon DEF Exit
    <3> QED
      BY <1>t, <3>1 DEF TypeOK, Processes
  <2>4. ASSUME UNCHANGED vars
        PROVE  \A r \in Sessions : /\ process'[r].stream = process[r].stream
                                   /\ process'[r].written = process[r].written
    BY <2>4 DEF vars, systemVars
  <2> QED
    BY <2>1, <2>2, <2>3, <2>4
<1> QED
  BY <1>t, <1>1, <1>2, UntouchedBounded

\* Nothing is left of what could make a reconnect.
Nothing ==
  /\ TypeOK /\ OutcomesInv
  /\ \A t \in Threads : stack[t] = <<>> /\ note[t] = NoNote
  /\ \A s \in 0..MaxSessions : sess[s].state = "Disconnected"
  /\ reconnects = 0 /\ reconnectAttempts = 0 /\ regions = <<>>

\* So there are none.
LEMMA NothingBounded == Nothing => Bounded
<1> SUFFICES ASSUME Nothing PROVE Bounded
  OBVIOUS
<1>0. /\ TypeOK /\ OutcomesInv
      /\ \A t \in Threads : stack[t] = <<>> /\ note[t] = NoNote
      /\ \A s \in 0..MaxSessions : sess[s].state = "Disconnected"
      /\ reconnects = 0 /\ reconnectAttempts = 0 /\ regions = <<>>
  BY DEF Nothing
<1>1. \A t \in Threads : /\ \A l : ~Has(stack[t], l)
                         /\ \A l : ~At(t, l)
                         /\ Len(stack[t]) = 0
                         /\ ~note[t].reconnect /\ note[t].newState = "Disconnected"
  BY <1>0, NoFrame DEF At, NoNote, Status
<1>2. 0 \in 0..MaxSessions
  BY BoundsAssumption
<1>3. \A s \in Sessions : s \in 0..MaxSessions /\ ~Live(s)
  <2>1. \A s \in Sessions : s \in 0..MaxSessions /\ Reader(s) \in Threads
    BY SessionThreads, BoundsAssumption DEF Sessions
  <2> QED
    BY <1>0, <1>1, <2>1 DEF Live, Over, Dying
<1>4. ShapedInv /\ NotesInv /\ DyingInv /\ UnlockInv
  BY <1>1 DEF ShapedInv, NotesInv, DyingInv, UnlockInv, Dying
<1>5. StartingInv
  BY <1>1 DEF StartingInv, Starting
<1>6. Chances = {}
  <2>1. 1..reconnects = {}
    BY <1>0
  <2> QED
    BY <1>1, <1>3, <2>1 DEF Chances
<1>7. Raises = {}
  <2>1. 1..Len(regions) = {}
    BY <1>0
  <2> QED
    BY <1>1, <2>1 DEF Raises
<1>8. IsFiniteSet({}) /\ Cardinality({}) = 0
  BY FS_EmptySet
<1>9. calls \in Nat
  BY <1>0 DEF TypeOK
<1>10. ChancesInv
  BY <1>6, <1>8, <1>9 DEF ChancesInv
<1>11. AttemptsInv
  BY <1>0, <1>7, <1>8, <1>9 DEF AttemptsInv
<1> QED
  BY <1>0, <1>2, <1>4, <1>5, <1>10, <1>11 DEF Bounded

\* After a step, too.
LEMMA NothingLeft == Nothing' => Bounded'
  BY NothingBounded, PTL

\* That is how it is when a service starts.
LEMMA BoundedInit == Init => Bounded
<1> SUFFICES ASSUME Init PROVE Bounded
  OBVIOUS
<1>1. /\ \A t \in Threads : stack[t] = <<>> /\ note[t] = NoNote
      /\ \A s \in 0..MaxSessions : sess[s].state = "Disconnected"
      /\ reconnects = 0 /\ reconnectAttempts = 0 /\ regions = <<>>
  BY DEF Init, NewSession
<1>2. \A s \in Sessions : process[s].stream = <<>> /\ process[s].written = {}
  BY DEF Init, NewProcess
<1>3. \A s \in Sessions : Len(process[s].stream) = 0
  BY <1>2
<1>4. OutcomesInv
  BY <1>2, <1>3 DEF OutcomesInv
<1> QED
  BY <1>1, <1>4, TypeInit, NothingBounded DEF Nothing

\* And again when it is restarted: the calls of the old one are not taken back.
LEMMA RestartBounded ==
  ASSUME TypeOK, TypeOK', Bounded, Restart
  PROVE  Bounded'
<1>1. /\ \A t \in Threads : stack'[t] = <<>> /\ note'[t] = NoNote
      /\ \A s \in 0..MaxSessions : sess'[s].state = "Disconnected"
      /\ reconnects' = 0 /\ reconnectAttempts' = 0 /\ regions' = <<>>
  BY DEF Restart, NewSession
<1>2. process' = [s \in Sessions |-> IF process[s].status = "none" THEN process[s]
                                     ELSE [process[s] EXCEPT !.raised = "unheard", !.stream = <<>>]]
  BY Zenon DEF Restart
<1>3. ASSUME NEW x \in Processes, NEW y, y = [x EXCEPT !.raised = "unheard", !.stream = <<>>]
      PROVE  Len(y.stream) = 0 /\ y.written = x.written
  BY <1>3 DEF Processes
<1>4. ASSUME NEW s \in Sessions
      PROVE  process'[s] = process[s] \/ (/\ Len(process'[s].stream) = 0
                                          /\ process'[s].written = process[s].written)
  <2>1. process[s] \in Processes
    BY DEF TypeOK
  <2>2. CASE process[s].status = "none"
    BY <1>2, <2>2
  <2>3. CASE process[s].status # "none"
    <3>1. process'[s] = [process[s] EXCEPT !.raised = "unheard", !.stream = <<>>]
      BY <1>2, <2>3
    <3> QED
      BY <1>3, <2>1, <3>1
  <2> QED
    BY <2>2, <2>3
<1>5. OutcomesInv'
  BY <1>4 DEF Bounded, OutcomesInv
<1> QED
  BY <1>1, <1>5, NothingLeft DEF Nothing

\* A thread that runs leaves what was written, and what is left to read.
LEMMA RunOutcomes ==
  ASSUME TypeOK, ReadersInv, OutcomesInv, NEW t \in Threads, Run(t)
  PROVE  OutcomesInv'
<1>1. \A s \in Sessions : process'[s].stream = process[s].stream /\ process'[s].written = process[s].written
  <2>1. CASE \/ ConnectWhenBusy(t) \/ ConnectWithoutNetwork(t) \/ Clean(t) \/ Prepare(t) \/ Launch(t)
             \/ Attach(t) \/ Bind(t) \/ BindRest(t) \/ Failed(t) \/ DisconnectWhenIdle(t)
             \/ StopOpenVpn(t) \/ Stopped(t) \/ Changed(t) \/ Invoke(t) \/ Enable(t) \/ Unblock(t)
             \/ Forget(t) \/ SwitchOffUnblocks(t) \/ StoreSetting(t) \/ After(t)
    <3>1. Steady(t)
      BY <2>1, SteadyRun
    <3> QED
      BY <3>1, Zenon DEF Steady
  <2>2. CASE \/ StartSession(t) \/ StartReader(t) \/ Disconnect(t) \/ OnOpenVpnExit(t)
             \/ Unlock(t) \/ StopRequested(t) \/ SessionDisconnect(t)
    <3>1. process' = process
      BY <2>2, Zenon DEF StartSession, StartReader, Disconnect, OnOpenVpnExit, Unlock, StopRequested,
                         SessionDisconnect, systemVars
    <3> QED
      BY <3>1
  <2>3. CASE WaitExit(t)
    <3>1. PICK s : \E h : process' = [process EXCEPT ![s].raised = h]
      BY <2>3 DEF WaitExit
    <3>2. PICK h : process' = [process EXCEPT ![s].raised = h]
      BY <3>1
    <3>3. process \in [Sessions -> Processes]
      BY DEF TypeOK
    <3>4. ASSUME NEW p \in Processes, NEW y, y = [p EXCEPT !.raised = h]
          PROVE  y.stream = p.stream /\ y.written = p.written
      BY <3>4 DEF Processes
    <3>5. ASSUME NEW r \in Sessions
          PROVE  process'[r] = process[r] \/ process'[r] = [process[r] EXCEPT !.raised = h]
      BY <3>2, <3>3
    <3>6. \A r \in Sessions : process[r] \in Processes
      BY <3>3
    <3> QED
      BY <3>4, <3>5, <3>6
  <2> QED
    BY <2>1, <2>2, <2>3 DEF Run, Locked
<1> QED
  BY <1>1, OutcomesSame

\* No step of the service makes more reconnects than the calls paid for.
LEMMA BoundedStep == Exclusive /\ Settling /\ Bounded /\ [Next]_vars => Bounded'
<1> SUFFICES ASSUME Exclusive, Settling, Bounded, [Next]_vars PROVE Bounded'
  OBVIOUS
<1>t. TypeOK /\ TypeOK' /\ LinesInv /\ ReadersInv /\ OutcomesInv
  BY TypeStep DEF Exclusive, Settling, Bounded
<1>1. CASE Service
  <2>1. ASSUME NEW t \in Threads, Run(t) PROVE Bounded'
    <3>o. OutcomesInv'
      BY <1>t, <2>1, RunOutcomes
    <3>1. CASE \/ ConnectWhenBusy(t) \/ ConnectWithoutNetwork(t) \/ Clean(t) \/ Prepare(t) \/ Launch(t)
               \/ Attach(t) \/ Bind(t) \/ BindRest(t) \/ Failed(t) \/ DisconnectWhenIdle(t)
               \/ StopOpenVpn(t) \/ Stopped(t) \/ SwitchOffUnblocks(t) \/ StoreSetting(t)
      <4>1. Calm(t)
        BY <1>t, <3>1, CalmRun
      <4> QED
        BY <1>t, <3>o, <4>1, CalmKeeps
    <3>2. CASE \/ Unlock(t) \/ WaitExit(t) \/ StopRequested(t)
               \/ Disconnect(t) /\ sess[session].state # "Connected"
      <4>1. Calm(t)
        BY <1>t, <3>2, CalmRest
      <4> QED
        BY <1>t, <3>o, <4>1, CalmKeeps
    <3>3. CASE \/ Disconnect(t) /\ sess[session].state = "Connected"
               \/ SessionDisconnect(t) \/ OnOpenVpnExit(t)
      BY <1>t, <3>o, <3>3, EndsKeep
    <3>4. CASE StartSession(t) \/ StartReader(t)
      BY <1>t, <3>o, <3>4, StartBounded, StartReaderBounded
    <3>5. CASE Changed(t) \/ After(t)
      BY <1>t, <3>o, <3>5, ChangedBounded, AfterBounded
    <3>6. CASE Invoke(t) \/ Enable(t) \/ Unblock(t) \/ Forget(t)
      BY <1>t, <3>o, <3>6, ToldBounded
    <3> QED
      BY <2>1, <3>1, <3>2, <3>3, <3>4, <3>5, <3>6 DEF Run, Locked
  <2>2. ASSUME NEW s \in Sessions, ReadLine(s) PROVE Bounded'
    <3>1. CASE ErrorReply(s) \/ RecordError(s) \/ ReaderEnds(s)
      <4>1. Calm(Reader(s)) /\ \A r \in Sessions : /\ process'[r].stream = process[r].stream
                                                    /\ process'[r].written = process[r].written
        BY <1>t, <3>1, ReaderCalm
      <4>2. OutcomesInv'
        BY <1>t, <4>1, OutcomesSame
      <4> PICK t \in Threads : t = Reader(s)
        BY SessionThreads
      <4>3. Calm(t)
        BY <4>1
      <4> QED
        BY <1>t, <4>2, <4>3, CalmKeeps
    <3>2. CASE \/ HandleStateNotification(s) \/ HandleAuthNotification(s) \/ HandleFatalNotification(s)
               \/ HandleLogNotification(s) \/ HandleErrorReply(s)
      BY <1>t, <3>2, HandlersBounded
    <3> QED
      BY <2>2, <3>1, <3>2 DEF ReadLine
  <2>3. ASSUME NEW s \in Sessions, Write(s) \/ Exit(s) PROVE Bounded'
    BY <1>t, <2>3, ProcessBounded
  <2>4. ASSUME NEW w \in Workers, Client(w) \/ RunReconnect(w) PROVE Bounded'
    BY <1>t, <2>4, CallsBounded
  <2>5. ASSUME NEW s \in Sessions, RaiseExited(s) PROVE Bounded'
    BY <1>t, <2>5, RaiseBounded
  <2> QED
    BY <1>1, <2>1, <2>2, <2>3, <2>4, <2>5 DEF Service
<1>2. CASE Restart
  BY <1>t, <1>2, RestartBounded
<1>3. CASE UNCHANGED vars
  BY <1>t, <1>3, ProcessBounded
<1> QED
  BY <1>1, <1>2, <1>3 DEF Next

\* However often sessions fail and whoever reports it, the reconnects the service makes by
\* itself are bounded by the calls its clients made: each retry and each fallback to tcp was
\* paid for by a call (OpenVpn.TryReconnecting, OpenVpn.Reconnect).
THEOREM ReconnectsStayBounded == Spec => []ReconnectsBounded
<1>1. Exclusive /\ Bounded => ReconnectsBounded
  <2> SUFFICES ASSUME Exclusive, Bounded PROVE ReconnectsBounded
    OBVIOUS
  <2>1. calls \in Nat /\ reconnectAttempts \in Nat
    BY DEF Exclusive, TypeOK
  <2>2. IsFiniteSet(Raises) /\ (reconnectAttempts > 0 => reconnectAttempts + Cardinality(Raises) <= calls + 2)
    BY DEF Bounded, AttemptsInv
  <2>3. Cardinality(Raises) \in Nat
    BY <2>2, Counted
  <2> QED
    BY <2>1, <2>2, <2>3 DEF ReconnectsBounded
<1> QED
  BY <1>1, ExclusiveInit, ExclusiveStep, SettlingInit, SettlingStep, BoundedInit, BoundedStep, PTL DEF Spec
=============================================================================
