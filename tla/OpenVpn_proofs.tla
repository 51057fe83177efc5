-------------------------- MODULE OpenVpn_proofs --------------------------
(***************************************************************************)
(* Theorems about the Windows connection engine, for every number of pool  *)
(* threads, sessions, calls, notifications and restarts.                   *)
(*                                                                         *)
(* Types: a step takes the innermost frame of one stack off and pushes     *)
(* some of its own; one lemma per group of actions.                        *)
(*                                                                         *)
(* One process: OneProcess is not inductive, since Launch starts a process *)
(* without looking at the others.  What makes it true is that Clean killed *)
(* them all and the thread is still inside the lock.  So the invariant,    *)
(* Exclusive, says who can be inside the lock (Discipline), which it can   *)
(* only do by saying what a stack looks like (Ordered), and that no        *)
(* process runs while some thread is between Clean and Launch.             *)
(*                                                                         *)
(* Drops: that a dropped connection stays blocked is a fact about the step *)
(* that runs the blocker, but what the step obeys was decided earlier.  So *)
(* the invariant, Decided, says of every thread between the two that it    *)
(* decided before the kill switch was switched on, or that the service is  *)
(* stopping, and that nothing else has asked for a disconnect.             *)
(*                                                                         *)
(* Dead sessions: a session that is Connected or Connecting although no    *)
(* thread will ever touch it again would be a lie to its clients.  The     *)
(* invariant, Settling, follows a session's end along the threads: a line  *)
(* is written once (LinesInv), a reader starts and ends once (ReadersInv), *)
(* a stop that was asked for has its disconnect still under the lock or is *)
(* Disconnected (StopInv), and an exit that was heard is being handled or  *)
(* was silenced by such a stop (ExitInv).                                  *)
(*                                                                         *)
(* What clients are told: that the block is lifted after a drop, and that  *)
(* the service shows the state its session is in, hold while nobody asks   *)
(* for a disconnect.  Then a session only ends by the process it started:  *)
(* Course follows it from Connecting to the exit that was heard, and says  *)
(* that one thread at a time is behind it.  So the statuses are told one   *)
(* after the other, and Show follows each to its end: a status that goes   *)
(* on tells the state the session is in (TellInv), a block of a session    *)
(* that ended is about to be lifted by a disconnect that was not told yet, *)
(* by one whose handler runs the blocker or by a reconnect (LiftInv), and  *)
(* what is shown is the state or about to be corrected (ShowInv).          *)
(***************************************************************************)
EXTENDS OpenVpn, SequenceTheorems, TLAPS

-----------------------------------------------------------------------------
(* Types *)

\* The frames a step pushes are frames.
LEMMA FrameTyped ==
  ASSUME NEW at \in Labels, NEW s \in 0..MaxSessions
  PROVE  /\ Frame(at, s) \in Frames
         /\ Frame(at, s).at = at
         /\ Frame(at, s).s = s
  BY DEF Frame, Frames

\* A thread that goes on with some frames has them on top of what it had below its innermost one.
LEMMA Continued ==
  ASSUME stack \in [Threads -> Seq(Frames)], NEW t \in Threads, stack[t] # <<>>,
         NEW f \in Seq(Frames), Continue(t, f)
  PROVE  /\ stack' \in [Threads -> Seq(Frames)]
         /\ \A u \in Threads : u # t => stack'[u] = stack[u]
         /\ stack'[t] = f \o Tail(stack[t])
         /\ Len(stack'[t]) = Len(f) + Len(stack[t]) - 1
         /\ \A i \in 1..Len(f) : stack'[t][i] = f[i]
         /\ \A i \in 2..Len(stack[t]) : stack'[t][i + Len(f) - 1] = stack[t][i]
         /\ \A i \in 1..Len(stack'[t]) : i > Len(f) =>
              /\ i - Len(f) + 1 \in 2..Len(stack[t])
              /\ stack'[t][i] = stack[t][i - Len(f) + 1]
<1> PICK q : q = stack[t]
  OBVIOUS
<1>q. q \in Seq(Frames) /\ q # <<>>
  OBVIOUS
<1>1. /\ Tail(q) \in Seq(Frames)
      /\ Len(Tail(q)) = Len(q) - 1
      /\ \A i \in 1..Len(Tail(q)) : Tail(q)[i] = q[i + 1]
  BY <1>q, HeadTailProperties
<1>2. /\ f \o Tail(q) \in Seq(Frames)
      /\ Len(f \o Tail(q)) = Len(f) + Len(Tail(q))
      /\ \A i \in 1..Len(f) + Len(Tail(q)) :
           (f \o Tail(q))[i] = IF i <= Len(f) THEN f[i] ELSE Tail(q)[i - Len(f)]
  BY <1>1, ConcatProperties
<1>3. stack' = [stack EXCEPT ![t] = f \o Tail(q)]
  BY DEF Continue
<1>4. /\ stack' \in [Threads -> Seq(Frames)]
      /\ stack'[t] = f \o Tail(q)
      /\ \A u \in Threads : u # t => stack'[u] = stack[u]
  BY <1>2, <1>3
<1>5. Len(q) \in Nat /\ Len(q) >= 1 /\ Len(f) \in Nat
  BY <1>q
<1>6. Len(stack'[t]) = Len(f) + Len(q) - 1
  BY <1>1, <1>2, <1>4, <1>5
<1>7. \A i \in 1..Len(f) : stack'[t][i] = f[i]
  BY <1>1, <1>2, <1>4, <1>5
<1>8. ASSUME NEW i \in 2..Len(q) PROVE stack'[t][i + Len(f) - 1] = q[i]
  BY <1>1, <1>2, <1>4, <1>5
<1>9. ASSUME NEW i \in 1..Len(stack'[t]), i > Len(f)
      PROVE i - Len(f) + 1 \in 2..Len(q) /\ stack'[t][i] = q[i - Len(f) + 1]
  BY <1>1, <1>2, <1>4, <1>5, <1>6, <1>9
<1> QED
  BY <1>4, <1>6, <1>7, <1>8, <1>9

\* A frame in front of others.
LEMMA Fronted ==
  ASSUME NEW x \in Frames, NEW f \in Seq(Frames)
  PROVE  /\ <<x>> \o f \in Seq(Frames)
         /\ Len(<<x>> \o f) = 1 + Len(f)
         /\ (<<x>> \o f)[1] = x
         /\ \A i \in 1..Len(f) : (<<x>> \o f)[i + 1] = f[i]
         /\ \A i \in 2..Len(<<x>> \o f) : (<<x>> \o f)[i] = f[i - 1]
<1>1. <<x>> \in Seq(Frames) /\ Len(<<x>>) = 1 /\ <<x>>[1] = x
  OBVIOUS
<1>2. /\ <<x>> \o f \in Seq(Frames)
      /\ Len(<<x>> \o f) = Len(<<x>>) + Len(f)
      /\ \A i \in 1..Len(<<x>>) + Len(f) :
           (<<x>> \o f)[i] = IF i <= Len(<<x>>) THEN <<x>>[i] ELSE f[i - Len(<<x>>)]
  BY <1>1, ConcatProperties
<1>3. Len(f) \in Nat
  OBVIOUS
<1> QED
  BY <1>1, <1>2, <1>3

\* A step that changes a session leaves everything typed.
LEMMA SetSessionTyped ==
  ASSUME TypeOK, NEW t \in Threads, stack[t] # <<>>, NEW s \in 0..MaxSessions,
         NEW rec \in SessionRecords, NEW f \in Seq(Frames), SetSession(t, s, rec, f)
  PROVE  /\ sess' \in [0..MaxSessions -> SessionRecords]
         /\ stack' \in [Threads -> Seq(Frames)]
         /\ note' \in [Threads -> Notes]
<1>1. sess' \in [0..MaxSessions -> SessionRecords]
  BY DEF TypeOK, SetSession
<1>2. CASE rec.state = sess[s].state
  BY <1>1, <1>2, Continued DEF TypeOK, SetSession
<1>3. CASE rec.state # sess[s].state
  <2>1. Frame("changed", s) \in Frames
    BY FrameTyped DEF Labels
  <2>2. <<Frame("changed", s)>> \o f \in Seq(Frames)
    BY <2>1, Fronted
  <2>3. Status(rec.state, rec.lastError, FALSE) \in Notes
    BY DEF SessionRecords, Notes, Status
  <2> QED
    BY <1>1, <1>3, <2>2, <2>3, Continued DEF TypeOK, SetSession
<1> QED
  BY <1>2, <1>3

\* So does one that changes only its state.
LEMMA SetStateTyped ==
  ASSUME TypeOK, NEW t \in Threads, stack[t] # <<>>, NEW s \in 0..MaxSessions,
         NEW st \in ConnectionStates, NEW f \in Seq(Frames), SetState(t, s, st, f)
  PROVE  /\ sess' \in [0..MaxSessions -> SessionRecords]
         /\ stack' \in [Threads -> Seq(Frames)]
         /\ note' \in [Threads -> Notes]
<1>1. [sess[s] EXCEPT !.state = st] \in SessionRecords
  BY ZenonT(40) DEF TypeOK, SessionRecords
<1> QED
  BY <1>1, SetSessionTyped DEF SetState

\* So does one that tells of an error no session went through.
LEMMA NotifyErrorTyped ==
  ASSUME TypeOK, NEW t \in Threads, stack[t] # <<>>,
         NEW error \in ErrorTypes, NEW f \in Seq(Frames), NotifyError(t, error, f)
  PROVE  /\ connectionState' \in ConnectionStates
         /\ stack' \in [Threads -> Seq(Frames)]
         /\ note' \in [Threads -> Notes]
<1>1. Frame("invoke", 0) \in Frames
  BY FrameTyped, BoundsAssumption DEF Labels
<1>2. <<Frame("invoke", 0)>> \o f \in Seq(Frames)
  BY <1>1, Fronted
<1>3. Status("Disconnected", error, FALSE) \in Notes
  BY DEF ConnectionStates, Notes, Status
<1> QED
  BY <1>2, <1>3, Continued DEF TypeOK, NotifyError, ConnectionStates

\* What the catch block of Connect pushes.
LEMMA FailTyped ==
  ASSUME TypeOK, NEW t \in Threads, stack[t] # <<>>, NEW error \in ErrorTypes, Fail(t, error)
  PROVE  /\ stack' \in [Threads -> Seq(Frames)]
         /\ arg' \in [Threads -> Args]
         /\ \A u \in Threads : arg'[u].region = arg[u].region
<1>1. <<Frame("stop", 0), Frame("sessionDisconnect", 0), Frame("failed", 0), Frame("unlock", 0)>>
        \in Seq(Frames)
  BY FrameTyped, BoundsAssumption DEF Labels
<1>2. stack' \in [Threads -> Seq(Frames)]
  BY <1>1, Continued DEF TypeOK, Fail
<1>3. arg \in [Threads -> Args] /\ arg' = [arg EXCEPT ![t].error = error]
  BY DEF TypeOK, Fail
<1>4. arg' \in [Threads -> Args] /\ \A u \in Threads : arg'[u].region = arg[u].region
  BY <1>3 DEF Args
<1> QED
  BY <1>2, <1>4

\* Frames of a step, of one element.
LEMMA OneFrame ==
  /\ <<>> \in Seq(Frames)
  /\ \A at \in Labels, s \in 0..MaxSessions : <<Frame(at, s)>> \in Seq(Frames)
  /\ \A at \in Labels : <<Frame(at, 0)>> \in Seq(Frames)
BY FrameTyped, BoundsAssumption

\* The threads of the sessions are threads.
LEMMA SessionThreads ==
  ASSUME NEW s \in Sessions
  PROVE  Reader(s) \in Threads /\ ExitThread(s) \in Threads /\ s \in 0..MaxSessions
BY BoundsAssumption DEF Threads, Sessions

\* The steps of a call of Connect keep the types.
LEMMA TypeOfLocked ==
  ASSUME TypeOK, NEW t \in Threads, Locked(t)
  PROVE  TypeOK'
<1> USE DEF At
<1>s. session \in 0..MaxSessions /\ 0 \in 0..MaxSessions
  BY BoundsAssumption DEF TypeOK
<1>r. sess[session] \in SessionRecords
  BY <1>s DEF TypeOK
<1>1. CASE Clean(t)
  <2>1. process' \in [Sessions -> Processes]
    BY <1>1, ZenonT(40) DEF Clean, TypeOK, Processes
  <2> QED
    BY <1>1, <2>1, OneFrame, Continued, ZenonT(40) DEF Clean, TypeOK, Labels, KillSwitchTypeOK,
       sessionVars, engineVars, threadVars, systemVars, clientVars, ksVars
<1>2. CASE Prepare(t)
  <2>1. CASE Continue(t, <<Frame("launch", 0)>>) /\ UNCHANGED arg
    BY <1>2, <2>1, OneFrame, Continued, ZenonT(40) DEF Prepare, TypeOK, Labels,
       KillSwitchTypeOK, sessionVars, engineVars, threadVars, systemVars, clientVars, ksVars
  <2>2. ASSUME NEW error \in {"TapAdapterError", "NoError"}, Fail(t, error) PROVE TypeOK'
    <3>1. error \in ErrorTypes
      BY DEF ErrorTypes
    <3> QED
      BY <1>2, <2>2, <3>1, FailTyped, ZenonT(40) DEF Prepare, TypeOK, KillSwitchTypeOK,
         sessionVars, engineVars, threadVars, systemVars, clientVars, ksVars
  <2> QED
    BY <1>2, <2>1, <2>2 DEF Prepare
<1>3. CASE Launch(t)
  <2>1. CASE /\ process' = [process EXCEPT ![session].status = "running"]
             /\ latestSelectedRegion' = arg[t].region
             /\ isTriggeredByAutoconnect' = arg[t].autoconnect
             /\ Continue(t, <<Frame("attach", 0)>>)
             /\ UNCHANGED arg
    <3>1. process' \in [Sessions -> Processes]
      BY <2>1 DEF TypeOK, Processes
    <3>2. latestSelectedRegion' \in 0..Len(regions) /\ isTriggeredByAutoconnect' \in BOOLEAN
      BY <2>1 DEF TypeOK, Args
    <3>3. stack' \in [Threads -> Seq(Frames)]
      BY <1>3, <2>1, OneFrame, Continued DEF Launch, TypeOK, Labels
    <3> QED
      BY <1>3, <1>s, <2>1, <3>1, <3>2, <3>3 DEF Launch, TypeOK, KillSwitchTypeOK, sessionVars,
         engineVars, threadVars, systemVars, clientVars, ksVars
  <2>2. CASE Fail(t, "NoError") /\ UNCHANGED <<process, latestSelectedRegion, isTriggeredByAutoconnect>>
    <3>1. "NoError" \in ErrorTypes
      BY DEF ErrorTypes
    <3> QED
      BY <1>3, <1>s, <2>2, <3>1, FailTyped, ZenonT(40) DEF Launch, TypeOK, KillSwitchTypeOK,
         sessionVars, engineVars, threadVars, systemVars, clientVars, ksVars
  <2> QED
    BY <1>3, <2>1, <2>2 DEF Launch
<1>4. CASE Attach(t)
  <2>1. CASE Fail(t, "NoError") /\ UNCHANGED sess
    <3>1. "NoError" \in ErrorTypes
      BY DEF ErrorTypes
    <3> QED
      BY <1>4, <2>1, <3>1, FailTyped, ZenonT(40) DEF Attach, TypeOK, KillSwitchTypeOK,
         sessionVars, engineVars, threadVars, systemVars, clientVars, ksVars
  <2>2. CASE /\ sess' = [sess EXCEPT ![session].bound = "attached"]
             /\ Continue(t, <<Frame("bind", 0)>>)
             /\ UNCHANGED arg
    <3>1. sess' \in [0..MaxSessions -> SessionRecords]
      BY <2>2 DEF TypeOK, SessionRecords
    <3> QED
      BY <1>4, <2>2, <3>1, OneFrame, Continued, ZenonT(40) DEF Attach, TypeOK, Labels,
         KillSwitchTypeOK, sessionVars, engineVars, threadVars, systemVars, clientVars, ksVars
  <2> QED
    BY <1>4, <2>1, <2>2 DEF Attach
<1>5. CASE Bind(t)
  <2>1. CASE Fail(t, "NoError") /\ UNCHANGED sess
    <3>1. "NoError" \in ErrorTypes
      BY DEF ErrorTypes
    <3> QED
      BY <1>5, <2>1, <3>1, FailTyped, ZenonT(40) DEF Bind, TypeOK, KillSwitchTypeOK,
         sessionVars, engineVars, threadVars, systemVars, clientVars, ksVars
  <2>2. CASE /\ sess' = [sess EXCEPT ![session].bound = "exited"]
             /\ Continue(t, <<Frame("bindRest", 0)>>)
             /\ UNCHANGED arg
    <3>1. sess' \in [0..MaxSessions -> SessionRecords]
      BY <2>2 DEF TypeOK, SessionRecords
    <3> QED
      BY <1>5, <2>2, <3>1, OneFrame, Continued, ZenonT(40) DEF Bind, TypeOK, Labels,
         KillSwitchTypeOK, sessionVars, engineVars, threadVars, systemVars, clientVars, ksVars
  <2> QED
    BY <1>5, <2>1, <2>2 DEF Bind
<1>6. CASE BindRest(t)
  <2>1. sess' \in [0..MaxSessions -> SessionRecords]
    BY <1>6 DEF BindRest, TypeOK, SessionRecords
  <2> QED
    BY <1>6, <2>1, OneFrame, Continued, ZenonT(40) DEF BindRest, TypeOK, Labels,
       KillSwitchTypeOK, sessionVars, engineVars, threadVars, systemVars, clientVars, ksVars
<1>7. CASE StartReader(t)
  <2> DEFINE one == [stack EXCEPT ![t] = <<Frame("unlock", 0)>> \o Tail(@)]
  <2>1. one \in [Threads -> Seq(Frames)]
    BY <1>7, OneFrame, HeadTailProperties, ConcatProperties DEF StartReader, TypeOK, Labels
  <2>2. stack' = [one EXCEPT ![Reader(session)] = <<Frame("read", session)>>]
    BY <1>7 DEF StartReader
  <2>3. <<Frame("read", session)>> \in Seq(Frames)
    BY <1>s, OneFrame DEF Labels
  <2> HIDE DEF one
  <2>4. stack' \in [Threads -> Seq(Frames)]
    BY <2>1, <2>2, <2>3
  <2> QED
    BY <1>7, <2>4, ZenonT(40) DEF StartReader, TypeOK, KillSwitchTypeOK, sessionVars, engineVars,
       threadVars, systemVars, clientVars, ksVars
<1>8. CASE Failed(t)
  <2>1. CASE arg[t].error # "NoError"
    <3>1. arg[t].error \in ErrorTypes
      BY DEF TypeOK, Args
    <3> QED
      BY <1>8, <2>1, <3>1, OneFrame, NotifyErrorTyped, ZenonT(40) DEF Failed, TypeOK,
         KillSwitchTypeOK, sessionVars, engineVars, threadVars, systemVars, clientVars, ksVars
  <2>2. CASE ~(arg[t].error # "NoError")
    BY <1>8, <2>2, OneFrame, Continued, ZenonT(40) DEF Failed, TypeOK, KillSwitchTypeOK,
       sessionVars, engineVars, threadVars, systemVars, clientVars, ksVars
  <2> QED
    BY <2>1, <2>2
<1>9. CASE Unlock(t)
  <2>1. NoNote \in Notes /\ NoArg \in Args /\ NoArg.region = 0
    BY DEF NoNote, Status, Notes, NoArg, Args, ConnectionStates, ErrorTypes
  <2>2. \A u \in Threads : arg'[u].region <= Len(regions)
    BY <1>9, <2>1 DEF Unlock, TypeOK
  <2> QED
    BY <1>9, <2>1, <2>2, OneFrame, Continued DEF Unlock, TypeOK, KillSwitchTypeOK, sessionVars,
       engineVars, threadVars, systemVars, clientVars, ksVars
<1>10. CASE StopRequested(t)
  <2>1. sess' \in [0..MaxSessions -> SessionRecords]
    BY <1>10 DEF StopRequested, TypeOK, SessionRecords
  <2> QED
    BY <1>10, <2>1, OneFrame, Continued, ZenonT(40) DEF StopRequested, TypeOK,
       KillSwitchTypeOK, sessionVars, engineVars, threadVars, systemVars, clientVars, ksVars
<1>11. CASE SessionDisconnect(t)
  <2>1. [sess[session] EXCEPT !.state = "Disconnected", !.lastError = "NoError"] \in SessionRecords
    BY <1>r DEF SessionRecords, ConnectionStates, ErrorTypes
  <2> QED
    BY <1>11, <2>1, OneFrame, SetSessionTyped, ZenonT(40) DEF SessionDisconnect, TypeOK,
       KillSwitchTypeOK, sessionVars, engineVars, threadVars, systemVars, clientVars, ksVars
<1> QED
  BY <1>1, <1>2, <1>3, <1>4, <1>5, <1>6, <1>7, <1>8, <1>9, <1>10, <1>11 DEF Locked

\* The other steps of a thread that is inside a method keep the types.
LEMMA TypeOfRun ==
  ASSUME TypeOK, NEW t \in Threads, Run(t)
  PROVE  TypeOK'
<1> USE DEF At
<1>s. session \in 0..MaxSessions /\ 0 \in 0..MaxSessions
  BY BoundsAssumption DEF TypeOK
<1>h. stack[t] # <<>> => Subject(t) \in 0..MaxSessions
  <2>1. SUFFICES ASSUME stack[t] # <<>> PROVE Head(stack[t]).s \in 0..MaxSessions
    BY DEF Subject
  <2>2. Head(stack[t]) \in Frames
    BY <2>1, HeadTailProperties DEF TypeOK
  <2> QED
    BY <2>2 DEF Frames
<1>1. CASE ConnectWhenBusy(t)
  <2>1. NoArg \in Args /\ NoArg.region = 0
    BY DEF NoArg, Args, ErrorTypes
  <2>2. \A u \in Threads : arg'[u].region <= Len(regions)
    BY <1>1, <2>1 DEF ConnectWhenBusy, TypeOK
  <2> QED
    BY <1>1, <2>1, <2>2, OneFrame, Continued DEF ConnectWhenBusy, TypeOK, KillSwitchTypeOK,
       sessionVars, engineVars, threadVars, systemVars, clientVars, ksVars
<1>2. CASE ConnectWithoutNetwork(t)
  <2>1. <<Frame("unlock", 0)>> \in Seq(Frames) /\ "NetworkError" \in ErrorTypes
    BY OneFrame DEF Labels, ErrorTypes
  <2> QED
    BY <1>2, <2>1, NotifyErrorTyped DEF ConnectWithoutNetwork, TypeOK, KillSwitchTypeOK,
       sessionVars, engineVars, threadVars, systemVars, clientVars, ksVars
<1>3. CASE StartSession(t)
  <2> PICK n : n = session + 1
    OBVIOUS
  <2>1. n \in 0..MaxSessions /\ "Connecting" \in ConnectionStates
    BY <1>3, BoundsAssumption DEF StartSession, TypeOK, ConnectionStates
  <2>2. <<Frame("clean", 0)>> \in Seq(Frames)
    BY OneFrame DEF Labels
  <2>3. SetState(t, n, "Connecting", <<Frame("clean", 0)>>)
    BY <1>3 DEF StartSession
  <2>4. stack[t] # <<>>
    BY <1>3 DEF StartSession
  <2>5. /\ sess' \in [0..MaxSessions -> SessionRecords]
        /\ stack' \in [Threads -> Seq(Frames)]
        /\ note' \in [Threads -> Notes]
    BY <2>1, <2>2, <2>3, <2>4, SetStateTyped
  <2> QED
    BY <1>3, <2>1, <2>5 DEF StartSession, TypeOK, KillSwitchTypeOK, sessionVars, engineVars,
       threadVars, systemVars, clientVars, ksVars
<1>4. CASE Locked(t)
  BY <1>4, TypeOfLocked
<1>5. CASE DisconnectWhenIdle(t)
  BY <1>5, OneFrame, Continued DEF DisconnectWhenIdle, TypeOK, KillSwitchTypeOK, sessionVars,
     engineVars, threadVars, systemVars, clientVars, ksVars
<1>6. CASE Disconnect(t)
  <2> DEFINE rest == <<Frame("stop", 0), Frame("sessionDisconnect", 0), Frame("unlock", 0)>>
  <2>1. rest \in Seq(Frames) /\ <<Frame("stopRequested", 0)>> \o rest \in Seq(Frames)
    BY FrameTyped, Fronted, <1>s DEF Labels
  <2>2. "Disconnecting" \in ConnectionStates /\ stack[t] # <<>>
    BY <1>6 DEF Disconnect, ConnectionStates
  <2>3. \/ SetState(t, session, "Disconnecting", <<Frame("stopRequested", 0)>> \o rest)
        \/ Continue(t, rest) /\ UNCHANGED <<sess, note>>
    BY <1>6 DEF Disconnect
  <2> HIDE DEF rest
  <2>4. /\ sess' \in [0..MaxSessions -> SessionRecords]
        /\ stack' \in [Threads -> Seq(Frames)]
        /\ note' \in [Threads -> Notes]
    <3>1. CASE SetState(t, session, "Disconnecting", <<Frame("stopRequested", 0)>> \o rest)
      BY <1>s, <2>1, <2>2, <3>1, SetStateTyped
    <3>2. CASE Continue(t, rest) /\ UNCHANGED <<sess, note>>
      BY <2>1, <2>2, <3>2, Continued DEF TypeOK
    <3> QED
      BY <2>3, <3>1, <3>2
  <2> QED
    BY <1>6, <2>4 DEF Disconnect, TypeOK, KillSwitchTypeOK, sessionVars, engineVars, threadVars,
       systemVars, clientVars, ksVars
<1>7. CASE StopOpenVpn(t)
  <2>1. <<Frame("waitExit", openVpnExe)>> \in Seq(Frames)
    BY OneFrame DEF TypeOK, Labels
  <2> QED
    BY <1>7, <2>1, OneFrame, Continued, ZenonT(40) DEF StopOpenVpn, TypeOK, KillSwitchTypeOK,
       sessionVars, engineVars, threadVars, systemVars, clientVars, ksVars
<1>8. CASE WaitExit(t)
  <2> PICK s : s = Subject(t)
    OBVIOUS
  <2> DEFINE raises == process[s].status = "exited" /\ process[s].raised = "no"
             f == (IF raises /\ Heard(s) = "heard" THEN <<Frame("exited", s)>> ELSE <<>>)
                    \o <<Frame("stopped", s)>>
  <2>1. s \in 0..MaxSessions
    BY <1>8, <1>h DEF WaitExit
  <2>2. <<Frame("stopped", s)>> \in Seq(Frames) /\ Frame("exited", s) \in Frames
    BY <2>1, OneFrame, FrameTyped DEF Labels
  <2>3. f \in Seq(Frames)
    <3>1. CASE raises /\ Heard(s) = "heard"
      BY <2>2, <3>1, Fronted
    <3>2. CASE ~(raises /\ Heard(s) = "heard")
      BY <2>2, <3>2, ConcatEmptySeq
    <3> QED
      BY <3>1, <3>2
  <2>4. process' \in [Sessions -> Processes]
    <3> DEFINE r == IF raises THEN Heard(s) ELSE process[s].raised
    <3>1. process' = [process EXCEPT ![s].raised = r]
      BY <1>8 DEF WaitExit
    <3>2. s \in Sessions => r \in {"no", "unheard", "heard"}
      BY DEF TypeOK, Processes, Heard
    <3> HIDE DEF r
    <3> QED
      BY <3>1, <3>2, ZenonT(40) DEF TypeOK, Processes
  <2>5. Continue(t, f)
    BY <1>8 DEF WaitExit
  <2> HIDE DEF f, raises
  <2>6. stack' \in [Threads -> Seq(Frames)]
    BY <1>8, <2>3, <2>5, Continued DEF WaitExit, TypeOK
  <2> QED
    BY <1>8, <2>4, <2>6 DEF WaitExit, TypeOK, KillSwitchTypeOK, sessionVars, engineVars,
       threadVars, systemVars, clientVars, ksVars
<1>9. CASE Stopped(t)
  BY <1>9, <1>s, OneFrame, Continued DEF Stopped, TypeOK, KillSwitchTypeOK, sessionVars,
     engineVars, threadVars, systemVars, clientVars, ksVars
<1>10. CASE OnOpenVpnExit(t)
  <2> PICK s : s = Subject(t)
    OBVIOUS
  <2>1. s \in 0..MaxSessions /\ "Disconnected" \in ConnectionStates /\ stack[t] # <<>>
    BY <1>10, <1>h DEF OnOpenVpnExit, ConnectionStates
  <2>2. \/ SetState(t, s, "Disconnected", <<>>)
        \/ Continue(t, <<>>) /\ UNCHANGED <<sess, note>>
    BY <1>10 DEF OnOpenVpnExit
  <2>3. /\ sess' \in [0..MaxSessions -> SessionRecords]
        /\ stack' \in [Threads -> Seq(Frames)]
        /\ note' \in [Threads -> Notes]
    <3>1. CASE SetState(t, s, "Disconnected", <<>>)
      BY <2>1, <3>1, OneFrame, SetStateTyped
    <3>2. CASE Continue(t, <<>>) /\ UNCHANGED <<sess, note>>
      BY <2>1, <3>2, OneFrame, Continued DEF TypeOK
    <3> QED
      BY <2>2, <3>1, <3>2
  <2> QED
    BY <1>10, <2>3 DEF OnOpenVpnExit, TypeOK, KillSwitchTypeOK, sessionVars, engineVars,
       threadVars, systemVars, clientVars, ksVars
<1>11. CASE Changed(t)
  <2> DEFINE status == note[t]
             suppressed == isTriggeredByAutoconnect /\ ~killSwitch
             again == TryReconnecting(status, suppressed, reconnectAttempts,
                                      Protocol(latestSelectedRegion))
             sameProtocol == status.error \in RetryErrors
             newState == IF again /\ sameProtocol THEN "Connecting" ELSE status.newState
             error == IF again
                        THEN IF sameProtocol THEN "NoError" ELSE "UdpErrorReconnecting"
                        ELSE IF newState = "Disconnecting" THEN "NoError" ELSE status.error
  <2>1. status.newState \in ConnectionStates /\ status.error \in ErrorTypes
    BY DEF TypeOK, Notes
  <2>2. newState \in ConnectionStates /\ error \in ErrorTypes /\ again \in BOOLEAN
    BY <2>1 DEF ConnectionStates, ErrorTypes, TryReconnecting
  <2>3. again /\ ~sameProtocol => latestSelectedRegion \in 1..Len(regions)
    BY DEF TryReconnecting, RetryWithFallbackProtocol, TryReconnectDueToOpenVpnError, Protocol,
       TypeOK
  <2>4. /\ note' = [note EXCEPT ![t] = Status(newState, error, again)]
        /\ connectionState' = newState
        /\ reconnectAttempts' = reconnectAttempts + (IF again /\ sameProtocol THEN 1 ELSE 0)
        /\ regions' = IF again /\ ~sameProtocol
                         THEN [regions EXCEPT ![latestSelectedRegion] = "tcp"] ELSE regions
        /\ Continue(t, <<Frame("invoke", 0), Frame("after", 0)>>)
        /\ stack[t] # <<>>
    BY <1>11 DEF Changed
  <2> HIDE DEF status, suppressed, again, sameProtocol, newState, error
  <2>5. note' \in [Threads -> Notes]
    BY <2>2, <2>4 DEF TypeOK, Notes, Status
  <2>6. regions' \in Seq(Protocols) /\ Len(regions') = Len(regions)
    <3>1. regions \in Seq(Protocols) /\ "tcp" \in Protocols
      BY DEF TypeOK, Protocols
    <3>2. CASE again /\ ~sameProtocol
      BY <2>3, <2>4, <3>1, <3>2, ExceptSeq
    <3>3. CASE ~(again /\ ~sameProtocol)
      BY <2>4, <3>1, <3>3
    <3> QED
      BY <3>2, <3>3
  <2>7. reconnectAttempts' \in Nat
    BY <2>4 DEF TypeOK
  <2>8. <<Frame("invoke", 0), Frame("after", 0)>> \in Seq(Frames)
    BY <1>s, FrameTyped DEF Labels
  <2>9. stack' \in [Threads -> Seq(Frames)]
    BY <2>4, <2>8, Continued DEF TypeOK
  <2> QED
    BY <1>11, <2>2, <2>4, <2>5, <2>6, <2>7, <2>9 DEF Changed, TypeOK, KillSwitchTypeOK,
       sessionVars, engineVars, threadVars, systemVars, clientVars, ksVars
<1>12. CASE Invoke(t)
  <2>1. /\ <<Frame("enable", 0)>> \in Seq(Frames) /\ <<Frame("forget", 0)>> \in Seq(Frames)
        /\ <<Frame("unblock", 0)>> \in Seq(Frames)
    BY OneFrame DEF Labels
  <2>2. \E f \in Seq(Frames) : Continue(t, f)
    BY <1>12, <2>1, OneFrame DEF Invoke
  <2>3. stack' \in [Threads -> Seq(Frames)]
    BY <1>12, <2>2, Continued DEF Invoke, TypeOK
  <2>4. note[t].newState \in ConnectionStates
    BY DEF TypeOK, Notes
  <2>5. KillSwitchTypeOK' /\ late' \subseteq Threads
    BY <1>12, <2>4 DEF Invoke, TypeOK, KillSwitchTypeOK, ksVars, historyVars, DecideToUnblock,
       PublishStatus
  <2> QED
    BY <1>12, <2>3, <2>5 DEF Invoke, TypeOK, sessionVars, engineVars, threadVars, systemVars,
       clientVars
<1>13. CASE Enable(t)
  BY <1>13, OneFrame, Continued, ZenonT(40) DEF Enable, EnableBlocker, TypeOK, ConnectionStates,
     KillSwitchTypeOK, historyVars, sessionVars, engineVars, threadVars, systemVars, clientVars, ksVars
<1>14. CASE Forget(t)
  BY <1>14, OneFrame, Continued, ZenonT(40) DEF Forget, ForgetRequest, TypeOK, ConnectionStates,
     KillSwitchTypeOK, historyVars, sessionVars, engineVars, threadVars, systemVars, clientVars, ksVars
<1>15. CASE After(t)
  <2>1. <<Frame("stop", 0)>> \in Seq(Frames)
    BY OneFrame DEF Labels
  <2>2. NoNote \in Notes
    BY DEF NoNote, Status, Notes, ConnectionStates, ErrorTypes
  <2>3. stack' \in [Threads -> Seq(Frames)]
    BY <1>15, <2>1, OneFrame, Continued DEF After, TypeOK
  <2>4. reconnectAttempts' \in Nat /\ reconnects' \in Nat
    BY <1>15 DEF After, TypeOK
  <2> QED
    BY <1>15, <2>2, <2>3, <2>4 DEF After, TypeOK, KillSwitchTypeOK, sessionVars, engineVars,
       threadVars, systemVars, clientVars, ksVars
<1>16. CASE Unblock(t) \/ SwitchOffUnblocks(t)
  <2>1. <<Frame("forget", 0)>> \in Seq(Frames) /\ <<Frame("storeOff", 0)>> \in Seq(Frames)
    BY OneFrame DEF Labels
  <2>2. stack' \in [Threads -> Seq(Frames)]
    BY <1>16, <2>1, Continued DEF Unblock, SwitchOffUnblocks, TypeOK
  <2> QED
    BY <1>16, <2>2 DEF Unblock, SwitchOffUnblocks, DisableBlocker, TypeOK, KillSwitchTypeOK,
       sessionVars, engineVars, systemVars, clientVars
<1>17. CASE StoreSetting(t)
  <2>1. stack' \in [Threads -> Seq(Frames)]
    BY <1>17, OneFrame, Continued DEF StoreSetting, TypeOK
  <2> QED
    BY <1>17, <2>1 DEF StoreSetting, StoreOff, TypeOK, KillSwitchTypeOK,
       sessionVars, engineVars, systemVars, clientVars
<1> QED
  BY <1>1, <1>2, <1>3, <1>4, <1>5, <1>6, <1>7, <1>8, <1>9, <1>10, <1>11, <1>12, <1>13, <1>14, <1>15,
     <1>16, <1>17 DEF Run

\* The steps of a reader keep the types.
LEMMA TypeOfReader ==
  ASSUME TypeOK, NEW s \in Sessions, ReadLine(s)
  PROVE  TypeOK'
<1> USE DEF At
<1>s. Reader(s) \in Threads /\ s \in 0..MaxSessions
  BY SessionThreads
<1>r. sess[s] \in SessionRecords
  BY <1>s DEF TypeOK
<1>f. /\ <<Frame("read", s)>> \in Seq(Frames) /\ <<>> \in Seq(Frames)
      /\ Frame("read", s) \in Frames /\ Frame("connectedError", s) \in Frames
      /\ Frame("authFailed", s) \in Frames /\ Frame("disconnect", s) \in Frames
      /\ Frame("errorReply", s) \in Frames
  BY <1>s, OneFrame, FrameTyped DEF Labels
<1>p. ASSUME NEW kind, Read(s, kind)
      PROVE  process' \in [Sessions -> Processes] /\ stack[Reader(s)] # <<>>
  <2>1. process[s].stream \in Seq(NotificationKinds) /\ process[s].stream # <<>>
    BY <1>p DEF Read, TypeOK, Processes
  <2>2. Tail(process[s].stream) \in Seq(NotificationKinds)
    BY <2>1, HeadTailProperties
  <2>3. process' = [process EXCEPT ![s].stream = Tail(@)]
    BY <1>p DEF Read
  <2> QED
    BY <1>p, <2>2, <2>3, ZenonT(40) DEF Read, TypeOK, Processes
<1>1. CASE HandleStateNotification(s)
  <2>1. /\ \E kind : Read(s, kind)
        /\ \/ \E newState \in ConnectionStates, f \in Seq(Frames) :
               SetState(Reader(s), s, newState, f)
           \/ Continue(Reader(s), <<Frame("read", s)>>) /\ UNCHANGED <<sess, note>>
    <3>1. /\ <<>> \o <<Frame("read", s)>> \in Seq(Frames)
          /\ <<Frame("connectedError", s)>> \o <<Frame("read", s)>> \in Seq(Frames)
      BY <1>f, Fronted, ConcatEmptySeq
    <3> QED
      BY <1>1, <3>1 DEF HandleStateNotification, ConnectionStates
  <2>2. process' \in [Sessions -> Processes] /\ stack[Reader(s)] # <<>>
    BY <2>1, <1>p
  <2>3. /\ sess' \in [0..MaxSessions -> SessionRecords]
        /\ stack' \in [Threads -> Seq(Frames)]
        /\ note' \in [Threads -> Notes]
    <3>1. CASE \E newState \in ConnectionStates, f \in Seq(Frames) :
               SetState(Reader(s), s, newState, f)
      BY <1>s, <2>2, <3>1, SetStateTyped
    <3>2. CASE Continue(Reader(s), <<Frame("read", s)>>) /\ UNCHANGED <<sess, note>>
      BY <1>s, <1>f, <2>2, <3>2, Continued DEF TypeOK
    <3> QED
      BY <2>1, <3>1, <3>2
  <2> QED
    BY <1>1, <2>1, <2>2, <2>3 DEF HandleStateNotification, Read, TypeOK, KillSwitchTypeOK,
       sessionVars, engineVars, threadVars, systemVars, clientVars, ksVars
<1>2. CASE HandleAuthNotification(s)
  <2> PICK f : f = <<Frame("authFailed", s), Frame("read", s)>>
    OBVIOUS
  <2>1. f \in Seq(Frames) /\ "Disconnected" \in ConnectionStates
    BY <1>f DEF ConnectionStates
  <2>2. Read(s, "AUTH_FAILED") /\ SetState(Reader(s), s, "Disconnected", f)
    BY <1>2 DEF HandleAuthNotification
  <2>3. process' \in [Sessions -> Processes] /\ stack[Reader(s)] # <<>>
    BY <2>2, <1>p
  <2>4. /\ sess' \in [0..MaxSessions -> SessionRecords]
        /\ stack' \in [Threads -> Seq(Frames)]
        /\ note' \in [Threads -> Notes]
    BY <1>s, <2>1, <2>2, <2>3, SetStateTyped
  <2> QED
    BY <1>2, <2>3, <2>4 DEF HandleAuthNotification, Read, TypeOK, KillSwitchTypeOK, sessionVars,
       engineVars, threadVars, systemVars, clientVars, ksVars
<1>3. CASE HandleFatalNotification(s)
  <2>1. PICK error \in {"Fatal", "DnsError"} :
          SetSession(Reader(s), s, [sess[s] EXCEPT !.state = "Disconnected", !.lastError = error],
                     <<Frame("read", s)>>)
    BY <1>3 DEF HandleFatalNotification
  <2>2. [sess[s] EXCEPT !.state = "Disconnected", !.lastError = error] \in SessionRecords
    BY <1>r DEF SessionRecords, ConnectionStates, ErrorTypes
  <2>3. process' \in [Sessions -> Processes] /\ stack[Reader(s)] # <<>>
    BY <1>3, <1>p DEF HandleFatalNotification
  <2>4. /\ sess' \in [0..MaxSessions -> SessionRecords]
        /\ stack' \in [Threads -> Seq(Frames)]
        /\ note' \in [Threads -> Notes]
    BY <1>s, <1>f, <2>1, <2>2, <2>3, SetSessionTyped
  <2> QED
    BY <1>3, <2>3, <2>4 DEF HandleFatalNotification, Read, TypeOK, KillSwitchTypeOK,
       sessionVars, engineVars, threadVars, systemVars, clientVars, ksVars
<1>4. CASE HandleLogNotification(s)
  <2>1. PICK kind \in {"LOG_ERROR", "LOG_SIGTERM"} :
          /\ Read(s, kind)
          /\ \E error \in IF kind = "LOG_ERROR" THEN {"GeneralError", "NetworkError"} ELSE SigtermErrors :
               sess' = [sess EXCEPT ![s].lastError = error]
    BY <1>4 DEF HandleLogNotification
  <2>2. PICK error \in ErrorTypes : sess' = [sess EXCEPT ![s].lastError = error]
    BY <2>1, InputsAssumption DEF ErrorTypes
  <2>3. sess' \in [0..MaxSessions -> SessionRecords]
    BY <2>2 DEF TypeOK, SessionRecords
  <2>4. process' \in [Sessions -> Processes] /\ stack[Reader(s)] # <<>>
    BY <2>1, <1>p
  <2>5. stack' \in [Threads -> Seq(Frames)]
    BY <1>4, <1>s, <1>f, <2>4, Continued DEF HandleLogNotification, TypeOK
  <2> QED
    BY <1>4, <2>1, <2>3, <2>4, <2>5 DEF HandleLogNotification, Read, TypeOK, KillSwitchTypeOK,
       sessionVars, engineVars, threadVars, systemVars, clientVars, ksVars
<1>5. CASE HandleErrorReply(s)
  <2>1. process' \in [Sessions -> Processes] /\ stack[Reader(s)] # <<>>
    BY <1>5, <1>p DEF HandleErrorReply
  <2>2. <<Frame("disconnect", s), Frame("errorReply", s), Frame("read", s)>> \in Seq(Frames)
    BY <1>f
  <2>3. stack' \in [Threads -> Seq(Frames)]
    BY <1>5, <1>s, <2>1, <2>2, Continued DEF HandleErrorReply, TypeOK
  <2> QED
    BY <1>5, <2>1, <2>3 DEF HandleErrorReply, Read, TypeOK, KillSwitchTypeOK, sessionVars,
       engineVars, threadVars, systemVars, clientVars, ksVars
<1>6. CASE ErrorReply(s)
  <2>1. "GeneralError" \in ErrorTypes
    BY DEF ErrorTypes
  <2> QED
    BY <1>6, <1>s, <1>f, <2>1, NotifyErrorTyped, ZenonT(40) DEF ErrorReply, TypeOK,
       KillSwitchTypeOK, sessionVars, engineVars, threadVars, systemVars, clientVars, ksVars
<1>7. CASE RecordError(s)
  <2>1. PICK cause \in {<<"connectedError", "ConnectedError">>, <<"authFailed", "GeneralError">>} :
          /\ At(Reader(s), cause[1])
          /\ sess' = [sess EXCEPT ![s].lastError = cause[2]]
    BY <1>7 DEF RecordError
  <2>2. cause[2] \in ErrorTypes
    BY DEF ErrorTypes
  <2>3. sess' \in [0..MaxSessions -> SessionRecords]
    BY <2>1, <2>2 DEF TypeOK, SessionRecords
  <2>4. stack' \in [Threads -> Seq(Frames)]
    BY <1>7, <1>s, <1>f, <2>1, Continued DEF RecordError, TypeOK
  <2> QED
    BY <1>7, <2>3, <2>4 DEF RecordError, TypeOK, KillSwitchTypeOK, sessionVars, engineVars,
       threadVars, systemVars, clientVars, ksVars
<1>8. CASE ReaderEnds(s)
  <2>1. process' \in [Sessions -> Processes]
    BY <1>8, ZenonT(40) DEF ReaderEnds, TypeOK, Processes
  <2>2. stack' \in [Threads -> Seq(Frames)]
    BY <1>8, <1>s, <1>f, Continued DEF ReaderEnds, TypeOK
  <2> QED
    BY <1>8, <2>1, <2>2 DEF ReaderEnds, TypeOK, KillSwitchTypeOK, sessionVars, engineVars,
       threadVars, systemVars, clientVars, ksVars
<1> QED
  BY <1>1, <1>2, <1>3, <1>4, <1>5, <1>6, <1>7, <1>8 DEF ReadLine

\* Calls and queued reconnects keep the types.
LEMMA TypeOfCalls ==
  ASSUME TypeOK, NEW w \in Workers, Client(w) \/ RunReconnect(w)
  PROVE  TypeOK'
<1>w. w \in Threads
  BY DEF Threads
<1>f. /\ <<Frame("connect", 0)>> \in Seq(Frames) /\ <<Frame("disconnect", 0)>> \in Seq(Frames)
      /\ <<>> \in Seq(Frames) /\ <<Frame("switchOff", 0)>> \in Seq(Frames)
      /\ <<Frame("disconnect", 0), Frame("quit", 0)>> \in Seq(Frames)
  BY OneFrame, FrameTyped, BoundsAssumption DEF Labels
<1>1. CASE CallConnect(w)
  <2>1. PICK protocol \in OfferedProtocols, auto \in BOOLEAN :
          /\ Call(w, IF auto THEN "Autoconnect" ELSE "Connect", <<Frame("connect", 0)>>)
          /\ arg' = [arg EXCEPT ![w] = [region |-> Len(regions) + 1, autoconnect |-> auto,
                                        error |-> "NoError"]]
          /\ regions' = Append(regions, protocol)
          /\ lastCall' = "Connect"
          /\ UNCHANGED <<sessionVars, openVpnExe, reconnectAttempts, latestSelectedRegion,
                         isTriggeredByAutoconnect, connectionState, reconnects, systemVars, ksVars,
                         lock, note>>
    BY <1>1 DEF CallConnect
  <2>2. regions' \in Seq(Protocols) /\ Len(regions') = Len(regions) + 1
    BY <2>1, InputsAssumption, AppendProperties DEF TypeOK
  <2>3. latestSelectedRegion' \in 0..Len(regions')
    BY <2>1, <2>2 DEF TypeOK
  <2>4. [region |-> Len(regions) + 1, autoconnect |-> auto, error |-> "NoError"] \in Args
    BY DEF TypeOK, Args, ErrorTypes
  <2>5. arg' \in [Threads -> Args] /\ \A t \in Threads : arg'[t].region <= Len(regions')
    <3>1. Len(regions) \in Nat /\ \A t \in Threads : arg[t].region \in Nat /\ arg[t].region <= Len(regions)
      BY DEF TypeOK, Args
    <3>2. arg' \in [Threads -> Args]
      BY <1>w, <2>1, <2>4 DEF TypeOK
    <3>3. \A t \in Threads : arg'[t].region = IF t = w THEN Len(regions) + 1 ELSE arg[t].region
      BY <1>w, <2>1 DEF TypeOK
    <3> QED
      BY <2>2, <3>1, <3>2, <3>3
  <2>6. stack' \in [Threads -> Seq(Frames)] /\ calls' \in Nat /\ restarts' = restarts /\ stopping' = stopping
    BY <1>w, <1>f, <2>1 DEF Call, TypeOK
  <2> QED
    BY <2>1, <2>2, <2>3, <2>5, <2>6 DEF TypeOK, KillSwitchTypeOK, sessionVars, systemVars, ksVars
<1>2. CASE CallDisconnect(w)
  <2>1. stack' \in [Threads -> Seq(Frames)] /\ calls' \in Nat /\ restarts' = restarts /\ stopping' = stopping
    BY <1>w, <1>f, <1>2 DEF CallDisconnect, Call, TypeOK
  <2> QED
    BY <1>2, <2>1 DEF CallDisconnect, RequestDisconnect, historyVars, TypeOK, KillSwitchTypeOK, sessionVars,
       engineVars, threadVars, systemVars, clientVars, ksVars
<1>3. CASE CallToggleKillSwitch(w)
  <2>1. stack' \in [Threads -> Seq(Frames)] /\ calls' \in Nat /\ restarts' = restarts /\ stopping' = stopping
    <3>1. PICK q \in {<<>>, <<Frame("switchOff", 0)>>} : Call(w, "ToggleKillSwitch", q)
      BY <1>3 DEF CallToggleKillSwitch
    <3>2. q \in Seq(Frames)
      BY <1>f
    <3> QED
      BY <1>w, <3>1, <3>2 DEF Call, TypeOK
  <2> QED
    BY <1>3, <2>1 DEF CallToggleKillSwitch, StoreOn, TypeOK, KillSwitchTypeOK,
       sessionVars, engineVars, threadVars, systemVars, clientVars, ksVars
<1>4. CASE CallUnblockTraffic(w)
  <2>1. stack' \in [Threads -> Seq(Frames)] /\ calls' \in Nat /\ restarts' = restarts /\ stopping' = stopping
    BY <1>w, <1>f, <1>4 DEF CallUnblockTraffic, Call, TypeOK
  <2> QED
    BY <1>4, <2>1 DEF CallUnblockTraffic, DisableBlocker, TypeOK, KillSwitchTypeOK, sessionVars,
       engineVars, threadVars, systemVars, clientVars, ksVars
<1>5. CASE RunReconnect(w)
  <2>1. [NoArg EXCEPT !.region = latestSelectedRegion] \in Args
    <3>1. latestSelectedRegion \in Nat
      BY DEF TypeOK
    <3> QED
      BY <3>1 DEF NoArg, Args, ErrorTypes
  <2>2. arg' \in [Threads -> Args] /\ \A t \in Threads : arg'[t].region <= Len(regions)
    <3>1. arg' = [arg EXCEPT ![w] = [NoArg EXCEPT !.region = latestSelectedRegion]]
      BY <1>5 DEF RunReconnect
    <3>2. [NoArg EXCEPT !.region = latestSelectedRegion].region = latestSelectedRegion
      BY DEF NoArg
    <3>3. latestSelectedRegion <= Len(regions)
      BY DEF TypeOK
    <3> QED
      BY <1>w, <2>1, <3>1, <3>2, <3>3 DEF TypeOK
  <2>3. stack' \in [Threads -> Seq(Frames)]
    BY <1>5, <1>f DEF RunReconnect, TypeOK
  <2>4. reconnects' \in Nat
    BY <1>5 DEF RunReconnect, TypeOK
  <2> QED
    BY <1>5, <2>2, <2>3, <2>4 DEF RunReconnect, TypeOK, KillSwitchTypeOK, sessionVars,
       engineVars, threadVars, systemVars, clientVars, ksVars
<1>6. CASE CallStop(w)
  <2>1. stack' \in [Threads -> Seq(Frames)]
    BY <1>w, <1>f, <1>6 DEF CallStop, TypeOK
  <2> QED
    BY <1>6, <2>1 DEF CallStop, RequestDisconnect, historyVars, TypeOK, KillSwitchTypeOK,
       sessionVars, engineVars, systemVars
<1> QED
  BY <1>1, <1>2, <1>3, <1>4, <1>5, <1>6 DEF Client

\* The processes, and the pool's wait on them, keep the types.
LEMMA TypeOfProcess ==
  ASSUME TypeOK, NEW s \in Sessions, Write(s) \/ Exit(s) \/ RaiseExited(s)
  PROVE  TypeOK'
<1>1. CASE Write(s)
  <2>1. PICK kind \in Notifications :
          process' = [process EXCEPT ![s].stream = Append(@, kind), ![s].written = @ \cup {kind}]
    BY <1>1 DEF Write
  <2>2. kind \in NotificationKinds /\ process[s] \in Processes
    BY InputsAssumption DEF TypeOK
  <2>3. Append(process[s].stream, kind) \in Seq(NotificationKinds)
    BY <2>2, AppendProperties DEF Processes
  <2> PICK a : a = Append(process[s].stream, kind)
    OBVIOUS
  <2> PICK b : b = process[s].written \cup {kind}
    OBVIOUS
  <2>4. a \in Seq(NotificationKinds) /\ b \in SUBSET NotificationKinds
    BY <2>2, <2>3 DEF Processes
  <2>5. process' = [process EXCEPT ![s].stream = a, ![s].written = b]
    BY <2>1 DEF TypeOK, Processes
  <2>6. process' \in [Sessions -> Processes]
    <3> DEFINE one == [process EXCEPT ![s].stream = a]
    <3>1. one \in [Sessions -> Processes]
      BY <2>4 DEF TypeOK, Processes
    <3>2. process' = [one EXCEPT ![s].written = b]
      BY <2>5 DEF TypeOK, Processes
    <3> HIDE DEF one
    <3> QED
      BY <2>4, <3>1, <3>2, ZenonT(40) DEF Processes
  <2> QED
    BY <1>1, <2>6, ZenonT(40) DEF Write, TypeOK, KillSwitchTypeOK, sessionVars, engineVars, threadVars,
       systemVars, clientVars, ksVars
<1>2. CASE Exit(s)
  <2>1. process' \in [Sessions -> Processes]
    BY <1>2 DEF Exit, TypeOK, Processes
  <2> QED
    BY <1>2, <2>1 DEF Exit, TypeOK, KillSwitchTypeOK, sessionVars, engineVars, threadVars,
       systemVars, clientVars, ksVars
<1>3. CASE RaiseExited(s)
  <2>1. process' \in [Sessions -> Processes]
    BY <1>3, ZenonT(40) DEF RaiseExited, TypeOK, Processes, Heard
  <2>2. <<Frame("exited", s)>> \in Seq(Frames)
    BY SessionThreads, OneFrame DEF Labels
  <2>3. stack' \in [Threads -> Seq(Frames)]
    BY <1>3, <2>2, OneFrame DEF RaiseExited, TypeOK
  <2> QED
    BY <1>3, <2>1, <2>3 DEF RaiseExited, TypeOK, KillSwitchTypeOK, sessionVars, engineVars,
       threadVars, systemVars, clientVars, ksVars
<1> QED
  BY <1>1, <1>2, <1>3

\* A new service is typed.
LEMMA TypeOfRestart ==
  ASSUME TypeOK, Restart
  PROVE  TypeOK'
<1>1. NewSession \in SessionRecords /\ NoNote \in Notes /\ NoArg \in Args /\ NoArg.region = 0
  BY DEF NewSession, SessionRecords, NoNote, Status, Notes, NoArg, Args, ConnectionStates,
     ErrorTypes
<1>2. process' \in [Sessions -> Processes]
  <2>1. \A s \in Sessions : process[s] \in Processes
    BY DEF TypeOK
  <2>2. ASSUME NEW p \in Processes PROVE [p EXCEPT !.raised = "unheard", !.stream = <<>>] \in Processes
    <3> PICK e : e = <<>>
      OBVIOUS
    <3>1. e \in Seq(NotificationKinds)
      OBVIOUS
    <3>2. [p EXCEPT !.raised = "unheard", !.stream = e] \in Processes
      BY <3>1 DEF Processes
    <3> QED
      BY <3>2
  <2>3. process' = [s \in Sessions |-> IF process[s].status = "none" THEN process[s]
                                      ELSE [process[s] EXCEPT !.raised = "unheard", !.stream = <<>>]]
    BY Zenon DEF Restart
  <2> QED
    BY <2>1, <2>2, <2>3, Zenon
<1>3. regions' \in Seq(Protocols) /\ Len(regions') = 0
  <2>1. regions' = <<>>
    BY Zenon DEF Restart
  <2> QED
    BY <2>1
<1>4. /\ sess' \in [0..MaxSessions -> SessionRecords]
      /\ note' \in [Threads -> Notes] /\ stack' \in [Threads -> Seq(Frames)]
      /\ arg' \in [Threads -> Args] /\ \A t \in Threads : arg'[t].region <= 0
  <2>1. /\ sess' = [s \in 0..MaxSessions |-> NewSession]
        /\ stack' = [t \in Threads |-> <<>>]
        /\ note' = [t \in Threads |-> NoNote]
        /\ arg' = [t \in Threads |-> NoArg]
    BY Zenon DEF Restart
  <2> QED
    BY <1>1, <2>1
<1>5. KillSwitchTypeOK' /\ late' \subseteq Threads
  BY DEF Restart, CleanupEnvironment, TypeOK, KillSwitchTypeOK
<1> QED
  <2>1. /\ restarts < MaxRestarts /\ restarts' = restarts + 1
        /\ openVpnExe' = 0 /\ reconnectAttempts' = 0 /\ latestSelectedRegion' = 0
        /\ isTriggeredByAutoconnect' = FALSE /\ connectionState' = "Disconnected" /\ reconnects' = 0
        /\ lock' = NoThread /\ quitEvent' = FALSE /\ crashed' = FALSE
        /\ lastCall' = "none" /\ stopping' = FALSE
        /\ UNCHANGED <<session, calls>>
    BY Zenon DEF Restart
  <2>2. /\ session' \in 0..MaxSessions /\ calls' \in Nat /\ restarts' \in Nat
        /\ lastCall' \in {"none", "Connect", "Disconnect", "UnblockTraffic"} /\ stopping' \in BOOLEAN
        /\ openVpnExe' \in 0..MaxSessions /\ reconnectAttempts' \in Nat /\ reconnects' \in Nat
        /\ latestSelectedRegion' \in 0..Len(regions')
    <3>1. session \in 0..MaxSessions /\ calls \in Nat /\ restarts \in Nat
      BY DEF TypeOK
    <3>2. latestSelectedRegion' \in 0..Len(regions')
      BY <1>3, <2>1
    <3>3. openVpnExe' \in 0..MaxSessions /\ reconnectAttempts' \in Nat /\ reconnects' \in Nat
      BY <2>1, BoundsAssumption
    <3> QED
      <4>1. session' = session /\ calls' = calls /\ restarts' \in Nat
        BY <2>1, <3>1
      <4>2. stopping' \in BOOLEAN /\ lastCall' = "none"
        BY <2>1
      <4> QED
        BY <3>1, <3>2, <3>3, <4>1, <4>2
  <2>3. /\ isTriggeredByAutoconnect' \in BOOLEAN /\ quitEvent' \in BOOLEAN /\ crashed' \in BOOLEAN
        /\ connectionState' \in ConnectionStates /\ lock' \in Threads \cup {NoThread}
    BY <2>1 DEF ConnectionStates
  <2>4. \A t \in Threads : arg'[t].region <= Len(regions')
    BY <1>3, <1>4
  <2> QED
    BY <1>2, <1>3, <1>4, <1>5, <2>2, <2>3, <2>4 DEF TypeOK

\* A service that starts is typed.
LEMMA TypeInit == Init => TypeOK
<1>1. NewSession \in SessionRecords /\ NoNote \in Notes /\ NoArg \in Args /\ NoArg.region = 0
  BY DEF NewSession, SessionRecords, NoNote, Status, Notes, NoArg, Args, ConnectionStates,
     ErrorTypes
<1>2. NewProcess \in Processes
  BY DEF NewProcess, Processes
<1> SUFFICES ASSUME Init PROVE TypeOK
  OBVIOUS
<1>3. /\ sess \in [0..MaxSessions -> SessionRecords] /\ process \in [Sessions -> Processes]
      /\ note \in [Threads -> Notes] /\ stack \in [Threads -> Seq(Frames)]
      /\ arg \in [Threads -> Args]
  BY <1>1, <1>2 DEF Init
<1>4. regions \in Seq(Protocols) /\ Len(regions) = 0 /\ \A t \in Threads : arg[t].region = 0
  BY <1>1 DEF Init
<1>5. KillSwitchTypeOK /\ late = {}
  BY SettingsAssumption DEF Init, KillSwitchInit, KillSwitchTypeOK
<1> QED
  BY <1>3, <1>4, <1>5, BoundsAssumption DEF Init, TypeOK, ConnectionStates

\* Every step keeps the types.
LEMMA TypeStep == TypeOK /\ [Next]_vars => TypeOK'
<1> SUFFICES ASSUME TypeOK, [Next]_vars PROVE TypeOK'
  OBVIOUS
<1>1. CASE Service
  BY <1>1, TypeOfCalls, TypeOfRun, TypeOfReader, TypeOfProcess DEF Service
<1>2. CASE Restart
  BY <1>2, TypeOfRestart
<1>3. CASE UNCHANGED vars
  BY <1>3 DEF vars, TypeOK, KillSwitchTypeOK, sessionVars, engineVars, threadVars, systemVars,
     clientVars, ksVars
<1> QED
  BY <1>1, <1>2, <1>3 DEF Next

\* Every variable keeps to its type: no step leaves a frame, a status or an argument that
\* the engine does not know, and whoever holds a region holds one that a call has made.
THEOREM TypeCorrect == Spec => []TypeOK
  BY TypeInit, TypeStep, PTL DEF Spec

-----------------------------------------------------------------------------
(* At most one OpenVPN process *)

\* What Connect still has to do: the method ends with it and gives the lock back.
LastLabels ==
  {"clean", "prepare", "launch", "attach", "bind", "bindRest", "startReader", "unlock"}

\* Frames of code that runs inside the lock statement of Connect or Disconnect.
LockedLabels == LastLabels \cup {"failed", "stopRequested", "sessionDisconnect"}

\* Frames between the cleaning of abandoned processes and the start of a new one.
PreparedLabels == {"prepare", "launch"}

Holds(q) == \E i \in 1..Len(q) : q[i].at \in LockedLabels

Ordered(q) == \A i, j \in 1..Len(q) : i < j /\ q[i].at \in LastLabels => q[j].at \notin LockedLabels

Prepared(q) == \E i \in 1..Len(q) : q[i].at \in PreparedLabels

\* Only the owner of the lock, owner, is inside it, and no stack enters it twice.
Discipline(st, owner) ==
  \A t \in Threads : Ordered(st[t]) /\ (Holds(st[t]) => owner = t)

NoneRuns == \A s \in Sessions : process[s].status # "running"

\* The inductive invariant: what cleaned the processes still holds the lock when it starts
\* its own.
Exclusive ==
  /\ TypeOK
  /\ Discipline(stack, lock)
  /\ \A t \in Threads : Prepared(stack[t]) => NoneRuns
  /\ OneProcess

\* Frames that neither hold the lock nor begin a connect.
Plain == {f \in Seq(Frames) : \A i \in 1..Len(f) : f[i].at \notin LockedLabels \cup {"connect"}}

\* Frames that end with the last of a method, if they have one at all.
Ending == {f \in Seq(Frames) : \A i \in 1..Len(f) : f[i].at \in LastLabels => i = Len(f)}

\* The stack of t after it goes on with f.
Pushed(st, t, f) == [st EXCEPT ![t] = f \o Tail(st[t])]

\* What is on a stack after a push.
LEMMA AfterPush ==
  ASSUME NEW st \in [Threads -> Seq(Frames)], NEW t \in Threads, st[t] # <<>>, NEW f \in Seq(Frames)
  PROVE  /\ Pushed(st, t, f) \in [Threads -> Seq(Frames)]
         /\ \A u \in Threads : u # t => Pushed(st, t, f)[u] = st[u]
         /\ Len(Pushed(st, t, f)[t]) = Len(f) + Len(st[t]) - 1
         /\ \A i \in 1..Len(Pushed(st, t, f)[t]) :
              \/ i \in 1..Len(f) /\ Pushed(st, t, f)[t][i] = f[i]
              \/ /\ i > Len(f)
                 /\ i - Len(f) + 1 \in 2..Len(st[t])
                 /\ Pushed(st, t, f)[t][i] = st[t][i - Len(f) + 1]
<1> PICK q : q = st[t]
  OBVIOUS
<1>q. q \in Seq(Frames) /\ q # <<>>
  OBVIOUS
<1>1. /\ Tail(q) \in Seq(Frames)
      /\ Len(Tail(q)) = Len(q) - 1
      /\ \A i \in 1..Len(Tail(q)) : Tail(q)[i] = q[i + 1]
  BY <1>q, HeadTailProperties
<1>2. /\ f \o Tail(q) \in Seq(Frames)
      /\ Len(f \o Tail(q)) = Len(f) + Len(Tail(q))
      /\ \A i \in 1..Len(f) + Len(Tail(q)) :
           (f \o Tail(q))[i] = IF i <= Len(f) THEN f[i] ELSE Tail(q)[i - Len(f)]
  BY <1>1, ConcatProperties
<1> PICK p : p = f \o Tail(q)
  OBVIOUS
<1>3. Pushed(st, t, f) = [st EXCEPT ![t] = p]
  BY DEF Pushed
<1>4. /\ Pushed(st, t, f) \in [Threads -> Seq(Frames)]
      /\ \A u \in Threads : u # t => Pushed(st, t, f)[u] = st[u]
      /\ Pushed(st, t, f)[t] = p
  BY <1>2, <1>3
<1>5. Len(p) = Len(f) + Len(q) - 1 /\ Len(f) \in Nat /\ Len(q) \in Nat
  BY <1>q, <1>1, <1>2
<1>6. ASSUME NEW i \in 1..Len(p)
      PROVE  \/ i \in 1..Len(f) /\ p[i] = f[i]
             \/ i > Len(f) /\ i - Len(f) + 1 \in 2..Len(q) /\ p[i] = q[i - Len(f) + 1]
  BY <1>1, <1>2, <1>5
<1> QED
  BY <1>4, <1>5, <1>6

\* The frame a step takes off, and the ones below it.
LEMMA Innermost ==
  ASSUME NEW q \in Seq(Frames), q # <<>>
  PROVE  Head(q) = q[1] /\ 1 \in 1..Len(q) /\ Len(q) \in Nat /\ Len(q) >= 1 /\ Head(q) \in Frames
BY HeadTailProperties

\* A thread that is inside the lock may push frames that end a method in place of the end
\* of one; a thread that is not may push what does not need the lock.
LEMMA PushKeepsDiscipline ==
  ASSUME NEW st \in [Threads -> Seq(Frames)], NEW owner, Discipline(st, owner),
         NEW t \in Threads, st[t] # <<>>, NEW f \in Ending,
         \A i \in 1..Len(f) : f[i].at \in LockedLabels => Head(st[t]).at \in LastLabels
  PROVE  Discipline(Pushed(st, t, f), owner)
<1> DEFINE new == Pushed(st, t, f)
<1>1. f \in Seq(Frames) /\ Len(f) \in Nat
  BY DEF Ending
<1>2. /\ \A u \in Threads : u # t => new[u] = st[u]
      /\ Len(new[t]) = Len(f) + Len(st[t]) - 1
      /\ \A i \in 1..Len(new[t]) :
           \/ i \in 1..Len(f) /\ new[t][i] = f[i]
           \/ i > Len(f) /\ i - Len(f) + 1 \in 2..Len(st[t]) /\ new[t][i] = st[t][i - Len(f) + 1]
  BY <1>1, AfterPush
<1>3. Head(st[t]) = st[t][1] /\ 1 \in 1..Len(st[t]) /\ Len(st[t]) \in Nat
  BY Innermost
<1>4. LastLabels \subseteq LockedLabels
  BY DEF LockedLabels
<1> HIDE DEF new
<1>5. Ordered(new[t])
  <2> SUFFICES ASSUME NEW i \in 1..Len(new[t]), NEW j \in 1..Len(new[t]), i < j,
                      new[t][i].at \in LastLabels
               PROVE  new[t][j].at \notin LockedLabels
    BY DEF Ordered
  <2>1. CASE i \in 1..Len(f) /\ new[t][i] = f[i]
    <3>1. i = Len(f) /\ Head(st[t]).at \in LastLabels
      BY <2>1, <1>4 DEF Ending
    <3>2. j - Len(f) + 1 \in 2..Len(st[t]) /\ new[t][j] = st[t][j - Len(f) + 1]
      BY <1>1, <1>2, <3>1
    <3> QED
      BY <1>1, <1>3, <3>1, <3>2 DEF Discipline, Ordered
  <2>2. CASE i > Len(f) /\ i - Len(f) + 1 \in 2..Len(st[t]) /\ new[t][i] = st[t][i - Len(f) + 1]
    <3>1. j - Len(f) + 1 \in 2..Len(st[t]) /\ new[t][j] = st[t][j - Len(f) + 1]
      BY <1>1, <1>2, <2>2
    <3>2. Ordered(st[t]) /\ i - Len(f) + 1 < j - Len(f) + 1
      BY <1>1 DEF Discipline
    <3> QED
      BY <2>2, <3>1, <3>2 DEF Ordered
  <2> QED
    BY <1>2, <2>1, <2>2
<1>6. ASSUME Holds(new[t]) PROVE Holds(st[t])
  <2>1. PICK i \in 1..Len(new[t]) : new[t][i].at \in LockedLabels
    BY <1>6 DEF Holds
  <2>2. CASE i \in 1..Len(f) /\ new[t][i] = f[i]
    BY <2>1, <2>2, <1>3, <1>4 DEF Holds
  <2>3. CASE i > Len(f) /\ i - Len(f) + 1 \in 2..Len(st[t]) /\ new[t][i] = st[t][i - Len(f) + 1]
    BY <2>1, <2>3, <1>3 DEF Holds
  <2> QED
    BY <1>2, <2>2, <2>3
<1>7. ASSUME NEW u \in Threads PROVE Ordered(new[u]) /\ (Holds(new[u]) => owner = u)
  <2>1. CASE u = t
    BY <1>5, <1>6, <2>1 DEF Discipline
  <2>2. CASE u # t
    BY <1>2, <2>2 DEF Discipline
  <2> QED
    BY <2>1, <2>2
<1> QED
  BY <1>7 DEF Discipline, new

\* A thread that finds the lock free enters it.
LEMMA TakeKeepsDiscipline ==
  ASSUME NEW st \in [Threads -> Seq(Frames)], Discipline(st, NoThread),
         NEW t \in Threads, st[t] # <<>>, NEW f \in Ending
  PROVE  Discipline(Pushed(st, t, f), t)
<1> DEFINE new == Pushed(st, t, f)
<1>1. f \in Seq(Frames) /\ Len(f) \in Nat
  BY DEF Ending
<1>2. /\ \A u \in Threads : u # t => new[u] = st[u]
      /\ Len(new[t]) = Len(f) + Len(st[t]) - 1
      /\ \A i \in 1..Len(new[t]) :
           \/ i \in 1..Len(f) /\ new[t][i] = f[i]
           \/ i > Len(f) /\ i - Len(f) + 1 \in 2..Len(st[t]) /\ new[t][i] = st[t][i - Len(f) + 1]
  BY <1>1, AfterPush
<1>3. \A u \in Threads : ~Holds(st[u])
  BY ThreadsAssumption DEF Discipline
<1>4. Len(st[t]) \in Nat
  OBVIOUS
<1> HIDE DEF new
<1>5. Ordered(new[t])
  <2> SUFFICES ASSUME NEW i \in 1..Len(new[t]), NEW j \in 1..Len(new[t]), i < j,
                      new[t][i].at \in LastLabels
               PROVE  new[t][j].at \notin LockedLabels
    BY DEF Ordered
  <2>1. j > Len(f)
    BY <1>1, <1>2, <1>3, SMTT(20) DEF Ending, Holds, LockedLabels
  <2> QED
    BY <1>1, <1>2, <1>3, <1>4, <2>1 DEF Holds
<1>6. ASSUME NEW u \in Threads PROVE Ordered(new[u]) /\ (Holds(new[u]) => t = u)
  BY <1>2, <1>3, <1>5 DEF Discipline
<1> QED
  BY <1>6 DEF Discipline, new

\* The end of a method leaves the lock, and nothing of the thread is still inside it.
LEMMA LeaveKeepsDiscipline ==
  ASSUME NEW st \in [Threads -> Seq(Frames)], NEW owner, Discipline(st, owner),
         NEW t \in Threads, st[t] # <<>>, Head(st[t]).at = "unlock"
  PROVE  Discipline(Pushed(st, t, <<>>), NoThread)
<1> PICK e : e = <<>>
  OBVIOUS
<1> DEFINE new == Pushed(st, t, e)
<1>1. e \in Seq(Frames) /\ Len(e) = 0
  OBVIOUS
<1>b. \A i \in 1..Len(new[t]) :
        \/ i \in 1..Len(e) /\ new[t][i] = e[i]
        \/ i > Len(e) /\ i - Len(e) + 1 \in 2..Len(st[t]) /\ new[t][i] = st[t][i - Len(e) + 1]
  BY <1>1, AfterPush
<1>c. \A u \in Threads : u # t => new[u] = st[u]
  BY <1>1, AfterPush
<1> HIDE DEF new
<1>d. ASSUME NEW i \in 1..Len(new[t])
      PROVE  i + 1 \in 2..Len(st[t]) /\ new[t][i] = st[t][i + 1]
  <2>1. i - Len(e) + 1 = i + 1 /\ i \notin 1..Len(e)
    BY <1>1
  <2> QED
    BY <1>b, <2>1
<1>2. /\ \A u \in Threads : u # t => new[u] = st[u]
      /\ \A i \in 1..Len(new[t]) : i + 1 \in 2..Len(st[t]) /\ new[t][i] = st[t][i + 1]
  BY <1>c, <1>d
<1>3. Head(st[t]) = st[t][1] /\ 1 \in 1..Len(st[t]) /\ Len(st[t]) \in Nat
  BY Innermost
<1>4. "unlock" \in LastLabels /\ "unlock" \in LockedLabels
  BY DEF LastLabels, LockedLabels
<1> HIDE DEF new
<1>5. ~Holds(new[t])
  <2> SUFFICES ASSUME NEW i \in 1..Len(new[t]), new[t][i].at \in LockedLabels PROVE FALSE
    BY DEF Holds
  <2>1. i + 1 \in 1..Len(st[t]) /\ 1 < i + 1 /\ st[t][i + 1].at \in LockedLabels
    BY <1>2
  <2>2. st[t][1].at \in LastLabels /\ Ordered(st[t])
    BY <1>3, <1>4 DEF Discipline
  <2> QED
    BY <1>3, <2>1, <2>2 DEF Ordered
<1>6. \A u \in Threads : u # t => ~Holds(st[u])
  BY <1>3, <1>4 DEF Discipline, Holds
<1>7. Ordered(new[t])
  BY <1>5 DEF Ordered, Holds
<1>8. ASSUME NEW u \in Threads PROVE Ordered(new[u]) /\ ~Holds(new[u])
  BY <1>2, <1>5, <1>6, <1>7 DEF Discipline
<1> QED
  BY <1>8 DEF Discipline, new

\* A thread that is given other frames, outside the lock.
LEMMA ReplaceKeepsDiscipline ==
  ASSUME NEW st \in [Threads -> Seq(Frames)], NEW owner, Discipline(st, owner),
         NEW t \in Threads, NEW q \in Seq(Frames), ~Holds(q)
  PROVE  Discipline([st EXCEPT ![t] = q], owner)
<1>1. Ordered(q)
  BY DEF Ordered, Holds, LockedLabels
<1> QED
  BY <1>1 DEF Discipline

\* A push prepares nothing that was not prepared.
LEMMA PushPrepares ==
  ASSUME NEW st \in [Threads -> Seq(Frames)], NEW t \in Threads, st[t] # <<>>, NEW f \in Seq(Frames)
  PROVE  /\ Prepared(Pushed(st, t, f)[t]) => Prepared(f) \/ Prepared(st[t])
         /\ \A u \in Threads : u # t => Pushed(st, t, f)[u] = st[u]
<1> DEFINE new == Pushed(st, t, f)
<1>1. /\ \A u \in Threads : u # t => new[u] = st[u]
      /\ \A i \in 1..Len(new[t]) :
           \/ i \in 1..Len(f) /\ new[t][i] = f[i]
           \/ i > Len(f) /\ i - Len(f) + 1 \in 2..Len(st[t]) /\ new[t][i] = st[t][i - Len(f) + 1]
  BY AfterPush
<1> HIDE DEF new
<1>2. Len(st[t]) \in Nat
  OBVIOUS
<1>3. ASSUME Prepared(new[t]) PROVE Prepared(f) \/ Prepared(st[t])
  <2>1. PICK i \in 1..Len(new[t]) : new[t][i].at \in PreparedLabels
    BY <1>3 DEF Prepared
  <2>2. CASE i \in 1..Len(f) /\ new[t][i] = f[i]
    BY <2>1, <2>2 DEF Prepared
  <2>3. CASE i > Len(f) /\ i - Len(f) + 1 \in 2..Len(st[t]) /\ new[t][i] = st[t][i - Len(f) + 1]
    <3>1. i - Len(f) + 1 \in 1..Len(st[t])
      BY <1>2, <2>3
    <3> QED
      BY <2>1, <2>3, <3>1 DEF Prepared
  <2> QED
    BY <1>1, <2>2, <2>3
<1> QED
  BY <1>1, <1>3 DEF new

\* The frames pushed by code that runs without the lock.
LEMMA PlainFrames ==
  /\ <<>> \in Plain
  /\ \A at \in Labels \ (LockedLabels \cup {"connect"}), s \in 0..MaxSessions :
       <<Frame(at, s)>> \in Plain
  /\ \A at \in Labels \ (LockedLabels \cup {"connect"}), s \in 0..MaxSessions, f \in Plain :
       <<Frame(at, s)>> \o f \in Plain
<1>1. <<>> \in Plain
  BY DEF Plain
<1>2. ASSUME NEW at \in Labels \ (LockedLabels \cup {"connect"}), NEW s \in 0..MaxSessions
      PROVE  <<Frame(at, s)>> \in Plain
  BY FrameTyped DEF Plain
<1>3. ASSUME NEW at \in Labels \ (LockedLabels \cup {"connect"}), NEW s \in 0..MaxSessions, NEW f \in Plain
      PROVE  <<Frame(at, s)>> \o f \in Plain
  <2> PICK x \in Frames : x = Frame(at, s) /\ x.at = at
    BY FrameTyped
  <2> PICK g : g = <<x>> \o f
    OBVIOUS
  <2>1. f \in Seq(Frames) /\ \A i \in 1..Len(f) : f[i].at \notin LockedLabels \cup {"connect"}
    BY DEF Plain
  <2>2. /\ g \in Seq(Frames) /\ Len(g) = 1 + Len(f) /\ g[1] = x
        /\ \A i \in 2..Len(g) : g[i] = f[i - 1]
    BY <2>1, Fronted
  <2>3. ASSUME NEW i \in 1..Len(g) PROVE g[i].at \notin LockedLabels \cup {"connect"}
    <3>1. CASE i = 1
      BY <2>2, <3>1
    <3>2. CASE i # 1
      <4>1. i \in 2..Len(g) /\ i - 1 \in 1..Len(f) /\ Len(f) \in Nat
        BY <2>1, <2>2, <3>2
      <4> QED
        BY <2>1, <2>2, <4>1
    <3> QED
      BY <3>1, <3>2
  <2> QED
    BY <2>2, <2>3 DEF Plain
<1> QED
  BY <1>1, <1>2, <1>3

\* Code without the lock that changes a session.
LEMMA PlainSetSession ==
  ASSUME NEW t \in Threads, NEW s \in 0..MaxSessions, NEW rec, NEW f \in Plain,
         SetSession(t, s, rec, f)
  PROVE  \E g \in Plain : stack' = Pushed(stack, t, g)
<1>1. <<Frame("changed", s)>> \o f \in Plain
  BY PlainFrames DEF Labels, LockedLabels, LastLabels
<1> QED
  BY <1>1 DEF SetSession, Continue, Pushed

\* What code without the lock does: it pushes plain frames, keeps its hands off the lock,
\* and starts no process.
Unlocked(t) ==
  /\ stack[t] # <<>>
  /\ \E f \in Plain : stack' = Pushed(stack, t, f)
  /\ lock' = lock
  /\ \A s \in Sessions : process'[s].status = process[s].status

\* The steps of a thread that neither hold the lock nor take it.
LEMMA UnlockedRun ==
  ASSUME TypeOK, NEW t \in Threads,
         \/ ConnectWhenBusy(t) \/ DisconnectWhenIdle(t)
         \/ StopOpenVpn(t) \/ WaitExit(t) \/ Stopped(t) \/ OnOpenVpnExit(t)
         \/ Changed(t) \/ Invoke(t) \/ Enable(t) \/ Unblock(t) \/ Forget(t) \/ After(t)
         \/ SwitchOffUnblocks(t) \/ StoreSetting(t)
  PROVE  Unlocked(t)
<1> USE DEF At
<1>s. 0 \in 0..MaxSessions /\ openVpnExe \in 0..MaxSessions
  BY BoundsAssumption DEF TypeOK
<1>h. stack[t] # <<>> => Subject(t) \in 0..MaxSessions
  <2>1. SUFFICES ASSUME stack[t] # <<>> PROVE Head(stack[t]).s \in 0..MaxSessions
    BY DEF Subject
  <2>2. Head(stack[t]) \in Frames
    BY <2>1, HeadTailProperties DEF TypeOK
  <2> QED
    BY <2>2 DEF Frames
<1>f. /\ <<>> \in Plain
      /\ \A s \in 0..MaxSessions :
           /\ <<Frame("waitExit", s)>> \in Plain /\ <<Frame("stopped", s)>> \in Plain
           /\ <<Frame("exited", s)>> \o <<Frame("stopped", s)>> \in Plain
      /\ <<Frame("enable", 0)>> \in Plain /\ <<Frame("forget", 0)>> \in Plain
      /\ <<Frame("unblock", 0)>> \in Plain /\ <<Frame("storeOff", 0)>> \in Plain
      /\ <<Frame("stop", 0)>> \in Plain /\ <<Frame("invoke", 0)>> \o <<Frame("after", 0)>> \in Plain
  BY <1>s, PlainFrames DEF Labels, LockedLabels, LastLabels
<1>c. ASSUME NEW f \in Plain, Continue(t, f) PROVE \E g \in Plain : stack' = Pushed(stack, t, g)
  BY <1>c DEF Continue, Pushed
<1>1. CASE ConnectWhenBusy(t)
  BY <1>1, <1>c, <1>f DEF ConnectWhenBusy, Unlocked, systemVars
<1>2. CASE DisconnectWhenIdle(t)
  BY <1>2, <1>c, <1>f DEF DisconnectWhenIdle, Unlocked, systemVars
<1>3. CASE StopOpenVpn(t)
  BY <1>3, <1>c, <1>f, <1>s DEF StopOpenVpn, Unlocked
<1>4. CASE WaitExit(t)
  <2> PICK s : s = Subject(t)
    OBVIOUS
  <2>1. s \in 0..MaxSessions
    BY <1>4, <1>h DEF WaitExit
  <2>2. \E f \in Plain : Continue(t, f)
    <3>1. <<>> \o <<Frame("stopped", s)>> = <<Frame("stopped", s)>>
      BY <2>1, OneFrame, ConcatEmptySeq DEF Labels
    <3> QED
      BY <1>4, <1>f, <2>1, <3>1 DEF WaitExit
  <2>3. \A r \in Sessions : process'[r].status = process[r].status
    <3>1. PICK x : process' = [process EXCEPT ![s].raised = x]
      BY <1>4 DEF WaitExit
    <3> QED
      BY <3>1 DEF TypeOK, Processes
  <2> QED
    BY <1>4, <1>c, <2>2, <2>3 DEF WaitExit, Unlocked
<1>5. CASE Stopped(t)
  BY <1>5, <1>c, <1>f DEF Stopped, Unlocked
<1>6. CASE OnOpenVpnExit(t)
  <2> PICK s : s = Subject(t)
    OBVIOUS
  <2>1. s \in 0..MaxSessions
    BY <1>6, <1>h DEF OnOpenVpnExit
  <2>2. \/ SetState(t, s, "Disconnected", <<>>) \/ Continue(t, <<>>)
    BY <1>6 DEF OnOpenVpnExit
  <2>3. \E g \in Plain : stack' = Pushed(stack, t, g)
    BY <1>c, <1>f, <2>1, <2>2, PlainSetSession DEF SetState
  <2> QED
    BY <1>6, <2>3 DEF OnOpenVpnExit, Unlocked, systemVars
<1>7. CASE Changed(t)
  <2>1. Continue(t, <<Frame("invoke", 0), Frame("after", 0)>>)
    BY <1>7 DEF Changed
  <2>2. <<Frame("invoke", 0), Frame("after", 0)>> \in Plain
    BY <1>s, FrameTyped DEF Plain, Labels, LockedLabels, LastLabels
  <2> QED
    BY <1>7, <1>c, <2>1, <2>2 DEF Changed, Unlocked, systemVars
<1>8. CASE Invoke(t)
  BY <1>8, <1>c, <1>f DEF Invoke, Unlocked, systemVars
<1>9. CASE Enable(t)
  BY <1>9, <1>c, <1>f DEF Enable, Unlocked, systemVars
<1>10. CASE Forget(t)
  BY <1>10, <1>c, <1>f DEF Forget, Unlocked, systemVars
<1>11. CASE After(t)
  <2>1. \E f \in Plain : Continue(t, f)
    BY <1>11, <1>f DEF After
  <2> QED
    BY <1>11, <1>c, <2>1 DEF After, Unlocked, systemVars
<1>12. CASE Unblock(t) \/ SwitchOffUnblocks(t) \/ StoreSetting(t)
  BY <1>12, <1>c, <1>f DEF Unblock, SwitchOffUnblocks, StoreSetting, Unlocked, systemVars
<1> QED
  BY <1>1, <1>2, <1>3, <1>4, <1>5, <1>6, <1>7, <1>8, <1>9, <1>10, <1>11, <1>12

\* The steps of a reader, but for the disconnect it may call.
LEMMA UnlockedReader ==
  ASSUME TypeOK, NEW s \in Sessions, ReadLine(s)
  PROVE  Unlocked(Reader(s))
<1> USE DEF At
<1> DEFINE t == Reader(s)
<1>s. Reader(s) \in Threads /\ s \in 0..MaxSessions /\ 0 \in 0..MaxSessions
  BY SessionThreads, BoundsAssumption
<1>f. /\ <<>> \in Plain /\ <<Frame("read", s)>> \in Plain
      /\ <<>> \o <<Frame("read", s)>> \in Plain
      /\ <<Frame("connectedError", s)>> \o <<Frame("read", s)>> \in Plain
      /\ <<Frame("authFailed", s), Frame("read", s)>> \in Plain
      /\ <<Frame("disconnect", s), Frame("errorReply", s), Frame("read", s)>> \in Plain
      /\ <<Frame("invoke", 0)>> \o <<>> \in Plain
  <2>1. /\ <<>> \in Plain /\ <<Frame("read", s)>> \in Plain
        /\ <<Frame("connectedError", s)>> \o <<Frame("read", s)>> \in Plain
        /\ <<Frame("invoke", 0)>> \o <<>> \in Plain
    BY <1>s, PlainFrames DEF Labels, LockedLabels, LastLabels
  <2>2. /\ <<Frame("authFailed", s), Frame("read", s)>> \in Plain
        /\ <<Frame("disconnect", s), Frame("errorReply", s), Frame("read", s)>> \in Plain
    BY <1>s, FrameTyped DEF Plain, Labels, LockedLabels, LastLabels
  <2>3. <<>> \o <<Frame("read", s)>> = <<Frame("read", s)>>
    BY <1>s, OneFrame, ConcatEmptySeq DEF Labels
  <2> QED
    BY <2>1, <2>2, <2>3
<1>c. ASSUME NEW f \in Plain, Continue(Reader(s), f)
      PROVE  \E g \in Plain : stack' = Pushed(stack, Reader(s), g)
  BY <1>c DEF Continue, Pushed
<1>p. ASSUME NEW kind, Read(s, kind)
      PROVE  /\ \A r \in Sessions : process'[r].status = process[r].status
             /\ stack[Reader(s)] # <<>>
  <2>1. PICK x : process' = [process EXCEPT ![s].stream = x]
    BY <1>p DEF Read
  <2> QED
    BY <1>p, <2>1 DEF Read, TypeOK, Processes
<1> HIDE DEF t
<1>1. CASE HandleStateNotification(s)
  <2>1. /\ \E kind : Read(s, kind)
        /\ \/ \E newState : \E f \in Plain : SetState(Reader(s), s, newState, f)
           \/ Continue(Reader(s), <<Frame("read", s)>>)
    <3>1. \/ /\ Read(s, "CONNECTED")
             /\ SetState(Reader(s), s, "Connected", <<>> \o <<Frame("read", s)>>)
          \/ /\ Read(s, "CONNECTED_ERROR")
             /\ SetState(Reader(s), s, "Disconnected",
                         <<Frame("connectedError", s)>> \o <<Frame("read", s)>>)
          \/ /\ Read(s, "RECONNECTING")
             /\ SetState(Reader(s), s, "Connecting", <<>> \o <<Frame("read", s)>>)
          \/ Read(s, "RECONNECTING") /\ Continue(Reader(s), <<Frame("read", s)>>)
          \/ /\ Read(s, "EXITING")
             /\ SetState(Reader(s), s, "Disconnecting", <<>> \o <<Frame("read", s)>>)
          \/ Read(s, "EXITING") /\ Continue(Reader(s), <<Frame("read", s)>>)
      BY <1>1, Zenon DEF HandleStateNotification
    <3>2. \E kind : Read(s, kind)
      BY <3>1, Zenon
    <3>3. \/ SetState(Reader(s), s, "Connected", <<>> \o <<Frame("read", s)>>)
          \/ SetState(Reader(s), s, "Disconnected", <<Frame("connectedError", s)>> \o <<Frame("read", s)>>)
          \/ SetState(Reader(s), s, "Connecting", <<>> \o <<Frame("read", s)>>)
          \/ SetState(Reader(s), s, "Disconnecting", <<>> \o <<Frame("read", s)>>)
          \/ Continue(Reader(s), <<Frame("read", s)>>)
      BY <3>1, Zenon
    <3>4. ASSUME NEW newState, NEW f \in Plain, SetState(Reader(s), s, newState, f)
          PROVE  \E state : \E g \in Plain : SetState(Reader(s), s, state, g)
      BY <3>4, Zenon
    <3>5. \/ \E newState : \E f \in Plain : SetState(Reader(s), s, newState, f)
          \/ Continue(Reader(s), <<Frame("read", s)>>)
      BY <1>f, <3>3, <3>4, Zenon
    <3> QED
      BY <3>2, <3>5
  <2>2. \E g \in Plain : stack' = Pushed(stack, Reader(s), g)
    BY <1>c, <1>f, <1>s, <2>1, PlainSetSession DEF SetState
  <2> QED
    BY <1>1, <1>p, <2>1, <2>2 DEF HandleStateNotification, Unlocked
<1>2. CASE HandleAuthNotification(s)
  BY <1>2, <1>f, <1>p, <1>s, PlainSetSession DEF HandleAuthNotification, SetState, Unlocked
<1>3. CASE HandleFatalNotification(s)
  <2>1. \E rec : SetSession(Reader(s), s, rec, <<Frame("read", s)>>)
    BY <1>3 DEF HandleFatalNotification
  <2>2. \E g \in Plain : stack' = Pushed(stack, Reader(s), g)
    BY <1>f, <1>s, <2>1, PlainSetSession
  <2> QED
    BY <1>3, <1>p, <2>2 DEF HandleFatalNotification, Unlocked
<1>4. CASE HandleLogNotification(s)
  BY <1>4, <1>c, <1>f, <1>p DEF HandleLogNotification, Unlocked
<1>5. CASE HandleErrorReply(s)
  BY <1>5, <1>c, <1>f, <1>p DEF HandleErrorReply, Unlocked
<1>6. CASE ErrorReply(s)
  BY <1>6, <1>c, <1>f DEF ErrorReply, NotifyError, Unlocked, systemVars
<1>7. CASE RecordError(s)
  BY <1>7, <1>c, <1>f DEF RecordError, Unlocked, systemVars
<1>8. CASE ReaderEnds(s)
  <2>1. PICK x : process' = [process EXCEPT ![s].closed = x]
    BY <1>8 DEF ReaderEnds
  <2>2. \A r \in Sessions : process'[r].status = process[r].status
    BY <2>1 DEF TypeOK, Processes
  <2> QED
    BY <1>8, <1>c, <1>f, <2>2 DEF ReaderEnds, Unlocked
<1> QED
  BY <1>1, <1>2, <1>3, <1>4, <1>5, <1>6, <1>7, <1>8 DEF ReadLine

\* Such a step keeps the invariant.
LEMMA UnlockedKeeps ==
  ASSUME Exclusive, NEW t \in Threads, Unlocked(t), TypeOK'
  PROVE  Exclusive'
<1>1. PICK f \in Plain : stack' = Pushed(stack, t, f)
  BY DEF Unlocked
<1>2. stack \in [Threads -> Seq(Frames)] /\ Discipline(stack, lock) /\ stack[t] # <<>>
  BY DEF Exclusive, TypeOK, Unlocked
<1>3. /\ f \in Ending /\ f \in Seq(Frames) /\ ~Prepared(f)
      /\ \A i \in 1..Len(f) : f[i].at \notin LockedLabels
  BY DEF Plain, Ending, Prepared, LockedLabels, LastLabels, PreparedLabels
<1>4. Discipline(stack, lock)'
  <2>1. Discipline(Pushed(stack, t, f), lock)
    BY <1>2, <1>3, PushKeepsDiscipline
  <2> QED
    BY <1>1, <2>1 DEF Unlocked, Discipline
<1>5. \A u \in Threads : Prepared(stack'[u]) => Prepared(stack[u])
  BY <1>1, <1>2, <1>3, PushPrepares
<1>6. NoneRuns => NoneRuns'
  BY DEF NoneRuns, Unlocked
<1>7. OneProcess'
  BY DEF Exclusive, OneProcess, Unlocked
<1> QED
  BY <1>4, <1>5, <1>6, <1>7 DEF Exclusive

\* The steps inside the lock keep the invariant.
LEMMA LockedKeeps ==
  ASSUME Exclusive, NEW t \in Threads, Locked(t), TypeOK'
  PROVE  Exclusive'
<1> USE DEF At
<1>a. stack[t] # <<>>
  BY DEF Locked, Clean, Prepare, Launch, Attach, Bind, BindRest, StartReader, Failed, Unlock,
         StopRequested, SessionDisconnect
<1>b. /\ stack \in [Threads -> Seq(Frames)] /\ session \in 0..MaxSessions
      /\ Discipline(stack, lock)
  BY Zenon DEF Exclusive, TypeOK
<1>t. /\ stack \in [Threads -> Seq(Frames)] /\ Discipline(stack, lock) /\ stack[t] # <<>>
      /\ session \in 0..MaxSessions /\ 0 \in 0..MaxSessions
  BY <1>a, <1>b, BoundsAssumption
<1>h. stack[t][1] = Head(stack[t]) /\ 1 \in 1..Len(stack[t]) /\ Len(stack[t]) \in Nat
  BY <1>t, Innermost
<1>q. ASSUME NEW f \in Seq(Frames), ~Prepared(f)
      PROVE  \A u \in Threads : Prepared(Pushed(stack, t, f)[u]) => Prepared(stack[u])
  BY <1>t, <1>q, PushPrepares, SMTT(20)
\* A step that goes on inside the lock, and starts no process.
<1>k. ASSUME NEW f \in Ending, stack' = Pushed(stack, t, f), lock' = lock,
             \A i \in 1..Len(f) : f[i].at \in LockedLabels => Head(stack[t]).at \in LastLabels,
             \A s \in Sessions : process'[s].status = "running" => process[s].status = "running",
             Prepared(f) => Prepared(stack[t]) \/ NoneRuns'
      PROVE  Exclusive'
  <2>1. f \in Seq(Frames)
    BY DEF Ending
  <2>2. Discipline(stack, lock)'
    <3>1. Discipline(Pushed(stack, t, f), lock)
      BY <1>t, <1>k, PushKeepsDiscipline
    <3> QED
      BY <1>k, <3>1 DEF Discipline
  <2>3. NoneRuns => NoneRuns'
    BY <1>k DEF NoneRuns
  <2>4. \A u \in Threads : Prepared(stack'[u]) => Prepared(stack[u]) \/ NoneRuns'
    BY <1>k, <1>t, <2>1, PushPrepares
  <2>5. OneProcess'
    BY <1>k DEF Exclusive, OneProcess
  <2> QED
    BY <2>2, <2>3, <2>4, <2>5 DEF Exclusive
<1>e. ASSUME NEW at \in Labels
      PROVE  /\ <<Frame(at, 0)>> \in Ending
             /\ Len(<<Frame(at, 0)>>) = 1 /\ <<Frame(at, 0)>>[1].at = at
  BY <1>t, FrameTyped DEF Ending
<1>0. <<>> \in Ending /\ Len(<<>>) = 0
  BY DEF Ending
\* The catch block of Connect.
<1>f. ASSUME NEW error, Fail(t, error), lock' = lock, Head(stack[t]).at \in LastLabels,
             \A s \in Sessions : process'[s].status = "running" => process[s].status = "running"
      PROVE  Exclusive'
  <2> PICK f : f = <<Frame("stop", 0), Frame("sessionDisconnect", 0), Frame("failed", 0),
                     Frame("unlock", 0)>>
    OBVIOUS
  <2>1. f \in Ending /\ ~Prepared(f)
    BY <1>t, FrameTyped DEF Ending, Prepared, PreparedLabels, LastLabels, Labels
  <2>2. stack' = Pushed(stack, t, f)
    BY <1>f DEF Fail, Continue, Pushed
  <2> QED
    BY <1>f, <1>k, <2>1, <2>2
\* A step that goes on with one frame or none.
<1>g. ASSUME NEW at \in Labels, Continue(t, <<Frame(at, 0)>>), lock' = lock,
             at \in LockedLabels => Head(stack[t]).at \in LastLabels,
             \A s \in Sessions : process'[s].status = "running" => process[s].status = "running",
             at \in PreparedLabels => Prepared(stack[t]) \/ NoneRuns'
      PROVE  Exclusive'
  <2> PICK f : f = <<Frame(at, 0)>>
    OBVIOUS
  <2>1. f \in Ending /\ Len(f) = 1 /\ f[1].at = at
    BY <1>e
  <2>2. stack' = Pushed(stack, t, f)
    BY <1>g DEF Continue, Pushed
  <2>3. Prepared(f) => Prepared(stack[t]) \/ NoneRuns'
    BY <1>g, <2>1 DEF Prepared
  <2>4. \A i \in 1..Len(f) : f[i].at \in LockedLabels => Head(stack[t]).at \in LastLabels
    BY <1>g, <2>1
  <2> QED
    BY <1>g, <1>k, <2>1, <2>2, <2>3, <2>4
<1>n. ASSUME Continue(t, <<>>), lock' = lock,
             \A s \in Sessions : process'[s].status = "running" => process[s].status = "running"
      PROVE  Exclusive'
  <2> PICK f : f = <<>>
    OBVIOUS
  <2>1. f \in Ending /\ Len(f) = 0 /\ ~Prepared(f)
    BY <1>0 DEF Prepared
  <2>2. stack' = Pushed(stack, t, f)
    BY <1>n DEF Continue, Pushed
  <2> QED
    BY <1>n, <1>k, <2>1, <2>2
\* A step that pushes plain frames.
<1>p. ASSUME Unlocked(t) PROVE Exclusive'
  BY <1>p, UnlockedKeeps
<1>1. CASE Clean(t)
  <2>1. \A s \in Sessions : process'[s].status # "running"
    <3>1. process' = [s \in Sessions |-> [process[s] EXCEPT
                       !.status = IF @ = "running" THEN "exited" ELSE @]]
      BY <1>1 DEF Clean
    <3>2. ASSUME NEW p \in Processes
          PROVE  [p EXCEPT !.status = IF @ = "running" THEN "exited" ELSE @].status # "running"
      BY DEF Processes
    <3>3. \A s \in Sessions : process[s] \in Processes
      BY DEF Exclusive, TypeOK
    <3> QED
      BY <3>1, <3>2, <3>3
  <2>2. NoneRuns'
    BY <2>1 DEF NoneRuns
  <2> QED
    BY <1>1, <1>g, <2>1, <2>2 DEF Clean, Labels, LastLabels
<1>2. CASE Prepare(t)
  <2>1. Prepared(stack[t]) /\ Head(stack[t]).at \in LastLabels
    BY <1>2, <1>h DEF Prepare, Prepared, PreparedLabels, LastLabels
  <2>2. CASE Continue(t, <<Frame("launch", 0)>>)
    BY <1>2, <1>g, <2>1, <2>2 DEF Prepare, Labels, systemVars
  <2>3. CASE \E error : Fail(t, error)
    BY <1>2, <1>f, <2>1, <2>3 DEF Prepare, systemVars
  <2> QED
    BY <1>2, <2>2, <2>3 DEF Prepare
<1>3. CASE Launch(t)
  <2>1. Prepared(stack[t]) /\ Head(stack[t]).at = "launch" /\ Head(stack[t]).at \in LastLabels
    BY <1>3, <1>h DEF Launch, Prepared, PreparedLabels, LastLabels
  <2>2. CASE Fail(t, "NoError") /\ process' = process
    BY <1>3, <1>f, <2>1, <2>2 DEF Launch
  <2>3. CASE Continue(t, <<Frame("attach", 0)>>)
             /\ process' = [process EXCEPT ![session].status = "running"]
    <3> PICK f : f = <<Frame("attach", 0)>>
      OBVIOUS
    <3>1. f \in Ending /\ f \in Seq(Frames) /\ Len(f) = 1 /\ f[1].at = "attach"
      BY <1>e DEF Labels, Ending
    <3>2. stack' = Pushed(stack, t, f)
      BY <2>3 DEF Continue, Pushed
    <3>3. Discipline(stack, lock)'
      <4>1. Discipline(Pushed(stack, t, f), lock)
        BY <1>t, <2>1, <3>1, PushKeepsDiscipline
      <4> QED
        BY <1>3, <3>2, <4>1 DEF Launch, Discipline
    <3>4. \A u \in Threads : ~Prepared(stack'[u])
      <4>1. lock = t
        BY <1>h, <1>t, <2>1 DEF Discipline, Holds, LockedLabels
      <4>2. ASSUME NEW u \in Threads, u # t PROVE ~Prepared(stack'[u])
        <5>1. stack'[u] = stack[u]
          BY <1>t, <3>1, <3>2, <4>2, AfterPush
        <5>2. ~Holds(stack[u])
          BY <1>t, <4>1, <4>2 DEF Discipline
        <5> QED
          BY <5>1, <5>2 DEF Prepared, Holds, PreparedLabels, LockedLabels, LastLabels
      <4>3. ~Prepared(stack'[t])
        <5> SUFFICES ASSUME NEW i \in 1..Len(stack'[t]), stack'[t][i].at \in PreparedLabels
                     PROVE  FALSE
          BY DEF Prepared
        <5>1. i - Len(f) + 1 \in 2..Len(stack[t]) /\ stack'[t][i] = stack[t][i - Len(f) + 1]
          <6>1. \/ i \in 1..Len(f) /\ stack'[t][i] = f[i]
                \/ /\ i > Len(f)
                   /\ i - Len(f) + 1 \in 2..Len(stack[t])
                   /\ stack'[t][i] = stack[t][i - Len(f) + 1]
            <7> DEFINE new == Pushed(stack, t, f)
            <7>1. \A k \in 1..Len(new[t]) :
                    \/ k \in 1..Len(f) /\ new[t][k] = f[k]
                    \/ /\ k > Len(f)
                       /\ k - Len(f) + 1 \in 2..Len(stack[t])
                       /\ new[t][k] = stack[t][k - Len(f) + 1]
              BY <1>t, <3>1, AfterPush
            <7>2. stack' = new
              BY <3>2
            <7> HIDE DEF new
            <7> QED
              BY <7>1, <7>2
          <6>2. ~(i \in 1..Len(f) /\ stack'[t][i] = f[i])
            BY <3>1 DEF PreparedLabels
          <6> QED
            BY <6>1, <6>2
        <5>2. stack[t][i - Len(f) + 1].at \in LockedLabels
          BY <5>1 DEF PreparedLabels, LockedLabels, LastLabels
        <5> QED
          BY <1>h, <1>t, <2>1, <5>1, <5>2 DEF Discipline, Ordered
      <4> QED
        BY <4>2, <4>3
    <3>5. OneProcess'
      BY <2>1, <2>3 DEF Exclusive, NoneRuns, OneProcess, TypeOK, Processes
    <3> QED
      BY <3>3, <3>4, <3>5 DEF Exclusive
  <2> QED
    BY <1>3, <2>2, <2>3 DEF Launch
<1>4. CASE Attach(t)
  <2>1. Head(stack[t]).at \in LastLabels
    BY <1>4 DEF Attach, LastLabels
  <2>2. CASE Fail(t, "NoError")
    BY <1>4, <1>f, <2>1, <2>2 DEF Attach, systemVars
  <2>3. CASE Continue(t, <<Frame("bind", 0)>>)
    BY <1>4, <1>g, <2>1, <2>3 DEF Attach, systemVars, Labels, PreparedLabels
  <2> QED
    BY <1>4, <2>2, <2>3 DEF Attach
<1>5. CASE Bind(t)
  <2>1. Head(stack[t]).at \in LastLabels
    BY <1>5 DEF Bind, LastLabels
  <2>2. CASE Fail(t, "NoError")
    BY <1>5, <1>f, <2>1, <2>2 DEF Bind, systemVars
  <2>3. CASE Continue(t, <<Frame("bindRest", 0)>>)
    BY <1>5, <1>g, <2>1, <2>3 DEF Bind, systemVars, Labels, PreparedLabels
  <2> QED
    BY <1>5, <2>2, <2>3 DEF Bind
<1>6. CASE BindRest(t)
  BY <1>6, <1>g DEF BindRest, systemVars, Labels, LastLabels, PreparedLabels
<1>7. CASE StartReader(t)
  <2> PICK f : f = <<Frame("unlock", 0)>>
    OBVIOUS
  <2> PICK q : q = <<Frame("read", session)>>
    OBVIOUS
  <2> DEFINE one == Pushed(stack, t, f)
  <2>1. f \in Ending /\ f \in Seq(Frames) /\ Len(f) = 1 /\ f[1].at = "unlock"
    BY <1>e DEF Labels, Ending
  <2>2. q \in Seq(Frames) /\ ~Holds(q) /\ ~Prepared(q)
    BY <1>t, FrameTyped DEF Labels, Holds, Prepared, PreparedLabels, LockedLabels, LastLabels
  <2>3. stack' = [one EXCEPT ![Reader(session)] = q]
    BY <1>7 DEF StartReader, Pushed
  <2>4. one \in [Threads -> Seq(Frames)] /\ Discipline(one, lock)
    BY <1>7, <1>t, <2>1, AfterPush, PushKeepsDiscipline DEF StartReader, LastLabels
  <2>5. \A u \in Threads : Prepared(one[u]) => Prepared(stack[u])
    <3>1. ~Prepared(f)
      BY <2>1 DEF Prepared, PreparedLabels
    <3> QED
      BY <1>q, <2>1, <3>1, Zenon
  <2> HIDE DEF one
  <2>6. Discipline(stack', lock)
    BY <2>2, <2>3, <2>4, ReplaceKeepsDiscipline
  <2>7. Discipline(stack, lock)'
    BY <1>7, <2>6 DEF StartReader, Discipline
  <2>8. \A u \in Threads : Prepared(stack'[u]) => Prepared(stack[u])
    BY <2>2, <2>3, <2>4, <2>5
  <2> QED
    BY <1>7, <2>7, <2>8 DEF StartReader, Exclusive, NoneRuns, OneProcess, systemVars
<1>8. CASE Failed(t)
  <2>1. CASE Continue(t, <<>>)
    BY <1>8, <1>n, <2>1 DEF Failed, systemVars
  <2>2. CASE NotifyError(t, arg[t].error, <<>>)
    <3>1. <<Frame("invoke", 0)>> \o <<>> \in Plain
      BY <1>t, PlainFrames DEF Labels, LockedLabels, LastLabels
    <3> QED
      BY <1>8, <1>p, <1>t, <2>2, <3>1 DEF Failed, NotifyError, Continue, Pushed, Unlocked,
         systemVars
  <2> QED
    BY <1>8, <2>1, <2>2 DEF Failed
<1>9. CASE Unlock(t)
  <2>1. stack' = Pushed(stack, t, <<>>) /\ lock' = NoThread
    BY <1>9 DEF Unlock, Continue, Pushed
  <2>2. Discipline(Pushed(stack, t, <<>>), NoThread)
    BY <1>9, <1>t, LeaveKeepsDiscipline DEF Unlock
  <2>3. Discipline(stack, lock)'
    BY <2>1, <2>2 DEF Discipline
  <2>4. \A u \in Threads : Prepared(stack'[u]) => Prepared(stack[u])
    <3> PICK f : f = <<>>
      OBVIOUS
    <3>1. f \in Seq(Frames) /\ ~Prepared(f)
      BY <1>0 DEF Prepared
    <3>2. \A u \in Threads : Prepared(Pushed(stack, t, f)[u]) => Prepared(stack[u])
      BY <1>q, <3>1, Zenon
    <3> QED
      BY <2>1, <3>2
  <2> QED
    BY <1>9, <2>3, <2>4 DEF Unlock, Exclusive, NoneRuns, OneProcess, systemVars
<1>10. CASE StopRequested(t)
  BY <1>10, <1>n DEF StopRequested, systemVars
<1>11. CASE SessionDisconnect(t)
  <2>1. \E rec : SetSession(t, session, rec, <<>>)
    BY <1>11 DEF SessionDisconnect
  <2>2. \E g \in Plain : stack' = Pushed(stack, t, g)
    BY <1>t, <2>1, PlainFrames, PlainSetSession
  <2> QED
    BY <1>11, <1>p, <1>t, <2>2 DEF SessionDisconnect, Unlocked, systemVars
<1> QED
  BY <1>1, <1>2, <1>3, <1>4, <1>5, <1>6, <1>7, <1>8, <1>9, <1>10, <1>11 DEF Locked

\* A call that finds the lock free takes it.
LEMMA TakeKeeps ==
  ASSUME Exclusive, NEW t \in Threads, ConnectWithoutNetwork(t) \/ StartSession(t) \/ Disconnect(t),
         TypeOK'
  PROVE  Exclusive'
<1> USE DEF At
<1>t. /\ stack \in [Threads -> Seq(Frames)] /\ Discipline(stack, NoThread) /\ stack[t] # <<>>
      /\ session \in 0..MaxSessions /\ 0 \in 0..MaxSessions /\ lock' = t /\ process' = process
  <2>1. lock = NoThread
    BY DEF ConnectWithoutNetwork, StartSession, Disconnect
  <2> QED
    BY <2>1, BoundsAssumption, SMTT(20) DEF Exclusive, TypeOK, ConnectWithoutNetwork,
       StartSession, Disconnect,
          systemVars
<1>1. ASSUME NEW f \in Ending, stack' = Pushed(stack, t, f), ~Prepared(f) PROVE Exclusive'
  <2>1. f \in Seq(Frames)
    BY DEF Ending
  <2>2. Discipline(Pushed(stack, t, f), t)
    BY <1>t, TakeKeepsDiscipline
  <2>3. Discipline(stack, lock)'
    BY <1>1, <1>t, <2>2 DEF Discipline
  <2>4. \A u \in Threads : Prepared(Pushed(stack, t, f)[u]) => Prepared(stack[u])
    BY <1>1, <1>t, <2>1, PushPrepares
  <2> QED
    BY <1>1, <1>t, <2>3, <2>4 DEF Exclusive, NoneRuns, OneProcess
\* The frames of a session that changes come first.
<1>2. ASSUME NEW at \in Labels \ (LastLabels \cup PreparedLabels), NEW s \in 0..MaxSessions,
             NEW f \in Ending, ~Prepared(f)
      PROVE  <<Frame(at, s)>> \o f \in Ending /\ ~Prepared(<<Frame(at, s)>> \o f)
  <2> PICK x \in Frames : x = Frame(at, s) /\ x.at = at
    BY FrameTyped
  <2> PICK g : g = <<x>> \o f
    OBVIOUS
  <2>1. f \in Seq(Frames) /\ Len(f) \in Nat /\ \A i \in 1..Len(f) : f[i].at \in LastLabels => i = Len(f)
    BY DEF Ending
  <2>2. /\ g \in Seq(Frames) /\ Len(g) = 1 + Len(f) /\ g[1] = x
        /\ \A i \in 2..Len(g) : g[i] = f[i - 1]
    BY <2>1, Fronted
  <2>3. ASSUME NEW i \in 1..Len(g)
        PROVE  /\ g[i].at \in LastLabels => i = Len(g)
               /\ g[i].at \notin PreparedLabels
    <3>1. CASE i = 1
      BY <2>2, <3>1
    <3>2. CASE i # 1
      <4>1. i \in 2..Len(g) /\ i - 1 \in 1..Len(f)
        BY <2>1, <2>2, <3>2
      <4>2. g[i] = f[i - 1] /\ f[i - 1].at \notin PreparedLabels
        BY <1>2, <2>2, <4>1 DEF Prepared
      <4> QED
        BY <2>1, <2>2, <4>1, <4>2
    <3> QED
      BY <3>1, <3>2
  <2> QED
    BY <2>2, <2>3 DEF Ending, Prepared
<1>3. /\ <<Frame("unlock", 0)>> \in Ending /\ ~Prepared(<<Frame("unlock", 0)>>)
      /\ <<Frame("clean", 0)>> \in Ending /\ ~Prepared(<<Frame("clean", 0)>>)
  BY <1>t, FrameTyped DEF Ending, Prepared, PreparedLabels, LastLabels, Labels
<1>4. CASE ConnectWithoutNetwork(t)
  <2>1. /\ <<Frame("invoke", 0)>> \o <<Frame("unlock", 0)>> \in Ending
        /\ ~Prepared(<<Frame("invoke", 0)>> \o <<Frame("unlock", 0)>>)
    BY <1>2, <1>3, <1>t DEF Labels, LastLabels, PreparedLabels
  <2>2. stack' = Pushed(stack, t, <<Frame("invoke", 0)>> \o <<Frame("unlock", 0)>>)
    BY <1>4 DEF ConnectWithoutNetwork, NotifyError, Continue, Pushed
  <2> QED
    BY <1>1, <2>1, <2>2
<1>5. CASE StartSession(t)
  <2>1. session + 1 \in 0..MaxSessions
    BY <1>5, <1>t, BoundsAssumption DEF StartSession
  <2> PICK n \in 0..MaxSessions : n = session + 1
    BY <2>1
  <2>2. SetState(t, n, "Connecting", <<Frame("clean", 0)>>)
    BY <1>5 DEF StartSession
  <2>3. CASE stack' = Pushed(stack, t, <<Frame("clean", 0)>>)
    BY <1>1, <1>3, <2>3
  <2>4. CASE stack' = Pushed(stack, t, <<Frame("changed", n)>> \o <<Frame("clean", 0)>>)
    <3>1. /\ <<Frame("changed", n)>> \o <<Frame("clean", 0)>> \in Ending
          /\ ~Prepared(<<Frame("changed", n)>> \o <<Frame("clean", 0)>>)
      BY <1>2, <1>3 DEF Labels, LastLabels, PreparedLabels
    <3> QED
      BY <1>1, <2>4, <3>1
  <2> QED
    BY <2>2, <2>3, <2>4 DEF SetState, SetSession, Continue, Pushed
<1>6. CASE Disconnect(t)
  <2> PICK rest : rest = <<Frame("stop", 0), Frame("sessionDisconnect", 0), Frame("unlock", 0)>>
    OBVIOUS
  <2>1. rest \in Ending /\ ~Prepared(rest)
    BY <1>t, FrameTyped DEF Ending, Prepared, PreparedLabels, LastLabels, Labels
  <2> PICK asked : asked = <<Frame("stopRequested", 0)>> \o rest
    OBVIOUS
  <2>2. asked \in Ending /\ ~Prepared(asked)
    BY <1>2, <1>t, <2>1 DEF Labels, LastLabels, PreparedLabels
  <2>3. /\ <<Frame("changed", session)>> \o asked \in Ending
        /\ ~Prepared(<<Frame("changed", session)>> \o asked)
    BY <1>2, <1>t, <2>2 DEF Labels, LastLabels, PreparedLabels
  <2>4. \/ SetState(t, session, "Disconnecting", asked) \/ Continue(t, rest)
    BY <1>6 DEF Disconnect
  <2>5. \/ stack' = Pushed(stack, t, rest) \/ stack' = Pushed(stack, t, asked)
        \/ stack' = Pushed(stack, t, <<Frame("changed", session)>> \o asked)
    BY <2>4 DEF SetState, SetSession, Continue, Pushed
  <2> QED
    BY <1>1, <2>1, <2>2, <2>3, <2>5
<1> QED
  BY <1>4, <1>5, <1>6

\* Calls, queued reconnects, processes and the pool's wait on them.
LEMMA OthersKeep ==
  ASSUME Exclusive, TypeOK',
         \/ \E w \in Workers : Client(w) \/ RunReconnect(w)
         \/ \E s \in Sessions : Write(s) \/ Exit(s) \/ RaiseExited(s)
  PROVE  Exclusive'
<1>t. /\ stack \in [Threads -> Seq(Frames)] /\ Discipline(stack, lock)
      /\ 0 \in 0..MaxSessions
  BY BoundsAssumption DEF Exclusive, TypeOK
\* A thread that is idle, or whose process has exited, is given frames outside the lock.
<1>1. ASSUME NEW t \in Threads, NEW q \in Seq(Frames), stack' = [stack EXCEPT ![t] = q],
             ~Holds(q), lock' = lock,
             \A s \in Sessions : process'[s].status = process[s].status
      PROVE  Exclusive'
  <2>1. Discipline(stack', lock)
    BY <1>1, <1>t, ReplaceKeepsDiscipline
  <2>2. Discipline(stack, lock)'
    BY <1>1, <2>1 DEF Discipline
  <2>3. ~Prepared(q)
    BY <1>1 DEF Prepared, Holds, PreparedLabels, LockedLabels, LastLabels
  <2>4. \A u \in Threads : Prepared(stack'[u]) => Prepared(stack[u])
    BY <1>1, <1>t, <2>3
  <2> QED
    BY <1>1, <2>2, <2>4 DEF Exclusive, NoneRuns, OneProcess
<1>2. ASSUME NEW w \in Workers, Client(w) \/ RunReconnect(w) PROVE Exclusive'
  <2> DEFINE given == {<<>>, <<Frame("connect", 0)>>, <<Frame("disconnect", 0)>>, <<Frame("switchOff", 0)>>,
                       <<Frame("disconnect", 0), Frame("quit", 0)>>}
  <2>1. \E q \in given : stack' = [stack EXCEPT ![w] = q]
    BY <1>2 DEF Client, CallConnect, CallDisconnect, CallToggleKillSwitch, CallUnblockTraffic,
       CallStop, RunReconnect, Call
  <2>2. \A q \in given : q \in Seq(Frames) /\ ~Holds(q)
    <3>1. \A at \in Labels \ LockedLabels : <<Frame(at, 0)>> \in Seq(Frames) /\ ~Holds(<<Frame(at, 0)>>)
      BY <1>t, FrameTyped DEF Holds
    <3>2. /\ "connect" \in Labels \ LockedLabels /\ "disconnect" \in Labels \ LockedLabels
          /\ "switchOff" \in Labels \ LockedLabels
      BY DEF Labels, LockedLabels, LastLabels
    <3>3. <<>> \in Seq(Frames) /\ ~Holds(<<>>)
      BY DEF Holds
    <3>4. /\ <<Frame("disconnect", 0), Frame("quit", 0)>> \in Seq(Frames)
          /\ ~Holds(<<Frame("disconnect", 0), Frame("quit", 0)>>)
      BY <1>t, FrameTyped DEF Holds, Labels, LockedLabels, LastLabels
    <3> QED
      BY <3>1, <3>2, <3>3, <3>4, Zenon
  <2>3. lock' = lock /\ process' = process /\ w \in Threads
    BY <1>2 DEF Client, CallConnect, CallDisconnect, CallToggleKillSwitch, CallUnblockTraffic,
       CallStop, RunReconnect, systemVars, Threads
  <2> HIDE DEF given
  <2> QED
    BY <1>1, <2>1, <2>2, <2>3
<1>3. ASSUME NEW s \in Sessions, Write(s) \/ Exit(s) PROVE Exclusive'
  <2>1. stack' = stack /\ lock' = lock
    BY <1>3 DEF Write, Exit, threadVars
  <2>2. \A r \in Sessions : process'[r].status = "running" => process[r].status = "running"
    <3>1. CASE Write(s)
      <4>1. PICK kind : process' = [process EXCEPT ![s].stream = Append(@, kind), ![s].written = @ \cup {kind}]
        BY <3>1 DEF Write
      <4> QED
        BY <4>1, SMTT(20) DEF Exclusive, TypeOK, Processes
    <3>2. CASE Exit(s)
      BY <3>2 DEF Exit, Exclusive, TypeOK, Processes
    <3> QED
      BY <1>3, <3>1, <3>2
  <2> QED
    BY <2>1, <2>2 DEF Exclusive, Discipline, NoneRuns, OneProcess
<1>4. ASSUME NEW s \in Sessions, RaiseExited(s) PROVE Exclusive'
  <2>1. \E q \in {<<>>, <<Frame("exited", s)>>} : stack' = [stack EXCEPT ![ExitThread(s)] = q]
    BY <1>4 DEF RaiseExited
  <2>2. ExitThread(s) \in Threads /\ s \in 0..MaxSessions
    BY SessionThreads
  <2>3. \A q \in {<<>>, <<Frame("exited", s)>>} : q \in Seq(Frames) /\ ~Holds(q)
    <3>1. <<Frame("exited", s)>> \in Seq(Frames) /\ ~Holds(<<Frame("exited", s)>>)
      BY <2>2, FrameTyped DEF Holds, Labels, LockedLabels, LastLabels
    <3>2. <<>> \in Seq(Frames) /\ ~Holds(<<>>)
      BY DEF Holds
    <3> QED
      BY <3>1, <3>2, Zenon
  <2>4. PICK x : process' = [process EXCEPT ![s].raised = x]
    BY <1>4 DEF RaiseExited
  <2>5. lock' = lock /\ \A r \in Sessions : process'[r].status = process[r].status
    BY <1>4, <2>4 DEF RaiseExited, Exclusive, TypeOK, Processes
  <2> QED
    BY <1>1, <2>1, <2>2, <2>3, <2>5
<1> QED
  BY <1>2, <1>3, <1>4

\* The invariant holds of a service that starts.
LEMMA ExclusiveInit == Init => Exclusive
<1> SUFFICES ASSUME Init PROVE Exclusive
  OBVIOUS
<1>1. \A t \in Threads : stack[t] = <<>>
  BY DEF Init
<1>2. \A t \in Threads : Len(stack[t]) = 0
  BY <1>1
<1>3. \A s \in Sessions : process[s].status = "none"
  BY DEF Init, NewProcess
<1>4. Discipline(stack, lock)
  BY <1>2 DEF Discipline, Ordered, Holds
<1>5. \A t \in Threads : ~Prepared(stack[t])
  BY <1>2 DEF Prepared
<1> QED
  BY <1>3, <1>4, <1>5, TypeInit DEF Exclusive, OneProcess

\* Every step keeps the invariant.
LEMMA ExclusiveStep == Exclusive /\ [Next]_vars => Exclusive'
<1> SUFFICES ASSUME Exclusive, [Next]_vars PROVE Exclusive'
  OBVIOUS
<1>t. TypeOK /\ TypeOK'
  BY TypeStep DEF Exclusive
<1>1. CASE Service
  <2>1. ASSUME NEW t \in Threads, Run(t) PROVE Exclusive'
    BY <1>t, <2>1, TakeKeeps, LockedKeeps, UnlockedRun, UnlockedKeeps DEF Run
  <2>2. ASSUME NEW s \in Sessions, ReadLine(s) PROVE Exclusive'
    BY <1>t, <2>2, UnlockedReader, UnlockedKeeps, SessionThreads
  <2> QED
    BY <1>1, <1>t, <2>1, <2>2, OthersKeep DEF Service
<1>2. CASE Restart
  <2>1. stack' = [t \in Threads |-> <<>>]
    BY <1>2, Zenon DEF Restart
  <2>2. \A t \in Threads : Len(stack'[t]) = 0
    BY <2>1
  <2>3. Discipline(stack, lock)' /\ \A t \in Threads : ~Prepared(stack'[t])
    BY <2>2 DEF Discipline, Ordered, Holds, Prepared
  <2>4. process' = [s \in Sessions |-> IF process[s].status = "none" THEN process[s]
                                      ELSE [process[s] EXCEPT !.raised = "unheard", !.stream = <<>>]]
    BY <1>2, Zenon DEF Restart
  <2>5. \A s \in Sessions : process'[s].status = process[s].status
    <3>1. ASSUME NEW p \in Processes
          PROVE  [p EXCEPT !.raised = "unheard", !.stream = <<>>].status = p.status
      BY DEF Processes
    <3>2. \A s \in Sessions : process[s] \in Processes
      BY <1>t DEF TypeOK
    <3> QED
      BY <2>4, <3>1, <3>2
  <2> QED
    BY <1>t, <2>3, <2>5 DEF Exclusive, OneProcess
<1>3. CASE UNCHANGED vars
  BY <1>3, <1>t DEF vars, threadVars, systemVars, Exclusive, Discipline, NoneRuns, OneProcess
<1> QED
  BY <1>1, <1>2, <1>3 DEF Next

\* At most one OpenVPN process runs, however Connect, Disconnect, the readers, the exit
\* handlers and the restarts of the service interleave: whoever starts one has killed the
\* others under the lock it still holds (OpenVpn.Connect).
THEOREM OneProcessAtATime == Spec => []OneProcess
<1>1. Exclusive => OneProcess
  BY DEF Exclusive
<1> QED
  BY <1>1, ExclusiveInit, ExclusiveStep, PTL DEF Spec

-----------------------------------------------------------------------------
(* A dead session settles *)

Has(q, label) == \E i \in 1..Len(q) : q[i].at = label

\* Somebody will handle the exit of s.
Exits(q, s) == \E i \in 1..Len(q) : q[i] = Frame("exited", s)

ReadLast(q) == \A i \in 1..Len(q) : q[i].at = "read" => i = Len(q)

\* A thread that remembers that the stop was requested disconnects the session later on.
Followed(q) ==
  \A i \in 1..Len(q) : q[i].at = "stopRequested" =>
    \E j \in 1..Len(q) : i < j /\ q[j].at = "sessionDisconnect"

\* Connect, up to the start of the reader.
BeforeReader == {"clean", "prepare", "launch", "attach", "bind", "bindRest", "startReader"}

FramesOf(labels) == {x \in Frames : x.at \in labels}

\* CONNECTED has been read, and will not be read again.
ConnectedRead(s) ==
  /\ "CONNECTED" \in process[s].written
  /\ \A i \in 1..Len(process[s].stream) : process[s].stream[i] # "CONNECTED"

\* What is in a stream has been written, once.
LinesInv == \A s \in Sessions :
  \A i \in 1..Len(process[s].stream) :
    /\ process[s].stream[i] \in process[s].written
    /\ \A j \in 1..Len(process[s].stream) :
         process[s].stream[i] = process[s].stream[j] => i = j

Unstarted(s) == process[s].closed = "no" /\ stack[Reader(s)] = <<>>

Starting == \E t \in Threads : \E l \in BeforeReader : Has(stack[t], l)

\* A session's reader starts once and ends once, and so does its exit thread.
ReadersInv ==
  /\ Starting => session \in Sessions /\ Unstarted(session)
  /\ \A s \in Sessions :
       /\ s > session => Unstarted(s) /\ process[s].status = "none" /\ process[s].raised = "no"
       /\ process[s].closed # "no" => stack[Reader(s)] = <<>>
       /\ process[s].status = "none" => process[s].raised = "no"
       /\ process[s].raised = "no" => stack[ExitThread(s)] = <<>>
       /\ ReadLast(stack[Reader(s)])

\* A session whose stop was requested was connected, cannot connect again, and is
\* disconnected or about to be by whoever holds the lock.
StopInv ==
  /\ \A s \in Sessions :
       /\ s > session => ~sess[s].stopWasRequested
       /\ sess[s].stopWasRequested \/ sess[s].state = "Connected" => ConnectedRead(s)
       /\ sess[s].stopWasRequested /\ sess[s].state # "Disconnected" =>
            s = session /\ lock \in Threads /\ Has(stack[lock], "sessionDisconnect")
  /\ \A t \in Threads :
       /\ Followed(stack[t])
       /\ Has(stack[t], "stopRequested") /\ session \in Sessions => ConnectedRead(session)

\* An exit that was heard of is handled once the reader has ended, unless somebody who stops
\* the session makes sure of it.
ExitInv == \A s \in Sessions :
  process[s].raised = "heard" /\ ~sess[s].stopWasRequested =>
    \/ \E t \in Threads : Exits(stack[t], s)
    \/ sess[s].state = "Disconnected" /\ process[s].closed = "yes"

\* What a push does to the frames of a stack.
LEMMA PushedFrames ==
  ASSUME NEW st \in [Threads -> Seq(Frames)], NEW t \in Threads, st[t] # <<>>, NEW f \in Seq(Frames)
  PROVE  /\ \A u \in Threads : u # t => Pushed(st, t, f)[u] = st[u]
         /\ \A l : Has(Pushed(st, t, f)[t], l) => Has(f, l) \/ Has(st[t], l)
         /\ \A l : Has(f, l) => Has(Pushed(st, t, f)[t], l)
         /\ \A l : Has(st[t], l) /\ Head(st[t]).at # l => Has(Pushed(st, t, f)[t], l)
         /\ \A s : Exits(f, s) => Exits(Pushed(st, t, f)[t], s)
         /\ \A s : Exits(st[t], s) /\ Head(st[t]) # Frame("exited", s) => Exits(Pushed(st, t, f)[t], s)
         /\ Followed(st[t]) /\ Followed(f) => Followed(Pushed(st, t, f)[t])
         /\ ReadLast(st[t]) /\ ~Has(f, "read") => ReadLast(Pushed(st, t, f)[t])
         /\ ReadLast(st[t]) /\ Head(st[t]).at = "read" => Pushed(st, t, f)[t] = f
<1> DEFINE new == Pushed(st, t, f)
<1> PICK q : q = st[t]
  OBVIOUS
<1>q. q \in Seq(Frames) /\ q # <<>> /\ Len(q) \in Nat /\ Len(f) \in Nat
  OBVIOUS
<1>1. /\ \A u \in Threads : u # t => new[u] = st[u]
      /\ Len(new[t]) = Len(f) + Len(q) - 1
      /\ \A i \in 1..Len(new[t]) :
           \/ i \in 1..Len(f) /\ new[t][i] = f[i]
           \/ i > Len(f) /\ i - Len(f) + 1 \in 2..Len(q) /\ new[t][i] = q[i - Len(f) + 1]
  BY AfterPush
<1>2. Head(q) = q[1] /\ 1 \in 1..Len(q) /\ Len(q) >= 1
  BY <1>q, Innermost
<1> PICK p : p = new[t]
  OBVIOUS
<1>3. /\ Len(p) = Len(f) + Len(q) - 1
      /\ \A i \in 1..Len(p) :
           \/ i \in 1..Len(f) /\ p[i] = f[i]
           \/ i > Len(f) /\ i - Len(f) + 1 \in 2..Len(q) /\ p[i] = q[i - Len(f) + 1]
  BY <1>1
<1>4. \A i \in 1..Len(f) : i \in 1..Len(p) /\ p[i] = f[i]
  BY <1>q, <1>2, <1>3
<1>5. ASSUME NEW i \in 2..Len(q)
      PROVE  i + Len(f) - 1 \in 1..Len(p) /\ p[i + Len(f) - 1] = q[i]
  <2>1. ASSUME NEW m \in Nat, NEW n \in Nat, n >= 1, NEW k \in 2..n
        PROVE  /\ k + m - 1 \in 1..(m + n - 1)
               /\ k + m - 1 > m
               /\ (k + m - 1) - m + 1 = k
    OBVIOUS
  <2> PICK j : j = i + Len(f) - 1
    OBVIOUS
  <2>2. j \in 1..Len(p) /\ j > Len(f) /\ j - Len(f) + 1 = i
    BY <1>q, <1>2, <1>3, <2>1
  <2> QED
    BY <1>3, <2>2
<1> HIDE DEF new
<1>6. ASSUME NEW l, Has(p, l), ~Has(f, l) PROVE Has(q, l)
  <2> PICK i \in 1..Len(p) : p[i].at = l
    BY <1>6 DEF Has
  <2>1. ~(i \in 1..Len(f) /\ p[i] = f[i])
    BY <1>6 DEF Has
  <2>2. i - Len(f) + 1 \in 2..Len(q) /\ p[i] = q[i - Len(f) + 1]
    BY <1>3, <2>1
  <2> PICK j \in 2..Len(q) : p[i] = q[j]
    BY <2>2
  <2>3. j \in 1..Len(q) /\ q[j].at = l
    BY <1>q
  <2> QED
    BY <2>3 DEF Has
<1>7. \A l : Has(f, l) => Has(p, l)
  BY <1>4 DEF Has
<1>8. ASSUME NEW l, Has(q, l), Head(q).at # l PROVE Has(p, l)
  <2> PICK i \in 1..Len(q) : q[i].at = l
    BY <1>8 DEF Has
  <2>1. i \in 2..Len(q)
    BY <1>2, <1>8
  <2> QED
    BY <1>5, <2>1 DEF Has
<1>9. \A s : Exits(f, s) => Exits(p, s)
  BY <1>4 DEF Exits
<1>10. ASSUME NEW s, Exits(q, s), Head(q) # Frame("exited", s) PROVE Exits(p, s)
  <2> PICK i \in 1..Len(q) : q[i] = Frame("exited", s)
    BY <1>10 DEF Exits
  <2>1. i \in 2..Len(q)
    BY <1>2, <1>10
  <2> QED
    BY <1>5, <2>1 DEF Exits
<1>11. ASSUME Followed(q), Followed(f) PROVE Followed(p)
  <2> SUFFICES ASSUME NEW i \in 1..Len(p), p[i].at = "stopRequested"
               PROVE  \E j \in 1..Len(p) : i < j /\ p[j].at = "sessionDisconnect"
    BY DEF Followed
  <2>1. CASE i \in 1..Len(f) /\ p[i] = f[i]
    <3>1. PICK j \in 1..Len(f) : i < j /\ f[j].at = "sessionDisconnect"
      BY <1>11, <2>1 DEF Followed
    <3> QED
      BY <1>4, <3>1
  <2>2. CASE i > Len(f) /\ i - Len(f) + 1 \in 2..Len(q) /\ p[i] = q[i - Len(f) + 1]
    <3>1. PICK j \in 1..Len(q) : i - Len(f) + 1 < j /\ q[j].at = "sessionDisconnect"
      BY <1>11, <1>2, <2>2 DEF Followed
    <3>2. j \in 2..Len(q) /\ i < j + Len(f) - 1
      BY <1>q, <2>2, <3>1
    <3> QED
      BY <1>5, <3>1, <3>2
  <2> QED
    BY <1>3, <2>1, <2>2
<1>12. ASSUME ReadLast(q), ~Has(f, "read") PROVE ReadLast(p)
  <2> SUFFICES ASSUME NEW i \in 1..Len(p), p[i].at = "read" PROVE i = Len(p)
    BY DEF ReadLast
  <2>1. ~(i \in 1..Len(f) /\ p[i] = f[i])
    BY <1>12 DEF Has
  <2>2. i - Len(f) + 1 = Len(q)
    BY <1>2, <1>3, <1>12, <2>1 DEF ReadLast
  <2> QED
    BY <1>q, <1>3, <2>2
<1>13. ASSUME ReadLast(q), Head(q).at = "read" PROVE p = f
  <2>1. Len(q) = 1
    BY <1>2, <1>13 DEF ReadLast
  <2>2. Tail(q) = <<>>
    <3>1. Tail(q) \in Seq(Frames) /\ Len(Tail(q)) = 0
      BY <1>q, <2>1, HeadTailProperties
    <3> QED
      BY <3>1, EmptySeq
  <2>3. f \o <<>> = f
    BY ConcatEmptySeq
  <2> QED
    BY <2>2, <2>3, <1>1 DEF new, Pushed
<1> QED
  BY <1>1, <1>6, <1>7, <1>8, <1>9, <1>10, <1>11, <1>12, <1>13 DEF new

\* The labels of some frames.
LEMMA LabelsOf ==
  ASSUME NEW labels, NEW f \in Seq(FramesOf(labels))
  PROVE  f \in Seq(Frames) /\ \A l : Has(f, l) => l \in labels
<1>1. \A i \in 1..Len(f) : f[i] \in FramesOf(labels)
  OBVIOUS
<1>2. FramesOf(labels) \subseteq Frames
  BY DEF FramesOf
<1> QED
  BY <1>1, <1>2, SeqMonotonic DEF Has, FramesOf

\* A thread whose stack is empty keeps it so while another one works.
LEMMA IdleStays ==
  ASSUME TypeOK, NEW t \in Threads, stack[t] # <<>>, NEW f \in Seq(Frames),
         stack' = Pushed(stack, t, f)
  PROVE  \A u \in Threads : stack[u] = <<>> => stack'[u] = <<>>
BY DEF TypeOK, Pushed

\* What a push does to the frames of the thread's stack.
LEMMA Stepped ==
  ASSUME TypeOK, NEW t \in Threads, stack[t] # <<>>, NEW f \in Seq(Frames),
         stack' = Pushed(stack, t, f)
  PROVE  /\ \A u \in Threads : u # t => stack'[u] = stack[u]
         /\ \A l : Has(stack'[t], l) => Has(f, l) \/ Has(stack[t], l)
         /\ \A l : Has(f, l) => Has(stack'[t], l)
         /\ \A l : Has(stack[t], l) /\ Head(stack[t]).at # l => Has(stack'[t], l)
         /\ \A s : Exits(f, s) => Exits(stack'[t], s)
         /\ \A s : Exits(stack[t], s) /\ Head(stack[t]) # Frame("exited", s) => Exits(stack'[t], s)
         /\ Followed(stack[t]) /\ Followed(f) => Followed(stack'[t])
         /\ ReadLast(stack[t]) /\ ~Has(f, "read") => ReadLast(stack'[t])
         /\ ReadLast(stack[t]) /\ Head(stack[t]).at = "read" => stack'[t] = f
<1>1. stack \in [Threads -> Seq(Frames)]
  BY DEF TypeOK
<1> DEFINE new == Pushed(stack, t, f)
<1>2. /\ \A u \in Threads : u # t => new[u] = stack[u]
      /\ \A l : Has(new[t], l) => Has(f, l) \/ Has(stack[t], l)
      /\ \A l : Has(f, l) => Has(new[t], l)
      /\ \A l : Has(stack[t], l) /\ Head(stack[t]).at # l => Has(new[t], l)
      /\ \A s : Exits(f, s) => Exits(new[t], s)
      /\ \A s : Exits(stack[t], s) /\ Head(stack[t]) # Frame("exited", s) => Exits(new[t], s)
      /\ Followed(stack[t]) /\ Followed(f) => Followed(new[t])
      /\ ReadLast(stack[t]) /\ ~Has(f, "read") => ReadLast(new[t])
      /\ ReadLast(stack[t]) /\ Head(stack[t]).at = "read" => new[t] = f
  BY <1>1, PushedFrames
<1>3. stack' = new
  OBVIOUS
<1> HIDE DEF new
<1> QED
  BY <1>2, <1>3

\* A push of no frame of a new connect leaves the readers alone, if only a reader goes on reading.
LEMMA ReadersKept ==
  ASSUME TypeOK, ReadersInv, NEW t \in Threads, stack[t] # <<>>, NEW f \in Seq(Frames),
         stack' = Pushed(stack, t, f), session' = session,
         \A l \in BeforeReader : Has(f, l) => Head(stack[t]).at \in BeforeReader,
         ~Has(f, "read") \/ (Head(stack[t]).at = "read" /\ ReadLast(f)),
         \A s \in Sessions :
           /\ process'[s].closed = process[s].closed
           /\ process'[s].raised = "no" => process[s].raised = "no"
           /\ process'[s].status = "none" =>
                process[s].status = "none" /\ process'[s].raised = process[s].raised
           /\ s > session => /\ process'[s].status = process[s].status
                             /\ process'[s].raised = process[s].raised
  PROVE  ReadersInv'
<1>1. \A u \in Threads : stack[u] = <<>> => stack'[u] = <<>>
  BY IdleStays
<1>2. /\ \A u \in Threads : u # t => stack'[u] = stack[u]
      /\ \A l : Has(stack'[t], l) => Has(f, l) \/ Has(stack[t], l)
      /\ ReadLast(stack[t]) => ReadLast(stack'[t])
  BY Zenon, Stepped
<1>3. Has(stack[t], Head(stack[t]).at)
  BY Innermost DEF Has, TypeOK
<1>4. Starting' => Starting
  BY <1>2, <1>3 DEF Starting
<1>5. ASSUME NEW s \in Sessions
      PROVE  /\ s > session => Unstarted(s)' /\ process'[s].status = "none" /\ process'[s].raised = "no"
             /\ Unstarted(s) => Unstarted(s)'
             /\ process'[s].closed # "no" => stack'[Reader(s)] = <<>>
             /\ process'[s].status = "none" => process'[s].raised = "no"
             /\ process'[s].raised = "no" => stack'[ExitThread(s)] = <<>>
             /\ ReadLast(stack'[Reader(s)])
  <2>1. Reader(s) \in Threads /\ ExitThread(s) \in Threads
    BY SessionThreads
  <2> QED
    BY <1>1, <1>2, <2>1 DEF ReadersInv, Unstarted
<1>6. Starting' => session' \in Sessions /\ Unstarted(session)'
  <2> SUFFICES ASSUME Starting' PROVE session \in Sessions /\ Unstarted(session)'
    OBVIOUS
  <2>1. session \in Sessions /\ Unstarted(session)
    BY <1>4 DEF ReadersInv
  <2> PICK s \in Sessions : s = session
    BY <2>1
  <2>2. Unstarted(s)'
    BY <1>5, <2>1
  <2> QED
    BY <2>1, <2>2 DEF Unstarted
<1> QED
  BY <1>5, <1>6 DEF ReadersInv

\* A push of no frame of a stop leaves the stops alone, if no session connects again.
LEMMA StopKept ==
  ASSUME TypeOK, StopInv, NEW t \in Threads, stack[t] # <<>>, NEW f \in Seq(Frames),
         stack' = Pushed(stack, t, f), session' = session,
         ~Has(f, "stopRequested"),
         Head(stack[t]).at # "sessionDisconnect",
         lock' = lock \/ lock = NoThread,
         \A s \in Sessions :
           /\ sess'[s].stopWasRequested = sess[s].stopWasRequested
           /\ sess[s].state = "Disconnected" /\ sess'[s].state # "Disconnected" =>
                ~sess[s].stopWasRequested
           /\ sess'[s].state = "Connected" => sess[s].state = "Connected" \/ ConnectedRead(s)'
           /\ ConnectedRead(s) => ConnectedRead(s)'
  PROVE  StopInv'
<1>1. /\ \A u \in Threads : u # t => stack'[u] = stack[u]
      /\ \A l : Has(stack'[t], l) => Has(f, l) \/ Has(stack[t], l)
      /\ \A l : Has(stack[t], l) /\ Head(stack[t]).at # l => Has(stack'[t], l)
      /\ Followed(stack[t]) /\ Followed(f) => Followed(stack'[t])
  BY Stepped
<1>2. Followed(f)
  BY DEF Followed, Has
<1>3. ASSUME NEW u \in Threads
      PROVE  /\ Followed(stack'[u])
             /\ Has(stack'[u], "stopRequested") => Has(stack[u], "stopRequested")
             /\ Has(stack[u], "sessionDisconnect") => Has(stack'[u], "sessionDisconnect")
  BY <1>1, <1>2 DEF StopInv
<1>4. ASSUME NEW s \in Sessions
      PROVE  /\ s > session' => ~sess'[s].stopWasRequested
             /\ sess'[s].stopWasRequested \/ sess'[s].state = "Connected" => ConnectedRead(s)'
  BY DEF StopInv
<1>5. ASSUME NEW s \in Sessions, sess'[s].stopWasRequested, sess'[s].state # "Disconnected"
      PROVE  s = session' /\ lock' \in Threads /\ Has(stack'[lock'], "sessionDisconnect")
  <2>1. s = session /\ lock \in Threads /\ Has(stack[lock], "sessionDisconnect")
    BY <1>5 DEF StopInv
  <2>2. lock' = lock
    BY <2>1, ThreadsAssumption
  <2> QED
    BY <1>3, <2>1, <2>2
<1>6. ASSUME NEW u \in Threads, Has(stack'[u], "stopRequested"), session' \in Sessions
      PROVE  ConnectedRead(session)'
  <2>1. session \in Sessions /\ ConnectedRead(session)
    BY <1>3, <1>6 DEF StopInv
  <2> PICK s \in Sessions : s = session
    BY <1>6
  <2>2. ConnectedRead(s)'
    BY <2>1
  <2> QED
    BY <2>2 DEF ConnectedRead
<1> QED
  BY <1>3, <1>4, <1>5, <1>6 DEF StopInv

\* A push in place of any frame but one that handles an exit leaves the exits alone.
LEMMA ExitKept ==
  ASSUME TypeOK, ExitInv, NEW t \in Threads, stack[t] # <<>>, NEW f \in Seq(Frames),
         stack' = Pushed(stack, t, f),
         Head(stack[t]).at # "exited",
         \A s \in Sessions :
           /\ process'[s].raised = "heard" => process[s].raised = "heard"
           /\ sess[s].stopWasRequested => sess'[s].stopWasRequested
           /\ process[s].closed = "yes" => process'[s].closed = "yes"
           /\ process[s].closed = "yes" /\ sess[s].state = "Disconnected" =>
                sess'[s].state = "Disconnected"
  PROVE  ExitInv'
<1>0. \A s : Head(stack[t]) # Frame("exited", s)
  BY DEF Frame
<1>1. /\ \A u \in Threads : u # t => stack'[u] = stack[u]
      /\ \A s : Exits(stack[t], s) => Exits(stack'[t], s)
  BY <1>0, Stepped
<1>2. \A u \in Threads, s \in Sessions : Exits(stack[u], s) => Exits(stack'[u], s)
  BY <1>1
<1> QED
  BY <1>2 DEF ExitInv

\* Streams that stay what they are.
LEMMA LinesKept ==
  ASSUME LinesInv,
         \A s \in Sessions : /\ process'[s].stream = process[s].stream
                             /\ process'[s].written = process[s].written
  PROVE  LinesInv' /\ \A s \in Sessions : ConnectedRead(s) => ConnectedRead(s)'
BY DEF LinesInv, ConnectedRead

\* A push that may be part of a stop.
LEMMA StopKeptWith ==
  ASSUME TypeOK, StopInv, NEW t \in Threads, stack[t] # <<>>, NEW f \in Seq(Frames),
         stack' = Pushed(stack, t, f),
         session' = session \/ \A u \in Threads : ~Has(stack'[u], "stopRequested"),
         Followed(f),
         Has(f, "stopRequested") /\ session \in Sessions => ConnectedRead(session),
         \A s \in Sessions :
           /\ ConnectedRead(s) => ConnectedRead(s)'
           /\ s > session' => ~sess'[s].stopWasRequested
           /\ sess'[s].stopWasRequested => sess[s].stopWasRequested \/ ConnectedRead(s)
           /\ sess'[s].state = "Connected" => sess[s].state = "Connected"
           /\ sess'[s].stopWasRequested /\ sess'[s].state # "Disconnected" =>
                s = session' /\ lock' \in Threads /\ Has(stack'[lock'], "sessionDisconnect")
  PROVE  StopInv'
<1>1. /\ \A u \in Threads : u # t => stack'[u] = stack[u]
      /\ \A l : Has(stack'[t], l) => Has(f, l) \/ Has(stack[t], l)
      /\ Followed(stack[t]) /\ Followed(f) => Followed(stack'[t])
  BY Stepped
<1>2. ASSUME NEW u \in Threads
      PROVE  /\ Followed(stack'[u])
             /\ Has(stack'[u], "stopRequested") => Has(stack[u], "stopRequested") \/ Has(f, "stopRequested")
  BY <1>1 DEF StopInv
<1>3. ASSUME NEW s \in Sessions
      PROVE  sess'[s].stopWasRequested \/ sess'[s].state = "Connected" => ConnectedRead(s)'
  BY DEF StopInv
<1>4. ASSUME NEW u \in Threads, Has(stack'[u], "stopRequested"), session' \in Sessions
      PROVE  ConnectedRead(session)'
  <2>1. session' = session /\ session \in Sessions /\ ConnectedRead(session)
    BY <1>2, <1>4 DEF StopInv
  <2> PICK s \in Sessions : s = session
    BY <2>1
  <2>2. ConnectedRead(s)'
    BY <2>1
  <2> QED
    BY <2>1, <2>2 DEF ConnectedRead
<1> QED
  BY <1>2, <1>3, <1>4 DEF StopInv

\* The invariant: how lines, readers, stops and exits go together.
Settling == LinesInv /\ ReadersInv /\ StopInv /\ ExitInv

\* Connect goes on with the frames f of its catch block.
Fails(t, f) ==
  /\ Head(stack[t]).at \in BeforeReader
  /\ f = <<Frame("stop", 0), Frame("sessionDisconnect", 0), Frame("failed", 0), Frame("unlock", 0)>>

\* What most steps of a thread do: they push frames that are no part of a stop or an exit, and
\* change no session's state.
Steady(t) ==
  /\ stack[t] # <<>>
  /\ Head(stack[t]).at \notin {"sessionDisconnect", "exited"}
  /\ \E labels : \E f \in Seq(FramesOf(labels)) :
       /\ stack' = Pushed(stack, t, f)
       /\ {"read", "stopRequested", "disconnect", "errorReply"} \cap labels = {}
       /\ labels \cap BeforeReader = {} \/ Head(stack[t]).at \in BeforeReader
       /\ {"sessionDisconnect", "failed"} \cap labels = {} \/ Fails(t, f)
  /\ session' = session
  /\ lock' = lock \/ lock = NoThread
  /\ sess'[0].state = sess[0].state
  /\ \A s \in Sessions :
       /\ sess'[s].stopWasRequested = sess[s].stopWasRequested
       /\ sess'[s].state = sess[s].state
       /\ process'[s].closed = process[s].closed
       /\ process'[s].raised = process[s].raised
       /\ process'[s].stream = process[s].stream
       /\ process'[s].written = process[s].written
       /\ process'[s].status = "none" => process[s].status = "none"
       /\ s > session => process'[s].status = process[s].status

\* They keep the invariant.
LEMMA SteadyKeeps ==
  ASSUME TypeOK, Settling, NEW t \in Threads, Steady(t)
  PROVE  Settling'
<1>0. PICK labels : \E f \in Seq(FramesOf(labels)) :
      /\ stack' = Pushed(stack, t, f)
      /\ {"read", "stopRequested", "disconnect", "errorReply"} \cap labels = {}
      /\ labels \cap BeforeReader = {} \/ Head(stack[t]).at \in BeforeReader
  BY Zenon DEF Steady
<1> PICK f \in Seq(FramesOf(labels)) :
      /\ stack' = Pushed(stack, t, f)
      /\ {"read", "stopRequested", "disconnect", "errorReply"} \cap labels = {}
      /\ labels \cap BeforeReader = {} \/ Head(stack[t]).at \in BeforeReader
  BY <1>0
<1>1. f \in Seq(Frames) /\ \A l : Has(f, l) => l \in labels
  BY LabelsOf
<1>2. LinesInv' /\ \A s \in Sessions : ConnectedRead(s) => ConnectedRead(s)'
  BY LinesKept DEF Settling, Steady
<1>3. ReadersInv'
  BY <1>1, ReadersKept DEF Settling, Steady
<1>4. StopInv'
  BY <1>1, <1>2, StopKept DEF Settling, Steady
<1>5. ExitInv'
  BY <1>1, ExitKept DEF Settling, Steady
<1> QED
  BY <1>2, <1>3, <1>4, <1>5 DEF Settling

\* Some frames have some labels.
LEMMA FewFrames ==
  ASSUME NEW labels, labels \subseteq Labels
  PROVE  /\ <<>> \in Seq(FramesOf(labels))
         /\ \A a \in labels, s \in 0..MaxSessions : <<Frame(a, s)>> \in Seq(FramesOf(labels))
         /\ \A a \in labels, b \in labels, r \in 0..MaxSessions, s \in 0..MaxSessions :
              <<Frame(a, r), Frame(b, s)>> \in Seq(FramesOf(labels))
         /\ \A a \in labels, s \in 0..MaxSessions, f \in Seq(FramesOf(labels)) :
              <<Frame(a, s)>> \o f \in Seq(FramesOf(labels))
<1>1. \A a \in labels, s \in 0..MaxSessions : Frame(a, s) \in FramesOf(labels)
  BY FrameTyped DEF FramesOf
<1>2. \A a \in labels, s \in 0..MaxSessions : <<Frame(a, s)>> \in Seq(FramesOf(labels))
  BY <1>1
<1> QED
  BY <1>1, <1>2, ConcatProperties

\* Most steps of a method are of this kind.
LEMMA SteadyRun ==
  ASSUME TypeOK, ReadersInv, NEW t \in Threads,
         \/ ConnectWhenBusy(t) \/ ConnectWithoutNetwork(t) \/ Clean(t) \/ Prepare(t) \/ Launch(t)
         \/ Attach(t) \/ Bind(t) \/ BindRest(t) \/ Failed(t) \/ DisconnectWhenIdle(t)
         \/ StopOpenVpn(t) \/ Stopped(t) \/ Changed(t) \/ Invoke(t) \/ Enable(t) \/ Unblock(t)
         \/ Forget(t) \/ After(t) \/ SwitchOffUnblocks(t) \/ StoreSetting(t)
  PROVE  Steady(t)
<1> USE DEF At
<1>s. 0 \in 0..MaxSessions /\ openVpnExe \in 0..MaxSessions /\ session \in 0..MaxSessions
  BY BoundsAssumption DEF TypeOK
<1> DEFINE Rare == {"read", "stopRequested", "disconnect", "errorReply"}
<1> DEFINE Any == Labels \ (Rare \cup {"sessionDisconnect", "failed"})
<1> DEFINE Harmless == Any \ BeforeReader
<1> DEFINE Catch == {"stop", "sessionDisconnect", "failed", "unlock"}
<1> DEFINE Pushes == \E labels : \E f \in Seq(FramesOf(labels)) :
                       /\ stack' = Pushed(stack, t, f)
                       /\ {"read", "stopRequested", "disconnect", "errorReply"} \cap labels = {}
                       /\ labels \cap BeforeReader = {} \/ Head(stack[t]).at \in BeforeReader
                       /\ {"sessionDisconnect", "failed"} \cap labels = {} \/ Fails(t, f)
<1>l. /\ {"invoke", "enable", "unblock", "forget", "storeOff", "after", "stop", "waitExit",
          "unlock"} \subseteq Harmless
      /\ BeforeReader \subseteq Any /\ Harmless \subseteq Any /\ Any \subseteq Labels
      /\ Rare \cap Any = {} /\ Harmless \cap BeforeReader = {} /\ Rare \cap Harmless = {}
      /\ {"sessionDisconnect", "failed"} \cap Any = {}
      /\ {"sessionDisconnect", "failed"} \cap Harmless = {}
      /\ Catch \subseteq Labels /\ Rare \cap Catch = {} /\ Catch \cap BeforeReader = {}
  BY DEF Labels, BeforeReader
<1>1. ASSUME NEW f \in Seq(FramesOf(Harmless)), Continue(t, f) PROVE Pushes
  BY <1>1, <1>l DEF Continue, Pushed
<1>2. ASSUME NEW f \in Seq(FramesOf(Any)), Head(stack[t]).at \in BeforeReader, Continue(t, f) PROVE Pushes
  BY <1>2, <1>l DEF Continue, Pushed
<1>c. ASSUME NEW f \in Seq(FramesOf(Catch)), Fails(t, f), Continue(t, f) PROVE Pushes
  BY <1>c, <1>l DEF Continue, Pushed
<1> HIDE DEF Pushes, Any, Harmless, Catch
<1>3. /\ <<>> \in Seq(FramesOf(Harmless))
      /\ <<Frame("enable", 0)>> \in Seq(FramesOf(Harmless)) /\ <<Frame("forget", 0)>> \in Seq(FramesOf(Harmless))
      /\ <<Frame("unblock", 0)>> \in Seq(FramesOf(Harmless)) /\ <<Frame("storeOff", 0)>> \in Seq(FramesOf(Harmless))
      /\ <<Frame("stop", 0)>> \in Seq(FramesOf(Harmless))
      /\ <<Frame("waitExit", openVpnExe)>> \in Seq(FramesOf(Harmless))
      /\ <<Frame("invoke", 0), Frame("after", 0)>> \in Seq(FramesOf(Harmless))
      /\ <<Frame("invoke", 0)>> \o <<>> \in Seq(FramesOf(Harmless))
      /\ <<Frame("invoke", 0)>> \o <<Frame("unlock", 0)>> \in Seq(FramesOf(Harmless))
  <2>1. Harmless \subseteq Labels
    BY <1>l
  <2>2. /\ <<>> \in Seq(FramesOf(Harmless)) /\ <<Frame("unlock", 0)>> \in Seq(FramesOf(Harmless))
        /\ <<Frame("enable", 0)>> \in Seq(FramesOf(Harmless)) /\ <<Frame("forget", 0)>> \in Seq(FramesOf(Harmless))
        /\ <<Frame("unblock", 0)>> \in Seq(FramesOf(Harmless)) /\ <<Frame("storeOff", 0)>> \in Seq(FramesOf(Harmless))
        /\ <<Frame("stop", 0)>> \in Seq(FramesOf(Harmless))
        /\ <<Frame("waitExit", openVpnExe)>> \in Seq(FramesOf(Harmless))
        /\ <<Frame("invoke", 0), Frame("after", 0)>> \in Seq(FramesOf(Harmless))
    BY <1>l, <1>s, <2>1, FewFrames
  <2> QED
    BY <1>l, <1>s, <2>1, <2>2, FewFrames
<1>4. ASSUME NEW error, Head(stack[t]).at \in BeforeReader, Fail(t, error) PROVE Pushes
  <2>1. \A a \in Catch, s \in 0..MaxSessions : Frame(a, s) \in FramesOf(Catch)
    BY <1>l, FrameTyped DEF FramesOf
  <2>2. <<Frame("stop", 0), Frame("sessionDisconnect", 0), Frame("failed", 0), Frame("unlock", 0)>>
          \in Seq(FramesOf(Catch))
    BY <1>s, <2>1 DEF Catch
  <2> QED
    BY <1>c, <1>4, <2>2 DEF Fail, Fails
<1>5. \A a \in BeforeReader : <<Frame(a, 0)>> \in Seq(FramesOf(Any))
  BY <1>l, <1>s, FewFrames
<1>b. /\ {"prepare", "launch", "attach", "bind", "bindRest", "startReader"} \subseteq BeforeReader
      /\ Prepare(t) \/ Launch(t) \/ Attach(t) \/ Bind(t) => Head(stack[t]).at \in BeforeReader
  BY DEF Prepare, Launch, Attach, Bind, BeforeReader
<1>6. ASSUME UNCHANGED process
      PROVE  \A s \in Sessions : /\ process'[s].closed = process[s].closed
                                 /\ process'[s].raised = process[s].raised
                                 /\ process'[s].stream = process[s].stream
                                 /\ process'[s].written = process[s].written
                                 /\ process'[s].status = "none" => process[s].status = "none"
                                 /\ s > session => process'[s].status = process[s].status
  BY <1>6
<1>7. ASSUME NEW x, sess' = [sess EXCEPT ![session].bound = x]
      PROVE  /\ sess'[0].state = sess[0].state
             /\ \A s \in Sessions : /\ sess'[s].stopWasRequested = sess[s].stopWasRequested
                                    /\ sess'[s].state = sess[s].state
  BY <1>s, <1>7 DEF TypeOK, SessionRecords, Sessions
<1>8. ASSUME Pushes, stack[t] # <<>>, Head(stack[t]).at \notin {"sessionDisconnect", "exited"},
             session' = session, lock' = lock \/ lock = NoThread, UNCHANGED process,
             sess'[0].state = sess[0].state,
             \A s \in Sessions : /\ sess'[s].stopWasRequested = sess[s].stopWasRequested
                                /\ sess'[s].state = sess[s].state
      PROVE  Steady(t)
  BY <1>6, <1>8, Zenon DEF Steady, Pushes
<1>9. CASE ConnectWhenBusy(t)
  BY <1>9, <1>1, <1>3, <1>8 DEF ConnectWhenBusy, sessionVars, systemVars
<1>10. CASE ConnectWithoutNetwork(t)
  BY <1>10, <1>1, <1>3, <1>8 DEF ConnectWithoutNetwork, NotifyError, sessionVars, systemVars
<1>11. CASE Clean(t)
  <2>1. process' = [s \in Sessions |-> [process[s] EXCEPT
                      !.status = IF @ = "running" THEN "exited" ELSE @]]
    BY <1>11, Zenon DEF Clean
  <2>2. ASSUME NEW p \in Processes, NEW q, q = [p EXCEPT !.status = IF @ = "running" THEN "exited" ELSE @]
        PROVE  /\ q.closed = p.closed /\ q.raised = p.raised /\ q.stream = p.stream
               /\ q.written = p.written
               /\ p.status = "none" => q.status = "none"
               /\ q.status = "none" => p.status = "none"
    BY <2>2 DEF Processes
  <2>3. ASSUME NEW s \in Sessions
        PROVE  /\ process'[s].closed = process[s].closed
               /\ process'[s].raised = process[s].raised
               /\ process'[s].stream = process[s].stream
               /\ process'[s].written = process[s].written
               /\ process'[s].status = "none" => process[s].status = "none"
               /\ s > session => process'[s].status = process[s].status
    <3>1. process[s] \in Processes /\ (s > session => process[s].status = "none")
      BY DEF TypeOK, ReadersInv
    <3>2. process'[s] = [process[s] EXCEPT !.status = IF @ = "running" THEN "exited" ELSE @]
      BY <2>1
    <3> QED
      BY <2>2, <3>1, <3>2
  <2>4. Pushes
    BY <1>11, <1>2, <1>5 DEF Clean, BeforeReader
  <2>5. session' = session /\ lock' = lock /\ sess' = sess
    BY <1>11, Zenon DEF Clean, sessionVars
  <2> QED
    BY <1>11, <2>3, <2>4, <2>5 DEF Clean, Steady, Pushes
<1>13. CASE Launch(t)
  <2>1. process' = [process EXCEPT ![session].status = "running"] \/ process' = process
    BY <1>13 DEF Launch
  <2>2. ASSUME NEW p \in Processes, NEW q, q = [p EXCEPT !.status = "running"]
        PROVE  /\ q.closed = p.closed /\ q.raised = p.raised /\ q.stream = p.stream
               /\ q.written = p.written /\ q.status = "running"
    BY <2>2 DEF Processes
  <2>3. ASSUME NEW s \in Sessions
        PROVE  /\ process'[s].closed = process[s].closed
               /\ process'[s].raised = process[s].raised
               /\ process'[s].stream = process[s].stream
               /\ process'[s].written = process[s].written
               /\ process'[s].status = "none" => process[s].status = "none"
               /\ s > session => process'[s].status = process[s].status
    <3>1. process[s] \in Processes /\ process \in [Sessions -> Processes]
      BY DEF TypeOK
    <3>2. CASE s = session
      BY <2>1, <2>2, <3>1, <3>2, <1>s
    <3>3. CASE s # session
      BY <2>1, <3>1, <3>3
    <3> QED
      BY <3>2, <3>3
  <2>4. Pushes
    BY <1>13, <1>2, <1>4, <1>5, <1>b DEF Launch
  <2>5. session' = session /\ lock' = lock /\ sess' = sess
    BY <1>13, Zenon DEF Launch, sessionVars
  <2> QED
    BY <1>13, <2>3, <2>4, <2>5 DEF Launch, Steady, Pushes
<1>12. CASE Prepare(t)
  BY <1>12, <1>2, <1>4, <1>5, <1>8, <1>b DEF Prepare, sessionVars, systemVars
<1>14. CASE Attach(t)
  BY <1>14, <1>2, <1>4, <1>5, <1>7, <1>8, <1>b DEF Attach, systemVars
<1>15. CASE Bind(t)
  BY <1>15, <1>2, <1>4, <1>5, <1>7, <1>8, <1>b DEF Bind, systemVars
<1>16. CASE BindRest(t)
  BY <1>16, <1>2, <1>5, <1>7, <1>8 DEF BindRest, BeforeReader, systemVars
<1>17. CASE Failed(t)
  BY <1>17, <1>1, <1>3, <1>8 DEF Failed, NotifyError, sessionVars, systemVars
<1>18. CASE DisconnectWhenIdle(t)
  BY <1>18, <1>1, <1>3, <1>8 DEF DisconnectWhenIdle, sessionVars, systemVars
<1>19. CASE StopOpenVpn(t)
  BY <1>19, <1>1, <1>3, <1>8 DEF StopOpenVpn, sessionVars
<1>20. CASE Stopped(t)
  BY <1>20, <1>1, <1>3, <1>8 DEF Stopped, sessionVars
<1>21. CASE Changed(t)
  BY <1>21, <1>1, <1>3, <1>8 DEF Changed, sessionVars, systemVars
<1>22. CASE Invoke(t)
  BY <1>22, <1>1, <1>3, <1>8 DEF Invoke, sessionVars, systemVars
<1>23. CASE Enable(t)
  BY <1>23, <1>1, <1>3, <1>8 DEF Enable, sessionVars, systemVars
<1>24. CASE Forget(t)
  BY <1>24, <1>1, <1>3, <1>8 DEF Forget, sessionVars, systemVars
<1>25. CASE After(t)
  BY <1>25, <1>1, <1>3, <1>8 DEF After, sessionVars, systemVars
<1>26. CASE Unblock(t) \/ SwitchOffUnblocks(t) \/ StoreSetting(t)
  BY <1>26, <1>1, <1>3, <1>8 DEF Unblock, SwitchOffUnblocks, StoreSetting, sessionVars, systemVars
<1> QED
  BY <1>9, <1>10, <1>11, <1>12, <1>13, <1>14, <1>15, <1>16, <1>17, <1>18, <1>19, <1>20, <1>21,
     <1>22, <1>23, <1>24, <1>25, <1>26

\* A change of a session pushes the given frames, and the handlers of the change if there is one.
LEMMA SetSessionEffect ==
  ASSUME TypeOK, NEW t \in Threads, NEW s \in 0..MaxSessions, NEW rec \in SessionRecords,
         NEW labels, labels \subseteq Labels, "changed" \in labels, NEW f \in Seq(FramesOf(labels)),
         SetSession(t, s, rec, f)
  PROVE  /\ \E g \in Seq(FramesOf(labels)) : stack' = Pushed(stack, t, g)
         /\ sess'[s] = rec
         /\ \A r \in 0..MaxSessions : r # s => sess'[r] = sess[r]
<1>1. <<Frame("changed", s)>> \o f \in Seq(FramesOf(labels))
  BY FewFrames
<1>2. \E g \in Seq(FramesOf(labels)) : stack' = Pushed(stack, t, g)
  BY <1>1 DEF SetSession, Continue, Pushed
<1>3. sess' = [sess EXCEPT ![s] = rec]
  BY DEF SetSession
<1> QED
  BY <1>2, <1>3 DEF TypeOK

\* A change of the state leaves the rest of the session.
LEMMA SetStateEffect ==
  ASSUME TypeOK, NEW t \in Threads, NEW s \in 0..MaxSessions, NEW newState \in ConnectionStates,
         NEW labels, labels \subseteq Labels, "changed" \in labels, NEW f \in Seq(FramesOf(labels)),
         SetState(t, s, newState, f)
  PROVE  /\ \E g \in Seq(FramesOf(labels)) : stack' = Pushed(stack, t, g)
         /\ sess'[s].state = newState /\ sess'[s].stopWasRequested = sess[s].stopWasRequested
         /\ \A r \in 0..MaxSessions : r # s => sess'[r] = sess[r]
<1> PICK rec : rec = [sess[s] EXCEPT !.state = newState]
  OBVIOUS
<1>1. ASSUME NEW x \in SessionRecords, NEW y, y = [x EXCEPT !.state = newState]
      PROVE  y \in SessionRecords /\ y.state = newState /\ y.stopWasRequested = x.stopWasRequested
  BY <1>1, ZenonT(40) DEF SessionRecords
<1>2. sess[s] \in SessionRecords
  BY DEF TypeOK
<1>3. rec \in SessionRecords /\ rec.state = newState /\ rec.stopWasRequested = sess[s].stopWasRequested
  BY <1>1, <1>2
<1>4. SetSession(t, s, rec, f)
  BY DEF SetState
<1> QED
  BY <1>3, <1>4, SetSessionEffect

\* Only who holds the lock is inside it, and the end of a method is its last frame.
LEMMA InsideLock ==
  ASSUME Exclusive, NEW t \in Threads, stack[t] # <<>>
  PROVE  /\ \A l \in LockedLabels : Has(stack[t], l) => lock = t
         /\ Head(stack[t]).at \in LastLabels =>
              \A l \in LockedLabels : Has(stack[t], l) => Head(stack[t]).at = l
         /\ Has(stack[t], Head(stack[t]).at)
<1>1. Ordered(stack[t]) /\ (Holds(stack[t]) => lock = t)
  BY DEF Exclusive, Discipline
<1>2. Head(stack[t]) = stack[t][1] /\ 1 \in 1..Len(stack[t]) /\ Len(stack[t]) \in Nat
  BY Innermost DEF Exclusive, TypeOK
<1>3. \A i \in 1..Len(stack[t]) : i = 1 \/ 1 < i
  BY <1>2
<1> QED
  BY <1>1, <1>2, <1>3 DEF Ordered, Holds, Has

\* Nobody is inside a free lock.
LEMMA FreeLock ==
  ASSUME Exclusive, lock = NoThread, NEW t \in Threads, NEW l \in LockedLabels
  PROVE  ~Has(stack[t], l)
BY ThreadsAssumption DEF Exclusive, Discipline, Holds, Has

\* The steps of a stop keep the invariant.
LEMMA StopKeeps ==
  ASSUME Exclusive, Settling, NEW t \in Threads,
         Unlock(t) \/ StopRequested(t) \/ SessionDisconnect(t)
  PROVE  Settling'
<1> USE DEF At
<1>0. TypeOK /\ stack[t] # <<>> /\ session \in 0..MaxSessions /\ 0 \in 0..MaxSessions
  BY BoundsAssumption DEF Exclusive, TypeOK, Unlock, StopRequested, SessionDisconnect
<1>l. "unlock" \in LastLabels /\ {"unlock", "stopRequested", "sessionDisconnect"} \subseteq LockedLabels
  BY DEF LockedLabels, LastLabels
<1>h. Has(stack[t], Head(stack[t]).at) /\ lock = t
  BY <1>0, <1>l, InsideLock DEF Unlock, StopRequested, SessionDisconnect
<1>p. process' = process /\ session' = session
  BY Zenon DEF Unlock, StopRequested, SessionDisconnect, sessionVars, systemVars
<1>1. LinesInv' /\ \A s \in Sessions : ConnectedRead(s) => ConnectedRead(s)'
  BY <1>p, LinesKept DEF Settling
<1>2. \E f \in Seq(FramesOf({"changed"})) : stack' = Pushed(stack, t, f)
  <2>1. <<>> \in Seq(FramesOf({"changed"})) /\ {"changed"} \subseteq Labels
    BY FewFrames DEF Labels
  <2>2. CASE Continue(t, <<>>)
    BY <2>1, <2>2 DEF Continue, Pushed
  <2>3. CASE SessionDisconnect(t)
    <3>1. <<Frame("changed", session)>> \o <<>> \in Seq(FramesOf({"changed"}))
      BY <1>0, <2>1, FewFrames
    <3> QED
      BY <2>1, <2>3, <3>1 DEF SessionDisconnect, SetSession, Continue, Pushed
  <2> QED
    BY <2>2, <2>3 DEF Unlock, StopRequested
<1> PICK f \in Seq(FramesOf({"changed"})) : stack' = Pushed(stack, t, f)
  BY <1>2
<1>3. f \in Seq(Frames) /\ \A l : Has(f, l) => l = "changed"
  BY LabelsOf
<1>4. /\ ~Has(f, "read") /\ ~Has(f, "stopRequested") /\ Followed(f)
      /\ \A l \in BeforeReader : ~Has(f, l)
  BY <1>3 DEF BeforeReader, Has, Followed
<1>5. ReadersInv'
  BY <1>0, <1>3, <1>4, <1>p, ReadersKept DEF Settling
<1>6. /\ \A u \in Threads : u # t => stack'[u] = stack[u]
      /\ \A l : Has(stack[t], l) /\ Head(stack[t]).at # l => Has(stack'[t], l)
  BY <1>0, <1>3, Stepped
<1>7. ASSUME NEW s \in Sessions
      PROVE  /\ s > session => ~sess[s].stopWasRequested
             /\ sess[s].stopWasRequested /\ sess[s].state # "Disconnected" =>
                  s = session /\ Has(stack[t], "sessionDisconnect")
             /\ s \in 0..MaxSessions
  BY <1>h DEF Settling, StopInv, Sessions
<1>8. CASE Unlock(t)
  <2>1. sess' = sess /\ lock' = NoThread
    BY <1>8, Zenon DEF Unlock, sessionVars
  <2>2. ~Has(stack[t], "sessionDisconnect")
    BY <1>8, <1>0, <1>l, InsideLock DEF Unlock
  <2>3. StopInv'
    BY <1>0, <1>1, <1>3, <1>4, <1>7, <1>p, <2>1, <2>2, StopKeptWith DEF Settling
  <2>4. ExitInv'
    BY <1>8, <1>0, <1>3, <1>p, <2>1, ExitKept DEF Unlock, Settling
  <2> QED
    BY <1>1, <1>5, <2>3, <2>4 DEF Settling
<1>9. CASE StopRequested(t)
  <2>1. /\ sess' = [sess EXCEPT ![session].stopWasRequested = TRUE] /\ lock' = lock
        /\ Head(stack[t]).at = "stopRequested"
    BY <1>9, Zenon DEF StopRequested
  <2>2. \A s \in 0..MaxSessions : /\ sess'[s].state = sess[s].state
                                  /\ s # session => sess'[s] = sess[s]
                                  /\ sess[s].stopWasRequested => sess'[s].stopWasRequested
    BY <1>0, <2>1 DEF TypeOK, SessionRecords
  <2>3. Has(stack[t], "stopRequested") /\ Has(stack[t], "sessionDisconnect")
    BY <1>h, <2>1 DEF Settling, StopInv, Followed, Has
  <2>4. session \in Sessions => ConnectedRead(session)
    BY <2>3 DEF Settling, StopInv
  <2>5. Has(stack'[t], "sessionDisconnect")
    BY <1>6, <2>1, <2>3
  <2>6. StopInv'
    BY <1>0, <1>1, <1>3, <1>4, <1>7, <1>h, <1>p, <2>1, <2>2, <2>4, <2>5, StopKeptWith DEF Settling
  <2>7. ExitInv'
    BY <1>0, <1>3, <1>7, <1>p, <2>1, <2>2, ExitKept DEF Settling
  <2> QED
    BY <1>1, <1>5, <2>6, <2>7 DEF Settling
<1>10. CASE SessionDisconnect(t)
  <2>1. /\ sess' = [sess EXCEPT ![session] =
                      [sess[session] EXCEPT !.state = "Disconnected", !.lastError = "NoError"]]
        /\ Head(stack[t]).at = "sessionDisconnect"
    BY <1>10 DEF SessionDisconnect, SetSession
  <2>2. ASSUME NEW x \in SessionRecords, NEW y,
               y = [x EXCEPT !.state = "Disconnected", !.lastError = "NoError"]
        PROVE  y.state = "Disconnected" /\ y.stopWasRequested = x.stopWasRequested
    BY <2>2 DEF SessionRecords
  <2>3. \A s \in 0..MaxSessions : /\ sess'[s].stopWasRequested = sess[s].stopWasRequested
                                  /\ sess'[s].state = IF s = session THEN "Disconnected" ELSE sess[s].state
    BY <1>0, <2>1, <2>2 DEF TypeOK
  <2>4. StopInv'
    BY <1>0, <1>1, <1>3, <1>4, <1>7, <1>p, <2>3, StopKeptWith DEF Settling
  <2>5. ExitInv'
    BY <1>0, <1>3, <1>7, <1>p, <2>1, <2>3, ExitKept DEF Settling
  <2> QED
    BY <1>1, <1>5, <2>4, <2>5 DEF Settling
<1> QED
  BY <1>8, <1>9, <1>10

\* So does a new session.
LEMMA NewSessionKeeps ==
  ASSUME Exclusive, Settling, NEW t \in Threads, StartSession(t)
  PROVE  Settling'
<1> USE DEF At
<1> DEFINE labels == {"changed", "clean"}
<1>0. /\ TypeOK /\ stack[t] # <<>> /\ session \in 0..MaxSessions /\ 0 \in 0..MaxSessions
      /\ session' = session + 1 /\ session' \in Sessions /\ session' \in 0..MaxSessions
      /\ lock = NoThread /\ Head(stack[t]).at = "connect"
  BY BoundsAssumption DEF Exclusive, TypeOK, StartSession, Sessions
<1>p. process' = process
  BY Zenon DEF StartSession, systemVars
<1>1. LinesInv' /\ \A s \in Sessions : ConnectedRead(s) => ConnectedRead(s)'
  BY <1>p, LinesKept DEF Settling
<1>2. labels \subseteq Labels /\ <<Frame("clean", 0)>> \in Seq(FramesOf(labels))
  BY <1>0, FewFrames DEF Labels
<1>3. PICK n : n = session'
  OBVIOUS
<1>4. SetState(t, n, "Connecting", <<Frame("clean", 0)>>)
  BY <1>3 DEF StartSession
<1>5. /\ \E f \in Seq(FramesOf(labels)) : stack' = Pushed(stack, t, f)
      /\ sess'[n].state = "Connecting" /\ sess'[n].stopWasRequested = sess[n].stopWasRequested
      /\ \A r \in 0..MaxSessions : r # n => sess'[r] = sess[r]
  BY <1>0, <1>2, <1>3, <1>4, SetStateEffect DEF ConnectionStates
<1> HIDE DEF labels
<1> PICK f \in Seq(FramesOf(labels)) : stack' = Pushed(stack, t, f)
  BY <1>5
<1>6. f \in Seq(Frames) /\ \A l : Has(f, l) => l \in labels
  BY LabelsOf
<1>7. ~Has(f, "read") /\ ~Has(f, "stopRequested") /\ Followed(f)
  BY <1>6 DEF labels, Has, Followed
<1>8. /\ \A u \in Threads : u # t => stack'[u] = stack[u]
      /\ \A l : Has(stack'[t], l) => Has(f, l) \/ Has(stack[t], l)
      /\ ReadLast(stack[t]) => ReadLast(stack'[t])
      /\ \A u \in Threads : stack[u] = <<>> => stack'[u] = <<>>
  BY <1>0, <1>6, <1>7, Stepped, IdleStays
<1>9. \A u \in Threads : ~Has(stack'[u], "stopRequested")
  BY <1>0, <1>7, <1>8, FreeLock DEF LockedLabels
<1>10. ASSUME NEW s \in Sessions
       PROVE  /\ s > session => Unstarted(s) /\ process[s].status = "none" /\ process[s].raised = "no"
              /\ s > session => ~sess[s].stopWasRequested
              /\ sess[s].stopWasRequested => sess[s].state = "Disconnected"
              /\ s > session' => s > session
              /\ Unstarted(s) => Unstarted(s)'
              /\ s \in 0..MaxSessions
  <2>1. Reader(s) \in Threads
    BY SessionThreads
  <2> QED
    BY <1>0, <1>8, <1>p, <2>1, ThreadsAssumption DEF Settling, ReadersInv, StopInv, Unstarted,
       Sessions
<1>11. ReadersInv'
  <2>1. session' \in Sessions /\ Unstarted(session)'
    <3>1. n > session /\ n \in Sessions
      BY <1>0, <1>3
    <3>2. Unstarted(n)'
      BY <1>10, <3>1
    <3> QED
      BY <1>0, <1>3, <3>2 DEF Unstarted
  <2>2. ASSUME NEW s \in Sessions
        PROVE  /\ s > session' => Unstarted(s)' /\ process'[s].status = "none" /\ process'[s].raised = "no"
               /\ process'[s].closed # "no" => stack'[Reader(s)] = <<>>
               /\ process'[s].status = "none" => process'[s].raised = "no"
               /\ process'[s].raised = "no" => stack'[ExitThread(s)] = <<>>
               /\ ReadLast(stack'[Reader(s)])
    <3>1. Reader(s) \in Threads /\ ExitThread(s) \in Threads
      BY SessionThreads
    <3> QED
      BY <1>8, <1>10, <1>p, <3>1 DEF Settling, ReadersInv
  <2> QED
    BY <2>1, <2>2 DEF ReadersInv
<1>12. StopInv'
  <2>1. \A s \in Sessions : /\ sess'[s].stopWasRequested = sess[s].stopWasRequested
                            /\ s # n => sess'[s] = sess[s]
                            /\ ~sess[n].stopWasRequested
    <3>1. n \in Sessions /\ n > session
      BY <1>0, <1>3
    <3> QED
      BY <1>5, <1>10, <3>1
  <2>2. \A s \in Sessions : ~(sess'[s].stopWasRequested /\ sess'[s].state # "Disconnected")
    BY <1>10, <2>1
  <2>3. \A s \in Sessions : sess'[s].state = "Connected" => sess[s].state = "Connected"
    BY <1>5, <2>1
  <2> QED
    BY <1>0, <1>1, <1>6, <1>7, <1>9, <1>10, <2>1, <2>2, <2>3, StopKeptWith DEF Settling
<1>13. ExitInv'
  <2>1. \A s \in Sessions : /\ process'[s] = process[s]
                            /\ sess[s].stopWasRequested => sess'[s].stopWasRequested
                            /\ process[s].closed = "yes" => sess'[s] = sess[s]
    BY <1>0, <1>3, <1>5, <1>10, <1>p DEF Unstarted
  <2> QED
    BY <1>0, <1>6, <2>1, ExitKept DEF Settling
<1> QED
  BY <1>1, <1>11, <1>12, <1>13 DEF Settling

\* A frame in front of others, if it remembers no stop or there is a disconnect among these.
LEMMA FollowedFront ==
  ASSUME NEW x \in Frames, NEW f \in Seq(Frames), Followed(f),
         x.at # "stopRequested" \/ Has(f, "sessionDisconnect")
  PROVE  Followed(<<x>> \o f) /\ \A l : Has(f, l) => Has(<<x>> \o f, l)
<1> PICK g : g = <<x>> \o f
  OBVIOUS
<1>1. /\ Len(g) = 1 + Len(f) /\ g[1] = x /\ Len(f) \in Nat
      /\ \A i \in 1..Len(f) : g[i + 1] = f[i]
      /\ \A i \in 2..Len(g) : g[i] = f[i - 1]
  BY Fronted
<1>2. ASSUME NEW i \in 1..Len(f) PROVE i + 1 \in 1..Len(g) /\ g[i + 1] = f[i]
  BY <1>1
<1>3. ASSUME NEW l, Has(f, l) PROVE Has(g, l)
  BY <1>2, <1>3 DEF Has
<1>4. Followed(g)
  <2> SUFFICES ASSUME NEW i \in 1..Len(g), g[i].at = "stopRequested"
               PROVE  \E j \in 1..Len(g) : i < j /\ g[j].at = "sessionDisconnect"
    BY DEF Followed
  <2>1. CASE i = 1
    <3>1. PICK k \in 1..Len(f) : f[k].at = "sessionDisconnect"
      BY <1>1, <2>1 DEF Has
    <3> QED
      BY <1>2, <2>1, <3>1
  <2>2. CASE i # 1
    <3>1. i - 1 \in 1..Len(f) /\ f[i - 1].at = "stopRequested"
      BY <1>1, <2>2
    <3>2. PICK k \in 1..Len(f) : i - 1 < k /\ f[k].at = "sessionDisconnect"
      BY <3>1 DEF Followed
    <3> QED
      BY <1>2, <3>2
  <2> QED
    BY <2>1, <2>2
<1> QED
  BY <1>3, <1>4

\* So does the beginning of a disconnect.
LEMMA DisconnectKeeps ==
  ASSUME Exclusive, Settling, NEW t \in Threads, Disconnect(t)
  PROVE  Settling'
<1> USE DEF At
<1> DEFINE labels == {"changed", "stopRequested", "stop", "sessionDisconnect", "unlock"}
<1> DEFINE rest == <<Frame("stop", 0), Frame("sessionDisconnect", 0), Frame("unlock", 0)>>
<1> DEFINE stops == <<Frame("stopRequested", 0)>> \o rest
<1>0. /\ TypeOK /\ stack[t] # <<>> /\ session \in 0..MaxSessions /\ 0 \in 0..MaxSessions
      /\ session' = session /\ lock = NoThread /\ Head(stack[t]).at = "disconnect"
      /\ sess[session].state # "Disconnected"
  BY BoundsAssumption DEF Exclusive, TypeOK, Disconnect
<1>p. process' = process
  BY Zenon DEF Disconnect, systemVars
<1>1. LinesInv' /\ \A s \in Sessions : ConnectedRead(s) => ConnectedRead(s)'
  BY <1>p, LinesKept DEF Settling
<1>2. labels \subseteq Labels
  BY DEF Labels
<1>3. rest \in Seq(FramesOf(labels)) /\ stops \in Seq(FramesOf(labels))
  <2>1. \A a \in labels : Frame(a, 0) \in FramesOf(labels)
    BY <1>0, <1>2, FrameTyped DEF FramesOf
  <2>2. rest \in Seq(FramesOf(labels))
    BY <2>1
  <2> QED
    BY <1>0, <1>2, <2>2, FewFrames
<1>4. Followed(rest) /\ ~Has(rest, "stopRequested") /\ Has(rest, "sessionDisconnect")
  <2>1. \A i \in 1..Len(rest) : rest[i].at # "stopRequested"
    BY DEF Frame
  <2>2. 2 \in 1..Len(rest) /\ rest[2].at = "sessionDisconnect"
    BY DEF Frame
  <2> QED
    BY <2>1, <2>2 DEF Followed, Has
<1>5. /\ Followed(<<Frame("changed", session)>> \o stops)
      /\ <<Frame("changed", session)>> \o stops \in Seq(FramesOf(labels))
  <2>1. rest \in Seq(Frames) /\ stops \in Seq(Frames)
    BY <1>3, LabelsOf
  <2>2. /\ Frame("stopRequested", 0) \in Frames /\ Frame("changed", session) \in Frames
        /\ Frame("changed", session).at = "changed"
    BY <1>0, FrameTyped DEF Labels
  <2>3. Followed(stops)
    BY <1>4, <2>1, <2>2, FollowedFront
  <2>4. "changed" # "stopRequested"
    OBVIOUS
  <2>5. Followed(<<Frame("changed", session)>> \o stops)
    <3> HIDE DEF stops
    <3> QED
      BY <2>1, <2>2, <2>3, <2>4, FollowedFront
  <2> QED
    BY <1>0, <1>2, <1>3, <2>5, FewFrames
<1> HIDE DEF rest, stops, labels
\* The rest of the proof, whichever frames are pushed.
<1>6. ASSUME NEW f \in Seq(FramesOf(labels)), Followed(f), stack' = Pushed(stack, t, f),
             Has(f, "stopRequested") => sess[session].state = "Connected",
             \A s \in Sessions :
               /\ sess'[s].stopWasRequested = sess[s].stopWasRequested
               /\ sess'[s].state = sess[s].state \/ (s = session /\ sess'[s].state = "Disconnecting")
      PROVE  Settling'
  <2>1. f \in Seq(Frames) /\ \A l : Has(f, l) => l \in labels
    BY LabelsOf
  <2>2. ~Has(f, "read") /\ \A l \in BeforeReader : ~Has(f, l)
    BY <2>1 DEF labels, BeforeReader
  <2>3. ReadersInv'
    BY <1>0, <1>6, <1>p, <2>1, <2>2, ReadersKept DEF Settling
  <2>4. \A s \in Sessions : /\ sess[s].stopWasRequested => sess[s].state = "Disconnected"
                            /\ sess[s].state = "Connected" => ConnectedRead(s)
                            /\ s > session => ~sess[s].stopWasRequested
    BY <1>0, ThreadsAssumption DEF Settling, StopInv
  <2>5. StopInv'
    <3>1. Has(f, "stopRequested") /\ session \in Sessions => ConnectedRead(session)
      BY <1>6, <2>4
    <3>2. \A s \in Sessions :
            /\ s > session' => ~sess'[s].stopWasRequested
            /\ sess'[s].stopWasRequested => sess[s].stopWasRequested
            /\ sess'[s].state = "Connected" => sess[s].state = "Connected"
            /\ ~(sess'[s].stopWasRequested /\ sess'[s].state # "Disconnected")
      BY <1>0, <1>6, <2>4
    <3> QED
      BY <1>0, <1>1, <1>6, <2>1, <3>1, <3>2, StopKeptWith DEF Settling
  <2>6. ExitInv'
    BY <1>0, <1>6, <1>p, <2>1, ExitKept DEF Settling
  <2> QED
    BY <1>1, <2>3, <2>5, <2>6 DEF Settling
<1>7. CASE sess[session].state = "Connected"
  <2>1. SetState(t, session, "Disconnecting", stops)
    BY <1>7 DEF Disconnect, stops, rest
  <2>2. \A s \in Sessions : s \in 0..MaxSessions
    BY DEF Sessions
  <2>3. /\ sess'[session].state = "Disconnecting"
        /\ sess'[session].stopWasRequested = sess[session].stopWasRequested
        /\ \A r \in 0..MaxSessions : r # session => sess'[r] = sess[r]
    BY <1>0, <1>2, <1>3, <2>1, SetStateEffect DEF ConnectionStates, labels
  <2>4. stack' = Pushed(stack, t, <<Frame("changed", session)>> \o stops)
    <3>1. ASSUME NEW x \in SessionRecords PROVE [x EXCEPT !.state = "Disconnecting"].state = "Disconnecting"
      BY DEF SessionRecords
    <3>2. [sess[session] EXCEPT !.state = "Disconnecting"].state = "Disconnecting"
      BY <1>0, <3>1 DEF TypeOK
    <3> QED
      BY <1>7, <2>1, <3>2 DEF SetState, SetSession, Continue, Pushed
  <2> PICK f : f = <<Frame("changed", session)>> \o stops
    OBVIOUS
  <2>5. f \in Seq(FramesOf(labels)) /\ Followed(f) /\ stack' = Pushed(stack, t, f)
    BY <1>5, <2>4
  <2>6. \A s \in Sessions :
          /\ sess'[s].stopWasRequested = sess[s].stopWasRequested
          /\ sess'[s].state = sess[s].state \/ (s = session /\ sess'[s].state = "Disconnecting")
    BY <2>2, <2>3, Zenon
  <2> QED
    BY <1>6, <1>7, <2>5, <2>6
<1>8. CASE sess[session].state # "Connected"
  <2>1. Continue(t, rest) /\ sess' = sess
    BY <1>8 DEF Disconnect, rest
  <2>2. stack' = Pushed(stack, t, rest)
    BY <2>1 DEF Continue, Pushed
  <2> PICK f : f = rest
    OBVIOUS
  <2>3. /\ f \in Seq(FramesOf(labels)) /\ Followed(f) /\ stack' = Pushed(stack, t, f)
        /\ ~Has(f, "stopRequested")
    BY <1>3, <1>4, <2>2
  <2>4. \A s \in Sessions :
          /\ sess'[s].stopWasRequested = sess[s].stopWasRequested
          /\ sess'[s].state = sess[s].state \/ (s = session /\ sess'[s].state = "Disconnecting")
    BY <2>1, Zenon
  <2> QED
    BY <1>6, <2>3, <2>4
<1> QED
  BY <1>7, <1>8

\* So does the start of a reader.
LEMMA StartReaderKeeps ==
  ASSUME Exclusive, Settling, NEW t \in Threads, StartReader(t)
  PROVE  Settling'
<1> USE DEF At
<1> DEFINE R == Reader(session)
<1> DEFINE mid == Pushed(stack, t, <<Frame("unlock", 0)>>)
<1>0. /\ TypeOK /\ stack \in [Threads -> Seq(Frames)] /\ stack[t] # <<>> /\ 0 \in 0..MaxSessions
      /\ session' = session /\ sess' = sess /\ process' = process /\ lock' = lock
      /\ Head(stack[t]).at = "startReader"
  BY BoundsAssumption DEF Exclusive, TypeOK, StartReader, sessionVars, systemVars
<1>l. "startReader" \in LastLabels /\ BeforeReader \subseteq LockedLabels /\ "startReader" \in LockedLabels
      /\ "startReader" \in BeforeReader /\ "sessionDisconnect" \in LockedLabels
  BY DEF LockedLabels, LastLabels, BeforeReader
<1>1. LinesInv' /\ \A s \in Sessions : ConnectedRead(s) => ConnectedRead(s)'
  BY <1>0, LinesKept DEF Settling
<1>2. Has(stack[t], "startReader") /\ lock = t /\ ~Has(stack[t], "sessionDisconnect")
  BY <1>0, <1>l, InsideLock
<1>3. session \in Sessions /\ process[session].closed = "no" /\ stack[R] = <<>> /\ t # R /\ R \in Threads
  <2>1. Starting
    BY <1>2, <1>l DEF Starting
  <2>2. session \in Sessions /\ process[session].closed = "no" /\ stack[R] = <<>>
    BY <2>1 DEF Settling, ReadersInv, Unstarted
  <2> QED
    BY <1>0, <2>2, SessionThreads
<1>4. <<Frame("unlock", 0)>> \in Seq(FramesOf({"unlock"}))
  BY <1>0, FewFrames DEF Labels
<1>f. PICK f \in Seq(FramesOf({"unlock"})) : f = <<Frame("unlock", 0)>>
  BY <1>4
<1>5. f \in Seq(Frames) /\ \A l : Has(f, l) => l = "unlock"
  <2>1. f \in Seq(FramesOf({"unlock"}))
    BY <1>f
  <2> QED
    BY <2>1, LabelsOf
<1>m. mid = Pushed(stack, t, f)
  BY <1>f
<1> HIDE DEF mid
<1>6. /\ mid \in [Threads -> Seq(Frames)]
      /\ \A u \in Threads : u # t => mid[u] = stack[u]
      /\ \A l : Has(mid[t], l) => l = "unlock" \/ Has(stack[t], l)
      /\ \A s : Exits(stack[t], s) => Exits(mid[t], s)
      /\ Followed(stack[t]) => Followed(mid[t])
      /\ ReadLast(stack[t]) => ReadLast(mid[t])
  <2>1. Followed(f) /\ ~Has(f, "read")
    BY <1>5 DEF Followed, Has
  <2>2. mid \in [Threads -> Seq(Frames)]
    BY <1>0, <1>5, <1>m, AfterPush
  <2>3. \A s : Head(stack[t]) # Frame("exited", s)
    BY <1>0 DEF Frame
  <2>4. /\ \A u \in Threads : u # t => mid[u] = stack[u]
        /\ \A l : Has(mid[t], l) => Has(f, l) \/ Has(stack[t], l)
        /\ \A s : Exits(stack[t], s) /\ Head(stack[t]) # Frame("exited", s) => Exits(mid[t], s)
        /\ Followed(stack[t]) /\ Followed(f) => Followed(mid[t])
        /\ ReadLast(stack[t]) /\ ~Has(f, "read") => ReadLast(mid[t])
    BY <1>0, <1>5, <1>m, PushedFrames
  <2> QED
    BY <1>5, <2>1, <2>2, <2>3, <2>4
<1>7. stack' = [mid EXCEPT ![R] = <<Frame("read", session)>>]
  BY <1>3, <1>f, <1>m DEF StartReader, Pushed
<1>8. ASSUME NEW l \in BeforeReader PROVE ~Has(mid[t], l)
  <2>1. \A i \in 1..Len(mid[t]) :
          \/ i = 1 /\ mid[t][i].at = "unlock"
          \/ i \in 2..Len(stack[t]) /\ mid[t][i] = stack[t][i]
    <3>1. Len(f) = 1 /\ f[1].at = "unlock"
      BY <1>f DEF Frame
    <3>2. \A i \in 1..Len(mid[t]) :
            \/ i \in 1..Len(f) /\ mid[t][i] = f[i]
            \/ i > Len(f) /\ i - Len(f) + 1 \in 2..Len(stack[t]) /\ mid[t][i] = stack[t][i - Len(f) + 1]
      BY <1>0, <1>5, <1>m, AfterPush, SMTT(40)
    <3>3. Len(mid[t]) \in Nat
      BY <1>6
    <3>4. ASSUME NEW i \in 1..Len(mid[t]) PROVE i - 1 + 1 = i /\ (i \in 1..1 => i = 1)
      BY <3>3
    <3> QED
      BY <3>1, <3>2, <3>4
  <2>2. \A i \in 2..Len(stack[t]) : stack[t][i].at \notin LockedLabels
    <3>1. Head(stack[t]) = stack[t][1] /\ 1 \in 1..Len(stack[t]) /\ Len(stack[t]) \in Nat
      BY <1>0, Innermost
    <3> QED
      BY <1>0, <1>l, <3>1 DEF Exclusive, Discipline, Ordered
  <2>3. "unlock" \notin BeforeReader
    BY DEF BeforeReader
  <2> QED
    BY <1>l, <2>1, <2>2, <2>3 DEF Has
<1>9. /\ \A u \in Threads : u # R => stack'[u] = mid[u]
      /\ stack'[R] = <<Frame("read", session)>>
      /\ \A u \in Threads : u # R /\ u # t => stack'[u] = stack[u]
  BY <1>3, <1>6, <1>7
<1>10. /\ \A l : Has(stack'[R], l) => l = "read"
       /\ ReadLast(stack'[R]) /\ Followed(stack'[R])
  <2>1. Len(stack'[R]) = 1 /\ stack'[R][1].at = "read"
    BY <1>9 DEF Frame
  <2> HIDE DEF R
  <2> QED
    BY <2>1 DEF Has, ReadLast, Followed
<1>11. ReadersInv'
  <2>1. ~Starting'
    <3>1. SUFFICES ASSUME NEW u \in Threads, NEW l \in BeforeReader, Has(stack'[u], l) PROVE FALSE
      BY DEF Starting
    <3>2. CASE u = R
      BY <1>10, <3>1, <3>2 DEF BeforeReader
    <3>3. CASE u = t
      BY <1>3, <1>8, <1>9, <3>1, <3>3
    <3>4. CASE u # R /\ u # t
      <4>1. Has(stack[u], l)
        BY <1>9, <3>1, <3>4
      <4>2. Holds(stack[u])
        BY <1>l, <4>1 DEF Has, Holds
      <4> QED
        BY <1>2, <3>4, <4>2 DEF Exclusive, Discipline
    <3> QED
      BY <3>2, <3>3, <3>4
  <2>2. ASSUME NEW s \in Sessions
        PROVE  /\ s > session' => Unstarted(s)' /\ process'[s].status = "none" /\ process'[s].raised = "no"
               /\ process'[s].closed # "no" => stack'[Reader(s)] = <<>>
               /\ process'[s].status = "none" => process'[s].raised = "no"
               /\ process'[s].raised = "no" => stack'[ExitThread(s)] = <<>>
               /\ ReadLast(stack'[Reader(s)])
    <3>1. Reader(s) \in Threads /\ ExitThread(s) \in Threads /\ ExitThread(s) # R
      BY SessionThreads DEF Reader, ExitThread
    <3>2. /\ s > session => Unstarted(s) /\ process[s].status = "none" /\ process[s].raised = "no"
          /\ process[s].closed # "no" => stack[Reader(s)] = <<>>
          /\ process[s].status = "none" => process[s].raised = "no"
          /\ process[s].raised = "no" => stack[ExitThread(s)] = <<>>
          /\ ReadLast(stack[Reader(s)])
      BY DEF Settling, ReadersInv
    <3>3. \A u \in Threads : u # R /\ stack[u] = <<>> => stack'[u] = <<>>
      BY <1>0, <1>9
    <3>4. s # session => Reader(s) # R
      BY DEF Reader
    <3>5. session \in Nat /\ s \in Nat
      BY <1>3 DEF Sessions
    <3>6. ReadLast(stack'[Reader(s)])
      BY <1>6, <1>9, <1>10, <3>1, <3>2
    <3> QED
      BY <1>0, <1>3, <3>1, <3>2, <3>3, <3>4, <3>5, <3>6 DEF Unstarted
  <2> QED
    BY <2>1, <2>2 DEF ReadersInv
<1>12. StopInv'
  <2>1. \A s \in Sessions : /\ s > session' => ~sess'[s].stopWasRequested
                            /\ sess'[s].stopWasRequested \/ sess'[s].state = "Connected" => ConnectedRead(s)'
                            /\ ~(sess'[s].stopWasRequested /\ sess'[s].state # "Disconnected")
    BY <1>0, <1>1, <1>2 DEF Settling, StopInv
  <2>2. ASSUME NEW u \in Threads
        PROVE  Followed(stack'[u]) /\ (Has(stack'[u], "stopRequested") => Has(stack[u], "stopRequested"))
    <3>1. Followed(stack[u])
      BY DEF Settling, StopInv
    <3> QED
      BY <1>6, <1>9, <1>10, <3>1
  <2>3. ASSUME NEW u \in Threads, Has(stack'[u], "stopRequested") PROVE ConnectedRead(session)'
    <3>1. ConnectedRead(session)
      BY <1>3, <2>2, <2>3 DEF Settling, StopInv
    <3> QED
      BY <1>0, <3>1 DEF ConnectedRead
  <2> QED
    BY <2>1, <2>2, <2>3 DEF StopInv
<1>13. ExitInv'
  <2>1. ~\E s : Exits(stack[R], s)
    <3>1. Len(stack[R]) = 0
      BY <1>3
    <3> QED
      BY <3>1 DEF Exits
  <2>2. \A u \in Threads, s \in Sessions : Exits(stack[u], s) => Exits(stack'[u], s)
    BY <1>6, <1>9, <2>1
  <2> QED
    BY <1>0, <2>2 DEF Settling, ExitInv
<1> QED
  BY <1>1, <1>11, <1>12, <1>13 DEF Settling

\* So does the end of a wait for a process, which may raise its exit.
LEMMA WaitExitKeeps ==
  ASSUME Exclusive, Settling, NEW t \in Threads, WaitExit(t)
  PROVE  Settling'
<1> USE DEF At
<1> DEFINE labels == {"exited", "stopped"}
<1>s. PICK s : s = Subject(t)
  OBVIOUS
<1> DEFINE raises == process[s].status = "exited" /\ process[s].raised = "no"
<1> DEFINE r == IF raises THEN Heard(s) ELSE process[s].raised
<1> DEFINE before == IF raises /\ Heard(s) = "heard" THEN <<Frame("exited", s)>> ELSE <<>>
<1>0. /\ TypeOK /\ stack[t] # <<>> /\ session' = session /\ sess' = sess /\ lock' = lock
      /\ Head(stack[t]).at = "waitExit"
  BY Zenon DEF Exclusive, WaitExit, sessionVars
<1>1. s \in 0..MaxSessions
  <2>1. Head(stack[t]) \in Frames
    BY <1>0, Innermost DEF TypeOK
  <2> QED
    BY <1>s, <2>1 DEF Subject, Frames
<1>2. labels \subseteq Labels /\ before \o <<Frame("stopped", s)>> \in Seq(FramesOf(labels))
  <2>1. labels \subseteq Labels
    BY DEF Labels
  <2>2. /\ <<Frame("stopped", s)>> \in Seq(FramesOf(labels))
        /\ <<Frame("exited", s)>> \o <<Frame("stopped", s)>> \in Seq(FramesOf(labels))
    BY <1>1, <2>1, FewFrames
  <2>3. <<>> \o <<Frame("stopped", s)>> = <<Frame("stopped", s)>>
    BY ConcatEmptySeq, <2>2
  <2> QED
    BY <2>1, <2>2, <2>3
<1>3. stack' = Pushed(stack, t, before \o <<Frame("stopped", s)>>)
  BY <1>s DEF WaitExit, Continue, Pushed
<1>4. process' = [process EXCEPT ![s].raised = r]
  BY <1>s DEF WaitExit
<1>5. raises /\ Heard(s) = "heard" => Exits(before \o <<Frame("stopped", s)>>, s)
  <2> SUFFICES ASSUME raises /\ Heard(s) = "heard"
               PROVE  Exits(<<Frame("exited", s)>> \o <<Frame("stopped", s)>>, s)
    OBVIOUS
  <2>1. Frame("exited", s) \in Frames /\ <<Frame("stopped", s)>> \in Seq(Frames)
    BY <1>1, FrameTyped DEF Labels
  <2> PICK x \in Frames : x = Frame("exited", s)
    BY <2>1
  <2> PICK g \in Seq(Frames) : g = <<Frame("stopped", s)>>
    BY <2>1
  <2>2. Len(<<x>> \o g) = 1 + Len(g) /\ (<<x>> \o g)[1] = x /\ Len(g) \in Nat
    BY Fronted
  <2>3. 1 \in 1..Len(<<x>> \o g)
    BY <2>2
  <2> QED
    BY <2>2, <2>3 DEF Exits
<1>6. r = "no" => process[s].raised = "no" /\ ~raises
  BY DEF Heard
<1>7. r = "heard" => process[s].raised = "heard" \/ (raises /\ Heard(s) = "heard")
  OBVIOUS
<1>8. ~raises => r = process[s].raised
  OBVIOUS
<1>9. raises => process[s].status = "exited"
  OBVIOUS
<1>f. PICK f \in Seq(FramesOf(labels)) : f = before \o <<Frame("stopped", s)>>
  BY <1>2
<1> HIDE DEF raises, r, before
<1>10. /\ f \in Seq(Frames) /\ \A l : Has(f, l) => l \in labels
       /\ stack' = Pushed(stack, t, f)
       /\ raises /\ Heard(s) = "heard" => Exits(f, s)
  <2>1. f \in Seq(FramesOf(labels))
    BY <1>f
  <2> HIDE DEF labels
  <2>2. f \in Seq(Frames) /\ \A l : Has(f, l) => l \in labels
    BY <2>1, LabelsOf
  <2> QED
    BY <2>2, <1>3, <1>5, <1>f
<1>11. ~Has(f, "read") /\ ~Has(f, "stopRequested") /\ \A l \in BeforeReader : ~Has(f, l)
  BY <1>10 DEF BeforeReader
<1>12. ASSUME NEW x \in Processes, NEW y, y = [x EXCEPT !.raised = r]
       PROVE  /\ y.closed = x.closed /\ y.status = x.status /\ y.stream = x.stream
              /\ y.written = x.written /\ y.raised = r
  BY <1>12 DEF Processes
<1>13. ASSUME NEW p \in Sessions
       PROVE  /\ process'[p].closed = process[p].closed /\ process'[p].status = process[p].status
              /\ process'[p].stream = process[p].stream /\ process'[p].written = process[p].written
              /\ process'[p].raised = IF p = s THEN r ELSE process[p].raised
  <2>1. process[p] \in Processes /\ process \in [Sessions -> Processes]
    BY <1>0 DEF TypeOK
  <2>2. CASE p = s
    <3>1. process'[p] = [process[p] EXCEPT !.raised = r]
      BY <1>4, <2>1, <2>2
    <3> QED
      BY <1>12, <2>1, <2>2, <3>1
  <2>3. CASE p # s
    BY <1>4, <2>1, <2>3
  <2> QED
    BY <2>2, <2>3
<1>14. LinesInv' /\ \A p \in Sessions : ConnectedRead(p) => ConnectedRead(p)'
  BY <1>13, LinesKept DEF Settling
<1>15. ReadersInv'
  <2>1. \A p \in Sessions :
          /\ process'[p].closed = process[p].closed
          /\ process'[p].raised = "no" => process[p].raised = "no"
          /\ process'[p].status = "none" =>
               process[p].status = "none" /\ process'[p].raised = process[p].raised
          /\ p > session => /\ process'[p].status = process[p].status
                            /\ process'[p].raised = process[p].raised
    BY <1>6, <1>8, <1>9, <1>13 DEF Settling, ReadersInv
  <2> QED
    BY <1>0, <1>10, <1>11, <2>1, ReadersKept DEF Settling
<1>16. StopInv'
  BY <1>0, <1>10, <1>11, <1>14, StopKept DEF Settling
<1>17. ExitInv'
  <2>0. \A p : Head(stack[t]) # Frame("exited", p)
    BY <1>0 DEF Frame
  <2>1. \A u \in Threads, p \in Sessions : Exits(stack[u], p) => Exits(stack'[u], p)
    BY <1>0, <1>10, <2>0, Stepped
  <2>2. \A p \in Sessions : Exits(f, p) => Exits(stack'[t], p)
    BY <1>0, <1>10, Stepped
  <2>3. ASSUME NEW p \in Sessions, process'[p].raised = "heard", ~sess'[p].stopWasRequested
        PROVE  \/ \E u \in Threads : Exits(stack'[u], p)
               \/ sess'[p].state = "Disconnected" /\ process'[p].closed = "yes"
    <3>1. CASE process[p].raised = "heard"
      BY <1>0, <1>13, <2>1, <2>3, <3>1 DEF Settling, ExitInv
    <3>2. CASE process[p].raised # "heard"
      <4>1. p = s /\ raises /\ Heard(s) = "heard"
        BY <1>7, <1>13, <2>3, <3>2
      <4> QED
        BY <1>10, <2>2, <4>1
    <3> QED
      BY <3>1, <3>2
  <2> QED
    BY <2>3 DEF ExitInv
<1> QED
  BY <1>14, <1>15, <1>16, <1>17 DEF Settling

\* So does the handler of an exit.
LEMMA OnOpenVpnExitKeeps ==
  ASSUME Exclusive, Settling, NEW t \in Threads, OnOpenVpnExit(t)
  PROVE  Settling'
<1> USE DEF At
<1> DEFINE labels == {"changed"}
<1>s. PICK s : s = Subject(t)
  OBVIOUS
<1>0. /\ TypeOK /\ stack[t] # <<>> /\ session' = session /\ process' = process /\ lock' = lock
      /\ Head(stack[t]).at = "exited" /\ process[s].closed = "yes"
  BY Zenon, <1>s DEF Exclusive, OnOpenVpnExit, systemVars
<1>1. s \in 0..MaxSessions /\ \A p \in Sessions : p # s => Head(stack[t]) # Frame("exited", p)
  <2>1. Head(stack[t]) \in Frames
    BY <1>0, Innermost DEF TypeOK
  <2>2. Head(stack[t]).s = s
    BY <1>s DEF Subject
  <2> QED
    BY <2>1, <2>2 DEF Frame, Frames
<1>2. labels \subseteq Labels /\ <<>> \in Seq(FramesOf(labels))
  BY FewFrames DEF Labels
<1>3. /\ \E f \in Seq(FramesOf(labels)) : stack' = Pushed(stack, t, f)
      /\ \A p \in Sessions : /\ sess'[p].stopWasRequested = sess[p].stopWasRequested
                             /\ p # s => sess'[p].state = sess[p].state
                             /\ p = s => \/ sess'[p].state = "Disconnected"
                                         \/ sess'[p] = sess[p] /\ sess[p].stopWasRequested
  <2>0. \A p \in Sessions : p \in 0..MaxSessions
    BY DEF Sessions
  <2>1. CASE sess[s].stopWasRequested
    <3>1. Continue(t, <<>>) /\ sess' = sess
      BY <1>s, <2>1 DEF OnOpenVpnExit
    <3> QED
      BY <1>2, <2>1, <3>1 DEF Continue, Pushed
  <2>2. CASE ~sess[s].stopWasRequested
    <3>1. SetState(t, s, "Disconnected", <<>>)
      BY <1>s, <2>2 DEF OnOpenVpnExit
    <3>2. /\ \E g \in Seq(FramesOf(labels)) : stack' = Pushed(stack, t, g)
          /\ sess'[s].state = "Disconnected" /\ sess'[s].stopWasRequested = sess[s].stopWasRequested
          /\ \A p \in 0..MaxSessions : p # s => sess'[p] = sess[p]
      BY <1>0, <1>1, <1>2, <3>1, SetStateEffect DEF ConnectionStates
    <3> QED
      BY <2>0, <3>2
  <2> QED
    BY <2>1, <2>2
<1>f. PICK f \in Seq(FramesOf(labels)) : stack' = Pushed(stack, t, f)
  BY <1>3
<1>4. f \in Seq(Frames) /\ \A l : Has(f, l) => l \in labels
  <2> HIDE DEF labels
  <2> QED
    BY <1>f, LabelsOf
<1>5. ~Has(f, "read") /\ ~Has(f, "stopRequested") /\ \A l \in BeforeReader : ~Has(f, l)
  BY <1>4 DEF BeforeReader
<1>6. LinesInv' /\ \A p \in Sessions : ConnectedRead(p) => ConnectedRead(p)'
  BY <1>0, LinesKept DEF Settling
<1>7. ReadersInv'
  BY <1>0, <1>4, <1>5, <1>f, ReadersKept DEF Settling
<1>8. StopInv'
  <2>1. \A p \in Sessions :
          /\ sess'[p].stopWasRequested = sess[p].stopWasRequested
          /\ sess[p].state = "Disconnected" /\ sess'[p].state # "Disconnected" =>
               ~sess[p].stopWasRequested
          /\ sess'[p].state = "Connected" => sess[p].state = "Connected"
    BY <1>3
  <2> QED
    BY <1>0, <1>4, <1>5, <1>6, <1>f, <2>1, StopKept DEF Settling
<1>9. ExitInv'
  <2>1. \A u \in Threads, p \in Sessions : p # s /\ Exits(stack[u], p) => Exits(stack'[u], p)
    BY <1>0, <1>1, <1>4, <1>f, Stepped
  <2>2. ASSUME NEW p \in Sessions, process'[p].raised = "heard", ~sess'[p].stopWasRequested
        PROVE  \/ \E u \in Threads : Exits(stack'[u], p)
               \/ sess'[p].state = "Disconnected" /\ process'[p].closed = "yes"
    <3>1. CASE p # s
      BY <1>0, <1>3, <2>1, <2>2, <3>1 DEF Settling, ExitInv
    <3>2. CASE p = s
      BY <1>0, <1>3, <2>2, <3>2
    <3> QED
      BY <3>1, <3>2
  <2> QED
    BY <2>2 DEF ExitInv
<1> QED
  BY <1>6, <1>7, <1>8, <1>9 DEF Settling

\* The frames a reader pushes: it goes on reading at the end.
ReaderLabels == {"changed", "connectedError", "authFailed", "disconnect", "errorReply", "read"}

Reading == {f \in Seq(FramesOf(ReaderLabels)) : ReadLast(f)}

\* What Read, RunReader and the handlers push is of that kind.
LEMMA ReadingFrames ==
  ASSUME NEW s \in Sessions
  PROVE  /\ <<Frame("read", s)>> \in Reading
         /\ \A a \in ReaderLabels \ {"read"} : <<Frame(a, s), Frame("read", s)>> \in Reading
         /\ <<Frame("disconnect", s), Frame("errorReply", s), Frame("read", s)>> \in Reading
         /\ \A a \in ReaderLabels \ {"read"}, f \in Reading : <<Frame(a, s)>> \o f \in Reading
<1>0. s \in 0..MaxSessions /\ ReaderLabels \subseteq Labels
  BY SessionThreads DEF ReaderLabels, Labels
<1>1. \A a \in ReaderLabels : Frame(a, s) \in FramesOf(ReaderLabels) /\ Frame(a, s).at = a
  BY <1>0, FrameTyped DEF FramesOf
<1>2. {"read", "disconnect", "errorReply", "changed"} \subseteq ReaderLabels
  BY DEF ReaderLabels
<1>3. <<Frame("read", s)>> \in Reading
  BY <1>1, <1>2 DEF Reading, ReadLast
<1>4. ASSUME NEW a \in ReaderLabels \ {"read"} PROVE <<Frame(a, s), Frame("read", s)>> \in Reading
  BY <1>1, <1>2 DEF Reading, ReadLast
<1>5. <<Frame("disconnect", s), Frame("errorReply", s), Frame("read", s)>> \in Reading
  BY <1>1, <1>2 DEF Reading, ReadLast
<1>6. ASSUME NEW a \in ReaderLabels \ {"read"}, NEW f \in Reading
      PROVE  <<Frame(a, s)>> \o f \in Reading
  <2>1. /\ f \in Seq(FramesOf(ReaderLabels)) /\ f \in Seq(Frames) /\ ReadLast(f)
        /\ Frame(a, s) \in Frames /\ Frame(a, s).at # "read"
    BY <1>0, <1>1, <1>2, LabelsOf, FrameTyped DEF Reading
  <2> PICK x \in Frames : x = Frame(a, s)
    BY <2>1
  <2>2. <<x>> \o f \in Seq(FramesOf(ReaderLabels))
    BY <1>0, <1>2, <2>1, FewFrames
  <2> PICK g : g = <<x>> \o f
    OBVIOUS
  <2>3. Len(g) = 1 + Len(f) /\ g[1] = x /\ (\A i \in 2..Len(g) : g[i] = f[i - 1]) /\ Len(f) \in Nat
    BY <2>1, Fronted
  <2>4. ASSUME NEW i \in 1..Len(g), g[i].at = "read" PROVE i = Len(g)
    <3>1. i # 1
      BY <2>1, <2>3, <2>4
    <3>2. i \in 2..Len(g) /\ i - 1 \in 1..Len(f)
      BY <2>3, <3>1
    <3>3. i - 1 = Len(f)
      BY <2>1, <2>3, <2>4, <3>2 DEF ReadLast
    <3> QED
      BY <2>3, <3>3
  <2> QED
    BY <2>2, <2>4 DEF Reading, ReadLast
<1> QED
  BY <1>3, <1>4, <1>5, <1>6

\* The line a reader takes is gone from the stream; if it was CONNECTED, there will be no other.
LEMMA LineRead ==
  ASSUME TypeOK, LinesInv, NEW s \in Sessions, NEW kind, Read(s, kind)
  PROVE  /\ LinesInv'
         /\ \A r \in Sessions : /\ ConnectedRead(r) => ConnectedRead(r)'
                                /\ process'[r].closed = process[r].closed
                                /\ process'[r].raised = process[r].raised
                                /\ process'[r].status = process[r].status
         /\ kind = "CONNECTED" => ~ConnectedRead(s) /\ ConnectedRead(s)'
<1>0. /\ process' = [process EXCEPT ![s].stream = Tail(@)]
      /\ process[s].stream # <<>> /\ Head(process[s].stream) = kind
  BY Zenon DEF Read
<1>1. process \in [Sessions -> Processes] /\ process[s] \in Processes
  BY DEF TypeOK
<1> PICK q : q = process[s].stream
  OBVIOUS
<1>2. q \in Seq(NotificationKinds) /\ q # <<>> /\ Head(q) = kind
  BY <1>0, <1>1 DEF Processes
<1>3. /\ Tail(q) \in Seq(NotificationKinds) /\ Len(Tail(q)) = Len(q) - 1
      /\ \A i \in 1..Len(Tail(q)) : Tail(q)[i] = q[i + 1]
      /\ Head(q) = q[1] /\ Len(q) \in Nat /\ Len(q) >= 1
  BY <1>2, HeadTailProperties
<1> PICK p : p = Tail(q)
  OBVIOUS
<1>4. ASSUME NEW i \in 1..Len(p) PROVE i + 1 \in 1..Len(q) /\ p[i] = q[i + 1] /\ i + 1 # 1
  BY <1>3
<1>5. ASSUME NEW x \in Processes, NEW y, y = [x EXCEPT !.stream = p]
      PROVE  /\ y.closed = x.closed /\ y.status = x.status /\ y.stream = p
             /\ y.written = x.written /\ y.raised = x.raised
  BY <1>5 DEF Processes
<1>6. ASSUME NEW r \in Sessions
      PROVE  /\ process'[r].closed = process[r].closed /\ process'[r].status = process[r].status
             /\ process'[r].written = process[r].written /\ process'[r].raised = process[r].raised
             /\ process'[r].stream = IF r = s THEN p ELSE process[r].stream
  <2>1. CASE r = s
    <3>1. process'[r] = [process[r] EXCEPT !.stream = p]
      BY <1>0, <1>1, <2>1
    <3> QED
      BY <1>1, <1>5, <2>1, <3>1
  <2>2. CASE r # s
    BY <1>0, <1>1, <2>2
  <2> QED
    BY <2>1, <2>2
<1>7. /\ \A i \in 1..Len(q) : q[i] \in process[s].written /\ \A j \in 1..Len(q) : q[i] = q[j] => i = j
      /\ process'[s].stream = p /\ process'[s].written = process[s].written
  BY <1>6 DEF LinesInv
<1>8. ASSUME NEW r \in Sessions, NEW i \in 1..Len(process'[r].stream)
      PROVE  /\ process'[r].stream[i] \in process'[r].written
             /\ \A j \in 1..Len(process'[r].stream) :
                  process'[r].stream[i] = process'[r].stream[j] => i = j
  <2>1. CASE r = s
    <3>1. i \in 1..Len(p) /\ process'[r].stream = p
      BY <1>7, <1>8, <2>1
    <3>2. p[i] \in process[s].written
      BY <1>4, <1>7, <3>1
    <3>3. ASSUME NEW j \in 1..Len(p), p[i] = p[j] PROVE i = j
      <4>1. i + 1 = j + 1
        BY <1>4, <1>7, <3>1, <3>3
      <4> QED
        BY <3>1, <4>1
    <3> QED
      BY <1>7, <2>1, <3>1, <3>2, <3>3
  <2>2. CASE r # s
    BY <1>6, <1>8, <2>2 DEF LinesInv
  <2> QED
    BY <2>1, <2>2
<1>9. ASSUME NEW r \in Sessions, ConnectedRead(r) PROVE ConnectedRead(r)'
  <2>1. CASE r = s
    <3>1. \A i \in 1..Len(q) : q[i] # "CONNECTED"
      BY <1>9, <2>1 DEF ConnectedRead
    <3>2. \A i \in 1..Len(p) : p[i] # "CONNECTED"
      BY <1>4, <3>1
    <3> QED
      BY <1>7, <1>9, <2>1, <3>2 DEF ConnectedRead
  <2>2. CASE r # s
    BY <1>6, <1>9, <2>2 DEF ConnectedRead
  <2> QED
    BY <2>1, <2>2
<1>10. ASSUME kind = "CONNECTED" PROVE ~ConnectedRead(s) /\ ConnectedRead(s)'
  <2>1. 1 \in 1..Len(q) /\ q[1] = "CONNECTED"
    BY <1>2, <1>3, <1>10
  <2>2. ~ConnectedRead(s)
    BY <2>1 DEF ConnectedRead
  <2>3. "CONNECTED" \in process'[s].written
    BY <1>7, <2>1
  <2>4. \A i \in 1..Len(p) : p[i] # "CONNECTED"
    BY <1>4, <1>7, <2>1
  <2> QED
    BY <1>7, <2>2, <2>3, <2>4 DEF ConnectedRead
<1> QED
  BY <1>6, <1>8, <1>9, <1>10 DEF LinesInv

\* A reader that takes a line keeps the invariant, if only CONNECTED makes a session leave
\* Disconnected or become Connected.
LEMMA ReaderKeeps ==
  ASSUME TypeOK, Settling, NEW s \in Sessions, NEW kind, Read(s, kind),
         NEW f \in Reading, stack' = Pushed(stack, Reader(s), f), lock' = lock,
         \A r \in Sessions :
           /\ sess'[r].stopWasRequested = sess[r].stopWasRequested
           /\ r # s => sess'[r].state = sess[r].state
           /\ sess[r].state = "Disconnected" /\ sess'[r].state # "Disconnected" => kind = "CONNECTED"
           /\ sess'[r].state = "Connected" => sess[r].state = "Connected" \/ kind = "CONNECTED"
  PROVE  Settling'
<1> DEFINE t == Reader(s)
<1>0. /\ t \in Threads /\ stack[t] # <<>> /\ Head(stack[t]).at = "read" /\ session' = session
  BY SessionThreads DEF Read, At
<1>1. /\ LinesInv'
      /\ \A r \in Sessions : /\ ConnectedRead(r) => ConnectedRead(r)'
                             /\ process'[r].closed = process[r].closed
                             /\ process'[r].raised = process[r].raised
                             /\ process'[r].status = process[r].status
      /\ kind = "CONNECTED" => ~ConnectedRead(s) /\ ConnectedRead(s)'
  BY LineRead DEF Settling
<1>2. f \in Seq(Frames) /\ ReadLast(f) /\ \A l : Has(f, l) => l \in ReaderLabels
  BY LabelsOf DEF Reading
<1>3. ~Has(f, "stopRequested") /\ \A l \in BeforeReader : ~Has(f, l)
  BY <1>2 DEF BeforeReader, ReaderLabels
<1> HIDE DEF t
<1>4. stack' = Pushed(stack, t, f)
  BY DEF t
<1>5. process[s].closed = "no"
  BY <1>0 DEF t, Settling, ReadersInv
<1>6. ReadersInv'
  BY <1>0, <1>1, <1>2, <1>3, <1>4, ReadersKept DEF Settling
<1>7. StopInv'
  <2>1. ASSUME NEW r \in Sessions
        PROVE  /\ sess'[r].stopWasRequested = sess[r].stopWasRequested
               /\ sess[r].state = "Disconnected" /\ sess'[r].state # "Disconnected" =>
                    ~sess[r].stopWasRequested
               /\ sess'[r].state = "Connected" => sess[r].state = "Connected" \/ ConnectedRead(r)'
               /\ ConnectedRead(r) => ConnectedRead(r)'
    BY <1>1 DEF Settling, StopInv
  <2> QED
    BY <1>0, <1>2, <1>3, <1>4, <2>1, StopKept DEF Settling
<1>8. ExitInv'
  BY <1>0, <1>1, <1>2, <1>4, <1>5, ExitKept DEF Settling
<1> QED
  BY <1>1, <1>6, <1>7, <1>8 DEF Settling

\* So every step of a reader that takes a line does.
LEMMA LineKeeps ==
  ASSUME TypeOK, Settling, NEW s \in Sessions,
         \/ HandleStateNotification(s) \/ HandleAuthNotification(s) \/ HandleFatalNotification(s)
         \/ HandleLogNotification(s) \/ HandleErrorReply(s)
  PROVE  Settling'
<1> DEFINE t == Reader(s)
<1>0. t \in Threads /\ s \in 0..MaxSessions /\ sess[s] \in SessionRecords
  BY SessionThreads DEF TypeOK
<1>1. ASSUME NEW kind, Read(s, kind), NEW rec \in SessionRecords, NEW f \in Reading,
             SetSession(t, s, rec, f), lock' = lock,
             rec.stopWasRequested = sess[s].stopWasRequested,
             \/ rec.state = "Disconnected" \/ kind = "CONNECTED"
             \/ sess[s].state = "Connected" /\ rec.state # "Connected"
      PROVE  Settling'
  <2>1. stack' = Pushed(stack, t, <<Frame("changed", s)>> \o f) \/ stack' = Pushed(stack, t, f)
    BY <1>1 DEF SetSession, Continue, Pushed
  <2>2. <<Frame("changed", s)>> \o f \in Reading
    BY <1>1, ReadingFrames DEF ReaderLabels
  <2> PICK g \in Reading : stack' = Pushed(stack, t, g)
    BY <1>1, <2>1, <2>2
  <2>3. sess' = [sess EXCEPT ![s] = rec]
    BY <1>1 DEF SetSession
  <2>4. \A r \in Sessions : sess'[r] = IF r = s THEN rec ELSE sess[r]
    <3>1. \A r \in Sessions : r \in 0..MaxSessions
      BY DEF Sessions
    <3> QED
      BY <2>3, <3>1 DEF TypeOK
  <2> QED
    BY <1>1, <2>4, ReaderKeeps
<1>2. ASSUME NEW kind, Read(s, kind), NEW newState \in ConnectionStates, NEW f \in Reading,
             SetState(t, s, newState, f), lock' = lock,
             \/ newState = "Disconnected" \/ kind = "CONNECTED"
             \/ sess[s].state = "Connected" /\ newState # "Connected"
      PROVE  Settling'
  <2>1. ASSUME NEW x \in SessionRecords, NEW y, y = [x EXCEPT !.state = newState]
        PROVE  y \in SessionRecords /\ y.state = newState /\ y.stopWasRequested = x.stopWasRequested
    BY <1>2, <2>1, ZenonT(40) DEF SessionRecords
  <2> PICK rec : rec = [sess[s] EXCEPT !.state = newState]
    OBVIOUS
  <2>2. rec \in SessionRecords /\ rec.state = newState /\ rec.stopWasRequested = sess[s].stopWasRequested
    BY <1>0, <2>1
  <2>3. SetSession(t, s, rec, f)
    BY <1>2 DEF SetState
  <2> QED
    BY <1>1, <1>2, <2>2, <2>3
<1>3. ASSUME NEW kind, Read(s, kind), NEW f \in Reading, Continue(t, f), lock' = lock,
             \A r \in Sessions : /\ sess'[r].stopWasRequested = sess[r].stopWasRequested
                                 /\ sess'[r].state = sess[r].state
      PROVE  Settling'
  <2>1. stack' = Pushed(stack, t, f)
    BY <1>3 DEF Continue, Pushed
  <2> QED
    BY <1>3, <2>1, ReaderKeeps
<1>4. /\ <<Frame("read", s)>> \in Reading
      /\ <<>> \o <<Frame("read", s)>> \in Reading
      /\ <<Frame("connectedError", s)>> \o <<Frame("read", s)>> \in Reading
      /\ <<Frame("authFailed", s), Frame("read", s)>> \in Reading
      /\ <<Frame("disconnect", s), Frame("errorReply", s), Frame("read", s)>> \in Reading
  <2>1. <<>> \o <<Frame("read", s)>> = <<Frame("read", s)>>
    OBVIOUS
  <2>2. "connectedError" \in ReaderLabels \ {"read"}
    BY DEF ReaderLabels
  <2> QED
    BY <2>1, <2>2, ReadingFrames DEF ReaderLabels
<1>s. {"Connected", "Disconnected", "Connecting", "Disconnecting"} \subseteq ConnectionStates
  BY DEF ConnectionStates
<1> HIDE DEF t
<1>5. CASE HandleStateNotification(s)
  <2>0. lock' = lock
    BY <1>5 DEF HandleStateNotification
  <2>1. \/ Read(s, "CONNECTED") /\ SetState(t, s, "Connected", <<>> \o <<Frame("read", s)>>)
        \/ /\ Read(s, "CONNECTED_ERROR")
           /\ SetState(t, s, "Disconnected", <<Frame("connectedError", s)>> \o <<Frame("read", s)>>)
        \/ /\ Read(s, "RECONNECTING") /\ sess[s].state = "Connected"
           /\ SetState(t, s, "Connecting", <<>> \o <<Frame("read", s)>>)
        \/ /\ Read(s, "EXITING") /\ sess[s].state = "Connected"
           /\ SetState(t, s, "Disconnecting", <<>> \o <<Frame("read", s)>>)
        \/ /\ Read(s, "RECONNECTING") \/ Read(s, "EXITING")
           /\ Continue(t, <<Frame("read", s)>>) /\ UNCHANGED <<sess, note>>
    BY <1>5, Zenon DEF HandleStateNotification, t
  <2>2. CASE Read(s, "CONNECTED") /\ SetState(t, s, "Connected", <<>> \o <<Frame("read", s)>>)
    BY <1>2, <1>4, <1>s, <2>0, <2>2
  <2>3. CASE /\ Read(s, "CONNECTED_ERROR")
             /\ SetState(t, s, "Disconnected", <<Frame("connectedError", s)>> \o <<Frame("read", s)>>)
    BY <1>2, <1>4, <1>s, <2>0, <2>3
  <2>4. CASE /\ Read(s, "RECONNECTING") /\ sess[s].state = "Connected"
             /\ SetState(t, s, "Connecting", <<>> \o <<Frame("read", s)>>)
    BY <1>2, <1>4, <1>s, <2>0, <2>4
  <2>5. CASE /\ Read(s, "EXITING") /\ sess[s].state = "Connected"
             /\ SetState(t, s, "Disconnecting", <<>> \o <<Frame("read", s)>>)
    BY <1>2, <1>4, <1>s, <2>0, <2>5
  <2>6. CASE /\ Read(s, "RECONNECTING") \/ Read(s, "EXITING")
             /\ Continue(t, <<Frame("read", s)>>) /\ UNCHANGED <<sess, note>>
    BY <1>3, <1>4, <2>0, <2>6
  <2> QED
    BY <2>1, <2>2, <2>3, <2>4, <2>5, <2>6
<1>6. CASE HandleAuthNotification(s)
  <2>1. /\ Read(s, "AUTH_FAILED") /\ lock' = lock
        /\ SetState(t, s, "Disconnected", <<Frame("authFailed", s), Frame("read", s)>>)
    BY <1>6, Zenon DEF HandleAuthNotification, t
  <2> QED
    BY <1>2, <1>4, <1>s, <2>1
<1>7. CASE HandleFatalNotification(s)
  <2>1. PICK error \in {"Fatal", "DnsError"} :
          SetSession(t, s, [sess[s] EXCEPT !.state = "Disconnected", !.lastError = error],
                     <<Frame("read", s)>>)
    BY <1>7, Zenon DEF HandleFatalNotification, t
  <2>2. Read(s, "FATAL") /\ lock' = lock /\ error \in ErrorTypes
    BY <1>7 DEF HandleFatalNotification, ErrorTypes
  <2>3. ASSUME NEW x \in SessionRecords, NEW y,
               y = [x EXCEPT !.state = "Disconnected", !.lastError = error]
        PROVE  y \in SessionRecords /\ y.state = "Disconnected" /\ y.stopWasRequested = x.stopWasRequested
    BY <1>s, <2>2, <2>3, ZenonT(40) DEF SessionRecords
  <2> PICK rec : rec = [sess[s] EXCEPT !.state = "Disconnected", !.lastError = error]
    OBVIOUS
  <2>4. /\ rec \in SessionRecords /\ rec.state = "Disconnected"
        /\ rec.stopWasRequested = sess[s].stopWasRequested
    BY <1>0, <2>3
  <2> QED
    BY <1>1, <1>4, <2>1, <2>2, <2>4
<1>8. CASE HandleLogNotification(s)
  <2>1. /\ \E kind : Read(s, kind) /\ \E error : sess' = [sess EXCEPT ![s].lastError = error]
        /\ Continue(t, <<Frame("read", s)>>) /\ lock' = lock
    BY <1>8, Zenon DEF HandleLogNotification, t
  <2>2. PICK kind, error : Read(s, kind) /\ sess' = [sess EXCEPT ![s].lastError = error]
    BY <2>1
  <2>3. \A r \in Sessions : /\ sess'[r].stopWasRequested = sess[r].stopWasRequested
                            /\ sess'[r].state = sess[r].state
    BY <1>0, <2>2 DEF TypeOK, SessionRecords, Sessions
  <2> QED
    BY <1>3, <1>4, <2>1, <2>2, <2>3
<1>9. CASE HandleErrorReply(s)
  <2>1. /\ Read(s, "ERROR_REPLY") /\ lock' = lock /\ sess' = sess
        /\ Continue(t, <<Frame("disconnect", s), Frame("errorReply", s), Frame("read", s)>>)
    BY <1>9, Zenon DEF HandleErrorReply, t
  <2> QED
    BY <1>3, <1>4, <2>1
<1> QED
  BY <1>5, <1>6, <1>7, <1>8, <1>9

\* What else a reader does.
LEMMA ReaderRestKeeps ==
  ASSUME TypeOK, Settling, NEW s \in Sessions, ErrorReply(s) \/ RecordError(s) \/ ReaderEnds(s)
  PROVE  Settling'
<1> USE DEF At
<1> DEFINE t == Reader(s)
<1>0. t \in Threads /\ s \in 0..MaxSessions /\ 0 \in 0..MaxSessions
  BY SessionThreads, BoundsAssumption
<1>l. /\ {"invoke"} \subseteq Labels /\ {"invoke"} \cap BeforeReader = {}
      /\ {"read", "stopRequested", "disconnect", "errorReply"} \cap {"invoke"} = {}
      /\ {"sessionDisconnect", "failed"} \cap {"invoke"} = {}
  BY DEF Labels, BeforeReader
<1>f. /\ <<>> \in Seq(FramesOf({"invoke"}))
      /\ <<Frame("invoke", 0)>> \o <<>> \in Seq(FramesOf({"invoke"}))
  BY <1>0, <1>l, FewFrames
<1>1. CASE ErrorReply(s)
  <2>1. /\ stack[t] # <<>> /\ Head(stack[t]).at = "errorReply"
        /\ session' = session /\ lock' = lock /\ process' = process /\ sess' = sess
    BY <1>1, Zenon DEF ErrorReply, sessionVars, systemVars
  <2>2. stack' = Pushed(stack, t, <<Frame("invoke", 0)>> \o <<>>)
    BY <1>1, Zenon DEF ErrorReply, NotifyError, Continue, Pushed
  <2>3. Steady(t)
    BY <1>l, <1>f, <2>1, <2>2 DEF Steady
  <2> QED
    BY <1>0, <2>3, SteadyKeeps
<1>2. CASE RecordError(s)
  <2>1. PICK cause \in {<<"connectedError", "ConnectedError">>, <<"authFailed", "GeneralError">>} :
          /\ At(t, cause[1])
          /\ sess' = [sess EXCEPT ![s].lastError = cause[2]]
    BY <1>2 DEF RecordError
  <2>2. stack[t] # <<>> /\ Head(stack[t]).at \in {"connectedError", "authFailed"}
    BY <2>1
  <2>3. session' = session /\ lock' = lock /\ process' = process
    BY <1>2, Zenon DEF RecordError, systemVars
  <2>4. stack' = Pushed(stack, t, <<>>)
    BY <1>2, Zenon DEF RecordError, Continue, Pushed
  <2>5. \A r \in Sessions \cup {0} : /\ sess'[r].stopWasRequested = sess[r].stopWasRequested
                                    /\ sess'[r].state = sess[r].state
    <3>1. \A r \in Sessions \cup {0} : r \in 0..MaxSessions
      BY <1>0 DEF Sessions
    <3> PICK x : x = cause[2]
      OBVIOUS
    <3>2. sess' = [sess EXCEPT ![s].lastError = x]
      BY <2>1
    <3> QED
      BY <1>0, <3>1, <3>2 DEF TypeOK, SessionRecords
  <2>6. Steady(t)
    BY <1>l, <1>f, <2>2, <2>3, <2>4, <2>5 DEF Steady
  <2> QED
    BY <1>0, <2>6, SteadyKeeps
<1>3. CASE ReaderEnds(s)
  <2>1. /\ stack[t] # <<>> /\ Head(stack[t]).at = "read"
        /\ session' = session /\ lock' = lock /\ sess' = sess
    BY <1>3, Zenon DEF ReaderEnds, sessionVars
  <2> PICK e : e = <<>>
    OBVIOUS
  <2>2. e \in Seq(Frames) /\ \A l : ~Has(e, l)
    BY DEF Has
  <2>3. stack' = Pushed(stack, t, e)
    BY <1>3, Zenon DEF ReaderEnds, Continue, Pushed
  <2>4. PICK x \in {"yes", "never"} : process' = [process EXCEPT ![s].closed = x]
    BY <1>3, Zenon DEF ReaderEnds
  <2>5. ASSUME NEW p \in Processes, NEW y, y = [p EXCEPT !.closed = x]
        PROVE  /\ y.stream = p.stream /\ y.status = p.status /\ y.raised = p.raised
               /\ y.written = p.written /\ y.closed = x
    BY <2>5 DEF Processes
  <2>6. ASSUME NEW r \in Sessions
        PROVE  /\ process'[r].stream = process[r].stream /\ process'[r].status = process[r].status
               /\ process'[r].raised = process[r].raised /\ process'[r].written = process[r].written
               /\ process'[r].closed = IF r = s THEN x ELSE process[r].closed
    <3>1. process \in [Sessions -> Processes] /\ process[r] \in Processes
      BY DEF TypeOK
    <3>2. CASE r = s
      <4>1. process'[r] = [process[r] EXCEPT !.closed = x]
        BY <2>4, <3>1, <3>2
      <4> QED
        BY <2>5, <3>1, <3>2, <4>1
    <3>3. CASE r # s
      BY <2>4, <3>1, <3>3
    <3> QED
      BY <3>2, <3>3
  <2>7. LinesInv' /\ \A r \in Sessions : ConnectedRead(r) => ConnectedRead(r)'
    BY <2>6, LinesKept DEF Settling
  <2>8. process[s].closed = "no"
    BY <2>1 DEF Settling, ReadersInv
  <2>9. /\ \A u \in Threads : u # t => stack'[u] = stack[u]
        /\ \A l : Has(stack'[t], l) => Has(stack[t], l)
        /\ stack'[t] = e
    BY <1>0, <2>1, <2>2, <2>3, Stepped DEF Settling, ReadersInv
  <2>10. ReadersInv'
    <3>1. ASSUME NEW r \in Sessions
          PROVE  /\ r > session' => Unstarted(r)' /\ process'[r].status = "none" /\ process'[r].raised = "no"
                 /\ process'[r].closed # "no" => stack'[Reader(r)] = <<>>
                 /\ process'[r].status = "none" => process'[r].raised = "no"
                 /\ process'[r].raised = "no" => stack'[ExitThread(r)] = <<>>
                 /\ ReadLast(stack'[Reader(r)])
      <4>1. Reader(r) \in Threads /\ ExitThread(r) \in Threads /\ (r # s => Reader(r) # t)
        BY SessionThreads DEF Reader
      <4>2. stack[ExitThread(r)] = <<>> => stack'[ExitThread(r)] = <<>>
        BY <2>9, <4>1
      <4>3. ReadLast(e)
        BY DEF ReadLast
      <4>4. stack'[Reader(r)] = <<>> \/ (r # s /\ stack'[Reader(r)] = stack[Reader(r)])
        BY <2>9, <4>1
      <4>5. r > session => Unstarted(r)
        BY DEF Settling, ReadersInv
      <4>6. r > session => r # s
        BY <2>1, <4>5 DEF Unstarted
      <4>7. ReadLast(stack'[Reader(r)])
        BY <4>3, <4>4 DEF Settling, ReadersInv
      <4> QED
        BY <2>1, <2>6, <4>2, <4>4, <4>5, <4>6, <4>7 DEF Settling, ReadersInv, Unstarted
    <3>2. Starting' => Starting
      BY <2>9 DEF Starting
    <3>3. ASSUME Starting' PROVE session' \in Sessions /\ Unstarted(session)'
      <4>1. session \in Sessions /\ Unstarted(session)
        BY <3>2, <3>3 DEF Settling, ReadersInv
      <4>2. session # s /\ Reader(session) \in Threads /\ Reader(session) # t
        BY <2>1, <4>1, SessionThreads DEF Unstarted, Reader
      <4> QED
        BY <2>1, <2>6, <2>9, <4>1, <4>2 DEF Unstarted
    <3> QED
      BY <3>1, <3>3 DEF ReadersInv
  <2>11. StopInv'
    BY <1>0, <2>1, <2>2, <2>3, <2>7, StopKept DEF Settling
  <2>12. ExitInv'
    BY <1>0, <2>1, <2>2, <2>3, <2>6, <2>8, ExitKept DEF Settling
  <2> QED
    BY <2>7, <2>10, <2>11, <2>12 DEF Settling
<1> QED
  BY <1>1, <1>2, <1>3

\* A thread that was idle is given a call, a reconnect or an exit.
LEMMA GivenKeeps ==
  ASSUME TypeOK, Settling, NEW t \in Threads, stack[t] = <<>>, \A s \in Sessions : t # Reader(s),
         NEW q \in Seq(Frames), stack' = [stack EXCEPT ![t] = q],
         \A l : Has(q, l) => l \in {"connect", "disconnect", "switchOff", "quit", "exited"},
         session' = session, sess' = sess, lock' = lock,
         \A s \in Sessions :
           /\ process'[s].closed = process[s].closed /\ process'[s].status = process[s].status
           /\ process'[s].stream = process[s].stream /\ process'[s].written = process[s].written
           /\ process'[s].raised = "no" => process[s].raised = "no" /\ t # ExitThread(s)
           /\ process[s].status = "none" => process'[s].raised = process[s].raised
           /\ process'[s].raised = "heard" => process[s].raised = "heard" \/ Exits(q, s)
  PROVE  Settling'
<1>1. LinesInv' /\ \A s \in Sessions : ConnectedRead(s) => ConnectedRead(s)'
  BY LinesKept DEF Settling
<1>2. stack'[t] = q /\ \A u \in Threads : u # t => stack'[u] = stack[u]
  BY DEF TypeOK
<1>3. /\ ~Has(q, "stopRequested") /\ Followed(q) /\ \A l \in BeforeReader : ~Has(q, l)
      /\ \A l : ~Has(stack[t], l)
      /\ \A s : ~Exits(stack[t], s)
  <2>1. Len(stack[t]) = 0
    OBVIOUS
  <2>2. ~Has(q, "stopRequested") /\ \A l \in BeforeReader : ~Has(q, l)
    BY DEF BeforeReader
  <2>3. Followed(q)
    BY <2>2 DEF Followed, Has
  <2>4. (\A l : ~Has(stack[t], l)) /\ \A s : ~Exits(stack[t], s)
    BY <2>1 DEF Has, Exits
  <2> QED
    BY <2>2, <2>3, <2>4
<1>4. ReadersInv'
  <2>1. ASSUME NEW s \in Sessions
        PROVE  /\ s > session' => Unstarted(s)' /\ process'[s].status = "none" /\ process'[s].raised = "no"
               /\ Unstarted(s) => Unstarted(s)'
               /\ process'[s].closed # "no" => stack'[Reader(s)] = <<>>
               /\ process'[s].status = "none" => process'[s].raised = "no"
               /\ process'[s].raised = "no" => stack'[ExitThread(s)] = <<>>
               /\ ReadLast(stack'[Reader(s)])
    <3>1. /\ Reader(s) \in Threads /\ ExitThread(s) \in Threads
          /\ stack'[Reader(s)] = stack[Reader(s)]
      BY <1>2, SessionThreads
    <3>2. process'[s].raised = "no" => stack'[ExitThread(s)] = stack[ExitThread(s)]
      BY <1>2, <3>1
    <3> QED
      BY <3>1, <3>2 DEF Settling, ReadersInv, Unstarted
  <2>2. Starting' => Starting
    BY <1>2, <1>3 DEF Starting
  <2>3. ASSUME Starting' PROVE session' \in Sessions /\ Unstarted(session)'
    <3>1. session \in Sessions /\ Unstarted(session)
      BY <2>2, <2>3 DEF Settling, ReadersInv
    <3> PICK s \in Sessions : s = session
      BY <3>1
    <3>2. Unstarted(s)'
      BY <2>1, <3>1
    <3> QED
      BY <3>1, <3>2 DEF Unstarted
  <2> QED
    BY <2>1, <2>3 DEF ReadersInv
<1>5. StopInv'
  <2>1. \A u \in Threads : /\ Followed(stack'[u])
                           /\ Has(stack'[u], "stopRequested") => Has(stack[u], "stopRequested")
                           /\ Has(stack[u], "sessionDisconnect") => Has(stack'[u], "sessionDisconnect")
    BY <1>2, <1>3 DEF Settling, StopInv
  <2>2. session \in Sessions /\ ConnectedRead(session) => ConnectedRead(session)'
    <3> SUFFICES ASSUME session \in Sessions, ConnectedRead(session) PROVE ConnectedRead(session)'
      OBVIOUS
    <3> PICK s \in Sessions : s = session
      OBVIOUS
    <3>1. ConnectedRead(s)'
      BY <1>1
    <3> QED
      BY <3>1 DEF ConnectedRead
  <2>3. \A u \in Threads : Has(stack'[u], "stopRequested") /\ session' \in Sessions => ConnectedRead(session)'
    BY <2>1, <2>2 DEF Settling, StopInv
  <2>4. \A s \in Sessions :
          /\ s > session' => ~sess'[s].stopWasRequested
          /\ sess'[s].stopWasRequested \/ sess'[s].state = "Connected" => ConnectedRead(s)'
          /\ sess'[s].stopWasRequested /\ sess'[s].state # "Disconnected" =>
               s = session' /\ lock' \in Threads /\ Has(stack'[lock'], "sessionDisconnect")
    BY <1>1, <2>1 DEF Settling, StopInv
  <2> QED
    BY <2>1, <2>3, <2>4 DEF StopInv
<1>6. ExitInv'
  <2>1. \A u \in Threads, s \in Sessions : Exits(stack[u], s) => Exits(stack'[u], s)
    BY <1>2, <1>3
  <2>2. ASSUME NEW s \in Sessions, process'[s].raised = "heard", ~sess'[s].stopWasRequested
        PROVE  \/ \E u \in Threads : Exits(stack'[u], s)
               \/ sess'[s].state = "Disconnected" /\ process'[s].closed = "yes"
    <3>1. CASE Exits(q, s)
      BY <1>2, <3>1
    <3>2. CASE process[s].raised = "heard"
      BY <2>1, <2>2, <3>2 DEF Settling, ExitInv
    <3> QED
      BY <2>2, <3>1, <3>2
  <2> QED
    BY <2>2 DEF ExitInv
<1> QED
  BY <1>1, <1>4, <1>5, <1>6 DEF Settling

\* So do the calls, the queued reconnects and the exits the pool raises.
LEMMA CallsKeep ==
  ASSUME TypeOK, Settling,
         \/ \E w \in Workers : Client(w) \/ RunReconnect(w)
         \/ \E s \in Sessions : RaiseExited(s)
  PROVE  Settling'
<1>0. 0 \in 0..MaxSessions
  BY BoundsAssumption
<1>1. ASSUME NEW w \in Workers, Client(w) \/ RunReconnect(w) PROVE Settling'
  <2>1. /\ w \in Threads /\ \A s \in Sessions : w # Reader(s) /\ w # ExitThread(s)
    BY <1>1, ThreadsAssumption DEF Threads
  <2>2. /\ stack[w] = <<>> /\ session' = session /\ sess' = sess /\ lock' = lock /\ process' = process
        /\ \/ stack' = [stack EXCEPT ![w] = <<>>]
           \/ stack' = [stack EXCEPT ![w] = <<Frame("connect", 0)>>]
           \/ stack' = [stack EXCEPT ![w] = <<Frame("disconnect", 0)>>]
           \/ stack' = [stack EXCEPT ![w] = <<Frame("switchOff", 0)>>]
           \/ stack' = [stack EXCEPT ![w] = <<Frame("disconnect", 0), Frame("quit", 0)>>]
    BY <1>1 DEF Client, CallConnect, CallDisconnect, CallToggleKillSwitch, CallUnblockTraffic,
         CallStop, RunReconnect, Call, Idle, sessionVars, systemVars
  <2> DEFINE first == {"connect", "disconnect", "switchOff", "quit"}
  <2>3. PICK q \in Seq(FramesOf(first)) : stack' = [stack EXCEPT ![w] = q]
    <3>1. first \subseteq Labels
      BY DEF Labels
    <3>2. /\ <<>> \in Seq(FramesOf(first))
          /\ <<Frame("connect", 0)>> \in Seq(FramesOf(first))
          /\ <<Frame("disconnect", 0)>> \in Seq(FramesOf(first))
          /\ <<Frame("switchOff", 0)>> \in Seq(FramesOf(first))
          /\ <<Frame("disconnect", 0), Frame("quit", 0)>> \in Seq(FramesOf(first))
      BY <1>0, <3>1, FewFrames
    <3> QED
      BY <2>2, <3>2
  <2>4. q \in Seq(Frames) /\ \A l : Has(q, l) => l \in first
    BY LabelsOf
  <2> QED
    BY <2>1, <2>2, <2>3, <2>4, GivenKeeps DEF Settling, ReadersInv
<1>2. ASSUME NEW s \in Sessions, RaiseExited(s) PROVE Settling'
  <2> DEFINE t == ExitThread(s)
  <2> DEFINE frames == IF Heard(s) = "heard" THEN <<Frame("exited", s)>> ELSE <<>>
  <2>1. t \in Threads /\ s \in 0..MaxSessions /\ \A r \in Sessions : t # Reader(r) /\ (r # s => t # ExitThread(r))
    BY SessionThreads DEF Reader, ExitThread
  <2>2. /\ process[s].status = "exited" /\ process[s].raised = "no"
        /\ process' = [process EXCEPT ![s].raised = Heard(s)]
        /\ stack' = [stack EXCEPT ![t] = frames]
        /\ session' = session /\ sess' = sess /\ lock' = lock
    BY <1>2, Zenon DEF RaiseExited, sessionVars
  <2>3. frames \in Seq(FramesOf({"exited"}))
    BY <2>1, FewFrames DEF Labels
  <2>f. PICK q \in Seq(FramesOf({"exited"})) : q = frames
    BY <2>3
  <2>4. q \in Seq(Frames) /\ \A l : Has(q, l) => l \in {"exited"}
    <3>1. q \in Seq(FramesOf({"exited"}))
      BY <2>f
    <3> QED
      BY <3>1, LabelsOf
  <2>5. Heard(s) = "heard" => Exits(q, s)
    <3> SUFFICES ASSUME Heard(s) = "heard" PROVE Exits(q, s)
      OBVIOUS
    <3>1. q = <<Frame("exited", s)>>
      BY <2>f
    <3>2. Len(q) = 1 /\ q[1] = Frame("exited", s)
      BY <3>1
    <3> QED
      BY <3>2 DEF Exits
  <2>6. stack' = [stack EXCEPT ![t] = q]
    BY <2>2, <2>f
  <2> HIDE DEF frames, t
  <2>7. ASSUME NEW x \in Processes, NEW y, y = [x EXCEPT !.raised = Heard(s)]
        PROVE  /\ y.closed = x.closed /\ y.status = x.status /\ y.stream = x.stream
               /\ y.written = x.written /\ y.raised = Heard(s)
    BY <2>7 DEF Processes
  <2>8. ASSUME NEW r \in Sessions
        PROVE  /\ process'[r].closed = process[r].closed /\ process'[r].status = process[r].status
               /\ process'[r].stream = process[r].stream /\ process'[r].written = process[r].written
               /\ process'[r].raised = IF r = s THEN Heard(s) ELSE process[r].raised
    <3>1. process \in [Sessions -> Processes] /\ process[r] \in Processes
      BY DEF TypeOK
    <3>2. CASE r = s
      <4>1. process'[r] = [process[r] EXCEPT !.raised = Heard(s)]
        BY <2>2, <3>1, <3>2
      <4> QED
        BY <2>7, <3>1, <3>2, <4>1
    <3>3. CASE r # s
      BY <2>2, <3>1, <3>3
    <3> QED
      BY <3>2, <3>3
  <2>9. stack[t] = <<>>
    BY <2>2 DEF t, Settling, ReadersInv
  <2>10. ASSUME NEW r \in Sessions
         PROVE  /\ process'[r].raised = "no" => process[r].raised = "no" /\ t # ExitThread(r)
                /\ process[r].status = "none" => process'[r].raised = process[r].raised
                /\ process'[r].raised = "heard" => process[r].raised = "heard" \/ Exits(q, r)
    BY <2>1, <2>2, <2>5, <2>8 DEF Heard
  <2>11. \A l : Has(q, l) => l \in {"connect", "disconnect", "switchOff", "quit", "exited"}
    BY <2>4
  <2>12. \A r \in Sessions :
           /\ process'[r].closed = process[r].closed /\ process'[r].status = process[r].status
           /\ process'[r].stream = process[r].stream /\ process'[r].written = process[r].written
           /\ process'[r].raised = "no" => process[r].raised = "no" /\ t # ExitThread(r)
           /\ process[r].status = "none" => process'[r].raised = process[r].raised
           /\ process'[r].raised = "heard" => process[r].raised = "heard" \/ Exits(q, r)
    BY <2>8, <2>10
  <2>13. \A r \in Sessions : t # Reader(r)
    BY <2>1
  <2>14. t \in Threads /\ session' = session /\ sess' = sess /\ lock' = lock
    BY <2>1, <2>2
  <2>15. q \in Seq(Frames)
    BY <2>4
  <2> QED
    BY <2>6, <2>9, <2>11, <2>12, <2>13, <2>14, <2>15, GivenKeeps
<1> QED
  BY <1>1, <1>2

\* So does whatever leaves the threads and the sessions alone: what a process writes, and its end.
LEMMA ProcessKeeps ==
  ASSUME TypeOK, Settling, UNCHANGED <<stack, session, sess, lock>>,
         \/ \E s \in Sessions : Write(s) \/ Exit(s)
         \/ UNCHANGED process
  PROVE  Settling'
<1>1. ASSUME LinesInv', \A s \in Sessions : ConnectedRead(s) => ConnectedRead(s)',
             \A s \in Sessions :
               /\ process'[s].closed = process[s].closed /\ process'[s].raised = process[s].raised
               /\ process'[s].status = process[s].status \/ (process[s].status = "running"
                                                             /\ process'[s].status = "exited")
      PROVE  Settling'
  <2>1. ReadersInv'
    BY <1>1 DEF Settling, ReadersInv, Starting, Unstarted
  <2>2. StopInv'
    <3>1. session \in Sessions /\ ConnectedRead(session) => ConnectedRead(session)'
      <4> SUFFICES ASSUME session \in Sessions, ConnectedRead(session) PROVE ConnectedRead(session)'
        OBVIOUS
      <4> PICK s \in Sessions : s = session
        OBVIOUS
      <4>1. ConnectedRead(s)'
        BY <1>1
      <4> QED
        BY <4>1 DEF ConnectedRead
    <3> QED
      BY <1>1, <3>1 DEF Settling, StopInv
  <2>3. ExitInv'
    BY <1>1 DEF Settling, ExitInv
  <2> QED
    BY <1>1, <2>1, <2>2, <2>3 DEF Settling
<1>2. ASSUME NEW s \in Sessions, Exit(s) PROVE Settling'
  <2>1. process' = [process EXCEPT ![s].status = "exited"] /\ process[s].status = "running"
    BY <1>2, Zenon DEF Exit
  <2>2. ASSUME NEW r \in Sessions
        PROVE  /\ process'[r].closed = process[r].closed /\ process'[r].raised = process[r].raised
               /\ process'[r].stream = process[r].stream /\ process'[r].written = process[r].written
               /\ process'[r].status = IF r = s THEN "exited" ELSE process[r].status
    BY <2>1 DEF TypeOK, Processes
  <2>3. LinesInv' /\ \A r \in Sessions : ConnectedRead(r) => ConnectedRead(r)'
    BY <2>2, LinesKept DEF Settling
  <2> QED
    BY <1>1, <2>1, <2>2, <2>3
<1>3. ASSUME NEW s \in Sessions, Write(s) PROVE Settling'
  <2>1. PICK kind \in Notifications :
          /\ kind \notin process[s].written
          /\ process' = [process EXCEPT ![s].stream = Append(@, kind), ![s].written = @ \cup {kind}]
    BY <1>3 DEF Write, MayWrite
  <2> PICK q : q = process[s].stream
    OBVIOUS
  <2> PICK p : p = Append(q, kind)
    OBVIOUS
  <2>2. q \in Seq(NotificationKinds) /\ kind \in NotificationKinds /\ process \in [Sessions -> Processes]
    BY InputsAssumption DEF TypeOK, Processes
  <2>3. /\ Len(p) = Len(q) + 1 /\ Len(q) \in Nat /\ p[Len(q) + 1] = kind
        /\ \A i \in 1..Len(q) : p[i] = q[i]
    BY <2>2
  <2>4. ASSUME NEW x \in Processes, NEW y, x.stream = q,
               y = [x EXCEPT !.stream = Append(@, kind), !.written = @ \cup {kind}]
        PROVE  /\ y.closed = x.closed /\ y.status = x.status /\ y.raised = x.raised
               /\ y.stream = p /\ y.written = x.written \cup {kind}
    BY <2>4 DEF Processes
  <2>5. ASSUME NEW r \in Sessions
        PROVE  /\ process'[r].closed = process[r].closed /\ process'[r].raised = process[r].raised
               /\ process'[r].status = process[r].status
               /\ r # s => process'[r] = process[r]
               /\ r = s => process'[r].stream = p /\ process'[r].written = process[r].written \cup {kind}
    <3>1. process[r] \in Processes
      BY <2>2
    <3>2. CASE r = s
      <4>1. process'[r] = [process[r] EXCEPT !.stream = Append(@, kind), !.written = @ \cup {kind}]
        BY <2>1, <2>2, <3>2
      <4> QED
        BY <2>4, <3>1, <3>2, <4>1
    <3>3. CASE r # s
      BY <2>1, <2>2, <3>3
    <3> QED
      BY <3>2, <3>3
  <2>6. \A i \in 1..Len(q) : q[i] \in process[s].written /\ \A j \in 1..Len(q) : q[i] = q[j] => i = j
    BY DEF Settling, LinesInv
  <2>7. \A i \in 1..Len(p) : (i \in 1..Len(q) /\ p[i] = q[i]) \/ (i = Len(q) + 1 /\ p[i] = kind)
    BY <2>3
  <2>8. LinesInv'
    <3>1. ASSUME NEW r \in Sessions, NEW i \in 1..Len(process'[r].stream)
          PROVE  /\ process'[r].stream[i] \in process'[r].written
                 /\ \A j \in 1..Len(process'[r].stream) :
                      process'[r].stream[i] = process'[r].stream[j] => i = j
      <4>1. CASE r = s
        <5>1. i \in 1..Len(p) /\ process'[r].stream = p
          BY <2>5, <3>1, <4>1
        <5>2. p[i] \in process[s].written \cup {kind}
          BY <2>6, <2>7, <5>1
        <5>3. \A j \in 1..Len(p) : p[i] = p[j] => i = j
          BY <2>1, <2>6, <2>7, <5>1
        <5> QED
          BY <2>5, <4>1, <5>1, <5>2, <5>3
      <4>2. CASE r # s
        BY <2>5, <3>1, <4>2 DEF Settling, LinesInv
      <4> QED
        BY <4>1, <4>2
    <3> QED
      BY <3>1 DEF LinesInv
  <2>9. ASSUME NEW r \in Sessions, ConnectedRead(r) PROVE ConnectedRead(r)'
    <3>1. CASE r = s
      <4>1. "CONNECTED" \in process[s].written /\ \A i \in 1..Len(q) : q[i] # "CONNECTED"
        BY <2>9, <3>1 DEF ConnectedRead
      <4>2. \A i \in 1..Len(p) : p[i] # "CONNECTED"
        BY <2>1, <2>7, <4>1
      <4> QED
        BY <2>5, <3>1, <4>1, <4>2 DEF ConnectedRead
    <3>2. CASE r # s
      BY <2>5, <2>9, <3>2 DEF ConnectedRead
    <3> QED
      BY <3>1, <3>2
  <2> QED
    BY <1>1, <2>5, <2>8, <2>9
<1>4. CASE UNCHANGED process
  <2>1. LinesInv' /\ \A r \in Sessions : ConnectedRead(r) => ConnectedRead(r)'
    BY <1>4, LinesKept DEF Settling
  <2> QED
    BY <1>1, <1>4, <2>1
<1> QED
  BY <1>2, <1>3, <1>4

\* So does a new service: it has no thread, and every session it knows is Disconnected.
LEMMA RestartSettles ==
  ASSUME TypeOK, Settling, Restart
  PROVE  Settling'
<1>1. /\ session' = session /\ lock' = NoThread
      /\ \A t \in Threads : stack'[t] = <<>>
      /\ \A s \in Sessions : sess'[s].state = "Disconnected" /\ ~sess'[s].stopWasRequested
  <2>1. \A s \in Sessions : s \in 0..MaxSessions
    BY DEF Sessions
  <2> QED
    BY <2>1 DEF Restart, NewSession
<1>2. process' = [s \in Sessions |-> IF process[s].status = "none" THEN process[s]
                                     ELSE [process[s] EXCEPT !.raised = "unheard", !.stream = <<>>]]
  BY Zenon DEF Restart
<1>3. ASSUME NEW x \in Processes, NEW y, y = [x EXCEPT !.raised = "unheard", !.stream = <<>>]
      PROVE  /\ y.closed = x.closed /\ y.status = x.status /\ y.raised = "unheard"
             /\ y.stream = <<>> /\ y.written = x.written
  BY <1>3 DEF Processes
<1>4. ASSUME NEW s \in Sessions
      PROVE  /\ process[s].status = "none" => process'[s] = process[s]
             /\ process[s].status # "none" =>
                  /\ process'[s].closed = process[s].closed /\ process'[s].status = process[s].status
                  /\ process'[s].raised = "unheard" /\ process'[s].stream = <<>>
                  /\ process'[s].written = process[s].written
  <2>1. process[s] \in Processes
    BY DEF TypeOK
  <2>2. CASE process[s].status = "none"
    BY <1>2, <2>2
  <2>3. CASE process[s].status # "none"
    <3>1. process'[s] = [process[s] EXCEPT !.raised = "unheard", !.stream = <<>>]
      BY <1>2, <2>3
    <3> QED
      BY <1>3, <2>1, <2>3, <3>1
  <2> QED
    BY <2>2, <2>3
<1>5. \A t \in Threads : Len(stack'[t]) = 0
  BY <1>1
<1>6. ASSUME NEW t \in Threads
      PROVE  /\ \A l : ~Has(stack'[t], l)
             /\ ReadLast(stack'[t]) /\ Followed(stack'[t])
  BY <1>5 DEF Has, ReadLast, Followed
<1>7. LinesInv'
  <2>1. ASSUME NEW s \in Sessions, NEW i \in 1..Len(process'[s].stream)
        PROVE  process[s].status = "none"
    <3>1. process'[s].stream = <<>> => Len(process'[s].stream) = 0
      OBVIOUS
    <3> QED
      BY <1>4, <2>1, <3>1
  <2> QED
    BY <1>4, <2>1 DEF Settling, LinesInv
<1>8. ReadersInv'
  <2>1. ASSUME NEW s \in Sessions
        PROVE  Reader(s) \in Threads /\ ExitThread(s) \in Threads
    BY SessionThreads
  <2>2. \A s \in Sessions : /\ process'[s].closed = process[s].closed
                            /\ process'[s].status = process[s].status
                            /\ process'[s].raised = "no" => process[s].raised = "no"
                            /\ process[s].status = "none" => process'[s].raised = process[s].raised
    BY <1>4
  <2>3. ~Starting'
    BY <1>6 DEF Starting
  <2> QED
    BY <1>1, <1>6, <2>1, <2>2, <2>3 DEF Settling, ReadersInv, Unstarted
<1>9. StopInv'
  BY <1>1, <1>6 DEF StopInv
<1>10. ExitInv'
  <2>1. \A s \in Sessions : process'[s].raised # "heard"
    BY <1>4 DEF Settling, ReadersInv
  <2> QED
    BY <2>1 DEF ExitInv
<1> QED
  BY <1>7, <1>8, <1>9, <1>10 DEF Settling

\* A service that starts satisfies the invariant.
LEMMA SettlingInit == Init => Settling
<1> SUFFICES ASSUME Init PROVE Settling
  OBVIOUS
<1>1. /\ session = 0 /\ lock = NoThread
      /\ \A t \in Threads : stack[t] = <<>>
      /\ \A s \in Sessions : /\ sess[s].state = "Disconnected" /\ ~sess[s].stopWasRequested
                             /\ process[s].status = "none" /\ process[s].raised = "no"
                             /\ process[s].closed = "no" /\ process[s].stream = <<>>
  <2>1. \A s \in Sessions : s \in 0..MaxSessions
    BY DEF Sessions
  <2> QED
    BY <2>1 DEF Init, NewSession, NewProcess
<1>2. /\ \A t \in Threads : Len(stack[t]) = 0
      /\ \A s \in Sessions : Len(process[s].stream) = 0
  BY <1>1
<1>3. ASSUME NEW t \in Threads
      PROVE  (\A l : ~Has(stack[t], l)) /\ ReadLast(stack[t]) /\ Followed(stack[t])
  BY <1>2 DEF Has, ReadLast, Followed
<1>4. LinesInv
  BY <1>2 DEF LinesInv
<1>5. ReadersInv
  <2>1. \A s \in Sessions : Reader(s) \in Threads /\ ExitThread(s) \in Threads
    BY SessionThreads
  <2> QED
    BY <1>1, <1>3, <2>1 DEF ReadersInv, Starting, Unstarted
<1>6. StopInv
  BY <1>1, <1>3 DEF StopInv
<1>7. ExitInv
  BY <1>1 DEF ExitInv
<1> QED
  BY <1>4, <1>5, <1>6, <1>7 DEF Settling

\* Every step keeps the invariant.
LEMMA SettlingStep == Exclusive /\ Settling /\ [Next]_vars => Settling'
<1> SUFFICES ASSUME Exclusive, Settling, [Next]_vars PROVE Settling'
  OBVIOUS
<1>t. TypeOK
  BY DEF Exclusive
<1>1. CASE Service
  <2>1. ASSUME NEW t \in Threads, Run(t) PROVE Settling'
    <3>1. CASE \/ ConnectWhenBusy(t) \/ ConnectWithoutNetwork(t) \/ Clean(t) \/ Prepare(t) \/ Launch(t)
               \/ Attach(t) \/ Bind(t) \/ BindRest(t) \/ Failed(t) \/ DisconnectWhenIdle(t)
               \/ StopOpenVpn(t) \/ Stopped(t) \/ Changed(t) \/ Invoke(t) \/ Enable(t) \/ Unblock(t)
               \/ Forget(t) \/ After(t) \/ SwitchOffUnblocks(t) \/ StoreSetting(t)
      <4>1. Steady(t)
        BY <1>t, <3>1, SteadyRun DEF Settling
      <4> QED
        BY <1>t, <4>1, SteadyKeeps
    <3>2. CASE StartSession(t) \/ StartReader(t) \/ Disconnect(t) \/ WaitExit(t) \/ OnOpenVpnExit(t)
      BY <3>2, NewSessionKeeps, StartReaderKeeps, DisconnectKeeps, WaitExitKeeps, OnOpenVpnExitKeeps
    <3>3. CASE Unlock(t) \/ StopRequested(t) \/ SessionDisconnect(t)
      BY <3>3, StopKeeps
    <3> QED
      BY <2>1, <3>1, <3>2, <3>3 DEF Run, Locked
  <2>2. ASSUME NEW s \in Sessions, ReadLine(s) PROVE Settling'
    BY <1>t, <2>2, LineKeeps, ReaderRestKeeps DEF ReadLine
  <2>3. ASSUME NEW s \in Sessions, Write(s) \/ Exit(s) PROVE Settling'
    <3>1. UNCHANGED <<stack, session, sess, lock>>
      BY <2>3, Zenon DEF Write, Exit, sessionVars, threadVars
    <3> QED
      BY <1>t, <2>3, <3>1, ProcessKeeps
  <2>4. ASSUME \/ \E w \in Workers : Client(w) \/ RunReconnect(w)
               \/ \E s \in Sessions : RaiseExited(s)
        PROVE  Settling'
    BY <1>t, <2>4, CallsKeep
  <2> QED
    BY <1>1, <2>1, <2>2, <2>3, <2>4 DEF Service
<1>2. CASE Restart
  BY <1>t, <1>2, RestartSettles
<1>3. CASE UNCHANGED vars
  <2>1. UNCHANGED <<stack, session, sess, lock, process>>
    BY <1>3, Zenon DEF vars, sessionVars, threadVars, systemVars
  <2> QED
    BY <1>t, <2>1, ProcessKeeps
<1> QED
  BY <1>1, <1>2, <1>3 DEF Next

\* In any number of sessions, with any number of threads that disconnect, reconnect, read or
\* handle exits: a session whose exit was heard of is Disconnected once nothing is left to
\* run, whoever came first (Session.OnOpenVpnExit, Session.Disconnect, Session.Stop).
THEOREM DeadSessionsSettle == Spec => []DeadSessionSettles
<1>1. Exclusive /\ Settling => DeadSessionSettles
  <2> SUFFICES ASSUME Exclusive, Settling, Quiet,
                      NEW s \in Sessions, process[s].raised = "heard"
               PROVE  sess[s].state = "Disconnected"
    BY DEF DeadSessionSettles
  <2>1. ASSUME NEW t \in Threads
        PROVE  ~Has(stack[t], "sessionDisconnect") /\ ~\E r \in Sessions : Exits(stack[t], r)
    <3>1. CASE stack[t] = <<>>
      <4>1. Len(stack[t]) = 0
        BY <3>1
      <4> QED
        BY <4>1 DEF Has, Exits
    <3>2. CASE stack[t] # <<>>
      <4>1. \A w \in Workers : t # w
        BY <3>2 DEF Quiet, Idle
      <4>2. PICK r \in Sessions : t = Reader(r)
        BY <3>2, <4>1 DEF Threads, Quiet
      <4>3. Head(stack[t]).at = "read" /\ ReadLast(stack[t])
        BY <3>2, <4>2 DEF Quiet, At, Settling, ReadersInv
      <4>4. Head(stack[t]) = stack[t][1] /\ 1 \in 1..Len(stack[t])
        BY <3>2, Innermost DEF Exclusive, TypeOK
      <4>5. \A i \in 1..Len(stack[t]) : stack[t][i].at = "read"
        <5>1. Len(stack[t]) = 1
          BY <4>3, <4>4 DEF ReadLast
        <5> QED
          BY <4>3, <4>4, <5>1
      <4>6. \A x : Frame("exited", x).at = "exited"
        BY DEF Frame
      <4> QED
        BY <4>5, <4>6 DEF Has, Exits
    <3> QED
      BY <3>1, <3>2
  <2>2. CASE sess[s].stopWasRequested
    BY <2>1, <2>2 DEF Settling, StopInv
  <2>3. CASE ~sess[s].stopWasRequested
    BY <2>1, <2>3 DEF Settling, ExitInv
  <2> QED
    BY <2>2, <2>3
<1> QED
  BY <1>1, ExclusiveInit, ExclusiveStep, SettlingInit, SettlingStep, PTL DEF Spec

-----------------------------------------------------------------------------
(* A dropped connection stays blocked *)

\* What a step may push unless it has decided to lift the block.
Others == Labels \ {"unblock"}

\* Nobody comes to be about to lift the block.
NobodyUnblocks == \A u \in Threads : Has(stack'[u], "unblock") => Has(stack[u], "unblock")

LEMMA OthersLack == \A g \in Seq(FramesOf(Others)) : g \in Seq(Frames) /\ ~Has(g, "unblock")
<1>1. Others \subseteq Labels /\ "unblock" \notin Others
  BY DEF Others
<1> QED
  BY <1>1, LabelsOf

\* A push of such frames keeps it so.
LEMMA OthersPushed ==
  ASSUME TypeOK, NEW t \in Threads, stack[t] # <<>>, NEW g \in Seq(FramesOf(Others)),
         stack' = Pushed(stack, t, g)
  PROVE  NobodyUnblocks
<1>1. g \in Seq(Frames) /\ ~Has(g, "unblock")
  BY OthersLack
<1>2. /\ \A u \in Threads : u # t => stack'[u] = stack[u]
      /\ \A l : Has(stack'[t], l) => Has(g, l) \/ Has(stack[t], l)
  BY <1>1, Stepped
<1> QED
  BY <1>1, <1>2 DEF NobodyUnblocks

\* The frames the steps push.
LEMMA OthersFrames ==
  /\ Others \subseteq Labels /\ "changed" \in Others
  /\ <<>> \in Seq(FramesOf(Others))
  /\ \A a \in Others, s \in 0..MaxSessions : <<Frame(a, s)>> \in Seq(FramesOf(Others))
  /\ \A a \in Others, b \in Others, r \in 0..MaxSessions, s \in 0..MaxSessions :
       <<Frame(a, r), Frame(b, s)>> \in Seq(FramesOf(Others))
  /\ \A a \in Others, s \in 0..MaxSessions, f \in Seq(FramesOf(Others)) :
       <<Frame(a, s)>> \o f \in Seq(FramesOf(Others))
  /\ \A a \in Others, b \in Others, c \in Others, s \in 0..MaxSessions :
       <<Frame(a, s), Frame(b, s), Frame(c, s)>> \in Seq(FramesOf(Others))
  /\ \A a \in Others, b \in Others, c \in Others, d \in Others :
       <<Frame(a, 0), Frame(b, 0), Frame(c, 0), Frame(d, 0)>> \in Seq(FramesOf(Others))
<1>1. Others \subseteq Labels /\ "changed" \in Others
  BY DEF Others, Labels
<1>2. \A a \in Others, s \in 0..MaxSessions : Frame(a, s) \in FramesOf(Others)
  BY <1>1, FrameTyped DEF FramesOf
<1>3. 0 \in 0..MaxSessions
  BY BoundsAssumption
<1> QED
  BY <1>1, <1>2, <1>3, FewFrames

\* Steps of a method but for the handler's decision.
LEMMA RunNobodyUnblocks ==
  ASSUME TypeOK, NEW t \in Threads, Run(t), ~Invoke(t)
  PROVE  NobodyUnblocks
<1> USE DEF At
<1>s. /\ 0 \in 0..MaxSessions /\ openVpnExe \in 0..MaxSessions /\ session \in 0..MaxSessions
      /\ stack[t] # <<>>
  <2>1. stack[t] # <<>>
    BY Zenon DEF Run, Locked, ConnectWhenBusy, ConnectWithoutNetwork, StartSession, DisconnectWhenIdle,
       Disconnect, StopOpenVpn, WaitExit, Stopped, OnOpenVpnExit, Changed, Enable, Unblock, Forget, After,
       SwitchOffUnblocks, StoreSetting, Clean, Prepare, Launch, Attach, Bind, BindRest, StartReader, Failed,
       Unlock, StopRequested, SessionDisconnect
  <2> QED
    BY <2>1, BoundsAssumption DEF TypeOK
<1>h. Subject(t) \in 0..MaxSessions
  <2>1. Head(stack[t]) \in Frames
    BY <1>s, HeadTailProperties DEF TypeOK
  <2> QED
    BY <2>1 DEF Frames, Subject
<1>l. {"connect", "clean", "prepare", "launch", "attach", "bind", "bindRest", "startReader", "failed",
       "stop", "waitExit", "stopped", "exited", "unlock", "stopRequested", "sessionDisconnect",
       "invoke", "forget", "after", "storeOff", "read"} \subseteq Others
  BY DEF Others, Labels
<1>p. ASSUME NEW g \in Seq(FramesOf(Others)), stack' = Pushed(stack, t, g) PROVE NobodyUnblocks
  BY <1>p, <1>s, OthersPushed
<1>c. ASSUME NEW g \in Seq(FramesOf(Others)), Continue(t, g) PROVE NobodyUnblocks
  BY <1>c, <1>p DEF Continue, Pushed
<1>r. ASSUME NEW s \in 0..MaxSessions, NEW rec, NEW g \in Seq(FramesOf(Others)),
             SetSession(t, s, rec, g)
      PROVE  NobodyUnblocks
  <2>1. <<Frame("changed", s)>> \o g \in Seq(FramesOf(Others))
    BY OthersFrames
  <2> QED
    BY <1>c, <1>r, <2>1 DEF SetSession
<1>n. ASSUME NEW error, NEW g \in Seq(FramesOf(Others)), NotifyError(t, error, g)
      PROVE  NobodyUnblocks
  <2>1. <<Frame("invoke", 0)>> \o g \in Seq(FramesOf(Others))
    BY <1>l, <1>s, OthersFrames
  <2> QED
    BY <1>c, <1>n, <2>1 DEF NotifyError
<1>f. ASSUME NEW error, Fail(t, error) PROVE NobodyUnblocks
  <2>1. <<Frame("stop", 0), Frame("sessionDisconnect", 0), Frame("failed", 0), Frame("unlock", 0)>>
          \in Seq(FramesOf(Others))
    BY <1>l, OthersFrames
  <2> QED
    BY <1>c, <1>f, <2>1 DEF Fail
<1>g. /\ <<>> \in Seq(FramesOf(Others))
      /\ \A a \in Others : <<Frame(a, 0)>> \in Seq(FramesOf(Others))
      /\ <<Frame("waitExit", openVpnExe)>> \in Seq(FramesOf(Others))
      /\ <<Frame("invoke", 0), Frame("after", 0)>> \in Seq(FramesOf(Others))
  BY <1>l, <1>s, OthersFrames
<1>1. CASE ConnectWhenBusy(t) \/ DisconnectWhenIdle(t) \/ Stopped(t) \/ Enable(t) \/ Forget(t)
           \/ StoreSetting(t) \/ Unlock(t) \/ StopRequested(t)
  BY <1>1, <1>c, <1>g, Zenon DEF ConnectWhenBusy, DisconnectWhenIdle, Stopped, Enable, Forget, StoreSetting,
     Unlock, StopRequested
<1>2. CASE ConnectWithoutNetwork(t)
  BY <1>2, <1>n, <1>g, <1>l DEF ConnectWithoutNetwork
<1>3. CASE StartSession(t)
  <2>1. session + 1 \in 0..MaxSessions
    BY <1>3, <1>s, BoundsAssumption DEF StartSession
  <2> PICK n \in 0..MaxSessions : n = session + 1
    BY <2>1
  <2>2. SetState(t, n, "Connecting", <<Frame("clean", 0)>>)
    BY <1>3 DEF StartSession
  <2>3. \E rec : SetSession(t, n, rec, <<Frame("clean", 0)>>)
    BY <2>2 DEF SetState
  <2> QED
    BY <1>g, <1>l, <1>r, <2>3
<1>4. CASE Clean(t) \/ BindRest(t) \/ Unblock(t) \/ SwitchOffUnblocks(t)
  BY <1>4, <1>c, <1>g, <1>l DEF Clean, BindRest, Unblock, SwitchOffUnblocks
<1>5. CASE Prepare(t) \/ Launch(t) \/ Attach(t) \/ Bind(t)
  BY <1>5, <1>c, <1>f, <1>g, <1>l DEF Prepare, Launch, Attach, Bind
<1>6. CASE StartReader(t)
  <2> PICK q : q = <<Frame("unlock", 0)>> \o Tail(stack[t])
    OBVIOUS
  <2>1. <<Frame("unlock", 0)>> \in Seq(FramesOf(Others))
    BY <1>g, <1>l
  <2>2. stack \in [Threads -> Seq(Frames)]
    BY DEF TypeOK
  <2> PICK one : one = Pushed(stack, t, <<Frame("unlock", 0)>>)
    OBVIOUS
  <2>3. one = [stack EXCEPT ![t] = q]
    BY DEF Pushed
  <2>4. <<Frame("unlock", 0)>> \in Seq(Frames) /\ ~Has(<<Frame("unlock", 0)>>, "unblock")
    BY <2>1, OthersLack
  <2>5. /\ one \in [Threads -> Seq(Frames)]
        /\ \A u \in Threads : Has(one[u], "unblock") => Has(stack[u], "unblock")
    <3> PICK f \in Seq(Frames) : f = <<Frame("unlock", 0)>>
      BY <2>4
    <3>1. /\ Pushed(stack, t, f) \in [Threads -> Seq(Frames)]
          /\ \A u \in Threads : u # t => Pushed(stack, t, f)[u] = stack[u]
      BY <1>s, <2>2, AfterPush
    <3>2. \A l : Has(Pushed(stack, t, f)[t], l) => Has(f, l) \/ Has(stack[t], l)
      BY <1>s, <2>2, PushedFrames
    <3>3. ~Has(f, "unblock")
      BY <2>4
    <3> QED
      BY <3>1, <3>2, <3>3
  <2>6. stack' = [one EXCEPT ![Reader(session)] = <<Frame("read", session)>>]
    BY <1>6, <2>2, <2>3 DEF StartReader
  <2>7. <<Frame("read", session)>> \in Seq(FramesOf(Others))
    BY <1>l, <1>s, OthersFrames
  <2>8. ~Has(<<Frame("read", session)>>, "unblock")
    BY <2>7, OthersLack
  <2> QED
    BY <2>5, <2>6, <2>8 DEF NobodyUnblocks
<1>7. CASE Failed(t)
  BY <1>7, <1>c, <1>g, <1>n DEF Failed
<1>8. CASE Disconnect(t)
  <2> PICK rest : rest = <<Frame("stop", 0), Frame("sessionDisconnect", 0), Frame("unlock", 0)>>
    OBVIOUS
  <2>1. rest \in Seq(FramesOf(Others)) /\ <<Frame("stopRequested", 0)>> \o rest \in Seq(FramesOf(Others))
    BY <1>l, <1>s, OthersFrames
  <2>2. \/ SetState(t, session, "Disconnecting", <<Frame("stopRequested", 0)>> \o rest)
        \/ Continue(t, rest)
    BY <1>8 DEF Disconnect
  <2> QED
    BY <1>c, <1>r, <1>s, <2>1, <2>2 DEF SetState
<1>9. CASE SessionDisconnect(t)
  <2>1. \E rec : SetSession(t, session, rec, <<>>)
    BY <1>9 DEF SessionDisconnect
  <2> QED
    BY <1>g, <1>r, <1>s, <2>1
<1>10. CASE StopOpenVpn(t)
  BY <1>10, <1>c, <1>g DEF StopOpenVpn
<1>11. CASE WaitExit(t)
  <2> PICK s \in 0..MaxSessions : s = Subject(t)
    BY <1>h
  <2>1. <<Frame("stopped", s)>> \in Seq(FramesOf(Others)) /\ <<Frame("exited", s)>> \o <<Frame("stopped", s)>> \in Seq(FramesOf(Others))
    BY <1>l, OthersFrames
  <2>2. <<>> \o <<Frame("stopped", s)>> = <<Frame("stopped", s)>>
    BY <2>1, ConcatEmptySeq
  <2>3. \E g \in Seq(FramesOf(Others)) : Continue(t, g)
    BY <1>11, <2>1, <2>2 DEF WaitExit
  <2> QED
    BY <1>c, <2>3
<1>12. CASE OnOpenVpnExit(t)
  <2>1. Continue(t, <<>>) \/ \E rec : SetSession(t, Subject(t), rec, <<>>)
    BY <1>12 DEF OnOpenVpnExit, SetState
  <2> QED
    BY <1>c, <1>g, <1>h, <1>r, <2>1
<1>13. CASE Changed(t)
  BY <1>13, <1>c, <1>g DEF Changed
<1>14. CASE After(t)
  BY <1>14, <1>c, <1>g, <1>l DEF After
<1> QED
  BY <1>1, <1>2, <1>3, <1>4, <1>5, <1>6, <1>7, <1>8, <1>9, <1>10, <1>11, <1>12, <1>13, <1>14 DEF Run, Locked

\* Steps of a reader.
LEMMA ReaderNobodyUnblocks ==
  ASSUME TypeOK, NEW s \in Sessions, ReadLine(s)
  PROVE  NobodyUnblocks
<1> USE DEF At
<1> DEFINE t == Reader(s)
<1>s. t \in Threads /\ s \in 0..MaxSessions /\ 0 \in 0..MaxSessions /\ stack[t] # <<>>
  <2>1. stack[t] # <<>>
    BY Zenon DEF ReadLine, HandleStateNotification, HandleAuthNotification, HandleFatalNotification,
       HandleLogNotification, HandleErrorReply, ErrorReply, RecordError, ReaderEnds, Read
  <2> QED
    BY <2>1, SessionThreads, BoundsAssumption
<1>l. {"invoke", "read", "connectedError", "authFailed", "disconnect", "errorReply"} \subseteq Others
  BY DEF Others, Labels
<1>g. /\ <<>> \in Seq(FramesOf(Others)) /\ <<Frame("read", s)>> \in Seq(FramesOf(Others))
      /\ <<>> \o <<Frame("read", s)>> \in Seq(FramesOf(Others))
      /\ <<Frame("connectedError", s)>> \o <<Frame("read", s)>> \in Seq(FramesOf(Others))
      /\ <<Frame("authFailed", s), Frame("read", s)>> \in Seq(FramesOf(Others))
      /\ <<Frame("disconnect", s), Frame("errorReply", s), Frame("read", s)>> \in Seq(FramesOf(Others))
      /\ <<Frame("invoke", 0)>> \o <<>> \in Seq(FramesOf(Others))
  <2>1. /\ <<>> \in Seq(FramesOf(Others)) /\ <<Frame("read", s)>> \in Seq(FramesOf(Others))
    BY <1>l, <1>s, OthersFrames
  <2>2. <<>> \o <<Frame("read", s)>> = <<Frame("read", s)>>
    BY <2>1, ConcatEmptySeq
  <2> QED
    BY <1>l, <1>s, <2>1, <2>2, OthersFrames
<1>c. ASSUME NEW g \in Seq(FramesOf(Others)), Continue(t, g) PROVE NobodyUnblocks
  <2>1. stack' = Pushed(stack, t, g)
    BY <1>c DEF Continue, Pushed
  <2> QED
    BY <1>s, <2>1, OthersPushed
<1>r. ASSUME NEW rec, NEW g \in Seq(FramesOf(Others)), SetSession(t, s, rec, g)
      PROVE  NobodyUnblocks
  <2>1. <<Frame("changed", s)>> \o g \in Seq(FramesOf(Others))
    BY <1>s, OthersFrames
  <2> QED
    BY <1>c, <1>r, <2>1 DEF SetSession
<1> HIDE DEF t
<1>1. CASE HandleStateNotification(s)
  <2>1. \/ \E f \in {<<>>, <<Frame("connectedError", s)>>} :
             \E newState : SetState(t, s, newState, f \o <<Frame("read", s)>>)
        \/ Continue(t, <<Frame("read", s)>>)
    BY <1>1 DEF HandleStateNotification, t
  <2>2. CASE Continue(t, <<Frame("read", s)>>)
    BY <1>c, <1>g, <2>2
  <2>3. CASE \E f \in {<<>>, <<Frame("connectedError", s)>>} :
             \E rec : SetSession(t, s, rec, f \o <<Frame("read", s)>>)
    BY <1>r, <1>g, <2>3
  <2> QED
    BY <2>1, <2>2, <2>3, Zenon DEF SetState
<1>2. CASE HandleAuthNotification(s)
  BY <1>2, <1>r, <1>g DEF HandleAuthNotification, SetState, t
<1>3. CASE HandleFatalNotification(s)
  <2>1. \E rec : SetSession(t, s, rec, <<Frame("read", s)>>)
    BY <1>3 DEF HandleFatalNotification, t
  <2> QED
    BY <1>r, <1>g, <2>1
<1>4. CASE HandleLogNotification(s) \/ HandleErrorReply(s) \/ RecordError(s) \/ ReaderEnds(s)
  BY <1>4, <1>c, <1>g, Zenon DEF HandleLogNotification, HandleErrorReply, RecordError, ReaderEnds, t
<1>5. CASE ErrorReply(s)
  BY <1>5, <1>c, <1>g DEF ErrorReply, NotifyError, t
<1> QED
  BY <1>1, <1>2, <1>3, <1>4, <1>5 DEF ReadLine

\* Without a call of Disconnect only a stop of the service asks for one, and who is about to
\* lift a block while the kill switch is on decided so before it was switched on.
Decided ==
  /\ disconnectWasRequested => stopping
  /\ killSwitch => \A t \in Threads : Has(stack[t], "unblock") => t \in late \/ stopping

\* What leaves all this alone keeps it.
LEMMA DecidedStays ==
  ASSUME Decided, NobodyUnblocks, UNCHANGED <<disconnectWasRequested, stopping, late>>,
         killSwitch' => killSwitch
  PROVE  Decided'
BY DEF Decided, NobodyUnblocks

LEMMA DecidedInit == Init => Decided
<1> SUFFICES ASSUME Init PROVE Decided
  OBVIOUS
<1>1. \A t \in Threads : Len(stack[t]) = 0
  BY DEF Init
<1> QED
  BY <1>1 DEF Init, KillSwitchInit, Decided, Has

\* Steps of the service keep it.
LEMMA DecidedRun ==
  ASSUME TypeOK, Decided, NEW t \in Threads, Run(t)
  PROVE  Decided'
<1>1. stopping' = stopping
  BY Zenon DEF Run, Locked, ConnectWhenBusy, ConnectWithoutNetwork, StartSession, DisconnectWhenIdle,
     Disconnect, StopOpenVpn, WaitExit, Stopped, OnOpenVpnExit, Changed, Invoke, Enable, Unblock, Forget,
     After, SwitchOffUnblocks, StoreSetting, Clean, Prepare, Launch, Attach, Bind, BindRest, StartReader,
     Failed, Unlock, StopRequested, SessionDisconnect, clientVars
<1>2. CASE Invoke(t)
  <2>1. \/ /\ UnblocksOnDisconnected /\ Continue(t, <<Frame("unblock", 0)>>) /\ DecideToUnblock(t)
        \/ /\ \E l \in {"enable", "forget"} : Continue(t, <<Frame(l, 0)>>) \/ Continue(t, <<>>)
           /\ UNCHANGED ksVars
        \/ Continue(t, <<>>) /\ PublishStatus(note[t].newState)
    BY <1>2 DEF Invoke
  <2>2. stack[t] # <<>>
    BY <1>2 DEF Invoke, At
  <2>3. CASE UnblocksOnDisconnected /\ Continue(t, <<Frame("unblock", 0)>>) /\ DecideToUnblock(t)
    <3>1. <<Frame("unblock", 0)>> \in Seq(Frames)
      BY OneFrame DEF Labels
    <3>2. \A u \in Threads : u # t => stack'[u] = stack[u]
      BY <2>2, <2>3, <3>1, Continued DEF TypeOK
    <3>3. /\ disconnectWasRequested' = disconnectWasRequested /\ killSwitch' = killSwitch
          /\ late' = late \ {t} /\ (disconnectWasRequested \/ ~killSwitch)
      BY <2>3 DEF DecideToUnblock, UnblocksOnDisconnected
    <3> QED
      BY <1>1, <3>2, <3>3 DEF Decided
  <2>4. CASE (\E l \in {"enable", "forget"} : Continue(t, <<Frame(l, 0)>>)) \/ Continue(t, <<>>)
    <3>1. \E g \in Seq(FramesOf(Others)) : Continue(t, g)
      <4>1. {"enable", "forget"} \subseteq Others /\ 0 \in 0..MaxSessions
        BY BoundsAssumption DEF Others, Labels
      <4> QED
        BY <2>4, <4>1, OthersFrames
    <3>2. NobodyUnblocks
      BY <2>2, <3>1, OthersPushed DEF Continue, Pushed
    <3>3. CASE UNCHANGED <<killSwitch, disconnectWasRequested, late>>
      BY <1>1, <3>2, <3>3, DecidedStays
    <3>4. CASE UnblocksOnDisconnected /\ Continue(t, <<Frame("unblock", 0)>>) /\ DecideToUnblock(t)
      BY <2>3, <3>4
    <3> QED
      BY <2>1, <3>3, <3>4 DEF ksVars, historyVars, PublishStatus
  <2> QED
    BY <2>1, <2>3, <2>4
<1>3. CASE ~Invoke(t)
  <2>1. NobodyUnblocks
    BY <1>3, RunNobodyUnblocks
  <2>2. CASE StoreSetting(t)
    BY <1>1, <2>1, <2>2, DecidedStays DEF StoreSetting, StoreOff
  <2>3. CASE Forget(t)
    BY <1>1, <2>1, <2>3 DEF Forget, ForgetRequest, historyVars, Decided, NobodyUnblocks
  <2>4. CASE Enable(t) \/ Unblock(t) \/ SwitchOffUnblocks(t)
    BY <1>1, <2>1, <2>4, DecidedStays DEF Enable, EnableBlocker, Unblock, SwitchOffUnblocks, DisableBlocker, historyVars
  <2>5. CASE ksVars' = ksVars
    BY <1>1, <2>1, <2>5, DecidedStays DEF ksVars
  <2>6. CASE Locked(t)
    BY <2>5, <2>6, Zenon DEF Locked, Clean, Prepare, Launch, Attach, Bind, BindRest, StartReader,
       Failed, Unlock, StopRequested, SessionDisconnect
  <2>7. CASE \/ ConnectWhenBusy(t) \/ ConnectWithoutNetwork(t) \/ StartSession(t) \/ DisconnectWhenIdle(t)
             \/ Disconnect(t) \/ StopOpenVpn(t) \/ WaitExit(t) \/ Stopped(t) \/ OnOpenVpnExit(t)
             \/ Changed(t) \/ After(t)
    BY <2>5, <2>7, Zenon DEF ConnectWhenBusy, ConnectWithoutNetwork, StartSession, DisconnectWhenIdle,
       Disconnect, StopOpenVpn, WaitExit, Stopped, OnOpenVpnExit, Changed, After
  <2> QED
    BY <1>3, <2>2, <2>3, <2>4, <2>6, <2>7 DEF Run
<1> QED
  BY <1>2, <1>3

\* So does every other step, unless a client calls Disconnect.
LEMMA DecidedStep ==
  ASSUME "Disconnect" \notin Calls, TypeOK, Decided, [Next]_vars
  PROVE  Decided'
<1>0. stack \in [Threads -> Seq(Frames)] /\ 0 \in 0..MaxSessions
  BY BoundsAssumption DEF TypeOK
<1>1. ASSUME NEW w \in Workers, Client(w) \/ RunReconnect(w) PROVE Decided'
  <2>1. w \in Threads
    BY DEF Threads
  <2>2. ASSUME NEW q \in Seq(FramesOf(Others)), stack' = [stack EXCEPT ![w] = q] PROVE NobodyUnblocks
    <3>1. ~Has(q, "unblock")
      BY OthersLack
    <3> QED
      BY <1>0, <2>1, <2>2, <3>1 DEF NobodyUnblocks
  <2>3. {"connect", "disconnect", "switchOff", "quit"} \subseteq Others
    BY DEF Others, Labels
  <2>4. /\ <<>> \in Seq(FramesOf(Others)) /\ <<Frame("connect", 0)>> \in Seq(FramesOf(Others))
        /\ <<Frame("switchOff", 0)>> \in Seq(FramesOf(Others))
        /\ <<Frame("disconnect", 0), Frame("quit", 0)>> \in Seq(FramesOf(Others))
    BY <1>0, <2>3, OthersFrames
  <2>5. CASE CallConnect(w)
    <3>1. stack' = [stack EXCEPT ![w] = <<Frame("connect", 0)>>]
      BY <2>5, Zenon DEF CallConnect, Call
    <3>2. ksVars' = ksVars /\ stopping' = stopping
      BY <2>5, Zenon DEF CallConnect, Call
    <3>3. NobodyUnblocks
      BY <2>2, <2>4, <3>1
    <3> QED
      BY <3>2, <3>3, DecidedStays DEF ksVars
  <2>6. CASE RunReconnect(w)
    BY <2>2, <2>4, <2>6, DecidedStays DEF RunReconnect, clientVars, ksVars
  <2>7. CASE CallUnblockTraffic(w)
    BY <2>2, <2>4, <2>7, DecidedStays DEF CallUnblockTraffic, DisableBlocker, Call
  <2>8. CASE CallStop(w)
    <3>1. NobodyUnblocks
      BY <2>2, <2>4, <2>8 DEF CallStop
    <3> QED
      BY <2>8, <3>1 DEF CallStop, Decided
  <2>9. CASE CallToggleKillSwitch(w)
    <3>1. CASE killSwitch
      BY <2>2, <2>4, <2>9, <3>1, DecidedStays DEF CallToggleKillSwitch, Call, ksVars
    <3>2. CASE ~killSwitch
      <4>1. NobodyUnblocks
        BY <2>2, <2>4, <2>9, <3>2 DEF CallToggleKillSwitch, Call
      <4>2. /\ late' = late \cup {t \in Threads : Has(stack[t], "unblock")}
            /\ disconnectWasRequested' = disconnectWasRequested /\ stopping' = stopping
        BY <2>9, <3>2 DEF CallToggleKillSwitch, Call, StoreOn, Inside, Has
      <4> QED
        BY <4>1, <4>2 DEF Decided, NobodyUnblocks
    <3> QED
      BY <3>1, <3>2
  <2>10. ~CallDisconnect(w)
    BY DEF CallDisconnect, Call
  <2> QED
    BY <1>1, <2>5, <2>6, <2>7, <2>8, <2>9, <2>10 DEF Client
<1>2. ASSUME NEW s \in Sessions, ReadLine(s) PROVE Decided'
  <2>1. stopping' = stopping /\ ksVars' = ksVars
    BY <1>2, Zenon DEF ReadLine, HandleStateNotification, HandleAuthNotification,
       HandleFatalNotification, HandleLogNotification, HandleErrorReply, ErrorReply, RecordError,
       ReaderEnds, Read, clientVars
  <2> QED
    BY <1>2, <2>1, ReaderNobodyUnblocks, DecidedStays DEF ksVars
<1>3. ASSUME NEW s \in Sessions, Write(s) \/ Exit(s) PROVE Decided'
  <2>1. stopping' = stopping /\ ksVars' = ksVars /\ stack' = stack
    BY <1>3, Zenon DEF Write, Exit, clientVars, threadVars
  <2> QED
    BY <2>1, DecidedStays DEF ksVars, NobodyUnblocks
<1>4. ASSUME NEW s \in Sessions, RaiseExited(s) PROVE Decided'
  <2>1. stopping' = stopping /\ ksVars' = ksVars
    BY <1>4, Zenon DEF RaiseExited, clientVars
  <2>2. \E q \in {<<>>, <<Frame("exited", s)>>} : stack' = [stack EXCEPT ![ExitThread(s)] = q]
    BY <1>4 DEF RaiseExited
  <2>3. \A q \in {<<>>, <<Frame("exited", s)>>} : ~Has(q, "unblock")
    <3>1. "exited" \in Others
      BY DEF Others, Labels
    <3>2. <<>> \in Seq(FramesOf(Others)) /\ <<Frame("exited", s)>> \in Seq(FramesOf(Others))
      BY <3>1, SessionThreads, OthersFrames
    <3> QED
      BY <3>2, OthersLack
  <2>4. NobodyUnblocks
    BY <1>0, <2>2, <2>3, SessionThreads DEF NobodyUnblocks
  <2> QED
    BY <2>1, <2>4, DecidedStays DEF ksVars
<1>5. CASE Restart
  <2>1. stack' = [t \in Threads |-> <<>>] /\ disconnectWasRequested' = FALSE
    BY <1>5, Zenon DEF Restart, CleanupEnvironment
  <2>2. \A t \in Threads : Len(stack'[t]) = 0
    BY <2>1
  <2> QED
    BY <2>1, <2>2 DEF Decided, Has
<1>6. CASE UNCHANGED vars
  <2>1. stopping' = stopping /\ ksVars' = ksVars /\ stack' = stack
    BY <1>6, Zenon DEF vars, clientVars, threadVars
  <2> QED
    BY <2>1, DecidedStays DEF ksVars, NobodyUnblocks
<1> QED
  BY <1>1, <1>2, <1>3, <1>4, <1>5, <1>6, DecidedRun DEF Next, Service

\* With the kill switch on, a drop lifts no block, however often the connection drops or
\* reconnects and the service dies or is killed, and however the user switches the kill switch
\* meanwhile: so long as no client has called Disconnect, after which a drop may
\* (VpnService.OpenVpnOnStateChangedNotification), only the user lifts it, a service that is told to
\* stop, or a handler that decided so before the kill switch was switched on.
THEOREM DropsStayBlocked ==
  ASSUME "Disconnect" \notin Calls
  PROVE  Spec => DropStaysBlocked
<1> DEFINE Wanted == \/ lastCall' \in {"Disconnect", "UnblockTraffic"}
                     \/ stopping
                     \/ \E t \in Threads : SwitchOffUnblocks(t) \/ (t \in late /\ Unblock(t))
<1>1. ASSUME Decided, TypeOK, [Next]_vars
      PROVE  [killSwitch /\ killSwitch' /\ networkBlocked /\ ~networkBlocked' => Wanted]_vars
  <2> SUFFICES ASSUME killSwitch, killSwitch', networkBlocked, ~networkBlocked' PROVE Wanted
    OBVIOUS
  <2>1. ASSUME NEW w \in Workers, Client(w) PROVE Wanted
    <3>1. CASE CallUnblockTraffic(w)
      BY <3>1 DEF CallUnblockTraffic
    <3>2. CASE CallConnect(w) \/ CallDisconnect(w) \/ CallToggleKillSwitch(w) \/ CallStop(w)
      BY <3>2, Zenon DEF CallConnect, CallDisconnect, CallToggleKillSwitch, CallStop, RequestDisconnect,
         StoreOn, ksVars
    <3> QED
      BY <2>1, <3>1, <3>2 DEF Client
  <2>2. ASSUME NEW w \in Workers, RunReconnect(w) PROVE FALSE
    BY <2>2 DEF RunReconnect, ksVars
  <2>3. ASSUME NEW t \in Threads, Run(t) PROVE Wanted
    <3>1. CASE Locked(t)
      BY <3>1, Zenon DEF Locked, Clean, Prepare, Launch, Attach, Bind, BindRest, StartReader,
         Failed, Unlock, StopRequested, SessionDisconnect, ksVars
    <3>2. CASE Unblock(t)
      <4>1. Has(stack[t], "unblock")
        BY <3>2, Innermost DEF Unblock, At, Has, TypeOK
      <4> QED
        BY <3>2, <4>1, <1>1 DEF Decided
    <3>3. CASE SwitchOffUnblocks(t)
      BY <3>3
    <3>4. CASE Invoke(t)
      BY <3>4 DEF Invoke, DecideToUnblock, PublishStatus, ksVars
    <3> QED
      BY <2>3, <3>1, <3>2, <3>3, <3>4, Zenon DEF Run, ConnectWhenBusy, ConnectWithoutNetwork, StartSession,
         DisconnectWhenIdle, Disconnect, StopOpenVpn, WaitExit, Stopped, OnOpenVpnExit, Changed,
         Enable, EnableBlocker, Forget, ForgetRequest, After, StoreSetting, StoreOff, ksVars
  <2>4. ASSUME NEW s \in Sessions, ReadLine(s) PROVE FALSE
    BY <2>4, Zenon DEF ReadLine, HandleStateNotification, HandleAuthNotification,
       HandleFatalNotification, HandleLogNotification, HandleErrorReply, ErrorReply, RecordError,
       ReaderEnds, ksVars
  <2>5. ASSUME NEW s \in Sessions, Write(s) \/ Exit(s) \/ RaiseExited(s)
        PROVE  FALSE
    BY <2>5, Zenon DEF Write, Exit, RaiseExited, ksVars
  <2>6. CASE Restart
    <3>1. networkBlocked' = (networkBlocked /\ killSwitch)
      BY <2>6, Zenon DEF Restart, CleanupEnvironment
    <3> QED
      BY <3>1
  <2>7. CASE UNCHANGED vars
    BY <2>7 DEF vars, ksVars
  <2> QED
    BY <1>1, <2>1, <2>2, <2>3, <2>4, <2>5, <2>6, <2>7 DEF Next, Service
<1>2. Decided /\ TypeOK /\ [Next]_vars => Decided'
  BY DecidedStep
<1> QED
  BY <1>1, <1>2, DecidedInit, TypeCorrect, PTL DEF Spec, DropStaysBlocked, Wanted

-----------------------------------------------------------------------------
(* How a session ends when nobody disconnects it *)

\* No client calls Disconnect, Windows does not stop the service, and no ERROR reply makes a reader do it.
NoRequests == {"Disconnect", "Stop"} \cap Calls = {} /\ "ERROR_REPLY" \notin Notifications

Outcomes == {"CONNECTED", "CONNECTED_ERROR", "AUTH_FAILED"}

\* No CONNECTED is in the stream of s, and none will be.
Silent(s) ==
  /\ \A i \in 1..Len(process[s].stream) : process[s].stream[i] # "CONNECTED"
  /\ \E k \in Outcomes \cup {"EXITING", "FATAL"} : k \in process[s].written

\* OpenVPN reports one outcome, and nothing after FATAL.
OutcomesInv == \A s \in Sessions :
  /\ process[s].written \subseteq Notifications
  /\ \A a, b \in Outcomes : a \in process[s].written /\ b \in process[s].written => a = b
  /\ \A i \in 1..Len(process[s].stream) :
       process[s].stream[i] = "FATAL" => i = Len(process[s].stream)

\* What taking a line does to the processes.
LEMMA LineTaken ==
  ASSUME TypeOK, NEW s \in Sessions, NEW kind, Read(s, kind)
  PROVE  /\ \A r \in Sessions : r # s => process'[r] = process[r]
         /\ process'[s].written = process[s].written /\ process'[s].closed = process[s].closed
         /\ process'[s].status = process[s].status /\ process'[s].raised = process[s].raised
         /\ Len(process[s].stream) \in Nat /\ Len(process[s].stream) >= 1
         /\ process[s].stream[1] = kind
         /\ Len(process'[s].stream) = Len(process[s].stream) - 1
         /\ \A i \in 1..Len(process'[s].stream) : process'[s].stream[i] = process[s].stream[i + 1]
<1>0. /\ process' = [process EXCEPT ![s].stream = Tail(@)]
      /\ process[s].stream # <<>> /\ Head(process[s].stream) = kind
  BY Zenon DEF Read
<1>1. process \in [Sessions -> Processes] /\ process[s] \in Processes
  BY DEF TypeOK
<1> PICK q : q = process[s].stream
  OBVIOUS
<1>2. q \in Seq(NotificationKinds) /\ q # <<>> /\ Head(q) = kind
  BY <1>0, <1>1 DEF Processes
<1>3. /\ Tail(q) \in Seq(NotificationKinds) /\ Len(Tail(q)) = Len(q) - 1
      /\ \A i \in 1..Len(Tail(q)) : Tail(q)[i] = q[i + 1]
      /\ Head(q) = q[1] /\ Len(q) \in Nat /\ Len(q) >= 1
  BY <1>2, HeadTailProperties
<1> PICK p : p = Tail(q)
  OBVIOUS
<1>4. ASSUME NEW x \in Processes, NEW y, y = [x EXCEPT !.stream = p]
      PROVE  /\ y.closed = x.closed /\ y.status = x.status /\ y.stream = p
             /\ y.written = x.written /\ y.raised = x.raised
  BY <1>4 DEF Processes
<1>5. process'[s] = [process[s] EXCEPT !.stream = p]
  BY <1>0, <1>1
<1>6. \A r \in Sessions : r # s => process'[r] = process[r]
  BY <1>0, <1>1
<1> QED
  BY <1>1, <1>2, <1>3, <1>4, <1>5, <1>6

\* What writing a line does to them.
LEMMA LineWritten ==
  ASSUME TypeOK, NEW s \in Sessions, Write(s)
  PROVE  \E kind \in Notifications :
         /\ MayWrite(s, kind)
         /\ \A r \in Sessions : r # s => process'[r] = process[r]
         /\ process'[s].written = process[s].written \cup {kind}
         /\ process'[s].closed = process[s].closed /\ process'[s].raised = process[s].raised
         /\ process'[s].status = process[s].status
         /\ Len(process[s].stream) \in Nat
         /\ Len(process'[s].stream) = Len(process[s].stream) + 1
         /\ process'[s].stream[Len(process'[s].stream)] = kind
         /\ \A i \in 1..Len(process[s].stream) : process'[s].stream[i] = process[s].stream[i]
<1>1. PICK kind \in Notifications :
        /\ MayWrite(s, kind)
        /\ process' = [process EXCEPT ![s].stream = Append(@, kind), ![s].written = @ \cup {kind}]
  BY Zenon DEF Write
<1> PICK q : q = process[s].stream
  OBVIOUS
<1> PICK p : p = Append(q, kind)
  OBVIOUS
<1>2. /\ q \in Seq(NotificationKinds) /\ kind \in NotificationKinds
      /\ process \in [Sessions -> Processes] /\ process[s] \in Processes
  BY InputsAssumption DEF TypeOK, Processes
<1>3. /\ Len(p) = Len(q) + 1 /\ Len(q) \in Nat /\ p[Len(q) + 1] = kind
      /\ \A i \in 1..Len(q) : p[i] = q[i]
  BY <1>2
<1>4. ASSUME NEW x \in Processes, NEW y, x.stream = q,
             y = [x EXCEPT !.stream = Append(@, kind), !.written = @ \cup {kind}]
      PROVE  /\ y.closed = x.closed /\ y.status = x.status /\ y.raised = x.raised
             /\ y.stream = p /\ y.written = x.written \cup {kind}
  BY <1>4 DEF Processes
<1>5. process'[s] = [process[s] EXCEPT !.stream = Append(@, kind), !.written = @ \cup {kind}]
  BY <1>1, <1>2
<1>6. \A r \in Sessions : r # s => process'[r] = process[r]
  BY <1>1, <1>2
<1>7. /\ process'[s].closed = process[s].closed /\ process'[s].status = process[s].status
      /\ process'[s].raised = process[s].raised
      /\ process'[s].stream = p /\ process'[s].written = process[s].written \cup {kind}
  BY <1>2, <1>4, <1>5
<1>8. p[Len(p)] = kind
  BY <1>3
<1> QED
  BY <1>1, <1>3, <1>6, <1>7, <1>8

\* A session that is silent stays so.
LEMMA OutcomesSame ==
  ASSUME OutcomesInv,
         \A s \in Sessions : /\ process'[s].stream = process[s].stream
                             /\ process'[s].written = process[s].written
  PROVE  OutcomesInv' /\ \A s \in Sessions : Silent(s) => Silent(s)'
BY DEF OutcomesInv, Silent

\* After CONNECTED has been read, or what excludes it, the session is silent.
LEMMA OutcomesRead ==
  ASSUME TypeOK, LinesInv, OutcomesInv, NEW s \in Sessions, NEW kind, Read(s, kind)
  PROVE  /\ OutcomesInv'
         /\ \A r \in Sessions : Silent(r) => Silent(r)'
         /\ kind \in Outcomes \cup {"FATAL"} => Silent(s)'
         /\ kind = "CONNECTED" => ~Silent(s)
         /\ kind \in Notifications
<1> PICK q, p, w : q = process[s].stream /\ p = process'[s].stream /\ w = process[s].written
  OBVIOUS
<1>1. /\ \A r \in Sessions : r # s => process'[r] = process[r]
      /\ process'[s].written = w
      /\ Len(q) \in Nat /\ Len(q) >= 1 /\ q[1] = kind
      /\ Len(p) = Len(q) - 1 /\ \A i \in 1..Len(p) : p[i] = q[i + 1]
  BY LineTaken
<1>2. /\ \A i \in 1..Len(q) : q[i] \in w /\ \A j \in 1..Len(q) : q[i] = q[j] => i = j
      /\ \A i \in 1..Len(q) : q[i] = "FATAL" => i = Len(q)
      /\ w \subseteq Notifications
      /\ \A a, b \in Outcomes : a \in w /\ b \in w => a = b
  BY DEF LinesInv, OutcomesInv
<1>3. ASSUME NEW i \in 1..Len(p) PROVE i + 1 \in 1..Len(q) /\ p[i] = q[i + 1] /\ i + 1 # 1
  BY <1>1
<1>4. 1 \in 1..Len(q) /\ kind \in w
  BY <1>1, <1>2
<1>5. \A i \in 1..Len(p) : p[i] \in w /\ p[i] # kind /\ (p[i] = "FATAL" => i = Len(p))
  BY <1>1, <1>2, <1>3, <1>4
<1>6. OutcomesInv'
  <2>1. ASSUME NEW r \in Sessions
        PROVE  /\ process'[r].written \subseteq Notifications
               /\ \A a, b \in Outcomes : a \in process'[r].written /\ b \in process'[r].written => a = b
               /\ \A i \in 1..Len(process'[r].stream) :
                    process'[r].stream[i] = "FATAL" => i = Len(process'[r].stream)
    <3>1. CASE r = s
      BY <1>1, <1>2, <1>5, <3>1
    <3>2. CASE r # s
      BY <1>1, <3>2 DEF OutcomesInv
    <3> QED
      BY <3>1, <3>2
  <2> QED
    BY <2>1 DEF OutcomesInv
<1>7. ASSUME NEW r \in Sessions, Silent(r) PROVE Silent(r)'
  <2>1. CASE r = s
    <3>1. \A i \in 1..Len(p) : p[i] # "CONNECTED"
      BY <1>3, <1>7, <2>1 DEF Silent
    <3> QED
      BY <1>1, <1>7, <2>1, <3>1 DEF Silent
  <2>2. CASE r # s
    BY <1>1, <1>7, <2>2 DEF Silent
  <2> QED
    BY <2>1, <2>2
<1>8. ASSUME kind \in Outcomes \cup {"FATAL"} PROVE Silent(s)'
  <2>1. \A i \in 1..Len(p) : p[i] # "CONNECTED"
    <3>1. CASE kind \in Outcomes
      BY <1>2, <1>4, <1>5, <3>1 DEF Outcomes
    <3>2. CASE kind = "FATAL"
      BY <1>1, <1>2, <1>4, <3>2
    <3> QED
      BY <1>8, <3>1, <3>2
  <2> QED
    BY <1>1, <1>4, <1>8, <2>1 DEF Silent
<1>9. kind = "CONNECTED" => ~Silent(s)
  BY <1>1, <1>4 DEF Silent
<1> QED
  BY <1>2, <1>4, <1>6, <1>7, <1>8, <1>9

\* What OpenVPN writes breaks no silence.
LEMMA OutcomesWritten ==
  ASSUME TypeOK, LinesInv, OutcomesInv, NEW s \in Sessions, Write(s)
  PROVE  OutcomesInv' /\ \A r \in Sessions : Silent(r) => Silent(r)'
<1> PICK q, p, w : q = process[s].stream /\ p = process'[s].stream /\ w = process[s].written
  OBVIOUS
<1>1. PICK kind \in Notifications :
         /\ MayWrite(s, kind)
         /\ \A r \in Sessions : r # s => process'[r] = process[r]
         /\ process'[s].written = w \cup {kind}
         /\ Len(q) \in Nat /\ Len(p) = Len(q) + 1 /\ p[Len(p)] = kind
         /\ \A i \in 1..Len(q) : p[i] = q[i]
  BY LineWritten
<1>2. /\ \A i \in 1..Len(q) : q[i] \in w
      /\ w \subseteq Notifications
      /\ \A a, b \in Outcomes : a \in w /\ b \in w => a = b
  BY DEF LinesInv, OutcomesInv
<1>3. /\ w \cap {"EXITING", "FATAL"} = {}
      /\ kind \in Outcomes => w \cap Outcomes = {}
  BY <1>1 DEF MayWrite, Outcomes
<1>4. \A i \in 1..Len(p) : (i \in 1..Len(q) /\ p[i] = q[i]) \/ (i = Len(p) /\ p[i] = kind)
  BY <1>1
<1>5. OutcomesInv'
  <2>1. ASSUME NEW r \in Sessions
        PROVE  /\ process'[r].written \subseteq Notifications
               /\ \A a, b \in Outcomes : a \in process'[r].written /\ b \in process'[r].written => a = b
               /\ \A i \in 1..Len(process'[r].stream) :
                    process'[r].stream[i] = "FATAL" => i = Len(process'[r].stream)
    <3>1. CASE r = s
      <4>1. \A a, b \in Outcomes : a \in w \cup {kind} /\ b \in w \cup {kind} => a = b
        BY <1>2, <1>3
      <4>2. \A i \in 1..Len(p) : p[i] = "FATAL" => i = Len(p)
        BY <1>2, <1>3, <1>4
      <4> QED
        BY <1>1, <1>2, <3>1, <4>1, <4>2
    <3>2. CASE r # s
      BY <1>1, <3>2 DEF OutcomesInv
    <3> QED
      BY <3>1, <3>2
  <2> QED
    BY <2>1 DEF OutcomesInv
<1>6. ASSUME NEW r \in Sessions, Silent(r) PROVE Silent(r)'
  <2>1. CASE r = s
    <3>1. kind # "CONNECTED"
      BY <1>1, <1>3, <1>6, <2>1 DEF Silent, Outcomes, MayWrite
    <3>2. \A i \in 1..Len(p) : p[i] # "CONNECTED"
      BY <1>4, <1>6, <2>1, <3>1 DEF Silent
    <3> QED
      BY <1>1, <1>6, <2>1, <3>2 DEF Silent
  <2>2. CASE r # s
    BY <1>1, <1>6, <2>2 DEF Silent
  <2> QED
    BY <2>1, <2>2
<1> QED
  BY <1>5, <1>6

\* A session that is Disconnected while its reader still reads stays so.
FinalInv == \A s \in Sessions :
  sess[s].state = "Disconnected" /\ stack[Reader(s)] # <<>> => Silent(s)

NoStops == \A t \in Threads :
  \A l \in {"disconnect", "errorReply", "stopRequested"} : ~Has(stack[t], l)

\* t is in a Connect whose reader has not started.
Opens(t) == \E l \in BeforeReader \cup {"sessionDisconnect", "failed"} : Has(stack[t], l)

FailedLast(q) ==
  \A i, j \in 1..Len(q) : q[i].at = "failed" /\ q[j].at = "sessionDisconnect" => j < i

\* Such a session is Connecting until its catch block disconnects it.
OpenInv == \A t \in Threads :
  /\ Opens(t) => session \in Sessions /\ Unstarted(session)
  /\ \A l \in BeforeReader : Has(stack[t], l) => sess[session].state = "Connecting"
  /\ Has(stack[t], "sessionDisconnect") => Has(stack[t], "unlock")
  /\ Has(stack[t], "failed") =>
       Has(stack[t], "sessionDisconnect") \/ sess[session].state = "Disconnected"
  /\ FailedLast(stack[t])

\* Every session but the last is Disconnected.
OldInv == \A s \in 0..MaxSessions : s # session \/ s = 0 => sess[s].state = "Disconnected"

\* How sessions go when nobody disconnects them.
Course == OutcomesInv /\ FinalInv /\ NoStops /\ OpenInv /\ OldInv

\* A stack has the end of one method at most.
LEMMA OneLast ==
  ASSUME Exclusive, NEW t \in Threads, NEW a \in LastLabels, NEW b \in LastLabels,
         Has(stack[t], a), Has(stack[t], b)
  PROVE  a = b
<1>1. Ordered(stack[t]) /\ LastLabels \subseteq LockedLabels
  BY DEF Exclusive, Discipline, LockedLabels
<1>2. PICK i \in 1..Len(stack[t]), j \in 1..Len(stack[t]) :
        stack[t][i].at = a /\ stack[t][j].at = b
  BY DEF Has
<1>3. ~(i < j) /\ ~(j < i)
  BY <1>1, <1>2 DEF Ordered
<1>4. i \in Nat /\ j \in Nat
  OBVIOUS
<1>5. i = j
  BY <1>3, <1>4
<1> QED
  BY <1>2, <1>5

\* The order of a catch block survives a push.
LEMMA FailedLastPushed ==
  ASSUME NEW st \in [Threads -> Seq(Frames)], NEW t \in Threads, st[t] # <<>>, NEW f \in Seq(Frames),
         FailedLast(st[t]),
         \/ ~Has(f, "sessionDisconnect") /\ ~Has(f, "failed")
         \/ /\ ~Has(st[t], "sessionDisconnect") /\ ~Has(st[t], "failed")
            /\ FailedLast(f)
  PROVE  FailedLast(Pushed(st, t, f)[t])
<1> PICK q, p : q = st[t] /\ p = Pushed(st, t, f)[t]
  OBVIOUS
<1>1. /\ Len(p) = Len(f) + Len(q) - 1
      /\ \A i \in 1..Len(p) :
           \/ i \in 1..Len(f) /\ p[i] = f[i]
           \/ i > Len(f) /\ i - Len(f) + 1 \in 2..Len(q) /\ p[i] = q[i - Len(f) + 1]
  BY AfterPush
<1>2. q \in Seq(Frames) /\ Len(f) \in Nat /\ Len(q) \in Nat /\ FailedLast(q)
  OBVIOUS
<1> SUFFICES ASSUME NEW i \in 1..Len(p), NEW j \in 1..Len(p),
                    p[i].at = "failed", p[j].at = "sessionDisconnect"
             PROVE  j < i
  BY DEF FailedLast
<1>3. ASSUME NEW k \in 1..Len(p)
      PROVE  \/ k \in 1..Len(f) /\ p[k] = f[k]
             \/ \E m \in 2..Len(q) : k = m + Len(f) - 1 /\ p[k] = q[m] /\ m \in 1..Len(q)
  <2>1. CASE k > Len(f) /\ k - Len(f) + 1 \in 2..Len(q) /\ p[k] = q[k - Len(f) + 1]
    <3> PICK m \in 2..Len(q) : m = k - Len(f) + 1
      BY <2>1
    <3>1. k = m + Len(f) - 1 /\ p[k] = q[m] /\ m \in 1..Len(q)
      BY <1>2, <2>1
    <3> QED
      BY <3>1
  <2> QED
    BY <1>1, <2>1
<1>4. CASE ~Has(f, "sessionDisconnect") /\ ~Has(f, "failed")
  <2>1. ~(i \in 1..Len(f) /\ p[i] = f[i]) /\ ~(j \in 1..Len(f) /\ p[j] = f[j])
    BY <1>4 DEF Has
  <2>2. PICK m \in 2..Len(q) : i = m + Len(f) - 1 /\ p[i] = q[m] /\ m \in 1..Len(q)
    BY <1>3, <2>1
  <2>3. PICK n \in 2..Len(q) : j = n + Len(f) - 1 /\ p[j] = q[n] /\ n \in 1..Len(q)
    BY <1>3, <2>1
  <2>4. n < m
    BY <1>2, <2>2, <2>3 DEF FailedLast
  <2> QED
    BY <1>2, <2>2, <2>3, <2>4
<1>5. CASE ~Has(q, "sessionDisconnect") /\ ~Has(q, "failed") /\ FailedLast(f)
  <2>1. i \in 1..Len(f) /\ p[i] = f[i] /\ j \in 1..Len(f) /\ p[j] = f[j]
    BY <1>3, <1>5 DEF Has
  <2> QED
    BY <1>5, <2>1 DEF FailedLast
<1> QED
  BY <1>4, <1>5

\* The labels of a catch block.
LEMMA CatchBlock ==
  ASSUME NEW t \in Threads, NEW f \in Seq(Frames), Fails(t, f)
  PROVE  /\ Has(f, "sessionDisconnect") /\ Has(f, "unlock") /\ FailedLast(f)
         /\ \A l : Has(f, l) => l \in {"stop", "sessionDisconnect", "failed", "unlock"}
<1>1. /\ Len(f) = 4 /\ f[1].at = "stop" /\ f[2].at = "sessionDisconnect" /\ f[3].at = "failed"
      /\ f[4].at = "unlock"
  BY DEF Fails, Frame
<1>2. \A i \in 1..Len(f) : i \in {1, 2, 3, 4}
  BY <1>1
<1>3. 2 \in 1..Len(f) /\ 4 \in 1..Len(f)
  BY <1>1
<1>4. FailedLast(f)
  BY <1>1, <1>2 DEF FailedLast
<1> QED
  BY <1>1, <1>2, <1>3, <1>4 DEF Has

\* A push that takes no frame of an open Connect off but its own keeps the course of the
\* sessions, if only a session that nobody is opening changes, and stays what it becomes.
LEMMA CoursePushed ==
  ASSUME Exclusive, Settling', Course, NEW t \in Threads, stack[t] # <<>>, NEW f \in Seq(Frames),
         stack' = Pushed(stack, t, f), session' = session,
         OutcomesInv', \A s \in Sessions : Silent(s) => Silent(s)',
         \A l \in {"disconnect", "errorReply", "stopRequested"} : ~Has(f, l),
         \A l \in BeforeReader : Has(f, l) => Head(stack[t]).at \in BeforeReader,
         (~Has(f, "sessionDisconnect") /\ ~Has(f, "failed")) \/ Fails(t, f),
         Head(stack[t]).at # "sessionDisconnect",
         \A s \in Sessions : Unstarted(s) => process'[s].closed = "no",
         \A s \in 0..MaxSessions :
           \/ sess'[s].state = sess[s].state
           \/ /\ s = session /\ s \in Sessions /\ \A u \in Threads : ~Opens(u)
              /\ sess'[s].state = "Disconnected" /\ stack'[Reader(s)] # <<>> => Silent(s)'
  PROVE  Course'
<1>t. TypeOK /\ stack \in [Threads -> Seq(Frames)]
  BY DEF Exclusive, TypeOK
<1>1. /\ \A u \in Threads : u # t => stack'[u] = stack[u]
      /\ \A l : Has(stack'[t], l) => Has(f, l) \/ Has(stack[t], l)
      /\ \A l : Has(f, l) => Has(stack'[t], l)
      /\ \A l : Has(stack[t], l) /\ Head(stack[t]).at # l => Has(stack'[t], l)
  BY <1>t, Stepped
<1>2. \A u \in Threads : stack[u] = <<>> => stack'[u] = <<>>
  BY <1>t, IdleStays
<1>h. Has(stack[t], Head(stack[t]).at)
  BY InsideLock
<1>3. NoStops'
  BY <1>1 DEF Course, NoStops
<1>4. ASSUME NEW u \in Threads, Opens(u)' PROVE Opens(u)
  <2>1. PICK l \in BeforeReader \cup {"sessionDisconnect", "failed"} : Has(stack'[u], l)
    BY <1>4 DEF Opens
  <2>2. CASE Has(stack[u], l)
    BY <2>2 DEF Opens
  <2>3. CASE ~Has(stack[u], l)
    <3>1. u = t /\ Has(f, l)
      BY <1>1, <2>1, <2>3
    <3>2. Head(stack[t]).at \in BeforeReader
      BY <2>1, <3>1 DEF Fails
    <3> QED
      BY <1>h, <3>1, <3>2 DEF Opens
  <2> QED
    BY <2>2, <2>3
<1>5. ASSUME NEW u \in Threads, NEW l \in BeforeReader, Has(stack'[u], l)
      PROVE  \E k \in BeforeReader : Has(stack[u], k)
  BY <1>1, <1>5, <1>h
<1>6. FinalInv'
  <2> SUFFICES ASSUME NEW s \in Sessions, sess'[s].state = "Disconnected", stack'[Reader(s)] # <<>>
               PROVE  Silent(s)'
    BY DEF FinalInv
  <2>1. Reader(s) \in Threads /\ s \in 0..MaxSessions
    BY SessionThreads
  <2>2. stack[Reader(s)] # <<>>
    BY <1>2, <2>1
  <2>3. CASE sess'[s].state = sess[s].state
    BY <2>2, <2>3 DEF Course, FinalInv
  <2>4. CASE sess'[s].state # sess[s].state
    BY <2>1, <2>4
  <2> QED
    BY <2>3, <2>4
<1>7. OldInv'
  <2>1. \A s \in Sessions : s # 0
    BY DEF Sessions
  <2> QED
    BY <2>1 DEF Course, OldInv
<1>8. session \in 0..MaxSessions
  BY <1>t DEF TypeOK
<1>9. OpenInv'
  <2> SUFFICES ASSUME NEW u \in Threads
               PROVE  /\ Opens(u)' => session' \in Sessions /\ Unstarted(session)'
                      /\ \A l \in BeforeReader : Has(stack'[u], l) => sess'[session'].state = "Connecting"
                      /\ Has(stack'[u], "sessionDisconnect") => Has(stack'[u], "unlock")
                      /\ Has(stack'[u], "failed") =>
                           Has(stack'[u], "sessionDisconnect") \/ sess'[session'].state = "Disconnected"
                      /\ FailedLast(stack'[u])
    BY DEF OpenInv
  <2>0. /\ Opens(u) => session \in Sessions /\ Unstarted(session)
        /\ \A l \in BeforeReader : Has(stack[u], l) => sess[session].state = "Connecting"
        /\ Has(stack[u], "sessionDisconnect") => Has(stack[u], "unlock")
        /\ Has(stack[u], "failed") =>
             Has(stack[u], "sessionDisconnect") \/ sess[session].state = "Disconnected"
        /\ FailedLast(stack[u])
    BY DEF Course, OpenInv
  <2>1. Opens(u)' => session' \in Sessions /\ Unstarted(session)'
    <3> SUFFICES ASSUME Opens(u)' PROVE session' \in Sessions /\ Unstarted(session)'
      OBVIOUS
    <3>1. session \in Sessions /\ Unstarted(session)
      BY <1>4, <2>0
    <3> PICK s \in Sessions : s = session
      BY <3>1
    <3>2. Reader(s) \in Threads
      BY SessionThreads
    <3>3. process'[s].closed = "no" /\ stack'[Reader(s)] = <<>>
      BY <1>2, <3>1, <3>2 DEF Unstarted
    <3> QED
      BY <3>3 DEF Unstarted
  <2>2. Opens(u) => sess'[session'].state = sess[session].state
    BY <1>8
  <2>3. \A l \in BeforeReader : Has(stack'[u], l) => sess'[session'].state = "Connecting"
    <3> SUFFICES ASSUME NEW l \in BeforeReader, Has(stack'[u], l) PROVE sess'[session'].state = "Connecting"
      OBVIOUS
    <3>1. PICK k \in BeforeReader : Has(stack[u], k)
      BY <1>5
    <3>2. Opens(u)
      BY <3>1 DEF Opens
    <3> QED
      BY <2>0, <2>2, <3>1, <3>2
  <2>4. CASE u # t
    <3>1. stack'[u] = stack[u]
      BY <1>1, <2>4
    <3>2. Has(stack[u], "failed") => Opens(u)
      BY DEF Opens
    <3> QED
      BY <2>0, <2>1, <2>2, <2>3, <3>1, <3>2
  <2>5. CASE u = t /\ Fails(t, f)
    <3>1. /\ Has(f, "sessionDisconnect") /\ Has(f, "unlock") /\ FailedLast(f)
      BY <2>5, CatchBlock
    <3>2. ~Has(stack[t], "sessionDisconnect") /\ ~Has(stack[t], "failed")
      <4>1. Head(stack[t]).at \in BeforeReader
        BY <2>5 DEF Fails
      <4> QED
        BY <4>1, InsideLock DEF BeforeReader, LastLabels, LockedLabels
    <3>3. FailedLast(stack'[t])
      BY <1>t, <2>0, <2>5, <3>1, <3>2, FailedLastPushed
    <3> QED
      BY <1>1, <2>1, <2>3, <2>5, <3>1, <3>3
  <2>6. CASE u = t /\ ~Has(f, "sessionDisconnect") /\ ~Has(f, "failed")
    <3>1. FailedLast(stack'[t])
      BY <1>t, <2>0, <2>6, FailedLastPushed
    <3>2. Has(stack'[t], "sessionDisconnect") => Has(stack'[t], "unlock")
      <4> SUFFICES ASSUME Has(stack'[t], "sessionDisconnect") PROVE Has(stack'[t], "unlock")
        OBVIOUS
      <4>1. Has(stack[t], "sessionDisconnect") /\ Has(stack[t], "unlock")
        BY <1>1, <2>0, <2>6
      <4>2. Head(stack[t]).at # "unlock"
        BY <4>1, InsideLock DEF LastLabels, LockedLabels
      <4> QED
        BY <1>1, <4>1, <4>2
    <3>3. Has(stack'[t], "failed") => Has(stack'[t], "sessionDisconnect") \/ sess'[session'].state = "Disconnected"
      <4> SUFFICES ASSUME Has(stack'[t], "failed"), ~Has(stack'[t], "sessionDisconnect")
                   PROVE  sess'[session'].state = "Disconnected"
        OBVIOUS
      <4>1. Has(stack[t], "failed") /\ ~Has(stack[t], "sessionDisconnect")
        BY <1>1, <2>6
      <4>2. Opens(t)
        BY <4>1 DEF Opens
      <4> QED
        BY <2>0, <2>2, <2>6, <4>1, <4>2
    <3> QED
      BY <2>1, <2>3, <2>6, <3>1, <3>2, <3>3
  <2> QED
    BY <2>4, <2>5, <2>6
<1> QED
  BY <1>3, <1>6, <1>7, <1>9 DEF Course

\* The steps that push no part of a stop keep the course.
LEMMA CourseSteady ==
  ASSUME Exclusive, Settling', Course, NEW t \in Threads, Steady(t)
  PROVE  Course'
<1>1. PICK labels : \E f \in Seq(FramesOf(labels)) :
       /\ stack' = Pushed(stack, t, f)
       /\ {"read", "stopRequested", "disconnect", "errorReply"} \cap labels = {}
       /\ labels \cap BeforeReader = {} \/ Head(stack[t]).at \in BeforeReader
       /\ {"sessionDisconnect", "failed"} \cap labels = {} \/ Fails(t, f)
  BY Zenon DEF Steady
<1>2. PICK f \in Seq(FramesOf(labels)) :
       /\ stack' = Pushed(stack, t, f)
       /\ {"read", "stopRequested", "disconnect", "errorReply"} \cap labels = {}
       /\ labels \cap BeforeReader = {} \/ Head(stack[t]).at \in BeforeReader
       /\ {"sessionDisconnect", "failed"} \cap labels = {} \/ Fails(t, f)
  BY <1>1
<1>3. f \in Seq(Frames) /\ \A l : Has(f, l) => l \in labels
  BY LabelsOf
<1>4. /\ \A l \in {"disconnect", "errorReply", "stopRequested"} : ~Has(f, l)
      /\ \A l \in BeforeReader : Has(f, l) => Head(stack[t]).at \in BeforeReader
      /\ (~Has(f, "sessionDisconnect") /\ ~Has(f, "failed")) \/ Fails(t, f)
  BY <1>2, <1>3
<1>5. /\ stack[t] # <<>> /\ Head(stack[t]).at # "sessionDisconnect" /\ session' = session
      /\ \A s \in Sessions : Unstarted(s) => process'[s].closed = "no"
      /\ \A s \in 0..MaxSessions : sess'[s].state = sess[s].state
  BY DEF Steady, Unstarted, Sessions
<1>6. OutcomesInv' /\ \A s \in Sessions : Silent(s) => Silent(s)'
  BY OutcomesSame DEF Steady, Course
<1> QED
  BY <1>2, <1>3, <1>4, <1>5, <1>6, CoursePushed

\* What a reader that takes a line does to its session.
LEMMA LineEffect ==
  ASSUME TypeOK, NEW s \in Sessions,
         \/ HandleStateNotification(s) \/ HandleAuthNotification(s) \/ HandleFatalNotification(s)
         \/ HandleLogNotification(s)
  PROVE  /\ lock' = lock /\ UNCHANGED <<reconnects, ksVars>>
         /\ \E kind : \E rec \in SessionRecords,
                        f \in Seq(FramesOf({"connectedError", "authFailed", "read"})) :
              /\ Read(s, kind)
              /\ SetSession(Reader(s), s, rec, f)
              /\ \/ rec.state = sess[s].state
                 \/ rec.state = "Disconnected" /\ kind \in {"CONNECTED_ERROR", "AUTH_FAILED", "FATAL"}
                 \/ rec.state = "Connected" /\ kind = "CONNECTED"
                 \/ sess[s].state = "Connected" /\ rec.state \in {"Connecting", "Disconnecting"}
<1> DEFINE labels == {"connectedError", "authFailed", "read"}
<1> DEFINE t == Reader(s)
<1> DEFINE Effect ==
      \E kind : \E rec \in SessionRecords, f \in Seq(FramesOf(labels)) :
        /\ Read(s, kind)
        /\ SetSession(t, s, rec, f)
        /\ \/ rec.state = sess[s].state
           \/ rec.state = "Disconnected" /\ kind \in {"CONNECTED_ERROR", "AUTH_FAILED", "FATAL"}
           \/ rec.state = "Connected" /\ kind = "CONNECTED"
           \/ sess[s].state = "Connected" /\ rec.state \in {"Connecting", "Disconnecting"}
<1>0. t \in Threads /\ s \in 0..MaxSessions /\ sess[s] \in SessionRecords
  BY SessionThreads DEF TypeOK
<1>1. ASSUME NEW x \in SessionRecords, NEW newState \in ConnectionStates, NEW error \in ErrorTypes
      PROVE  /\ [x EXCEPT !.state = newState] \in SessionRecords
             /\ [x EXCEPT !.state = newState].state = newState
             /\ [x EXCEPT !.lastError = error] \in SessionRecords
             /\ [x EXCEPT !.lastError = error].state = x.state
  BY ZenonT(60) DEF SessionRecords
<1>2. /\ <<Frame("read", s)>> \in Seq(FramesOf(labels))
      /\ <<>> \o <<Frame("read", s)>> \in Seq(FramesOf(labels))
      /\ <<Frame("connectedError", s)>> \o <<Frame("read", s)>> \in Seq(FramesOf(labels))
      /\ <<Frame("authFailed", s), Frame("read", s)>> \in Seq(FramesOf(labels))
  <2>1. labels \subseteq Labels
    BY DEF Labels
  <2>2. /\ <<Frame("read", s)>> \in Seq(FramesOf(labels))
        /\ <<Frame("connectedError", s)>> \o <<Frame("read", s)>> \in Seq(FramesOf(labels))
        /\ <<Frame("authFailed", s), Frame("read", s)>> \in Seq(FramesOf(labels))
    BY <1>0, <2>1, FewFrames
  <2>3. <<>> \o <<Frame("read", s)>> = <<Frame("read", s)>>
    OBVIOUS
  <2> QED
    BY <2>2, <2>3
<1>s. {"Connected", "Disconnected", "Connecting", "Disconnecting"} \subseteq ConnectionStates
  BY DEF ConnectionStates
<1> HIDE DEF t, labels
<1>e. ASSUME NEW kind, NEW rec \in SessionRecords, NEW f \in Seq(FramesOf(labels)),
             Read(s, kind), SetSession(t, s, rec, f),
             \/ rec.state = sess[s].state
             \/ rec.state = "Disconnected" /\ kind \in {"CONNECTED_ERROR", "AUTH_FAILED", "FATAL"}
             \/ rec.state = "Connected" /\ kind = "CONNECTED"
             \/ sess[s].state = "Connected" /\ rec.state \in {"Connecting", "Disconnecting"}
      PROVE  Effect
  BY <1>e, Zenon
<1> HIDE DEF Effect
<1>3. ASSUME HandleStateNotification(s) PROVE Effect
  <2>1. \/ Read(s, "CONNECTED") /\ SetState(t, s, "Connected", <<>> \o <<Frame("read", s)>>)
        \/ /\ Read(s, "CONNECTED_ERROR")
           /\ SetState(t, s, "Disconnected", <<Frame("connectedError", s)>> \o <<Frame("read", s)>>)
        \/ /\ Read(s, "RECONNECTING") /\ sess[s].state = "Connected"
           /\ SetState(t, s, "Connecting", <<>> \o <<Frame("read", s)>>)
        \/ /\ Read(s, "EXITING") /\ sess[s].state = "Connected"
           /\ SetState(t, s, "Disconnecting", <<>> \o <<Frame("read", s)>>)
        \/ /\ Read(s, "RECONNECTING") \/ Read(s, "EXITING")
           /\ Continue(t, <<Frame("read", s)>>) /\ UNCHANGED <<sess, note>>
    BY <1>3, Zenon DEF HandleStateNotification, t
  <2>2. ASSUME NEW kind, NEW newState \in ConnectionStates, NEW f \in Seq(FramesOf(labels)),
               Read(s, kind), SetState(t, s, newState, f),
               \/ newState = "Disconnected" /\ kind \in {"CONNECTED_ERROR", "AUTH_FAILED", "FATAL"}
               \/ newState = "Connected" /\ kind = "CONNECTED"
               \/ sess[s].state = "Connected" /\ newState \in {"Connecting", "Disconnecting"}
        PROVE  Effect
    <3> PICK rec : rec = [sess[s] EXCEPT !.state = newState]
      OBVIOUS
    <3>1. rec \in SessionRecords /\ rec.state = newState
      BY <1>0, <1>1 DEF ErrorTypes
    <3>2. SetSession(t, s, rec, f)
      BY <2>2 DEF SetState
    <3> QED
      BY <1>e, <2>2, <3>1, <3>2
  <2>3. CASE Read(s, "CONNECTED") /\ SetState(t, s, "Connected", <<>> \o <<Frame("read", s)>>)
    BY <1>2, <1>s, <2>2, <2>3
  <2>4. CASE /\ Read(s, "CONNECTED_ERROR")
             /\ SetState(t, s, "Disconnected", <<Frame("connectedError", s)>> \o <<Frame("read", s)>>)
    BY <1>2, <1>s, <2>2, <2>4
  <2>5. CASE /\ Read(s, "RECONNECTING") /\ sess[s].state = "Connected"
             /\ SetState(t, s, "Connecting", <<>> \o <<Frame("read", s)>>)
    BY <1>2, <1>s, <2>2, <2>5
  <2>6. CASE /\ Read(s, "EXITING") /\ sess[s].state = "Connected"
             /\ SetState(t, s, "Disconnecting", <<>> \o <<Frame("read", s)>>)
    BY <1>2, <1>s, <2>2, <2>6
  <2>7. CASE /\ Read(s, "RECONNECTING") \/ Read(s, "EXITING")
             /\ Continue(t, <<Frame("read", s)>>) /\ UNCHANGED <<sess, note>>
    <3>1. SetSession(t, s, sess[s], <<Frame("read", s)>>)
      BY <1>0, <2>7 DEF SetSession, TypeOK
    <3> QED
      BY <1>0, <1>2, <1>e, <2>7, <3>1
  <2> QED
    BY <2>1, <2>3, <2>4, <2>5, <2>6, <2>7
<1>4. ASSUME HandleAuthNotification(s) PROVE Effect
  <2>1. /\ Read(s, "AUTH_FAILED")
        /\ SetState(t, s, "Disconnected", <<Frame("authFailed", s), Frame("read", s)>>)
    BY <1>4, Zenon DEF HandleAuthNotification, t
  <2> PICK rec : rec = [sess[s] EXCEPT !.state = "Disconnected"]
    OBVIOUS
  <2>2. rec \in SessionRecords /\ rec.state = "Disconnected"
    BY <1>0, <1>1, <1>s DEF ErrorTypes
  <2>3. SetSession(t, s, rec, <<Frame("authFailed", s), Frame("read", s)>>)
    BY <2>1 DEF SetState
  <2> QED
    BY <1>2, <1>e, <2>1, <2>2, <2>3
<1>5. ASSUME HandleFatalNotification(s) PROVE Effect
  <2>1. PICK error \in {"Fatal", "DnsError"} :
          SetSession(t, s, [sess[s] EXCEPT !.state = "Disconnected", !.lastError = error],
                     <<Frame("read", s)>>)
    BY <1>5, Zenon DEF HandleFatalNotification, t
  <2>2. Read(s, "FATAL") /\ error \in ErrorTypes
    BY <1>5 DEF HandleFatalNotification, ErrorTypes
  <2> PICK rec : rec = [sess[s] EXCEPT !.state = "Disconnected", !.lastError = error]
    OBVIOUS
  <2>3. rec \in SessionRecords /\ rec.state = "Disconnected"
    <3>1. ASSUME NEW x \in SessionRecords, NEW y,
                 y = [x EXCEPT !.state = "Disconnected", !.lastError = error]
          PROVE  y \in SessionRecords /\ y.state = "Disconnected"
      BY <1>s, <2>2, <3>1, ZenonT(40) DEF SessionRecords
    <3> QED
      BY <1>0, <3>1
  <2>4. SetSession(t, s, rec, <<Frame("read", s)>>)
    BY <2>1
  <2> QED
    BY <1>2, <1>e, <2>2, <2>3, <2>4
<1>6. ASSUME HandleLogNotification(s) PROVE Effect
  <2>1. /\ \E kind : Read(s, kind) /\ \E error \in ErrorTypes : sess' = [sess EXCEPT ![s].lastError = error]
        /\ Continue(t, <<Frame("read", s)>>) /\ note' = note
    <3>1. {"GeneralError", "NetworkError"} \subseteq ErrorTypes /\ SigtermErrors \subseteq ErrorTypes
      BY InputsAssumption DEF ErrorTypes, RetryErrors
    <3> QED
      BY <1>6, <3>1 DEF HandleLogNotification, t
  <2> PICK kind : Read(s, kind) /\ \E error \in ErrorTypes : sess' = [sess EXCEPT ![s].lastError = error]
    BY <2>1
  <2>2. PICK error \in ErrorTypes : sess' = [sess EXCEPT ![s].lastError = error]
    OBVIOUS
  <2> PICK rec : rec = [sess[s] EXCEPT !.lastError = error]
    OBVIOUS
  <2>3. rec \in SessionRecords /\ rec.state = sess[s].state
    BY <1>0, <1>1, <1>s
  <2>4. sess' = [sess EXCEPT ![s] = rec]
    BY <1>0, <2>2 DEF TypeOK
  <2>5. SetSession(t, s, rec, <<Frame("read", s)>>)
    BY <2>1, <2>3, <2>4 DEF SetSession
  <2> QED
    BY <1>2, <1>e, <2>1, <2>2, <2>3, <2>5
<1>7. lock' = lock /\ UNCHANGED <<reconnects, ksVars>>
  BY DEF HandleStateNotification, HandleAuthNotification, HandleFatalNotification,
     HandleLogNotification, engineVars
<1> QED
  BY <1>3, <1>4, <1>5, <1>6, <1>7, Zenon DEF Effect, t, labels

\* Only a session that is not Disconnected, so the last one, changes by what its reader takes.
LEMMA ReaderTurns ==
  ASSUME TypeOK, LinesInv, Course, NEW s \in Sessions, NEW kind, Read(s, kind),
         NEW rec, rec.state # sess[s].state,
         \/ rec.state = "Disconnected" /\ kind \in {"CONNECTED_ERROR", "AUTH_FAILED", "FATAL"}
         \/ rec.state = "Connected" /\ kind = "CONNECTED"
         \/ sess[s].state = "Connected" /\ rec.state \in {"Connecting", "Disconnecting"}
  PROVE  /\ s = session /\ sess[s].state # "Disconnected"
         /\ \A u \in Threads : ~Opens(u)
         /\ rec.state = "Disconnected" => Silent(s)'
<1>1. /\ kind \in Outcomes \cup {"FATAL"} => Silent(s)'
      /\ kind = "CONNECTED" => ~Silent(s)
  BY OutcomesRead DEF Course
<1>2. stack[Reader(s)] # <<>>
  BY DEF Read, At
<1>3. sess[s].state # "Disconnected"
  BY <1>1, <1>2 DEF Course, FinalInv
<1>4. s = session
  BY <1>3, SessionThreads DEF Course, OldInv
<1>5. \A u \in Threads : ~Opens(u)
  BY <1>2, <1>4 DEF Course, OpenInv, Unstarted
<1> QED
  BY <1>1, <1>3, <1>4, <1>5 DEF Outcomes

\* A reader that takes a line keeps the course.
LEMMA CourseLine ==
  ASSUME Exclusive, Settling, Settling', Course, NEW s \in Sessions,
         \/ HandleStateNotification(s) \/ HandleAuthNotification(s) \/ HandleFatalNotification(s)
         \/ HandleLogNotification(s)
  PROVE  Course'
<1> DEFINE labels == {"connectedError", "authFailed", "read"}
<1> DEFINE more == labels \cup {"changed"}
<1>t. TypeOK /\ Reader(s) \in Threads /\ s \in 0..MaxSessions
  BY SessionThreads DEF Exclusive
<1>1. PICK kind : \E rec \in SessionRecords, f \in Seq(FramesOf(labels)) :
              /\ Read(s, kind)
              /\ SetSession(Reader(s), s, rec, f)
              /\ \/ rec.state = sess[s].state
                 \/ rec.state = "Disconnected" /\ kind \in {"CONNECTED_ERROR", "AUTH_FAILED", "FATAL"}
                 \/ rec.state = "Connected" /\ kind = "CONNECTED"
                 \/ sess[s].state = "Connected" /\ rec.state \in {"Connecting", "Disconnecting"}
  BY <1>t, LineEffect
<1>2. PICK rec \in SessionRecords, f \in Seq(FramesOf(labels)) :
              /\ Read(s, kind)
              /\ SetSession(Reader(s), s, rec, f)
              /\ \/ rec.state = sess[s].state
                 \/ rec.state = "Disconnected" /\ kind \in {"CONNECTED_ERROR", "AUTH_FAILED", "FATAL"}
                 \/ rec.state = "Connected" /\ kind = "CONNECTED"
                 \/ sess[s].state = "Connected" /\ rec.state \in {"Connecting", "Disconnecting"}
  BY <1>1
<1>3. /\ stack[Reader(s)] # <<>> /\ Head(stack[Reader(s)]).at = "read" /\ session' = session
  BY <1>2 DEF Read, At
<1>4. /\ more \subseteq Labels /\ f \in Seq(FramesOf(more))
  <2>1. FramesOf(labels) \subseteq FramesOf(more)
    BY DEF FramesOf
  <2> QED
    BY <2>1 DEF Labels
<1>5. /\ \E g \in Seq(FramesOf(more)) : stack' = Pushed(stack, Reader(s), g)
      /\ sess'[s] = rec /\ \A r \in 0..MaxSessions : r # s => sess'[r] = sess[r]
  <2>1. "changed" \in more
    OBVIOUS
  <2> HIDE DEF more, labels
  <2> QED
    BY <1>t, <1>2, <1>3, <1>4, <2>1, SetSessionEffect
<1>6. PICK g \in Seq(FramesOf(more)) : stack' = Pushed(stack, Reader(s), g)
  BY <1>5
<1>7. g \in Seq(Frames) /\ \A l : Has(g, l) => l \in more
  <2> HIDE DEF more
  <2> QED
    BY LabelsOf
<1>8. /\ \A l \in {"disconnect", "errorReply", "stopRequested"} : ~Has(g, l)
      /\ \A l \in BeforeReader : Has(g, l) => Head(stack[Reader(s)]).at \in BeforeReader
      /\ ~Has(g, "sessionDisconnect") /\ ~Has(g, "failed")
  BY <1>7 DEF BeforeReader
<1>9. OutcomesInv' /\ \A r \in Sessions : Silent(r) => Silent(r)'
  BY <1>t, <1>2, OutcomesRead DEF Settling, Course
<1>10. \A r \in Sessions : Unstarted(r) => process'[r].closed = "no"
  <2>1. \A r \in Sessions : process'[r].closed = process[r].closed
    BY <1>t, <1>2, LineTaken
  <2> QED
    BY <2>1 DEF Unstarted
<1>11. ASSUME rec.state # sess[s].state
       PROVE  /\ s = session /\ \A u \in Threads : ~Opens(u)
              /\ rec.state = "Disconnected" => Silent(s)'
  BY <1>t, <1>2, <1>11, ReaderTurns DEF Settling
<1>12. \A r \in 0..MaxSessions :
         \/ sess'[r].state = sess[r].state
         \/ /\ r = session /\ r \in Sessions /\ \A u \in Threads : ~Opens(u)
            /\ sess'[r].state = "Disconnected" /\ stack'[Reader(r)] # <<>> => Silent(r)'
  BY <1>5, <1>11
<1> HIDE DEF more, labels
<1> QED
  BY <1>t, <1>3, <1>6, <1>7, <1>8, <1>9, <1>10, <1>12, CoursePushed

\* So does a reader that ends.
LEMMA CourseReader ==
  ASSUME Exclusive, Settling', Course, NEW s \in Sessions, RecordError(s) \/ ReaderEnds(s)
  PROVE  Course'
<1> PICK e : e = <<>>
  OBVIOUS
<1>t. TypeOK /\ Reader(s) \in Threads /\ s \in 0..MaxSessions
  BY SessionThreads DEF Exclusive
<1>1. e \in Seq(Frames) /\ \A l : ~Has(e, l)
  BY DEF Has
<1>2. /\ stack[Reader(s)] # <<>> /\ Head(stack[Reader(s)]).at \in {"read", "connectedError", "authFailed"}
      /\ session' = session
      /\ stack' = Pushed(stack, Reader(s), e)
  BY DEF RecordError, ReaderEnds, At, Continue, Pushed, sessionVars
<1>3. \A r \in 0..MaxSessions : sess'[r].state = sess[r].state
  <2>1. CASE RecordError(s)
    <3>1. PICK x : sess' = [sess EXCEPT ![s].lastError = x]
      BY <2>1 DEF RecordError
    <3> QED
      BY <1>t, <3>1 DEF TypeOK, SessionRecords
  <2>2. CASE ReaderEnds(s)
    BY <2>2 DEF ReaderEnds, sessionVars
  <2> QED
    BY <2>1, <2>2
<1>4. \A r \in Sessions : /\ process'[r].stream = process[r].stream
                          /\ process'[r].written = process[r].written
                          /\ r # s => process'[r] = process[r]
  <2>1. CASE RecordError(s)
    BY <2>1 DEF RecordError, systemVars
  <2>2. CASE ReaderEnds(s)
    <3>1. PICK x : process' = [process EXCEPT ![s].closed = x]
      BY <2>2, Zenon DEF ReaderEnds
    <3> QED
      BY <1>t, <3>1 DEF TypeOK, Processes
  <2> QED
    BY <2>1, <2>2
<1>5. OutcomesInv' /\ \A r \in Sessions : Silent(r) => Silent(r)'
  BY <1>4, OutcomesSame DEF Course
<1>6. \A r \in Sessions : Unstarted(r) => process'[r].closed = "no"
  BY <1>2, <1>4 DEF Unstarted
<1> QED
  BY <1>t, <1>1, <1>2, <1>3, <1>5, <1>6, CoursePushed

\* So do the end of a method and the end of a wait for a process.
LEMMA CourseWaits ==
  ASSUME Exclusive, Settling', Course, NEW t \in Threads, Unlock(t) \/ WaitExit(t)
  PROVE  Course'
<1> DEFINE labels == {"exited", "stopped"}
<1>t. TypeOK
  BY DEF Exclusive
<1>1. stack[t] # <<>> /\ Head(stack[t]).at \in {"unlock", "waitExit"} /\ session' = session /\ sess' = sess
  BY DEF Unlock, WaitExit, At, sessionVars
<1>2. \E f \in Seq(FramesOf(labels)) : stack' = Pushed(stack, t, f)
  <2>1. labels \subseteq Labels /\ <<>> \in Seq(FramesOf(labels))
    BY FewFrames DEF Labels
  <2>2. CASE Unlock(t)
    BY <2>1, <2>2 DEF Unlock, Continue, Pushed
  <2>3. CASE WaitExit(t)
    <3>1. Head(stack[t]) \in Frames
      BY <1>t, <1>1, Innermost DEF TypeOK
    <3> PICK s \in 0..MaxSessions : s = Subject(t)
      BY <3>1 DEF Subject, Frames
    <3>2. /\ <<Frame("exited", s)>> \o <<Frame("stopped", s)>> \in Seq(FramesOf(labels))
          /\ <<Frame("stopped", s)>> \in Seq(FramesOf(labels))
      BY <2>1, FewFrames
    <3>3. <<>> \o <<Frame("stopped", s)>> = <<Frame("stopped", s)>>
      BY <3>2, ConcatEmptySeq
    <3>4. \/ Continue(t, <<Frame("exited", s)>> \o <<Frame("stopped", s)>>)
          \/ Continue(t, <<>> \o <<Frame("stopped", s)>>)
      BY <2>3 DEF WaitExit
    <3> QED
      BY <3>2, <3>3, <3>4 DEF Continue, Pushed
  <2> QED
    BY <2>2, <2>3
<1>3. PICK f \in Seq(FramesOf(labels)) : stack' = Pushed(stack, t, f)
  BY <1>2
<1>4. f \in Seq(Frames) /\ \A l : Has(f, l) => l \in labels
  <2> HIDE DEF labels
  <2> QED
    BY LabelsOf
<1>5. /\ \A l \in {"disconnect", "errorReply", "stopRequested"} : ~Has(f, l)
      /\ \A l \in BeforeReader : ~Has(f, l)
      /\ ~Has(f, "sessionDisconnect") /\ ~Has(f, "failed")
  BY <1>4 DEF BeforeReader
<1>6. \A s \in Sessions : /\ process'[s].stream = process[s].stream
                          /\ process'[s].written = process[s].written
                          /\ process'[s].closed = process[s].closed
  <2>1. CASE Unlock(t)
    BY <2>1 DEF Unlock, systemVars
  <2>2. CASE WaitExit(t)
    <3> PICK r : r = Subject(t)
      OBVIOUS
    <3>1. PICK x : process' = [process EXCEPT ![r].raised = x]
      BY <2>2 DEF WaitExit
    <3> QED
      BY <1>t, <3>1 DEF TypeOK, Processes
  <2> QED
    BY <2>1, <2>2
<1>7. OutcomesInv' /\ \A s \in Sessions : Silent(s) => Silent(s)'
  BY <1>6, OutcomesSame DEF Course
<1>8. \A s \in Sessions : Unstarted(s) => process'[s].closed = "no"
  BY <1>6 DEF Unstarted
<1>9. \A s \in 0..MaxSessions : sess'[s].state = sess[s].state
  BY <1>1
<1> HIDE DEF labels
<1> QED
  BY <1>1, <1>3, <1>4, <1>5, <1>7, <1>8, <1>9, CoursePushed

\* What the handler of an exit does to the session.
LEMMA ExitEffect ==
  ASSUME TypeOK, Course, NEW t \in Threads, OnOpenVpnExit(t)
  PROVE  \E s \in 0..MaxSessions, rec \in SessionRecords :
           /\ SetSession(t, s, rec, <<>>)
           /\ \/ rec.state = sess[s].state
              \/ /\ rec.state = "Disconnected" /\ s = session /\ s \in Sessions
                 /\ process[s].closed = "yes" /\ \A u \in Threads : ~Opens(u)
<1>1. stack[t] # <<>> /\ Head(stack[t]) \in Frames
  BY Innermost DEF OnOpenVpnExit, At, TypeOK
<1> PICK s \in 0..MaxSessions : s = Subject(t)
  BY <1>1 DEF Subject, Frames
<1>2. /\ process[s].closed = "yes"
      /\ \/ sess[s].stopWasRequested /\ Continue(t, <<>>) /\ UNCHANGED <<sess, note>>
         \/ SetState(t, s, "Disconnected", <<>>)
  BY DEF OnOpenVpnExit
<1>3. sess[s] \in SessionRecords /\ sess \in [0..MaxSessions -> SessionRecords]
  BY DEF TypeOK
<1>4. CASE Continue(t, <<>>) /\ UNCHANGED <<sess, note>>
  <2>1. SetSession(t, s, sess[s], <<>>)
    BY <1>3, <1>4 DEF SetSession
  <2> QED
    BY <1>3, <2>1
<1>5. CASE SetState(t, s, "Disconnected", <<>>)
  <2>1. ASSUME NEW x \in SessionRecords, NEW y, y = [x EXCEPT !.state = "Disconnected"]
        PROVE  y \in SessionRecords /\ y.state = "Disconnected"
    BY <2>1, ZenonT(40) DEF SessionRecords, ConnectionStates
  <2> PICK rec : rec = [sess[s] EXCEPT !.state = "Disconnected"]
    OBVIOUS
  <2>2. rec \in SessionRecords /\ rec.state = "Disconnected"
    BY <1>3, <2>1
  <2>3. SetSession(t, s, rec, <<>>)
    BY <1>5 DEF SetState
  <2>4. ASSUME sess[s].state # "Disconnected"
        PROVE  s = session /\ s \in Sessions /\ \A u \in Threads : ~Opens(u)
    <3>1. s = session /\ s # 0
      BY <2>4 DEF Course, OldInv
    <3>2. s \in Sessions
      BY <3>1, BoundsAssumption DEF Sessions
    <3>3. \A u \in Threads : ~Opens(u)
      BY <1>2, <3>1 DEF Course, OpenInv, Unstarted
    <3> QED
      BY <3>1, <3>2, <3>3
  <2>5. \/ rec.state = sess[s].state
        \/ /\ rec.state = "Disconnected" /\ s = session /\ s \in Sessions
           /\ process[s].closed = "yes" /\ \A u \in Threads : ~Opens(u)
    BY <1>2, <2>2, <2>4
  <2> QED
    BY <2>2, <2>3, <2>5
<1> QED
  BY <1>2, <1>4, <1>5

\* So it keeps the course.
LEMMA CourseExit ==
  ASSUME Exclusive, Settling', Course, NEW t \in Threads, OnOpenVpnExit(t)
  PROVE  Course'
<1> DEFINE labels == {"changed"}
<1>t. TypeOK
  BY DEF Exclusive
<1>1. PICK s \in 0..MaxSessions, rec \in SessionRecords :
           /\ SetSession(t, s, rec, <<>>)
           /\ \/ rec.state = sess[s].state
              \/ /\ rec.state = "Disconnected" /\ s = session /\ s \in Sessions
                 /\ process[s].closed = "yes" /\ \A u \in Threads : ~Opens(u)
  BY <1>t, ExitEffect
<1>2. stack[t] # <<>> /\ Head(stack[t]).at = "exited" /\ session' = session /\ process' = process
  BY DEF OnOpenVpnExit, At, systemVars
<1>3. /\ \E g \in Seq(FramesOf(labels)) : stack' = Pushed(stack, t, g)
      /\ sess'[s] = rec /\ \A r \in 0..MaxSessions : r # s => sess'[r] = sess[r]
  <2>1. labels \subseteq Labels /\ "changed" \in labels /\ <<>> \in Seq(FramesOf(labels))
    BY DEF Labels
  <2> HIDE DEF labels
  <2> QED
    BY <1>t, <1>1, <1>2, <2>1, SetSessionEffect
<1>4. PICK f \in Seq(FramesOf(labels)) : stack' = Pushed(stack, t, f)
  BY <1>3
<1>5. f \in Seq(Frames) /\ \A l : Has(f, l) => l \in labels
  <2> HIDE DEF labels
  <2> QED
    BY LabelsOf
<1>6. /\ \A l \in {"disconnect", "errorReply", "stopRequested"} : ~Has(f, l)
      /\ \A l \in BeforeReader : ~Has(f, l)
      /\ ~Has(f, "sessionDisconnect") /\ ~Has(f, "failed")
  BY <1>5 DEF BeforeReader
<1>7. OutcomesInv' /\ \A r \in Sessions : Silent(r) => Silent(r)'
  BY <1>2, OutcomesSame DEF Course
<1>8. \A r \in Sessions : Unstarted(r) => process'[r].closed = "no"
  BY <1>2 DEF Unstarted
<1>9. \A r \in Sessions : process[r].closed = "yes" => stack'[Reader(r)] = <<>>
  BY <1>2 DEF Settling, ReadersInv
<1>10. \A r \in 0..MaxSessions :
         \/ sess'[r].state = sess[r].state
         \/ /\ r = session /\ r \in Sessions /\ \A u \in Threads : ~Opens(u)
            /\ sess'[r].state = "Disconnected" /\ stack'[Reader(r)] # <<>> => Silent(r)'
  BY <1>1, <1>3, <1>9
<1> HIDE DEF labels
<1> QED
  BY <1>t, <1>2, <1>4, <1>5, <1>6, <1>7, <1>8, <1>10, CoursePushed

\* What the end of a session in Disconnect, or in the catch block of Connect, does.
LEMMA DisconnectEffect ==
  ASSUME Exclusive, Course, NEW t \in Threads, SessionDisconnect(t)
  PROVE  /\ session \in Sessions /\ Unstarted(session)
         /\ \A u \in Threads : u # t => ~Opens(u)
         /\ \A l \in BeforeReader : ~Has(stack[t], l)
         /\ Has(stack[t], "unlock") /\ Has(stack[t], "sessionDisconnect")
         /\ \E rec \in SessionRecords :
              rec.state = "Disconnected" /\ SetSession(t, session, rec, <<>>)
<1>t. TypeOK /\ session \in 0..MaxSessions /\ sess[session] \in SessionRecords
  BY DEF Exclusive, TypeOK
<1>1. stack[t] # <<>> /\ Head(stack[t]).at = "sessionDisconnect"
  BY DEF SessionDisconnect, At
<1>2. Has(stack[t], "sessionDisconnect") /\ lock = t
  BY <1>1, InsideLock DEF LockedLabels
<1>3. Opens(t) /\ Has(stack[t], "unlock")
  BY <1>2 DEF Opens, Course, OpenInv
<1>4. session \in Sessions /\ Unstarted(session)
  BY <1>3 DEF Course, OpenInv
<1>5. ASSUME NEW u \in Threads, u # t PROVE ~Opens(u)
  <2>1. CASE stack[u] = <<>>
    <3>1. Len(stack[u]) = 0
      BY <2>1
    <3> QED
      BY <3>1 DEF Opens, Has
  <2>2. CASE stack[u] # <<>>
    <3>1. BeforeReader \cup {"sessionDisconnect", "failed"} \subseteq LockedLabels
      BY DEF BeforeReader, LockedLabels, LastLabels
    <3> QED
      BY <1>2, <1>5, <2>2, <3>1, InsideLock DEF Opens
  <2> QED
    BY <2>1, <2>2
<1>6. \A l \in BeforeReader : ~Has(stack[t], l)
  <2>1. "unlock" \in LastLabels /\ "unlock" \notin BeforeReader /\ BeforeReader \subseteq LastLabels
    BY DEF BeforeReader, LastLabels
  <2> QED
    BY <1>3, <2>1, OneLast
<1>7. \E rec \in SessionRecords :
        rec.state = "Disconnected" /\ SetSession(t, session, rec, <<>>)
  <2>1. ASSUME NEW x \in SessionRecords, NEW y,
               y = [x EXCEPT !.state = "Disconnected", !.lastError = "NoError"]
        PROVE  y \in SessionRecords /\ y.state = "Disconnected"
    BY <2>1, ZenonT(40) DEF SessionRecords, ConnectionStates, ErrorTypes
  <2> PICK rec : rec = [sess[session] EXCEPT !.state = "Disconnected", !.lastError = "NoError"]
    OBVIOUS
  <2>2. rec \in SessionRecords /\ rec.state = "Disconnected"
    BY <1>t, <2>1
  <2>3. SetSession(t, session, rec, <<>>)
    BY DEF SessionDisconnect
  <2> QED
    BY <2>2, <2>3
<1> QED
  BY <1>2, <1>3, <1>4, <1>5, <1>6, <1>7

\* It keeps the course.
LEMMA CourseDisconnect ==
  ASSUME Exclusive, Course, NEW t \in Threads, SessionDisconnect(t)
  PROVE  Course'
<1> DEFINE labels == {"changed"}
<1>t. TypeOK /\ session \in 0..MaxSessions /\ stack \in [Threads -> Seq(Frames)]
  BY DEF Exclusive, TypeOK
<1>1. /\ session \in Sessions /\ Unstarted(session)
      /\ \A u \in Threads : u # t => ~Opens(u)
      /\ \A l \in BeforeReader : ~Has(stack[t], l)
      /\ Has(stack[t], "unlock") /\ Has(stack[t], "sessionDisconnect")
  BY DisconnectEffect
<1>2. PICK rec \in SessionRecords :
        rec.state = "Disconnected" /\ SetSession(t, session, rec, <<>>)
  BY DisconnectEffect
<1>3. /\ stack[t] # <<>> /\ Head(stack[t]).at = "sessionDisconnect"
      /\ session' = session /\ process' = process
  BY DEF SessionDisconnect, At, systemVars
<1>4. /\ \E g \in Seq(FramesOf(labels)) : stack' = Pushed(stack, t, g)
      /\ sess'[session] = rec /\ \A r \in 0..MaxSessions : r # session => sess'[r] = sess[r]
  <2>1. labels \subseteq Labels /\ "changed" \in labels /\ <<>> \in Seq(FramesOf(labels))
    BY DEF Labels
  <2> HIDE DEF labels
  <2> QED
    BY <1>t, <1>2, <1>3, <2>1, SetSessionEffect
<1>5. PICK f \in Seq(FramesOf(labels)) : stack' = Pushed(stack, t, f)
  BY <1>4
<1>6. f \in Seq(Frames) /\ \A l : Has(f, l) => l \in labels
  <2> HIDE DEF labels
  <2> QED
    BY LabelsOf
<1>7. /\ \A u \in Threads : u # t => stack'[u] = stack[u]
      /\ \A l : Has(stack'[t], l) => Has(f, l) \/ Has(stack[t], l)
      /\ \A l : Has(stack[t], l) /\ Head(stack[t]).at # l => Has(stack'[t], l)
      /\ \A u \in Threads : stack[u] = <<>> => stack'[u] = <<>>
  BY <1>t, <1>3, <1>5, <1>6, Stepped, IdleStays
<1>8. OutcomesInv' /\ \A s \in Sessions : Silent(s) => Silent(s)'
  BY <1>3, OutcomesSame DEF Course
<1>9. FinalInv'
  <2> SUFFICES ASSUME NEW s \in Sessions, sess'[s].state = "Disconnected", stack'[Reader(s)] # <<>>
               PROVE  Silent(s)'
    BY DEF FinalInv
  <2>1. Reader(s) \in Threads /\ s \in 0..MaxSessions
    BY SessionThreads
  <2>2. stack[Reader(s)] # <<>>
    BY <1>7, <2>1
  <2>3. s # session
    BY <1>1, <2>2 DEF Unstarted
  <2> QED
    BY <1>4, <1>8, <2>1, <2>2, <2>3 DEF Course, FinalInv
<1>10. NoStops'
  BY <1>6, <1>7 DEF Course, NoStops
<1>11. OldInv'
  <2> SUFFICES ASSUME NEW s \in 0..MaxSessions, s # session' \/ s = 0
               PROVE  sess'[s].state = "Disconnected"
    BY DEF OldInv
  <2>1. s # session
    BY <1>1, <1>3 DEF Sessions
  <2> QED
    BY <1>3, <1>4, <2>1 DEF Course, OldInv
<1>12. session' \in Sessions /\ Unstarted(session)'
  <2> PICK s \in Sessions : s = session
    BY <1>1
  <2>1. Unstarted(s)'
    BY <1>1, <1>3, <1>7, SessionThreads DEF Unstarted
  <2> QED
    BY <1>3, <2>1 DEF Unstarted
<1>13. ASSUME NEW u \in Threads, u # t, NEW l \in BeforeReader \cup {"sessionDisconnect", "failed"}
       PROVE  ~Has(stack'[u], l)
  BY <1>1, <1>7, <1>13 DEF Opens
<1>14. \A l \in BeforeReader : ~Has(stack'[t], l)
  BY <1>1, <1>6, <1>7 DEF BeforeReader
<1>15. FailedLast(stack'[t])
  <2>1. ~Has(f, "sessionDisconnect") /\ ~Has(f, "failed") /\ FailedLast(stack[t])
    BY <1>6 DEF Course, OpenInv
  <2> HIDE DEF labels
  <2> QED
    BY <1>t, <1>3, <1>5, <1>6, <2>1, FailedLastPushed
<1>16. Has(stack'[t], "unlock") /\ sess'[session'].state = "Disconnected"
  BY <1>1, <1>2, <1>3, <1>4, <1>7
<1>17. OpenInv'
  <2> SUFFICES ASSUME NEW u \in Threads
               PROVE  /\ Opens(u)' => session' \in Sessions /\ Unstarted(session)'
                      /\ \A l \in BeforeReader : Has(stack'[u], l) => sess'[session'].state = "Connecting"
                      /\ Has(stack'[u], "sessionDisconnect") => Has(stack'[u], "unlock")
                      /\ Has(stack'[u], "failed") =>
                           Has(stack'[u], "sessionDisconnect") \/ sess'[session'].state = "Disconnected"
                      /\ FailedLast(stack'[u])
    BY DEF OpenInv
  <2>1. CASE u = t
    BY <1>12, <1>14, <1>15, <1>16, <2>1
  <2>2. CASE u # t
    <3>1. FailedLast(stack'[u])
      BY <1>7, <2>2 DEF Course, OpenInv
    <3> QED
      BY <1>12, <1>13, <2>2, <3>1
  <2> QED
    BY <2>1, <2>2
<1> QED
  BY <1>8, <1>9, <1>10, <1>11, <1>17 DEF Course

\* A new session keeps the course: the one before it has ended.
LEMMA CourseStart ==
  ASSUME Exclusive, Settling, Course, NEW t \in Threads, StartSession(t)
  PROVE  Course'
<1> DEFINE labels == {"changed", "clean"}
<1>0. /\ TypeOK /\ stack[t] # <<>> /\ session \in 0..MaxSessions /\ 0 \in 0..MaxSessions
      /\ session' = session + 1 /\ session' \in Sessions /\ session' \in 0..MaxSessions
      /\ lock = NoThread /\ Head(stack[t]).at = "connect"
      /\ sess[session].state = "Disconnected" /\ process' = process
  BY BoundsAssumption DEF Exclusive, TypeOK, StartSession, Sessions, At, systemVars
<1>1. labels \subseteq Labels /\ <<Frame("clean", 0)>> \in Seq(FramesOf(labels))
  BY <1>0, FewFrames DEF Labels
<1> PICK n : n = session'
  OBVIOUS
<1>2. /\ \E f \in Seq(FramesOf(labels)) : stack' = Pushed(stack, t, f)
      /\ sess'[n].state = "Connecting"
      /\ \A r \in 0..MaxSessions : r # n => sess'[r] = sess[r]
  <2>1. SetState(t, n, "Connecting", <<Frame("clean", 0)>>)
    BY DEF StartSession
  <2> QED
    BY <1>0, <1>1, <2>1, SetStateEffect DEF ConnectionStates
<1> HIDE DEF labels
<1>3. PICK f \in Seq(FramesOf(labels)) : stack' = Pushed(stack, t, f)
  BY <1>2
<1>4. f \in Seq(Frames) /\ \A l : Has(f, l) => l \in labels
  BY LabelsOf
<1>5. /\ \A u \in Threads : u # t => stack'[u] = stack[u]
      /\ \A l : Has(stack'[t], l) => Has(f, l) \/ Has(stack[t], l)
      /\ \A u \in Threads : stack[u] = <<>> => stack'[u] = <<>>
  BY <1>0, <1>3, <1>4, Stepped, IdleStays
<1>6. \A u \in Threads, l \in LockedLabels : ~Has(stack[u], l)
  BY <1>0, FreeLock
<1>7. \A u \in Threads, l \in LockedLabels : Has(stack'[u], l) => l = "clean"
  BY <1>4, <1>5, <1>6 DEF labels, LockedLabels, LastLabels
<1>8. OutcomesInv' /\ \A s \in Sessions : Silent(s) => Silent(s)'
  BY <1>0, OutcomesSame DEF Course
<1>9. FinalInv'
  <2> SUFFICES ASSUME NEW s \in Sessions, sess'[s].state = "Disconnected", stack'[Reader(s)] # <<>>
               PROVE  Silent(s)'
    BY DEF FinalInv
  <2>1. Reader(s) \in Threads /\ s \in 0..MaxSessions
    BY SessionThreads
  <2>2. stack[Reader(s)] # <<>>
    BY <1>5, <2>1
  <2> QED
    BY <1>2, <1>8, <2>1, <2>2 DEF Course, FinalInv
<1>10. NoStops'
  BY <1>4, <1>5 DEF Course, NoStops, labels
<1>11. OldInv'
  <2> SUFFICES ASSUME NEW s \in 0..MaxSessions, s # session' \/ s = 0
               PROVE  sess'[s].state = "Disconnected"
    BY DEF OldInv
  <2>1. s # n
    BY <1>0 DEF Sessions
  <2> QED
    BY <1>0, <1>2, <2>1 DEF Course, OldInv
<1>12. session' \in Sessions /\ Unstarted(session)'
  <2>1. n \in Sessions /\ n > session
    BY <1>0
  <2>2. Unstarted(n)
    BY <2>1 DEF Settling, ReadersInv
  <2>3. Unstarted(n)'
    BY <1>0, <1>5, <2>1, <2>2, SessionThreads DEF Unstarted
  <2> QED
    BY <2>1, <2>3 DEF Unstarted
<1>13. OpenInv'
  <2> SUFFICES ASSUME NEW u \in Threads
               PROVE  /\ Opens(u)' => session' \in Sessions /\ Unstarted(session)'
                      /\ \A l \in BeforeReader : Has(stack'[u], l) => sess'[session'].state = "Connecting"
                      /\ Has(stack'[u], "sessionDisconnect") => Has(stack'[u], "unlock")
                      /\ Has(stack'[u], "failed") =>
                           Has(stack'[u], "sessionDisconnect") \/ sess'[session'].state = "Disconnected"
                      /\ FailedLast(stack'[u])
    BY DEF OpenInv
  <2>1. ~Has(stack'[u], "sessionDisconnect") /\ ~Has(stack'[u], "failed")
    BY <1>7 DEF LockedLabels
  <2>2. FailedLast(stack'[u])
    BY <2>1 DEF FailedLast, Has
  <2> QED
    BY <1>2, <1>12, <2>1, <2>2
<1> QED
  BY <1>8, <1>9, <1>10, <1>11, <1>13 DEF Course

\* What the end of Connect does to the threads.
LEMMA StartReaderEffect ==
  ASSUME Exclusive, ReadersInv, NEW t \in Threads, StartReader(t)
  PROVE  /\ session \in Sessions /\ Unstarted(session) /\ t # Reader(session)
         /\ Has(stack[t], "startReader") /\ lock = t
         /\ \A u \in Threads : u # t /\ u # Reader(session) => stack'[u] = stack[u]
         /\ stack'[Reader(session)] = <<Frame("read", session)>>
         /\ Len(stack'[t]) = Len(stack[t]) /\ Len(stack[t]) \in Nat /\ Len(stack[t]) >= 1
         /\ stack'[t][1].at = "unlock" /\ Head(stack'[t]) = stack'[t][1] /\ stack'[t] # <<>>
         /\ \A i \in 2..Len(stack[t]) :
              stack'[t][i] = stack[t][i] /\ stack[t][i].at \notin LockedLabels
         /\ \A l : Has(stack'[t], l) => l = "unlock" \/ (Has(stack[t], l) /\ l \notin LockedLabels)
<1>0. /\ TypeOK /\ stack \in [Threads -> Seq(Frames)] /\ stack[t] # <<>> /\ 0 \in 0..MaxSessions
      /\ Head(stack[t]).at = "startReader"
  BY BoundsAssumption DEF Exclusive, TypeOK, StartReader, At
<1>1. Has(stack[t], "startReader") /\ lock = t
  BY <1>0, InsideLock DEF LockedLabels, LastLabels
<1>2. session \in Sessions /\ Unstarted(session)
  BY <1>1 DEF ReadersInv, Starting, BeforeReader
<1> PICK s \in Sessions : s = session
  BY <1>2
<1> PICK R \in Threads : R = Reader(s)
  BY SessionThreads
<1>3. t # R
  BY <1>0, <1>2 DEF Unstarted
<1> PICK q \in Seq(Frames) : q = stack[t]
  BY <1>0
<1>4. Len(q) \in Nat /\ Len(q) >= 1 /\ Head(q) = q[1] /\ 1 \in 1..Len(q)
  BY <1>0, Innermost
<1>5. <<Frame("unlock", 0)>> \in Seq(Frames) /\ Frame("unlock", 0).at = "unlock"
  BY <1>0, FrameTyped, OneFrame DEF Labels
<1> PICK f \in Seq(Frames) : f = <<Frame("unlock", 0)>>
  BY <1>5
<1>6. Len(f) = 1 /\ f[1].at = "unlock"
  BY <1>5
<1>m. /\ Pushed(stack, t, f) \in [Threads -> Seq(Frames)]
      /\ \A u \in Threads : u # t => Pushed(stack, t, f)[u] = stack[u]
      /\ Len(Pushed(stack, t, f)[t]) = Len(f) + Len(stack[t]) - 1
      /\ \A i \in 1..Len(Pushed(stack, t, f)[t]) :
           \/ i \in 1..Len(f) /\ Pushed(stack, t, f)[t][i] = f[i]
           \/ /\ i > Len(f)
              /\ i - Len(f) + 1 \in 2..Len(stack[t])
              /\ Pushed(stack, t, f)[t][i] = stack[t][i - Len(f) + 1]
  BY <1>0, AfterPush
<1> PICK mid : mid = Pushed(stack, t, f)
  OBVIOUS
<1>7. stack' = [mid EXCEPT ![R] = <<Frame("read", s)>>]
  BY <1>3 DEF StartReader, Pushed
<1>8. /\ mid \in [Threads -> Seq(Frames)]
      /\ \A u \in Threads : u # t => mid[u] = stack[u]
      /\ Len(mid[t]) = Len(f) + Len(q) - 1
      /\ \A i \in 1..Len(mid[t]) :
           \/ i \in 1..Len(f) /\ mid[t][i] = f[i]
           \/ /\ i > Len(f)
              /\ i - Len(f) + 1 \in 2..Len(q)
              /\ mid[t][i] = q[i - Len(f) + 1]
  BY <1>m
<1>9. stack'[t] = mid[t] /\ stack'[R] = <<Frame("read", s)>> /\ \A u \in Threads : u # R => stack'[u] = mid[u]
  BY <1>3, <1>7, <1>8
<1> PICK p \in Seq(Frames) : p = mid[t]
  BY <1>8
<1>10. Len(p) = Len(q)
  BY <1>4, <1>6, <1>8
<1>11. ASSUME NEW i \in 1..Len(p)
       PROVE  (i = 1 /\ p[i].at = "unlock") \/ (i \in 2..Len(q) /\ p[i] = q[i] /\ i # 1)
  <2>1. CASE i \in 1..Len(f) /\ p[i] = f[i]
    BY <1>6, <2>1
  <2>2. CASE i > Len(f) /\ i - Len(f) + 1 \in 2..Len(q) /\ p[i] = q[i - Len(f) + 1]
    <3>1. i - Len(f) + 1 = i
      BY <1>6
    <3> QED
      BY <1>6, <2>2, <3>1
  <2> QED
    BY <1>8, <2>1, <2>2
<1>12. p # <<>> /\ Head(p) = p[1] /\ p[1].at = "unlock"
  <2>1. p # <<>>
    BY <1>4, <1>10
  <2>2. Head(p) = p[1] /\ 1 \in 1..Len(p)
    BY <2>1, Innermost
  <2> QED
    BY <1>11, <2>1, <2>2
<1>13. \A i \in 2..Len(q) : p[i] = q[i] /\ q[i].at \notin LockedLabels
  <2>1. Ordered(q) /\ "startReader" \in LastLabels
    BY DEF Exclusive, Discipline, LastLabels
  <2>2. ASSUME NEW i \in 2..Len(q) PROVE i \in 1..Len(p) /\ i \in 1..Len(q) /\ 1 < i
    BY <1>4, <1>10
  <2> QED
    BY <1>0, <1>4, <1>11, <2>1, <2>2 DEF Ordered
<1>14. \A l : Has(p, l) => l = "unlock" \/ (Has(q, l) /\ l \notin LockedLabels)
  <2> SUFFICES ASSUME NEW l, Has(p, l), l # "unlock"
               PROVE  Has(q, l) /\ l \notin LockedLabels
    OBVIOUS
  <2>1. PICK i \in 1..Len(p) : p[i].at = l
    BY DEF Has
  <2>2. i \in 2..Len(q) /\ p[i] = q[i] /\ i \in 1..Len(q)
    BY <1>10, <1>11, <2>1
  <2> QED
    BY <1>13, <2>1, <2>2 DEF Has
<1> QED
  BY <1>1, <1>2, <1>3, <1>4, <1>8, <1>9, <1>10, <1>12, <1>13, <1>14

\* The end of Connect keeps the course: its session is Connecting.
LEMMA CourseReaderStarts ==
  ASSUME Exclusive, Settling, Course, NEW t \in Threads, StartReader(t)
  PROVE  Course'
<1> PICK s : s = session
  OBVIOUS
<1>1. /\ s \in Sessions /\ Unstarted(s) /\ t # Reader(s)
      /\ Has(stack[t], "startReader") /\ lock = t
      /\ \A u \in Threads : u # t /\ u # Reader(s) => stack'[u] = stack[u]
      /\ stack'[Reader(s)] = <<Frame("read", s)>>
      /\ \A l : Has(stack'[t], l) => l = "unlock" \/ (Has(stack[t], l) /\ l \notin LockedLabels)
  BY StartReaderEffect DEF Settling
<1>2. session' = s /\ sess' = sess /\ process' = process /\ stack[t] # <<>>
  BY DEF StartReader, sessionVars, systemVars, At
<1>3. OutcomesInv' /\ \A r \in Sessions : Silent(r) => Silent(r)'
  BY <1>2, OutcomesSame DEF Course
<1>4. sess[s].state = "Connecting"
  BY <1>1 DEF Course, OpenInv, BeforeReader
<1>5. \A r \in Sessions : r # s /\ stack'[Reader(r)] # <<>> => stack[Reader(r)] # <<>>
  <2> SUFFICES ASSUME NEW r \in Sessions, r # s, stack'[Reader(r)] # <<>>
               PROVE  stack[Reader(r)] # <<>>
    OBVIOUS
  <2>1. Reader(r) \in Threads /\ Reader(r) # Reader(s)
    BY <1>1, SessionThreads DEF Reader
  <2>2. CASE Reader(r) = t
    BY <1>2, <2>2
  <2>3. CASE Reader(r) # t
    BY <1>1, <2>1, <2>3
  <2> QED
    BY <2>2, <2>3
<1>6. FinalInv'
  BY <1>2, <1>3, <1>4, <1>5 DEF Course, FinalInv
<1>7. \A l : Has(stack'[Reader(s)], l) => l = "read"
  <2> PICK q : q = <<Frame("read", s)>>
    OBVIOUS
  <2>1. Len(q) = 1 /\ q[1].at = "read"
    BY DEF Frame
  <2>2. \A l : Has(q, l) => l = "read"
    BY <2>1 DEF Has
  <2> QED
    BY <1>1, <2>2
<1>8. NoStops'
  <2> SUFFICES ASSUME NEW u \in Threads, NEW l \in {"disconnect", "errorReply", "stopRequested"}
               PROVE  ~Has(stack'[u], l)
    BY DEF NoStops
  <2>1. ~Has(stack[u], l)
    BY DEF Course, NoStops
  <2> QED
    BY <1>1, <1>7, <2>1
<1>9. OldInv'
  BY <1>2 DEF Course, OldInv
<1>l. /\ BeforeReader \cup {"sessionDisconnect", "failed"} \subseteq LockedLabels
      /\ "unlock" \notin BeforeReader \cup {"sessionDisconnect", "failed"}
      /\ "read" \notin LockedLabels
  BY DEF BeforeReader, LockedLabels, LastLabels
<1>10. ASSUME NEW u \in Threads, NEW l \in BeforeReader \cup {"sessionDisconnect", "failed"}
       PROVE  ~Has(stack'[u], l)
  <2>1. CASE u = t
    BY <1>1, <1>l, <2>1
  <2>2. CASE u = Reader(s)
    BY <1>7, <1>l, <2>2
  <2>3. CASE u # t /\ u # Reader(s)
    <3> SUFFICES ASSUME Has(stack[u], l) PROVE FALSE
      BY <1>1, <2>3
    <3>1. stack[u] # <<>>
      <4> SUFFICES ASSUME stack[u] = <<>> PROVE FALSE
        OBVIOUS
      <4>1. Len(stack[u]) = 0
        OBVIOUS
      <4> QED
        BY <4>1 DEF Has
    <3> QED
      BY <1>1, <1>l, <2>3, <3>1, InsideLock
  <2> QED
    BY <2>1, <2>2, <2>3
<1>11. \A u \in Threads : FailedLast(stack'[u])
  BY <1>10 DEF FailedLast, Has
<1>12. OpenInv'
  BY <1>10, <1>11 DEF OpenInv, Opens
<1> QED
  BY <1>3, <1>6, <1>8, <1>9, <1>12 DEF Course

\* A thread that was idle is given a connect or an exit.
LEMMA CourseGiven ==
  ASSUME TypeOK, Course, NEW t \in Threads, stack[t] = <<>>, \A s \in Sessions : t # Reader(s),
         NEW q \in Seq(Frames), stack' = [stack EXCEPT ![t] = q],
         \A l : Has(q, l) => l \in {"connect", "switchOff", "exited"},
         session' = session, sess' = sess,
         \A s \in Sessions :
           /\ process'[s].closed = process[s].closed
           /\ process'[s].stream = process[s].stream /\ process'[s].written = process[s].written
  PROVE  Course'
<1>1. OutcomesInv' /\ \A s \in Sessions : Silent(s) => Silent(s)'
  BY OutcomesSame DEF Course
<1>2. stack'[t] = q /\ \A u \in Threads : u # t => stack'[u] = stack[u]
  BY DEF TypeOK
<1>3. \A s \in Sessions : Reader(s) \in Threads /\ stack'[Reader(s)] = stack[Reader(s)]
  BY <1>2, SessionThreads
<1>4. FinalInv' /\ OldInv'
  BY <1>1, <1>3 DEF Course, FinalInv, OldInv
<1>5. NoStops'
  BY <1>2 DEF Course, NoStops
<1>6. \A l \in BeforeReader \cup {"sessionDisconnect", "failed"} : ~Has(q, l)
  BY DEF BeforeReader
<1>7. FailedLast(q)
  BY <1>6 DEF FailedLast, Has
<1>8. session \in Sessions /\ Unstarted(session) => Unstarted(session)'
  <2> SUFFICES ASSUME session \in Sessions, Unstarted(session) PROVE Unstarted(session)'
    OBVIOUS
  <2> PICK s \in Sessions : s = session
    OBVIOUS
  <2>1. Unstarted(s)'
    BY <1>3 DEF Unstarted
  <2> QED
    BY <2>1 DEF Unstarted
<1>9. OpenInv'
  <2> SUFFICES ASSUME NEW u \in Threads
               PROVE  /\ Opens(u)' => session' \in Sessions /\ Unstarted(session)'
                      /\ \A l \in BeforeReader : Has(stack'[u], l) => sess'[session'].state = "Connecting"
                      /\ Has(stack'[u], "sessionDisconnect") => Has(stack'[u], "unlock")
                      /\ Has(stack'[u], "failed") =>
                           Has(stack'[u], "sessionDisconnect") \/ sess'[session'].state = "Disconnected"
                      /\ FailedLast(stack'[u])
    BY DEF OpenInv
  <2>1. CASE u = t
    BY <1>2, <1>6, <1>7, <2>1 DEF Opens
  <2>2. CASE u # t
    BY <1>2, <1>8, <2>2 DEF Opens, Course, OpenInv
  <2> QED
    BY <2>1, <2>2
<1> QED
  BY <1>1, <1>4, <1>5, <1>9 DEF Course

\* The calls, the queued reconnects and the exits the pool raises keep the course.
LEMMA CourseCalls ==
  ASSUME NoRequests, Exclusive, Settling, Course,
         \/ \E w \in Workers : Client(w) \/ RunReconnect(w)
         \/ \E s \in Sessions : RaiseExited(s)
  PROVE  Course'
<1>0. 0 \in 0..MaxSessions /\ TypeOK
  BY BoundsAssumption DEF Exclusive
<1>1. ASSUME NEW w \in Workers, Client(w) \/ RunReconnect(w) PROVE Course'
  <2>1. w \in Threads /\ \A s \in Sessions : w # Reader(s)
    BY <1>1, ThreadsAssumption DEF Threads
  <2>2. /\ stack[w] = <<>> /\ session' = session /\ sess' = sess /\ process' = process
        /\ \E q \in {<<>>, <<Frame("connect", 0)>>, <<Frame("switchOff", 0)>>} :
             stack' = [stack EXCEPT ![w] = q]
    <3>1. ~CallDisconnect(w) /\ ~CallStop(w)
      BY DEF CallDisconnect, CallStop, Call, NoRequests
    <3>2. CASE CallConnect(w) \/ RunReconnect(w)
      BY <3>2, Zenon DEF CallConnect, RunReconnect, Call, Idle, sessionVars, systemVars
    <3>3. CASE CallToggleKillSwitch(w) \/ CallUnblockTraffic(w)
      BY <3>3, Zenon DEF CallToggleKillSwitch, CallUnblockTraffic, Call, Idle, sessionVars, systemVars
    <3> QED
      BY <1>1, <3>1, <3>2, <3>3 DEF Client
  <2>3. PICK q \in Seq(FramesOf({"connect", "switchOff"})) : stack' = [stack EXCEPT ![w] = q]
    <3>1. {"connect", "switchOff"} \subseteq Labels
      BY DEF Labels
    <3>2. /\ <<>> \in Seq(FramesOf({"connect", "switchOff"}))
          /\ \A l \in {"connect", "switchOff"} : <<Frame(l, 0)>> \in Seq(FramesOf({"connect", "switchOff"}))
      BY <1>0, <3>1, FewFrames
    <3> QED
      BY <2>2, <3>2
  <2>4. q \in Seq(Frames) /\ \A l : Has(q, l) => l \in {"connect", "switchOff", "exited"}
    BY LabelsOf
  <2> QED
    BY <1>0, <2>1, <2>2, <2>3, <2>4, CourseGiven
<1>2. ASSUME NEW s \in Sessions, RaiseExited(s) PROVE Course'
  <2> PICK t \in Threads : t = ExitThread(s)
    BY SessionThreads
  <2>1. s \in 0..MaxSessions /\ \A r \in Sessions : t # Reader(r)
    BY SessionThreads DEF Reader, ExitThread
  <2>2. /\ process[s].raised = "no"
        /\ process' = [process EXCEPT ![s].raised = Heard(s)]
        /\ stack' = [stack EXCEPT ![t] = IF Heard(s) = "heard" THEN <<Frame("exited", s)>> ELSE <<>>]
        /\ session' = session /\ sess' = sess
    BY <1>2, Zenon DEF RaiseExited, sessionVars
  <2>3. PICK q \in Seq(FramesOf({"exited"})) : stack' = [stack EXCEPT ![t] = q]
    <3>1. {"exited"} \subseteq Labels
      BY DEF Labels
    <3>2. <<>> \in Seq(FramesOf({"exited"})) /\ <<Frame("exited", s)>> \in Seq(FramesOf({"exited"}))
      BY <2>1, <3>1, FewFrames
    <3> QED
      BY <2>2, <3>2
  <2>4. q \in Seq(Frames) /\ \A l : Has(q, l) => l \in {"connect", "switchOff", "exited"}
    BY LabelsOf
  <2>5. \A r \in Sessions :
          /\ process'[r].closed = process[r].closed
          /\ process'[r].stream = process[r].stream /\ process'[r].written = process[r].written
    BY <1>0, <2>2 DEF TypeOK, Processes
  <2>6. stack[t] = <<>>
    BY <2>2 DEF Settling, ReadersInv
  <2> QED
    BY <1>0, <2>1, <2>2, <2>3, <2>4, <2>5, <2>6, CourseGiven
<1> QED
  BY <1>1, <1>2

\* So does whatever leaves the threads and the sessions alone.
LEMMA CourseProcess ==
  ASSUME TypeOK, Settling, Course, UNCHANGED <<stack, session, sess>>,
         \/ \E s \in Sessions : Write(s) \/ Exit(s)
         \/ UNCHANGED process
  PROVE  Course'
<1>1. OutcomesInv' /\ \A r \in Sessions : Silent(r) => Silent(r)'
  <2>1. ASSUME NEW s \in Sessions, Write(s)
        PROVE  OutcomesInv' /\ \A r \in Sessions : Silent(r) => Silent(r)'
    BY <2>1, OutcomesWritten DEF Settling, Course
  <2>2. ASSUME NEW s \in Sessions, Exit(s)
        PROVE  OutcomesInv' /\ \A r \in Sessions : Silent(r) => Silent(r)'
    <3>1. process' = [process EXCEPT ![s].status = "exited"]
      BY <2>2, Zenon DEF Exit
    <3>2. \A r \in Sessions : /\ process'[r].stream = process[r].stream
                              /\ process'[r].written = process[r].written
      BY <3>1 DEF TypeOK, Processes
    <3> QED
      BY <3>2, OutcomesSame DEF Course
  <2>3. CASE UNCHANGED process
    BY <2>3, OutcomesSame DEF Course
  <2> QED
    BY <2>1, <2>2, <2>3
<1>2. \A r \in Sessions : Unstarted(r) => Unstarted(r)'
  <2>1. ASSUME NEW r \in Sessions PROVE process'[r].closed = process[r].closed
    <3>1. ASSUME NEW s \in Sessions, Write(s) PROVE process'[r].closed = process[r].closed
      <4>1. process'[s].closed = process[s].closed /\ (r # s => process'[r] = process[r])
        BY <3>1, LineWritten
      <4> QED
        BY <4>1
    <3>2. ASSUME NEW s \in Sessions, Exit(s) PROVE process'[r].closed = process[r].closed
      <4>1. process' = [process EXCEPT ![s].status = "exited"]
        BY <3>2, Zenon DEF Exit
      <4> QED
        BY <4>1 DEF TypeOK, Processes
    <3> QED
      BY <3>1, <3>2
  <2> QED
    BY <2>1 DEF Unstarted
<1>3. session' \in Sessions => (Unstarted(session) => Unstarted(session)')
  <2> SUFFICES ASSUME session \in Sessions, Unstarted(session) PROVE Unstarted(session)'
    OBVIOUS
  <2> PICK s \in Sessions : s = session
    OBVIOUS
  <2>1. Unstarted(s)'
    BY <1>2
  <2> QED
    BY <2>1 DEF Unstarted
<1>4. FinalInv' /\ NoStops' /\ OldInv'
  BY <1>1 DEF Course, FinalInv, NoStops, OldInv
<1>5. OpenInv'
  BY <1>3 DEF Course, OpenInv, Opens
<1> QED
  BY <1>1, <1>4, <1>5 DEF Course

\* A thread that has no frame.
LEMMA NoFrame ==
  ASSUME NEW q, q = <<>>
  PROVE  (\A l : ~Has(q, l)) /\ FailedLast(q)
<1>1. Len(q) = 0
  OBVIOUS
<1> QED
  BY <1>1 DEF Has, FailedLast

\* A new service keeps the course.
LEMMA CourseRestart ==
  ASSUME TypeOK, Course, Restart
  PROVE  Course'
<1>1. /\ \A t \in Threads : stack'[t] = <<>>
      /\ \A s \in 0..MaxSessions : sess'[s].state = "Disconnected"
  BY DEF Restart, NewSession
<1>2. process' = [s \in Sessions |-> IF process[s].status = "none" THEN process[s]
                                     ELSE [process[s] EXCEPT !.raised = "unheard", !.stream = <<>>]]
  BY Zenon DEF Restart
<1>3. ASSUME NEW x \in Processes, NEW y, y = [x EXCEPT !.raised = "unheard", !.stream = <<>>]
      PROVE  Len(y.stream) = 0 /\ y.written = x.written
  BY <1>3 DEF Processes
<1>4. ASSUME NEW s \in Sessions
      PROVE  process'[s] = process[s] \/ (/\ Len(process'[s].stream) = 0
                                          /\ process'[s].written = process[s].written)
  <2>1. process[s] \in Processes
    BY DEF TypeOK
  <2>2. CASE process[s].status = "none"
    BY <1>2, <2>2
  <2>3. CASE process[s].status # "none"
    <3>1. process'[s] = [process[s] EXCEPT !.raised = "unheard", !.stream = <<>>]
      BY <1>2, <2>3
    <3> QED
      BY <1>3, <2>1, <3>1
  <2> QED
    BY <2>2, <2>3
<1>5. OutcomesInv'
  BY <1>4 DEF Course, OutcomesInv
<1>6. ASSUME NEW t \in Threads PROVE (\A l : ~Has(stack'[t], l)) /\ FailedLast(stack'[t])
  BY <1>1, NoFrame
<1>7. FinalInv'
  BY <1>1, SessionThreads DEF FinalInv
<1>8. NoStops' /\ OldInv'
  BY <1>1, <1>6 DEF NoStops, OldInv
<1>9. OpenInv'
  BY <1>6 DEF OpenInv, Opens
<1> QED
  BY <1>5, <1>7, <1>8, <1>9 DEF Course

\* A service that starts begins the course.
LEMMA CourseInit == Init => Course
<1> SUFFICES ASSUME Init PROVE Course
  OBVIOUS
<1>1. /\ \A t \in Threads : stack[t] = <<>>
      /\ \A s \in 0..MaxSessions : sess[s].state = "Disconnected"
  BY DEF Init, NewSession
<1>2. \A s \in Sessions : process[s].stream = <<>> /\ process[s].written = {}
  BY DEF Init, NewProcess
<1>3. \A s \in Sessions : Len(process[s].stream) = 0
  BY <1>2
<1>4. OutcomesInv
  BY <1>2, <1>3 DEF OutcomesInv
<1>5. ASSUME NEW t \in Threads PROVE (\A l : ~Has(stack[t], l)) /\ FailedLast(stack[t])
  BY <1>1, NoFrame
<1>6. FinalInv
  BY <1>1, SessionThreads DEF FinalInv
<1>7. NoStops /\ OldInv
  BY <1>1, <1>5 DEF NoStops, OldInv
<1>8. OpenInv
  BY <1>5 DEF OpenInv, Opens
<1> QED
  BY <1>4, <1>6, <1>7, <1>8 DEF Course

\* Nobody is where only a disconnect or an ERROR reply leads.
LEMMA NobodyStops ==
  ASSUME NoRequests, TypeOK, Settling, Course
  PROVE  /\ \A t \in Threads : ~(Disconnect(t) \/ DisconnectWhenIdle(t) \/ StopRequested(t))
         /\ \A s \in Sessions : ~(HandleErrorReply(s) \/ ErrorReply(s))
<1>1. \A t \in Threads, l \in {"disconnect", "errorReply", "stopRequested"} : ~At(t, l)
  <2> SUFFICES ASSUME NEW t \in Threads, NEW l \in {"disconnect", "errorReply", "stopRequested"},
                      At(t, l)
               PROVE  FALSE
    OBVIOUS
  <2>1. Head(stack[t]) = stack[t][1] /\ 1 \in 1..Len(stack[t]) /\ Head(stack[t]).at = l
    BY Innermost DEF At, TypeOK
  <2> QED
    BY <2>1 DEF Course, NoStops, Has
<1>2. ASSUME NEW s \in Sessions, HandleErrorReply(s) PROVE FALSE
  <2>1. Read(s, "ERROR_REPLY")
    BY <1>2 DEF HandleErrorReply
  <2>2. "ERROR_REPLY" \in Notifications
    BY <2>1, OutcomesRead DEF Settling, Course
  <2> QED
    BY <2>2 DEF NoRequests
<1> QED
  BY <1>1, <1>2, SessionThreads DEF Disconnect, DisconnectWhenIdle, StopRequested, ErrorReply

\* Every step keeps the course, if nobody asks for a disconnect.
LEMMA CourseStep == NoRequests /\ Exclusive /\ Settling /\ Course /\ [Next]_vars => Course'
<1> SUFFICES ASSUME NoRequests, Exclusive, Settling, Course, [Next]_vars PROVE Course'
  OBVIOUS
<1>t. TypeOK /\ Settling'
  BY SettlingStep DEF Exclusive
<1>1. CASE Service
  <2>1. ASSUME NEW t \in Threads, Run(t) PROVE Course'
    <3>1. CASE \/ ConnectWhenBusy(t) \/ ConnectWithoutNetwork(t) \/ Clean(t) \/ Prepare(t) \/ Launch(t)
               \/ Attach(t) \/ Bind(t) \/ BindRest(t) \/ Failed(t) \/ DisconnectWhenIdle(t)
               \/ StopOpenVpn(t) \/ Stopped(t) \/ Changed(t) \/ Invoke(t) \/ Enable(t) \/ Unblock(t)
               \/ Forget(t) \/ After(t) \/ SwitchOffUnblocks(t) \/ StoreSetting(t)
      <4>1. Steady(t)
        BY <1>t, <3>1, SteadyRun DEF Settling
      <4> QED
        BY <1>t, <4>1, CourseSteady
    <3>2. CASE \/ StartSession(t) \/ StartReader(t) \/ WaitExit(t) \/ Unlock(t) \/ OnOpenVpnExit(t)
               \/ SessionDisconnect(t)
      BY <1>t, <3>2, CourseStart, CourseReaderStarts, CourseWaits, CourseExit, CourseDisconnect
    <3>3. ~(Disconnect(t) \/ StopRequested(t))
      BY <1>t, NobodyStops
    <3> QED
      BY <2>1, <3>1, <3>2, <3>3 DEF Run, Locked
  <2>2. ASSUME NEW s \in Sessions, ReadLine(s) PROVE Course'
    <3>1. ~(HandleErrorReply(s) \/ ErrorReply(s))
      BY <1>t, NobodyStops
    <3> QED
      BY <1>t, <2>2, <3>1, CourseLine, CourseReader DEF ReadLine
  <2>3. ASSUME NEW s \in Sessions, Write(s) \/ Exit(s) PROVE Course'
    <3>1. UNCHANGED <<stack, session, sess>>
      BY <2>3, Zenon DEF Write, Exit, sessionVars, threadVars
    <3> QED
      BY <1>t, <2>3, <3>1, CourseProcess
  <2>4. ASSUME \/ \E w \in Workers : Client(w) \/ RunReconnect(w)
               \/ \E s \in Sessions : RaiseExited(s)
        PROVE  Course'
    BY <2>4, CourseCalls
  <2> QED
    BY <1>1, <2>1, <2>2, <2>3, <2>4 DEF Service
<1>2. CASE Restart
  BY <1>t, <1>2, CourseRestart
<1>3. CASE UNCHANGED vars
  <2>1. UNCHANGED <<stack, session, sess, process>>
    BY <1>3, Zenon DEF vars, sessionVars, threadVars, systemVars
  <2> QED
    BY <1>t, <2>1, CourseProcess
<1> QED
  BY <1>1, <1>2, <1>3 DEF Next

-----------------------------------------------------------------------------
(* What the clients are told, and what it does to the traffic *)

\* Frames of a thread that tells a status.
Telling == {"changed", "invoke", "enable", "unblock", "forget"}

Tells(t) == stack[t] # <<>> /\ Head(stack[t]).at \in Telling

\* t tells of a session that goes on.
TellsLife(t) == Tells(t) /\ ~note[t].reconnect /\ note[t].newState # "Disconnected"

Topped(q) == \A i \in 1..Len(q) : q[i].at \in Telling => i = 1

\* A method that tells waits until it has told.
TopInv == \A t \in Threads : Topped(stack[t])

\* A status that asks for a reconnect is still to be answered with one.
Answers(t) ==
  /\ note[t].newState \in {"Disconnected", "Connecting"}
  /\ stack[t] # <<>>
  /\ \/ Head(stack[t]).at = "after"
     \/ /\ Head(stack[t]).at \in {"invoke", "unblock", "forget"}
        /\ Len(stack[t]) > 1 /\ stack[t][2].at = "after"

\* t has decided what becomes of the block.
Ends(t) == At(t, "unblock") \/ At(t, "forget")

AfterInv == \A t \in Threads :
  /\ note[t].reconnect => Answers(t)
  /\ At(t, "enable") => note[t].newState = "Connected"
  /\ Ends(t) => note[t].newState = "Disconnected"

\* Who tells that the session goes on tells its state: nobody else can change it meanwhile.
TellInv == \A t \in Threads :
  TellsLife(t) =>
    /\ note[t].newState = sess[session].state
    /\ (session \in Sessions /\ t = Reader(session)) \/ Has(stack[t], "clean")

\* A disconnect that has not been told or is lifting the block, or a reconnect on its way.
Lifts(t) ==
  \/ At(t, "connect")
  \/ note[t].reconnect
  \/ (At(t, "changed") \/ At(t, "invoke")) /\ note[t].newState = "Disconnected"
  \/ At(t, "unblock")

Lifting == reconnects > 0 \/ \E t \in Threads : Lifts(t)

\* A block although the kill switch is off, and that did not come back while it was switched off.
Unwanted == ~killSwitch /\ networkBlocked /\ ~reblocked

\* Without a connection such a block is about to be lifted.
LiftInv == Unwanted => sess[session].state # "Disconnected" \/ Lifting

\* Of the first session nobody else tells while it goes on.
OneTells ==
  /\ session = 0 => \A t \in Threads : Tells(t) => Has(stack[t], "unlock")
  /\ session = 1 /\ sess[session].state # "Disconnected" =>
       \A t \in Threads : Tells(t) => ~note[t].reconnect /\ note[t].newState # "Disconnected"

\* What clients were told of it is its state, or about to be corrected.
ShowInv == session = 1 =>
  \/ openVpnConnectionState \in {sess[session].state, "Unknown"}
  \/ \E t \in Threads : TellsLife(t)
  \/ sess[session].state = "Disconnected" /\ (Lifting \/ \E t \in Threads : Ends(t))

Show == TopInv /\ AfterInv /\ TellInv /\ LiftInv /\ OneTells /\ ShowInv

\* Where a push leaves a thread.
LEMMA Goes ==
  ASSUME TypeOK, NEW t \in Threads, stack[t] # <<>>, Topped(stack[t]), NEW f \in Seq(Frames),
         stack' = Pushed(stack, t, f), \A i \in 1..Len(f) : f[i].at \in Telling => i = 1
  PROVE  /\ \A u \in Threads : u # t => stack'[u] = stack[u]
         /\ Topped(stack'[t])
         /\ Len(f) > 0 => stack'[t] # <<>> /\ Head(stack'[t]) = f[1]
         /\ Len(f) = 0 => (stack'[t] # <<>> => Head(stack'[t]).at \notin Telling)
         /\ Len(f) = 0 /\ Len(stack[t]) > 1 => stack'[t] # <<>> /\ Head(stack'[t]) = stack[t][2]
         /\ Len(f) = 1 /\ Len(stack[t]) > 1 => Len(stack'[t]) > 1 /\ stack'[t][2] = stack[t][2]
         /\ Len(f) = 2 => Len(stack'[t]) > 1 /\ stack'[t][2] = f[2]
<1>0. stack \in [Threads -> Seq(Frames)]
  BY DEF TypeOK
<1>1. /\ Pushed(stack, t, f) \in [Threads -> Seq(Frames)]
      /\ \A u \in Threads : u # t => Pushed(stack, t, f)[u] = stack[u]
      /\ Len(Pushed(stack, t, f)[t]) = Len(f) + Len(stack[t]) - 1
      /\ \A i \in 1..Len(Pushed(stack, t, f)[t]) :
           \/ i \in 1..Len(f) /\ Pushed(stack, t, f)[t][i] = f[i]
           \/ /\ i > Len(f)
              /\ i - Len(f) + 1 \in 2..Len(stack[t])
              /\ Pushed(stack, t, f)[t][i] = stack[t][i - Len(f) + 1]
  BY <1>0, AfterPush
<1> PICK new : new = Pushed(stack, t, f)
  OBVIOUS
<1> PICK q \in Seq(Frames) : q = stack[t]
  BY <1>0
<1> PICK p \in Seq(Frames) : p = new[t]
  BY <1>1
<1>2. /\ stack'[t] = p /\ \A u \in Threads : u # t => stack'[u] = stack[u]
      /\ Len(p) = Len(f) + Len(q) - 1
      /\ \A i \in 1..Len(p) :
           \/ i \in 1..Len(f) /\ p[i] = f[i]
           \/ i > Len(f) /\ i - Len(f) + 1 \in 2..Len(q) /\ p[i] = q[i - Len(f) + 1]
  BY <1>1
<1>3. Len(q) \in Nat /\ Len(q) >= 1 /\ Len(f) \in Nat /\ Len(p) \in Nat
  BY Innermost
<1>4. p # <<>> => Head(p) = p[1] /\ 1 \in 1..Len(p)
  BY Innermost
<1>5. Len(p) > 0 => p # <<>>
  OBVIOUS
<1>6. \A i \in 2..Len(q) : q[i].at \notin Telling
  BY <1>3 DEF Topped
<1>7. Topped(p)
  <2> SUFFICES ASSUME NEW i \in 1..Len(p), p[i].at \in Telling PROVE i = 1
    BY DEF Topped
  <2> QED
    BY <1>2, <1>3, <1>6
<1>8. Len(f) > 0 => p # <<>> /\ Head(p) = f[1]
  <2> SUFFICES ASSUME Len(f) > 0 PROVE p # <<>> /\ Head(p) = f[1]
    OBVIOUS
  <2>1. Len(p) > 0 /\ 1 \in 1..Len(p) /\ ~(1 > Len(f))
    BY <1>2, <1>3
  <2>2. p[1] = f[1]
    BY <1>2, <2>1
  <2> QED
    BY <1>4, <1>5, <2>1, <2>2
<1>9. ASSUME Len(f) = 0, p # <<>>
      PROVE  Head(p) = q[2] /\ 2 \in 2..Len(q)
  <2>1. ~(1 \in 1..Len(f)) /\ 1 - Len(f) + 1 = 2
    BY <1>9
  <2>2. 1 \in 1..Len(p) /\ Head(p) = p[1]
    BY <1>4, <1>9
  <2> QED
    BY <1>2, <2>1, <2>2
<1>10. Len(f) = 0 /\ Len(q) > 1 => p # <<>>
  BY <1>2, <1>3, <1>5
<1>11. ASSUME Len(f) = 1, Len(q) > 1 PROVE Len(p) > 1 /\ p[2] = q[2]
  <2>1. Len(p) > 1 /\ 2 \in 1..Len(p) /\ ~(2 \in 1..Len(f)) /\ 2 - Len(f) + 1 = 2
    BY <1>2, <1>3, <1>11
  <2> QED
    BY <1>2, <2>1
<1>12. ASSUME Len(f) = 2 PROVE Len(p) > 1 /\ p[2] = f[2]
  <2>1. Len(p) > 1 /\ 2 \in 1..Len(p) /\ ~(2 > Len(f))
    BY <1>2, <1>3, <1>12
  <2> QED
    BY <1>2, <2>1
<1> QED
  BY <1>2, <1>6, <1>7, <1>8, <1>9, <1>10, <1>11, <1>12

\* A thread that told nothing, tells nothing and owes nothing.
Mute(u) ==
  /\ ~Tells(u) /\ ~Tells(u)' /\ Topped(stack'[u])
  /\ ~note'[u].reconnect
  /\ note[u].reconnect => reconnects' > 0
  /\ At(u, "connect") => At(u, "connect")' \/ sess[session].state # "Disconnected"

\* A step in which nobody tells or is told anything keeps the invariant.
LEMMA MuteKeeps ==
  ASSUME Show,
         \A u \in Threads : (stack'[u] = stack[u] /\ note'[u] = note[u]) \/ Mute(u),
         session' = session, sess'[session].state = sess[session].state,
         openVpnConnectionState' = openVpnConnectionState,
         Unwanted' => Unwanted,
         reconnects > 0 => reconnects' > 0 \/ \E u \in Threads : At(u, "connect")'
  PROVE  Show'
<1>0. \A u \in Threads : Tells(u) \/ Tells(u)' => stack'[u] = stack[u] /\ note'[u] = note[u]
  BY DEF Mute
<1>1. sess'[session'].state = sess[session].state
  OBVIOUS
<1>2. TopInv'
  BY DEF Show, TopInv, Mute
<1>3. AfterInv'
  <2> SUFFICES ASSUME NEW u \in Threads
               PROVE  /\ note'[u].reconnect => Answers(u)'
                      /\ At(u, "enable")' => note'[u].newState = "Connected"
                      /\ Ends(u)' => note'[u].newState = "Disconnected"
    BY DEF AfterInv
  <2>1. CASE stack'[u] = stack[u] /\ note'[u] = note[u]
    BY <2>1 DEF Show, AfterInv, Answers, At, Ends
  <2>2. CASE Mute(u)
    BY <2>2 DEF Mute, Tells, Telling, At, Ends
  <2> QED
    BY <2>1, <2>2
<1>4. TellInv'
  BY <1>0, <1>1 DEF Show, TellInv, TellsLife, Tells
<1>5. Lifting => Lifting' \/ sess[session].state # "Disconnected"
  <2>1. ASSUME NEW u \in Threads, Lifts(u) PROVE Lifting' \/ sess[session].state # "Disconnected"
    <3>1. CASE stack'[u] = stack[u] /\ note'[u] = note[u]
      BY <2>1, <3>1 DEF Lifting, Lifts, At
    <3>2. CASE Mute(u)
      BY <2>1, <3>2 DEF Lifting, Lifts, Mute, At, Tells, Telling
    <3> QED
      BY <3>1, <3>2
  <2>2. reconnects > 0 => Lifting'
    BY DEF Lifting, Lifts
  <2> QED
    BY <2>1, <2>2 DEF Lifting
<1>6. LiftInv'
  BY <1>1, <1>5 DEF Show, LiftInv
<1>7. OneTells'
  BY <1>0, <1>1 DEF Show, OneTells, Tells
<1>8. ShowInv'
  <2> SUFFICES ASSUME session = 1 PROVE ShowInv'
    BY DEF ShowInv
  <2>1. ASSUME NEW u \in Threads, TellsLife(u) PROVE TellsLife(u)'
    BY <1>0, <2>1 DEF TellsLife, Tells
  <2>2. ASSUME NEW u \in Threads, Ends(u) PROVE Ends(u)'
    BY <1>0, <2>2 DEF At, Ends, Tells, Telling
  <2> QED
    BY <1>1, <1>5, <2>1, <2>2 DEF Show, ShowInv
<1> QED
  BY <1>2, <1>3, <1>4, <1>6, <1>7, <1>8 DEF Show

\* A thread that goes on with nothing to tell is mute.
LEMMA MutePush ==
  ASSUME TypeOK, Show, NEW t \in Threads, stack[t] # <<>>,
         Head(stack[t]).at \notin Telling \cup {"after"},
         NEW f \in Seq(Frames), stack' = Pushed(stack, t, f), \A l \in Telling : ~Has(f, l),
         note'[t] = note[t] \/ ~note'[t].reconnect,
         At(t, "connect") => sess[session].state # "Disconnected"
  PROVE  Mute(t) /\ \A u \in Threads : u # t => stack'[u] = stack[u]
<1>1. \A i \in 1..Len(f) : f[i].at \notin Telling
  BY DEF Has
<1>2. Topped(stack[t])
  BY DEF Show, TopInv
<1>3. /\ \A u \in Threads : u # t => stack'[u] = stack[u]
      /\ Topped(stack'[t])
      /\ Len(f) > 0 => stack'[t] # <<>> /\ Head(stack'[t]) = f[1]
      /\ Len(f) = 0 => (stack'[t] # <<>> => Head(stack'[t]).at \notin Telling)
  BY <1>1, <1>2, Goes
<1>4. Len(f) \in Nat /\ (Len(f) > 0 => 1 \in 1..Len(f))
  OBVIOUS
<1>5. stack'[t] # <<>> => Head(stack'[t]).at \notin Telling
  BY <1>1, <1>3, <1>4
<1>6. ~note[t].reconnect
  BY DEF Show, AfterInv, Answers, Telling
<1> QED
  BY <1>3, <1>5, <1>6 DEF Mute, Tells

\* A step of a thread that has nothing to tell, and pushes nothing to tell, keeps the invariant.
LEMMA MuteStep ==
  ASSUME TypeOK, Show, NEW t \in Threads, stack[t] # <<>>,
         Head(stack[t]).at \notin Telling \cup {"after"},
         \E f \in Seq(FramesOf(Labels \ Telling)) : Continue(t, f),
         note' = note \/ note' = [note EXCEPT ![t] = NoNote],
         At(t, "connect") => sess[session].state # "Disconnected",
         session' = session, sess'[session].state = sess[session].state,
         UNCHANGED <<reconnects, ksVars>>
  PROVE  Show'
<1>1. PICK f \in Seq(FramesOf(Labels \ Telling)) : Continue(t, f)
  OBVIOUS
<1>2. f \in Seq(Frames) /\ \A l \in Telling : ~Has(f, l)
  <2> DEFINE labels == Labels \ Telling
  <2>1. f \in Seq(FramesOf(labels))
    OBVIOUS
  <2>2. \A l \in Telling : l \notin labels
    OBVIOUS
  <2> HIDE DEF labels
  <2> QED
    BY <2>1, <2>2, LabelsOf
<1>3. stack' = Pushed(stack, t, f)
  BY <1>1 DEF Continue, Pushed
<1>4. /\ note'[t] = note[t] \/ ~note'[t].reconnect
      /\ \A u \in Threads : u # t => note'[u] = note[u]
  BY DEF TypeOK, NoNote, Status
<1>5. Mute(t) /\ \A u \in Threads : u # t => stack'[u] = stack[u]
  BY <1>2, <1>3, <1>4, MutePush
<1>6. /\ openVpnConnectionState' = openVpnConnectionState
      /\ Unwanted' => Unwanted
  BY DEF ksVars, Unwanted
<1> QED
  BY <1>4, <1>5, <1>6, MuteKeeps

\* Most steps of Connect and of a stop are of this kind.
LEMMA ShowMute ==
  ASSUME TypeOK, Show, NEW t \in Threads,
         \/ ConnectWhenBusy(t) \/ Clean(t) \/ Prepare(t) \/ Launch(t) \/ Attach(t) \/ Bind(t)
         \/ BindRest(t) \/ Unlock(t) \/ StopOpenVpn(t) \/ WaitExit(t) \/ Stopped(t)
         \/ Failed(t) /\ arg[t].error = "NoError"
  PROVE  Show'
<1> USE DEF At
<1> DEFINE labels == Labels \ Telling
<1>s. /\ 0 \in 0..MaxSessions /\ openVpnExe \in 0..MaxSessions /\ session \in 0..MaxSessions
      /\ sess \in [0..MaxSessions -> SessionRecords]
  BY BoundsAssumption DEF TypeOK
<1>l. /\ {"stop", "sessionDisconnect", "failed", "unlock", "waitExit", "exited", "stopped", "prepare",
          "launch", "attach", "bind", "bindRest", "startReader"} \subseteq labels
      /\ labels \subseteq Labels
  BY DEF Labels, Telling
<1>1. /\ stack[t] # <<>> /\ Head(stack[t]).at \notin Telling \cup {"after"}
      /\ At(t, "connect") => sess[session].state # "Disconnected"
      /\ session' = session /\ UNCHANGED <<reconnects, ksVars>>
      /\ note' = note \/ note' = [note EXCEPT ![t] = NoNote]
  <2> USE DEF Telling
  <2>1. CASE ConnectWhenBusy(t)
    BY <2>1 DEF ConnectWhenBusy, sessionVars, engineVars
  <2>2. CASE Clean(t)
    BY <2>2, Zenon DEF Clean, sessionVars, engineVars
  <2>3. CASE Prepare(t)
    BY <2>3 DEF Prepare, sessionVars, engineVars
  <2>4. CASE Launch(t)
    BY <2>4 DEF Launch, sessionVars
  <2>5. CASE Attach(t)
    BY <2>5 DEF Attach, engineVars
  <2>6. CASE Bind(t)
    BY <2>6 DEF Bind, engineVars
  <2>7. CASE BindRest(t)
    BY <2>7 DEF BindRest, engineVars
  <2>8. CASE Unlock(t)
    BY <2>8 DEF Unlock, sessionVars, engineVars
  <2>9. CASE StopOpenVpn(t)
    BY <2>9 DEF StopOpenVpn, sessionVars, engineVars
  <2>10. CASE WaitExit(t)
    BY <2>10 DEF WaitExit, sessionVars, engineVars
  <2>11. CASE Stopped(t)
    BY <2>11 DEF Stopped, sessionVars
  <2>12. CASE Failed(t) /\ arg[t].error = "NoError"
    BY <2>12 DEF Failed, sessionVars
  <2> QED
    BY <2>1, <2>2, <2>3, <2>4, <2>5, <2>6, <2>7, <2>8, <2>9, <2>10, <2>11, <2>12
<1>2. sess'[session].state = sess[session].state
  <2>1. ASSUME NEW x, sess' = [sess EXCEPT ![session].bound = x]
        PROVE  sess'[session].state = sess[session].state
    BY <1>s, <2>1 DEF SessionRecords
  <2>2. sess' = sess \/ \E x : sess' = [sess EXCEPT ![session].bound = x]
    BY DEF ConnectWhenBusy, Clean, Prepare, Launch, Attach, Bind, BindRest, Unlock, StopOpenVpn,
         WaitExit, Stopped, Failed, sessionVars
  <2> QED
    BY <2>1, <2>2
<1>3. \E f \in Seq(FramesOf(labels)) : Continue(t, f)
  <2> HIDE DEF labels
  <2>1. /\ <<>> \in Seq(FramesOf(labels))
        /\ \A a \in labels, s \in 0..MaxSessions : <<Frame(a, s)>> \in Seq(FramesOf(labels))
    BY <1>l, FewFrames
  <2>2. ASSUME NEW error, Fail(t, error) PROVE \E f \in Seq(FramesOf(labels)) : Continue(t, f)
    <3>1. \A a \in labels : Frame(a, 0) \in FramesOf(labels)
      BY <1>l, <1>s, FrameTyped DEF FramesOf
    <3>2. <<Frame("stop", 0), Frame("sessionDisconnect", 0), Frame("failed", 0), Frame("unlock", 0)>>
            \in Seq(FramesOf(labels))
      BY <1>l, <3>1
    <3> QED
      BY <2>2, <3>2 DEF Fail
  <2>3. CASE ConnectWhenBusy(t)
    BY <2>1, <2>3 DEF ConnectWhenBusy
  <2>4. CASE Clean(t)
    BY <1>l, <1>s, <2>1, <2>4 DEF Clean
  <2>5. CASE Prepare(t) \/ Launch(t)
    BY <1>l, <1>s, <2>1, <2>2, <2>5 DEF Prepare, Launch
  <2>6. CASE Attach(t) \/ Bind(t)
    BY <1>l, <1>s, <2>1, <2>2, <2>6 DEF Attach, Bind
  <2>7. CASE BindRest(t)
    BY <1>l, <1>s, <2>1, <2>7 DEF BindRest
  <2>8. CASE Unlock(t) \/ Stopped(t)
    BY <2>1, <2>8 DEF Unlock, Stopped
  <2>9. CASE StopOpenVpn(t)
    BY <1>l, <1>s, <2>1, <2>9 DEF StopOpenVpn
  <2>10. CASE WaitExit(t)
    <3>1. Head(stack[t]) \in Frames
      BY <1>1, Innermost DEF TypeOK
    <3> PICK s \in 0..MaxSessions : s = Subject(t)
      BY <3>1 DEF Subject, Frames
    <3>2. /\ <<Frame("exited", s)>> \o <<Frame("stopped", s)>> \in Seq(FramesOf(labels))
          /\ <<Frame("stopped", s)>> \in Seq(FramesOf(labels))
      BY <1>l, FewFrames
    <3>3. <<>> \o <<Frame("stopped", s)>> = <<Frame("stopped", s)>>
      BY <3>2, ConcatEmptySeq
    <3>4. \/ Continue(t, <<Frame("exited", s)>> \o <<Frame("stopped", s)>>)
          \/ Continue(t, <<>> \o <<Frame("stopped", s)>>)
      BY <2>10 DEF WaitExit
    <3> QED
      BY <3>2, <3>3, <3>4
  <2>11. CASE Failed(t) /\ arg[t].error = "NoError"
    BY <2>1, <2>11 DEF Failed
  <2> QED
    BY <2>3, <2>4, <2>5, <2>6, <2>7, <2>8, <2>9, <2>10, <2>11
<1> QED
  BY <1>1, <1>2, <1>3, MuteStep

\* So is the end of Connect, which also starts a reader.
LEMMA ShowReaderStarts ==
  ASSUME Exclusive, Settling, Show, NEW t \in Threads, StartReader(t)
  PROVE  Show'
<1> PICK s : s = session
  OBVIOUS
<1> PICK q, p : q = stack[t] /\ p = stack'[t]
  OBVIOUS
<1>1. /\ s \in Sessions /\ Unstarted(s) /\ t # Reader(s)
      /\ \A u \in Threads : u # t /\ u # Reader(s) => stack'[u] = stack[u]
      /\ stack'[Reader(s)] = <<Frame("read", s)>>
      /\ Len(p) = Len(q) /\ Len(q) \in Nat /\ Len(q) >= 1
      /\ p[1].at = "unlock" /\ Head(p) = p[1] /\ p # <<>>
      /\ \A i \in 2..Len(q) : p[i] = q[i]
  BY StartReaderEffect DEF Settling
<1>2. /\ stack[t] # <<>> /\ Head(stack[t]).at = "startReader" /\ note' = note
      /\ session' = session /\ sess' = sess /\ reconnects' = reconnects /\ UNCHANGED ksVars
  BY DEF StartReader, At, sessionVars, engineVars
<1>3. Mute(t)
  <2>1. ~Tells(t) /\ ~Tells(t)'
    BY <1>1, <1>2 DEF Tells, Telling
  <2>2. ~note[t].reconnect /\ ~At(t, "connect")
    BY <1>2 DEF Show, AfterInv, Answers, At
  <2>3. Topped(p)
    <3> SUFFICES ASSUME NEW i \in 1..Len(p), p[i].at \in Telling PROVE i = 1
      BY DEF Topped
    <3>1. i = 1 \/ (i \in 2..Len(q) /\ i \in 1..Len(q))
      BY <1>1
    <3> QED
      BY <1>1, <3>1 DEF Show, TopInv, Topped
  <2> QED
    BY <1>2, <2>1, <2>2, <2>3 DEF Mute
<1>4. Mute(Reader(s)) /\ Reader(s) \in Threads
  <2> PICK r \in Threads : r = Reader(s)
    BY <1>1, SessionThreads
  <2> PICK e : e = <<Frame("read", s)>>
    OBVIOUS
  <2>1. Len(e) = 1 /\ e[1].at = "read" /\ Head(e).at = "read" /\ stack'[r] = e /\ stack[r] = <<>>
    BY <1>1 DEF Frame, Unstarted
  <2>2. Topped(e)
    BY <2>1 DEF Topped
  <2>3. ~note[r].reconnect
    BY <2>1 DEF Show, AfterInv, Answers
  <2> QED
    BY <1>2, <2>1, <2>2, <2>3 DEF Mute, Tells, Telling, At
<1>5. \A u \in Threads : (stack'[u] = stack[u] /\ note'[u] = note[u]) \/ Mute(u)
  BY <1>1, <1>2, <1>3, <1>4
<1>6. /\ openVpnConnectionState' = openVpnConnectionState
      /\ Unwanted' => Unwanted
  BY <1>2 DEF ksVars, Unwanted
<1> QED
  BY <1>2, <1>5, <1>6, MuteKeeps

\* So are the calls, the queued reconnects and the exits the pool raises: nobody is told
\* anything, and whoever stops wanting a block lifts it.
LEMMA ShowCalls ==
  ASSUME NoRequests, TypeOK, Settling, Show,
         \/ \E w \in Workers : Client(w) \/ RunReconnect(w)
         \/ \E s \in Sessions : RaiseExited(s)
  PROVE  Show'
<1> DEFINE Silently(w, q) ==
      /\ stack[w] = <<>> /\ stack' = [stack EXCEPT ![w] = q] /\ note' = note
      /\ \/ q = <<>>
         \/ q = <<Frame("connect", 0)>>
         \/ q = <<Frame("switchOff", 0)>>
         \/ \E s : q = <<Frame("exited", s)>>
      /\ session' = session /\ sess' = sess
      /\ openVpnConnectionState' = openVpnConnectionState
      /\ Unwanted' => Unwanted
      /\ reconnects > 0 => reconnects' > 0 \/ q = <<Frame("connect", 0)>>
<1>0. \E w \in Threads : \E q : Silently(w, q)
  <2> DEFINE Effect == \E w \in Threads : \E q : Silently(w, q)
  <2>1. ASSUME NEW w \in Workers, Client(w) \/ RunReconnect(w) PROVE Effect
    <3>1. w \in Threads
      BY DEF Threads
    <3>2. CASE CallConnect(w)
      <4>1. /\ stack[w] = <<>> /\ stack' = [stack EXCEPT ![w] = <<Frame("connect", 0)>>] /\ note' = note
            /\ session' = session /\ sess' = sess /\ UNCHANGED ksVars /\ reconnects' = reconnects
        BY <3>2 DEF CallConnect, Call, Idle, sessionVars
      <4> QED
        BY <3>1, <4>1, Zenon DEF ksVars, Unwanted
    <3>3. ~CallDisconnect(w) /\ ~CallStop(w)
      BY DEF CallDisconnect, CallStop, Call, NoRequests
    <3>4. CASE CallToggleKillSwitch(w)
      <4>1. /\ stack[w] = <<>> /\ note' = note /\ session' = session /\ sess' = sess
            /\ reconnects' = reconnects
        BY <3>4, Zenon DEF CallToggleKillSwitch, Call, Idle, sessionVars, engineVars
      <4>2. CASE killSwitch
        <5>1. stack' = [stack EXCEPT ![w] = <<Frame("switchOff", 0)>>] /\ UNCHANGED ksVars
          BY <3>4, <4>2, Zenon DEF CallToggleKillSwitch, Call
        <5>2. openVpnConnectionState' = openVpnConnectionState /\ (Unwanted' => Unwanted)
          BY <5>1 DEF ksVars, Unwanted
        <5> QED
          BY <3>1, <4>1, <5>1, <5>2, Zenon
      <4>3. CASE ~killSwitch
        <5>1. stack' = [stack EXCEPT ![w] = <<>>] /\ killSwitch'
              /\ openVpnConnectionState' = openVpnConnectionState
          BY <3>4, <4>3 DEF CallToggleKillSwitch, Call, StoreOn
        <5> QED
          BY <3>1, <4>1, <5>1, Zenon DEF Unwanted
      <4> QED
        BY <4>2, <4>3
    <3>5. CASE CallUnblockTraffic(w)
      BY <3>1, <3>5, Zenon DEF CallUnblockTraffic, DisableBlocker, Call, Idle, sessionVars, engineVars, Unwanted
    <3>6. CASE RunReconnect(w)
      BY <3>1, <3>6, Zenon DEF RunReconnect, Idle, sessionVars, ksVars, Unwanted
    <3> QED
      BY <2>1, <3>2, <3>3, <3>4, <3>5, <3>6 DEF Client
  <2>2. ASSUME NEW s \in Sessions, RaiseExited(s) PROVE Effect
    <3> PICK t \in Threads : t = ExitThread(s)
      BY SessionThreads
    <3> PICK q : q = IF Heard(s) = "heard" THEN <<Frame("exited", s)>> ELSE <<>>
      OBVIOUS
    <3>1. stack[t] = <<>>
      BY <2>2 DEF RaiseExited, Settling, ReadersInv
    <3>2. /\ stack' = [stack EXCEPT ![t] = q] /\ note' = note /\ session' = session /\ sess' = sess
          /\ UNCHANGED ksVars /\ reconnects' = reconnects
      BY <2>2, Zenon DEF RaiseExited, sessionVars, engineVars
    <3> QED
      BY <3>1, <3>2, Zenon DEF ksVars, Unwanted
  <2> HIDE DEF Effect
  <2>3. Effect
    BY <2>1, <2>2
  <2> QED
    BY <2>3, Zenon DEF Effect
<1> PICK w \in Threads : \E q : Silently(w, q)
  BY <1>0
<1>1. PICK q : Silently(w, q)
  OBVIOUS
<1>2. stack'[w] = q /\ \A u \in Threads : u # w => stack'[u] = stack[u]
  BY <1>1 DEF TypeOK
<1>3. /\ Topped(q)
      /\ q # <<>> => Head(q).at \in {"connect", "switchOff", "exited"}
      /\ q = <<Frame("connect", 0)>> => q # <<>> /\ Head(q).at = "connect"
  <2>1. Len(q) = 0 \/ (Len(q) = 1 /\ q[1].at \in {"connect", "switchOff", "exited"})
    BY <1>1 DEF Frame
  <2>2. Topped(q)
    BY <2>1 DEF Topped
  <2>3. /\ q # <<>> => Head(q).at \in {"connect", "switchOff", "exited"}
        /\ q = <<Frame("connect", 0)>> => q # <<>> /\ Head(q).at = "connect"
    BY <1>1 DEF Frame
  <2> QED
    BY <2>2, <2>3
<1>4. Mute(w)
  <2>1. ~note[w].reconnect
    BY <1>1 DEF Show, AfterInv, Answers
  <2> QED
    BY <1>1, <1>2, <1>3, <2>1 DEF Mute, Tells, Telling, At
<1>5. reconnects > 0 => reconnects' > 0 \/ \E u \in Threads : At(u, "connect")'
  BY <1>1, <1>2, <1>3 DEF At
<1>6. \A u \in Threads : (stack'[u] = stack[u] /\ note'[u] = note[u]) \/ Mute(u)
  BY <1>1, <1>2, <1>4
<1> QED
  BY <1>1, <1>5, <1>6, MuteKeeps

\* So are the two halves of switching the kill switch off: the first lifts the block, and a block
\* that is there at the second has come back.
LEMMA ShowSwitch ==
  ASSUME TypeOK, Show, NEW t \in Threads, SwitchOffUnblocks(t) \/ StoreSetting(t)
  PROVE  Show'
<1>1. /\ stack[t] # <<>> /\ Head(stack[t]).at \in {"switchOff", "storeOff"}
      /\ session' = session /\ sess' = sess /\ note' = note /\ reconnects' = reconnects
      /\ openVpnConnectionState' = openVpnConnectionState
      /\ Unwanted' => Unwanted
  BY DEF SwitchOffUnblocks, StoreSetting, DisableBlocker, StoreOff, Unwanted, At, sessionVars, engineVars
<1>2. PICK f \in Seq(Frames) : stack' = Pushed(stack, t, f) /\ \A i \in 1..Len(f) : f[i].at = "storeOff"
  <2>1. <<>> \in Seq(Frames) /\ <<Frame("storeOff", 0)>> \in Seq(Frames) /\ Frame("storeOff", 0).at = "storeOff"
    BY OneFrame, FrameTyped, BoundsAssumption DEF Labels
  <2> PICK a \in Seq(Frames), b \in Seq(Frames) : a = <<>> /\ b = <<Frame("storeOff", 0)>>
    BY <2>1
  <2>2. (\A i \in 1..Len(a) : a[i].at = "storeOff") /\ (\A i \in 1..Len(b) : b[i].at = "storeOff")
    BY <2>1
  <2>3. stack' = Pushed(stack, t, a) \/ stack' = Pushed(stack, t, b)
    BY DEF SwitchOffUnblocks, StoreSetting, Continue, Pushed
  <2> QED
    BY <2>2, <2>3
<1>3. /\ Head(stack[t]).at \notin Telling \cup {"after"} /\ ~At(t, "connect")
      /\ \A l \in Telling : ~Has(f, l)
  BY <1>1, <1>2 DEF Telling, At, Has
<1>4. Mute(t) /\ \A u \in Threads : u # t => stack'[u] = stack[u]
  BY <1>1, <1>2, <1>3, MutePush
<1> QED
  BY <1>1, <1>4, MuteKeeps

\* When the session changes its state and nobody tells that it goes on, the thread that changed
\* it tells so.
LEMMA ShowTurns ==
  ASSUME TypeOK, Show, NEW t \in Threads, stack[t] # <<>>,
         NEW rec \in SessionRecords, NEW f \in Seq(FramesOf(Labels \ Telling)),
         SetSession(t, session, rec, f),
         session \in Sessions, session' = session, UNCHANGED <<reconnects, ksVars>>,
         rec.state # sess[session].state, sess[session].state # "Disconnected",
         rec.state = "Disconnected" \/ t = Reader(session),
         \A u \in Threads : ~TellsLife(u)
  PROVE  Show'
<1> PICK s \in Sessions : s = session
  OBVIOUS
<1>0. s \in 0..MaxSessions
  BY SessionThreads
<1>1. f \in Seq(Frames) /\ \A l \in Telling : ~Has(f, l)
  <2> DEFINE labels == Labels \ Telling
  <2>1. f \in Seq(FramesOf(labels)) /\ \A l \in Telling : l \notin labels
    OBVIOUS
  <2> HIDE DEF labels
  <2> QED
    BY <2>1, LabelsOf
<1>2. Frame("changed", s) \in Frames /\ Frame("changed", s).at = "changed"
  BY <1>0, FrameTyped DEF Labels
<1> PICK x \in Frames : x = Frame("changed", s)
  BY <1>2
<1> PICK g \in Seq(Frames) : g = <<x>> \o f
  BY <1>1, Fronted
<1>3. Len(g) > 0 /\ g[1].at = "changed" /\ \A i \in 2..Len(g) : g[i] = f[i - 1]
  <2>1. Len(f) \in Nat /\ Len(g) = 1 + Len(f) /\ g[1] = x /\ \A i \in 2..Len(g) : g[i] = f[i - 1]
    BY <1>1, Fronted
  <2> QED
    BY <1>2, <2>1
<1>4. /\ sess' = [sess EXCEPT ![s] = rec] /\ stack' = Pushed(stack, t, g)
      /\ note' = [note EXCEPT ![t] = Status(rec.state, rec.lastError, FALSE)]
  BY DEF SetSession, Continue, Pushed
<1>5. \A i \in 1..Len(g) : g[i].at \in Telling => i = 1
  <2> SUFFICES ASSUME NEW i \in 1..Len(g), g[i].at \in Telling, i # 1 PROVE FALSE
    OBVIOUS
  <2>1. i \in 2..Len(g) /\ i - 1 \in 1..Len(f)
    <3>1. Len(f) \in Nat /\ Len(g) = 1 + Len(f)
      BY <1>1, Fronted
    <3> QED
      BY <3>1
  <2> QED
    BY <1>1, <1>3, <2>1 DEF Has
<1>6. /\ \A u \in Threads : u # t => stack'[u] = stack[u]
      /\ Topped(stack'[t])
      /\ stack'[t] # <<>> /\ Head(stack'[t]).at = "changed"
  <2>1. Topped(stack[t])
    BY DEF Show, TopInv
  <2>2. /\ \A u \in Threads : u # t => stack'[u] = stack[u]
        /\ Topped(stack'[t])
        /\ Len(g) > 0 => stack'[t] # <<>> /\ Head(stack'[t]) = g[1]
    BY <1>4, <1>5, <2>1, Goes
  <2> QED
    BY <1>3, <2>2
<1>7. /\ note'[t].newState = rec.state /\ ~note'[t].reconnect
      /\ \A u \in Threads : u # t => note'[u] = note[u]
  BY <1>4 DEF TypeOK, Status
<1>8. sess'[session'].state = rec.state
  BY <1>0, <1>4 DEF TypeOK
<1>9. \A u \in Threads : u # t => ~TellsLife(u)'
  BY <1>6, <1>7 DEF TellsLife, Tells
<1>10. TopInv'
  BY <1>6 DEF Show, TopInv
<1>11. AfterInv'
  <2> SUFFICES ASSUME NEW u \in Threads
               PROVE  /\ note'[u].reconnect => Answers(u)'
                      /\ At(u, "enable")' => note'[u].newState = "Connected"
                      /\ Ends(u)' => note'[u].newState = "Disconnected"
    BY DEF AfterInv
  <2>1. CASE u = t
    BY <1>6, <1>7, <2>1 DEF At, Ends
  <2>2. CASE u # t
    BY <1>6, <1>7, <2>2 DEF Show, AfterInv, Answers, At, Ends
  <2> QED
    BY <2>1, <2>2
<1>12. TellInv'
  <2> SUFFICES ASSUME NEW u \in Threads, TellsLife(u)'
               PROVE  /\ note'[u].newState = sess'[session'].state
                      /\ session' \in Sessions /\ u = Reader(session')
    BY DEF TellInv
  <2>1. u = t /\ rec.state # "Disconnected"
    BY <1>7, <1>9 DEF TellsLife
  <2>2. t = Reader(session) /\ session' = s /\ session = s
    BY <2>1
  <2> QED
    BY <1>7, <1>8, <2>1, <2>2
<1>13. rec.state = "Disconnected" => Lifting'
  BY <1>6, <1>7 DEF Lifting, Lifts, At
<1>14. rec.state # "Disconnected" => TellsLife(t)'
  BY <1>6, <1>7 DEF TellsLife, Tells, Telling
<1>15. LiftInv'
  BY <1>8, <1>13 DEF LiftInv
<1>16. OneTells'
  <2>1. s # 0
    BY DEF Sessions
  <2>2. ASSUME s = 1, rec.state # "Disconnected", NEW u \in Threads, Tells(u)'
        PROVE  ~note'[u].reconnect /\ note'[u].newState # "Disconnected"
    <3>1. CASE u = t
      BY <1>7, <2>2, <3>1
    <3>2. CASE u # t
      <4>1. Tells(u)
        BY <1>6, <2>2, <3>2 DEF Tells
      <4> QED
        BY <1>7, <2>2, <3>2, <4>1 DEF Show, OneTells
    <3> QED
      BY <3>1, <3>2
  <2>3. session' = s
    OBVIOUS
  <2> QED
    BY <1>8, <2>1, <2>2, <2>3 DEF OneTells
<1>17. ShowInv'
  BY <1>8, <1>13, <1>14 DEF ShowInv
<1> QED
  BY <1>10, <1>11, <1>12, <1>15, <1>16, <1>17 DEF Show

\* A change of a session that leaves its state is mute.
LEMMA ShowStays ==
  ASSUME TypeOK, Show, NEW t \in Threads, stack[t] # <<>>,
         Head(stack[t]).at \notin Telling \cup {"after", "connect"},
         NEW s \in 0..MaxSessions, NEW rec \in SessionRecords, rec.state = sess[s].state,
         NEW f \in Seq(FramesOf(Labels \ Telling)), SetSession(t, s, rec, f),
         session' = session, UNCHANGED <<reconnects, ksVars>>
  PROVE  Show'
<1>1. Continue(t, f) /\ note' = note /\ sess' = [sess EXCEPT ![s] = rec]
  BY DEF SetSession
<1>2. sess'[session].state = sess[session].state
  BY <1>1 DEF TypeOK
<1>3. ~At(t, "connect")
  BY DEF At
<1> QED
  BY <1>1, <1>2, <1>3, MuteStep

\* Nobody tells that the session goes on, if nobody opens it and its reader does not tell.
LEMMA NobodyTells ==
  ASSUME Show, \A u \in Threads : ~Has(stack[u], "clean"),
         session \in Sessions => ~Tells(Reader(session))
  PROVE  \A u \in Threads : ~TellsLife(u)
BY DEF Show, TellInv, TellsLife

\* What a reader does with a line keeps the invariant.
LEMMA ShowLine ==
  ASSUME TypeOK, Settling, Course, Show, NEW s \in Sessions,
         \/ HandleStateNotification(s) \/ HandleAuthNotification(s) \/ HandleFatalNotification(s)
         \/ HandleLogNotification(s)
  PROVE  Show'
<1> DEFINE labels == {"connectedError", "authFailed", "read"}
<1> DEFINE mute == Labels \ Telling
<1> PICK t \in Threads : t = Reader(s)
  BY SessionThreads
<1>0. s \in 0..MaxSessions
  BY SessionThreads
<1>1. /\ UNCHANGED <<reconnects, ksVars>>
      /\ \E kind : \E rec \in SessionRecords, f \in Seq(FramesOf(labels)) :
              /\ Read(s, kind)
              /\ SetSession(Reader(s), s, rec, f)
              /\ \/ rec.state = sess[s].state
                 \/ rec.state = "Disconnected" /\ kind \in {"CONNECTED_ERROR", "AUTH_FAILED", "FATAL"}
                 \/ rec.state = "Connected" /\ kind = "CONNECTED"
                 \/ sess[s].state = "Connected" /\ rec.state \in {"Connecting", "Disconnecting"}
  BY LineEffect
<1>2. PICK kind : \E rec \in SessionRecords, f \in Seq(FramesOf(labels)) :
              /\ Read(s, kind)
              /\ SetSession(Reader(s), s, rec, f)
              /\ \/ rec.state = sess[s].state
                 \/ rec.state = "Disconnected" /\ kind \in {"CONNECTED_ERROR", "AUTH_FAILED", "FATAL"}
                 \/ rec.state = "Connected" /\ kind = "CONNECTED"
                 \/ sess[s].state = "Connected" /\ rec.state \in {"Connecting", "Disconnecting"}
  BY <1>1
<1>3. PICK rec \in SessionRecords, f \in Seq(FramesOf(labels)) :
              /\ Read(s, kind)
              /\ SetSession(Reader(s), s, rec, f)
              /\ \/ rec.state = sess[s].state
                 \/ rec.state = "Disconnected" /\ kind \in {"CONNECTED_ERROR", "AUTH_FAILED", "FATAL"}
                 \/ rec.state = "Connected" /\ kind = "CONNECTED"
                 \/ sess[s].state = "Connected" /\ rec.state \in {"Connecting", "Disconnecting"}
  BY <1>2
<1>4. /\ stack[t] # <<>> /\ Head(stack[t]).at = "read" /\ session' = session
      /\ Head(stack[t]).at \notin Telling \cup {"after", "connect"}
  BY <1>3 DEF Read, At, Telling
<1>5. f \in Seq(FramesOf(mute))
  <2>1. FramesOf(labels) \subseteq FramesOf(mute)
    BY DEF FramesOf, Labels, Telling
  <2> HIDE DEF labels, mute
  <2> QED
    BY <2>1, SeqMonotonic
<1>6. CASE rec.state = sess[s].state
  BY <1>0, <1>1, <1>3, <1>4, <1>5, <1>6, ShowStays
<1>7. CASE rec.state # sess[s].state
  <2>1. /\ s = session /\ sess[s].state # "Disconnected"
        /\ \A u \in Threads : ~Opens(u)
    BY <1>3, <1>7, ReaderTurns DEF Settling
  <2>2. ~Tells(Reader(session))
    BY <1>4, <2>1 DEF Tells, Telling
  <2>3. \A u \in Threads : ~Has(stack[u], "clean")
    BY <2>1 DEF Opens, BeforeReader
  <2>4. \A u \in Threads : ~TellsLife(u)
    BY <2>2, <2>3, NobodyTells
  <2>5. SetSession(t, session, rec, f) /\ session \in Sessions /\ t = Reader(session)
    BY <1>3, <2>1
  <2> HIDE DEF mute, labels
  <2> QED
    BY <1>1, <1>4, <1>5, <1>7, <2>1, <2>4, <2>5, ShowTurns DEF mute
<1> QED
  BY <1>6, <1>7

\* The end of a reader keeps it.
LEMMA ShowReader ==
  ASSUME TypeOK, Show, NEW s \in Sessions, RecordError(s) \/ ReaderEnds(s)
  PROVE  Show'
<1> DEFINE mute == Labels \ Telling
<1> PICK t \in Threads : t = Reader(s)
  BY SessionThreads
<1>0. s \in 0..MaxSessions
  BY SessionThreads
<1>1. /\ stack[t] # <<>> /\ Head(stack[t]).at \in {"read", "connectedError", "authFailed"}
      /\ session' = session /\ UNCHANGED <<reconnects, ksVars>> /\ note' = note
      /\ Continue(t, <<>>)
      /\ sess' = sess \/ \E x : sess' = [sess EXCEPT ![s].lastError = x]
  BY DEF RecordError, ReaderEnds, At, sessionVars, engineVars
<1>2. sess'[session].state = sess[session].state
  <2>1. ASSUME NEW x, sess' = [sess EXCEPT ![s].lastError = x]
        PROVE  sess'[session].state = sess[session].state
    BY <2>1 DEF TypeOK, SessionRecords
  <2> QED
    BY <1>1, <2>1
<1>3. \E f \in Seq(FramesOf(mute)) : Continue(t, f)
  <2>1. <<>> \in Seq(FramesOf(mute))
    OBVIOUS
  <2> QED
    BY <1>1, <2>1
<1>4. Head(stack[t]).at \notin Telling \cup {"after"} /\ ~At(t, "connect")
  BY <1>1 DEF Telling, At
<1> QED
  BY <1>1, <1>2, <1>3, <1>4, MuteStep

\* So do the handler of an exit, and the end of a session in the catch block of Connect.
LEMMA ShowEnds ==
  ASSUME Exclusive, Settling, Course, Show, NEW t \in Threads, OnOpenVpnExit(t) \/ SessionDisconnect(t)
  PROVE  Show'
<1> DEFINE mute == Labels \ Telling
<1>t. TypeOK /\ <<>> \in Seq(FramesOf(mute))
  BY DEF Exclusive
<1>1. /\ stack[t] # <<>> /\ Head(stack[t]).at \in {"exited", "sessionDisconnect"}
      /\ session' = session /\ UNCHANGED <<reconnects, ksVars>>
  BY DEF OnOpenVpnExit, SessionDisconnect, At, engineVars
<1>2. Head(stack[t]).at \notin Telling \cup {"after", "connect"} /\ ~Tells(t)
  BY <1>1 DEF Telling, Tells
<1> DEFINE Quiets(s) == \A u \in Threads : ~Has(stack[u], "clean") /\ (u = Reader(s) => ~Tells(u))
<1>3. \E s \in 0..MaxSessions : \E rec \in SessionRecords :
        /\ SetSession(t, s, rec, <<>>)
        /\ \/ rec.state = sess[s].state
           \/ rec.state = "Disconnected" /\ s = session /\ s \in Sessions /\ Quiets(s)
  <2>1. CASE OnOpenVpnExit(t)
    <3>1. PICK s \in 0..MaxSessions, rec \in SessionRecords :
           /\ SetSession(t, s, rec, <<>>)
           /\ \/ rec.state = sess[s].state
              \/ /\ rec.state = "Disconnected" /\ s = session /\ s \in Sessions
                 /\ process[s].closed = "yes" /\ \A u \in Threads : ~Opens(u)
      BY <1>t, <2>1, ExitEffect
    <3>2. s \in Sessions /\ process[s].closed = "yes" => stack[Reader(s)] = <<>>
      BY DEF Settling, ReadersInv
    <3>3. ASSUME s \in Sessions, process[s].closed = "yes", \A u \in Threads : ~Opens(u)
          PROVE  Quiets(s)
      BY <3>2, <3>3 DEF Opens, BeforeReader, Tells
    <3> QED
      BY <3>1, <3>3
  <2>2. CASE SessionDisconnect(t)
    <3>1. /\ session \in Sessions /\ Unstarted(session)
          /\ \A u \in Threads : u # t => ~Opens(u)
          /\ \A l \in BeforeReader : ~Has(stack[t], l)
      BY <2>2, DisconnectEffect
    <3>2. PICK rec \in SessionRecords : rec.state = "Disconnected" /\ SetSession(t, session, rec, <<>>)
      BY <2>2, DisconnectEffect
    <3>3. Quiets(session)
      BY <3>1 DEF Opens, BeforeReader, Tells, Unstarted
    <3>4. session \in 0..MaxSessions
      BY <3>1, SessionThreads
    <3> QED
      BY <3>1, <3>2, <3>3, <3>4
  <2> QED
    BY <2>1, <2>2
<1>4. PICK s \in 0..MaxSessions, rec \in SessionRecords :
        /\ SetSession(t, s, rec, <<>>)
        /\ \/ rec.state = sess[s].state
           \/ rec.state = "Disconnected" /\ s = session /\ s \in Sessions /\ Quiets(s)
  BY <1>3
<1>5. CASE rec.state = sess[s].state
  <2> HIDE DEF Quiets
  <2> QED
    BY <1>t, <1>1, <1>2, <1>4, <1>5, ShowStays
<1>6. CASE rec.state # sess[s].state
  <2>1. rec.state = "Disconnected" /\ s = session /\ s \in Sessions /\ Quiets(s)
    BY <1>4, <1>6
  <2>2. session \in Sessions => ~Tells(Reader(session))
    BY <2>1, SessionThreads
  <2>3. \A u \in Threads : ~Has(stack[u], "clean")
    BY <2>1
  <2>4. \A u \in Threads : ~TellsLife(u)
    BY <2>2, <2>3, NobodyTells
  <2>5. SetSession(t, session, rec, <<>>) /\ session \in Sessions /\ rec.state # sess[session].state
    BY <1>4, <1>6, <2>1
  <2> HIDE DEF Quiets, mute
  <2> QED
    BY <1>t, <1>1, <2>1, <2>4, <2>5, ShowTurns DEF mute
<1> QED
  BY <1>5, <1>6

\* A disconnect no session went through is told as one that did.
LEMMA ShowErrors ==
  ASSUME Exclusive, Course, Show, NEW t \in Threads,
         ConnectWithoutNetwork(t) \/ (Failed(t) /\ arg[t].error # "NoError")
  PROVE  Show'
<1>t. TypeOK /\ stack \in [Threads -> Seq(Frames)] /\ 0 \in 0..MaxSessions /\ session \in 0..MaxSessions
  BY BoundsAssumption DEF Exclusive, TypeOK
<1>1. /\ stack[t] # <<>> /\ Head(stack[t]).at \in {"connect", "failed"}
      /\ session' = session /\ sess' = sess /\ UNCHANGED <<reconnects, ksVars>>
  BY DEF ConnectWithoutNetwork, Failed, At, sessionVars
<1>2. /\ sess[session].state = "Disconnected"
      /\ Failed(t) => session # 0
  <2>1. CASE ConnectWithoutNetwork(t)
    BY <2>1 DEF ConnectWithoutNetwork, Failed, At
  <2>2. CASE Failed(t)
    <3> PICK q \in Seq(Frames) : q = stack[t]
      BY <1>t
    <3>1. q[1].at = "failed" /\ 1 \in 1..Len(q)
      BY <1>1, <2>2, Innermost DEF Failed, At
    <3>2. Has(q, "failed") /\ FailedLast(q)
      BY <3>1 DEF Has, Course, OpenInv
    <3>3. ~Has(q, "sessionDisconnect")
      <4> SUFFICES ASSUME NEW j \in 1..Len(q), q[j].at = "sessionDisconnect" PROVE FALSE
        BY DEF Has
      <4>1. j < 1
        BY <3>1, <3>2 DEF FailedLast
      <4> QED
        BY <4>1
    <3>4. session \in Sessions
      BY <3>2 DEF Opens, Course, OpenInv
    <3> QED
      BY <3>2, <3>3, <3>4 DEF Course, OpenInv, Sessions
  <2> QED
    BY <2>1, <2>2
<1>3. PICK f \in Seq(Frames) :
        /\ stack' = Pushed(stack, t, f)
        /\ Len(f) > 0 /\ f[1].at = "invoke"
        /\ \A i \in 1..Len(f) : f[i].at \in Telling => i = 1
        /\ session = 0 => Has(f, "unlock")
  <2> DEFINE Invokes ==
        \E f \in Seq(Frames) :
          /\ stack' = Pushed(stack, t, f)
          /\ Len(f) > 0 /\ f[1].at = "invoke"
          /\ \A i \in 1..Len(f) : f[i].at \in Telling => i = 1
          /\ session = 0 => Has(f, "unlock")
  <2>i. ASSUME NEW f \in Seq(Frames), stack' = Pushed(stack, t, f), Len(f) > 0, f[1].at = "invoke",
               \A i \in 1..Len(f) : f[i].at \in Telling => i = 1,
               session = 0 => Has(f, "unlock")
        PROVE  Invokes
    BY <2>i, Zenon
  <2> HIDE DEF Invokes
  <2>1. /\ Frame("invoke", 0) \in Frames /\ Frame("invoke", 0).at = "invoke"
        /\ Frame("unlock", 0) \in Frames /\ Frame("unlock", 0).at = "unlock"
    BY <1>t, FrameTyped DEF Labels
  <2>2. ASSUME ConnectWithoutNetwork(t) PROVE Invokes
    <3> PICK f : f = <<Frame("invoke", 0)>> \o <<Frame("unlock", 0)>>
      OBVIOUS
    <3>1. f \in Seq(Frames) /\ Len(f) = 2 /\ f[1].at = "invoke" /\ f[2].at = "unlock"
      <4> PICK a \in Frames, b \in Frames : a = Frame("invoke", 0) /\ b = Frame("unlock", 0)
        BY <2>1
      <4>1. <<b>> \in Seq(Frames) /\ Len(<<b>>) = 1 /\ <<b>>[1] = b
        OBVIOUS
      <4>2. f = <<a>> \o <<b>>
        OBVIOUS
      <4>3. f \in Seq(Frames) /\ Len(f) = 1 + Len(<<b>>) /\ f[1] = a /\ \A i \in 1..Len(<<b>>) : f[i + 1] = <<b>>[i]
        BY <4>1, <4>2, Fronted
      <4>4. f[2] = b
        BY <4>1, <4>3
      <4> QED
        BY <2>1, <4>1, <4>3, <4>4
    <3>2. stack' = Pushed(stack, t, f)
      BY <2>2 DEF ConnectWithoutNetwork, NotifyError, Continue, Pushed
    <3>3. \A i \in 1..Len(f) : f[i].at \in Telling => i = 1
      BY <3>1 DEF Telling
    <3>4. Has(f, "unlock")
      BY <3>1 DEF Has
    <3>5. f \in Seq(Frames) /\ Len(f) > 0 /\ f[1].at = "invoke"
      BY <3>1
    <3> QED
      BY <2>i, <3>2, <3>3, <3>4, <3>5, Zenon
  <2>3. ASSUME Failed(t) /\ arg[t].error # "NoError" PROVE Invokes
    <3> PICK f : f = <<Frame("invoke", 0)>> \o <<>>
      OBVIOUS
    <3>1. f = <<Frame("invoke", 0)>>
      BY <2>1, ConcatEmptySeq
    <3>2. f \in Seq(Frames) /\ Len(f) = 1 /\ f[1].at = "invoke"
      BY <2>1, <3>1
    <3>3. stack' = Pushed(stack, t, f)
      BY <2>3 DEF Failed, NotifyError, Continue, Pushed
    <3>4. session # 0 /\ \A i \in 1..Len(f) : f[i].at \in Telling => i = 1
      BY <1>2, <2>3, <3>2
    <3>5. f \in Seq(Frames) /\ Len(f) > 0 /\ f[1].at = "invoke"
      BY <3>2
    <3> QED
      BY <2>i, <3>3, <3>4, <3>5, Zenon
  <2>4. Invokes
    BY <2>2, <2>3
  <2> QED
    BY <2>4, Zenon DEF Invokes
<1>4. /\ ~note'[t].reconnect /\ note'[t].newState = "Disconnected"
      /\ \A u \in Threads : u # t => note'[u] = note[u]
  <2>1. PICK error : note' = [note EXCEPT ![t] = Status("Disconnected", error, FALSE)]
    BY DEF ConnectWithoutNetwork, Failed, NotifyError
  <2> QED
    BY <1>t, <2>1 DEF TypeOK, Status
<1>5. /\ \A u \in Threads : u # t => stack'[u] = stack[u]
      /\ Topped(stack'[t]) /\ stack'[t] # <<>> /\ Head(stack'[t]).at = "invoke"
      /\ \A l : Has(f, l) => Has(stack'[t], l)
  <2>1. Topped(stack[t])
    BY DEF Show, TopInv
  <2>2. /\ \A u \in Threads : u # t => stack'[u] = stack[u]
        /\ Topped(stack'[t])
        /\ Len(f) > 0 => stack'[t] # <<>> /\ Head(stack'[t]) = f[1]
    BY <1>t, <1>1, <1>3, <2>1, Goes
  <2>3. \A l : Has(f, l) => Has(stack'[t], l)
    BY <1>t, <1>1, <1>3, Stepped
  <2> QED
    BY <1>3, <2>2, <2>3
<1>6. Lifting'
  BY <1>4, <1>5 DEF Lifting, Lifts, At
<1>7. TopInv'
  BY <1>5 DEF Show, TopInv
<1>8. AfterInv'
  <2> SUFFICES ASSUME NEW u \in Threads
               PROVE  /\ note'[u].reconnect => Answers(u)'
                      /\ At(u, "enable")' => note'[u].newState = "Connected"
                      /\ Ends(u)' => note'[u].newState = "Disconnected"
    BY DEF AfterInv
  <2>1. CASE u = t
    BY <1>4, <1>5, <2>1 DEF At
  <2>2. CASE u # t
    BY <1>4, <1>5, <2>2 DEF Show, AfterInv, Answers, At, Ends
  <2> QED
    BY <2>1, <2>2
<1>9. TellInv'
  <2> SUFFICES ASSUME NEW u \in Threads, TellsLife(u)'
               PROVE  /\ note'[u].newState = sess'[session'].state
                      /\ (session' \in Sessions /\ u = Reader(session')) \/ Has(stack'[u], "clean")
    BY DEF TellInv
  <2>1. u # t
    BY <1>4 DEF TellsLife
  <2>2. TellsLife(u)
    BY <1>4, <1>5, <2>1 DEF TellsLife, Tells
  <2> QED
    BY <1>1, <1>4, <1>5, <2>1, <2>2 DEF Show, TellInv
<1>10. LiftInv'
  BY <1>6 DEF LiftInv
<1>11. OneTells'
  <2>1. ASSUME session = 0, NEW u \in Threads, Tells(u)' PROVE Has(stack'[u], "unlock")
    <3>1. CASE u = t
      BY <1>3, <1>5, <2>1, <3>1
    <3>2. CASE u # t
      <4>1. Tells(u)
        BY <1>5, <2>1, <3>2 DEF Tells
      <4> QED
        BY <1>5, <2>1, <3>2, <4>1 DEF Show, OneTells
    <3> QED
      BY <3>1, <3>2
  <2>2. sess'[session'].state = "Disconnected"
    BY <1>1, <1>2
  <2> QED
    BY <1>1, <2>1, <2>2 DEF OneTells
<1>12. ShowInv'
  BY <1>1, <1>2, <1>6 DEF ShowInv
<1> QED
  BY <1>7, <1>8, <1>9, <1>10, <1>11, <1>12 DEF Show

\* What a step of a thread that tells does to the invariant: the block and what is shown are
\* left to its own.
LEMMA TellStep ==
  ASSUME Show, NEW t \in Threads, Tells(t), Topped(stack'[t]),
         \A u \in Threads : u # t => stack'[u] = stack[u] /\ note'[u] = note[u],
         session' = session, sess' = sess,
         note'[t].reconnect => Answers(t)',
         At(t, "enable")' => note'[t].newState = "Connected",
         Ends(t)' => note'[t].newState = "Disconnected",
         \A l \in {"clean", "unlock"} : Has(stack[t], l) => Has(stack'[t], l),
         TellsLife(t)' => TellsLife(t) /\ note'[t].newState = note[t].newState,
         Tells(t)' /\ note[t].newState # "Disconnected" /\ ~note[t].reconnect
           => ~note'[t].reconnect /\ note'[t].newState # "Disconnected",
         LiftInv', ShowInv'
  PROVE  Show'
<1>1. TopInv'
  BY DEF Show, TopInv
<1>2. AfterInv'
  <2> SUFFICES ASSUME NEW u \in Threads
               PROVE  /\ note'[u].reconnect => Answers(u)'
                      /\ At(u, "enable")' => note'[u].newState = "Connected"
                      /\ Ends(u)' => note'[u].newState = "Disconnected"
    BY DEF AfterInv
  <2>1. CASE u = t
    BY <2>1
  <2>2. CASE u # t
    BY <2>2 DEF Show, AfterInv, Answers, At, Ends
  <2> QED
    BY <2>1, <2>2
<1>3. TellInv'
  <2> SUFFICES ASSUME NEW u \in Threads, TellsLife(u)'
               PROVE  /\ note'[u].newState = sess[session].state
                      /\ (session \in Sessions /\ u = Reader(session)) \/ Has(stack'[u], "clean")
    BY DEF TellInv
  <2>1. CASE u = t
    BY <2>1 DEF Show, TellInv
  <2>2. CASE u # t
    <3>1. TellsLife(u)
      BY <2>2 DEF TellsLife, Tells
    <3> QED
      BY <2>2, <3>1 DEF Show, TellInv
  <2> QED
    BY <2>1, <2>2
<1>4. OneTells'
  <2>1. ASSUME session = 0, NEW u \in Threads, Tells(u)' PROVE Has(stack'[u], "unlock")
    <3>1. CASE u = t
      BY <2>1, <3>1 DEF Show, OneTells
    <3>2. CASE u # t
      BY <2>1, <3>2 DEF Show, OneTells, Tells
    <3> QED
      BY <3>1, <3>2
  <2>2. ASSUME session = 1, sess[session].state # "Disconnected", NEW u \in Threads, Tells(u)'
        PROVE  ~note'[u].reconnect /\ note'[u].newState # "Disconnected"
    <3>1. CASE u = t
      BY <2>2, <3>1 DEF Show, OneTells
    <3>2. CASE u # t
      BY <2>2, <3>2 DEF Show, OneTells, Tells
    <3> QED
      BY <3>1, <3>2
  <2> QED
    BY <2>1, <2>2 DEF OneTells
<1> QED
  BY <1>1, <1>2, <1>3, <1>4 DEF Show

\* A block that is about to be lifted stays so, if the thread's part in it stays.
LEMMA LiftStep ==
  ASSUME LiftInv, NEW t \in Threads,
         \A u \in Threads : u # t => stack'[u] = stack[u] /\ note'[u] = note[u],
         session' = session, sess' = sess, reconnects' = reconnects,
         Lifts(t) => Lifts(t)'
  PROVE  /\ Lifting => Lifting'
         /\ (Unwanted' => Unwanted) => LiftInv'
<1>1. \A u \in Threads : Lifts(u) => Lifts(u)'
  BY DEF Lifts, At
<1>2. Lifting => Lifting'
  BY <1>1 DEF Lifting
<1> QED
  BY <1>2 DEF LiftInv

\* OnStateChangedNotification keeps the invariant: it tells the status it was given, or answers
\* it with a reconnect.
LEMMA ShowChanged ==
  ASSUME TypeOK, Show, NEW t \in Threads, Changed(t)
  PROVE  Show'
<1> DEFINE q == stack[t]
<1>0. /\ q # <<>> /\ Head(q).at = "changed" /\ 0 \in 0..MaxSessions
      /\ session' = session /\ sess' = sess /\ reconnects' = reconnects /\ UNCHANGED ksVars
  BY BoundsAssumption DEF Changed, At, sessionVars
<1>1. PICK newState, error, again :
        /\ note' = [note EXCEPT ![t] = Status(newState, error, again)]
        /\ again \in BOOLEAN
        /\ again => note[t].newState = "Disconnected" /\ newState \in {"Connecting", note[t].newState}
        /\ ~again => newState = note[t].newState
  BY DEF Changed, TryReconnecting
<1>2. /\ note'[t].newState = newState /\ note'[t].reconnect = again
      /\ \A u \in Threads : u # t => note'[u] = note[u]
  BY <1>1 DEF TypeOK, Status
<1> PICK f : f = <<Frame("invoke", 0), Frame("after", 0)>>
  OBVIOUS
<1>3. f \in Seq(Frames) /\ Len(f) = 2 /\ f[1].at = "invoke" /\ f[2].at = "after"
  BY <1>0, FrameTyped DEF Labels
<1>4. stack' = Pushed(stack, t, f)
  BY DEF Changed, Continue, Pushed
<1>5. Topped(q) /\ \A i \in 1..Len(f) : f[i].at \in Telling => i = 1
  BY <1>3 DEF Show, TopInv, Telling
<1>6. /\ \A u \in Threads : u # t => stack'[u] = stack[u]
      /\ Topped(stack'[t])
      /\ stack'[t] # <<>> /\ Head(stack'[t]).at = "invoke"
      /\ Len(stack'[t]) > 1 /\ stack'[t][2].at = "after"
  <2>1. /\ \A u \in Threads : u # t => stack'[u] = stack[u]
        /\ Topped(stack'[t])
        /\ Len(f) > 0 => stack'[t] # <<>> /\ Head(stack'[t]) = f[1]
        /\ Len(f) = 2 => Len(stack'[t]) > 1 /\ stack'[t][2] = f[2]
    BY <1>0, <1>3, <1>4, <1>5, Goes
  <2>2. Len(f) > 0
    BY <1>3
  <2> QED
    BY <1>3, <2>1, <2>2
<1>7. \A l \in {"clean", "unlock"} : Has(stack[t], l) => Has(stack'[t], l)
  <2>1. \A l : Has(stack[t], l) /\ Head(stack[t]).at # l => Has(stack'[t], l)
    BY <1>0, <1>3, <1>4, Stepped
  <2> QED
    BY <1>0, <2>1
<1>8. Tells(t) /\ ~note[t].reconnect
  BY <1>0 DEF Tells, Telling, Show, AfterInv, Answers
<1>9. note'[t].reconnect => Answers(t)'
  BY <1>1, <1>2, <1>6 DEF Answers
<1>10. ~At(t, "enable")' /\ ~Ends(t)' /\ Tells(t)'
  BY <1>6 DEF At, Ends, Tells, Telling
<1>11. /\ TellsLife(t)' => TellsLife(t) /\ note'[t].newState = note[t].newState
       /\ TellsLife(t) => TellsLife(t)'
       /\ note[t].newState # "Disconnected" => ~note'[t].reconnect /\ note'[t].newState # "Disconnected"
  BY <1>1, <1>2, <1>8, <1>10 DEF TellsLife
<1>12. Lifts(t) => Lifts(t)'
  BY <1>0, <1>1, <1>2, <1>6, <1>8 DEF Lifts, At
<1>13. LiftInv' /\ (Lifting => Lifting')
  <2>1. Unwanted' => Unwanted
    BY <1>0 DEF ksVars, Unwanted
  <2>2. LiftInv
    BY DEF Show
  <2> QED
    BY <1>0, <1>2, <1>6, <1>12, <2>1, <2>2, LiftStep
<1>14. ShowInv'
  <2> SUFFICES ASSUME session = 1 PROVE ShowInv'
    BY <1>0 DEF ShowInv
  <2>1. \A u \in Threads : TellsLife(u) => TellsLife(u)'
    BY <1>2, <1>6, <1>11 DEF TellsLife, Tells
  <2>2. \A u \in Threads : Ends(u) => Ends(u)'
    BY <1>0, <1>6 DEF At, Ends
  <2>3. openVpnConnectionState' = openVpnConnectionState
    BY <1>0 DEF ksVars, Unwanted
  <2> QED
    BY <1>0, <1>13, <2>1, <2>2, <2>3 DEF Show, ShowInv
<1> QED
  BY <1>0, <1>2, <1>6, <1>7, <1>8, <1>9, <1>10, <1>11, <1>13, <1>14, TellStep

\* Where a thread that tells stands after one of its own frames.
LEMMA TellGoes ==
  ASSUME TypeOK, Show, NEW t \in Threads, Tells(t), NEW f \in Seq(Frames), Continue(t, f),
         Len(f) = 0 \/ Len(f) = 1
  PROVE  /\ \A u \in Threads : u # t => stack'[u] = stack[u]
         /\ Topped(stack'[t])
         /\ Len(f) = 1 => stack'[t] # <<>> /\ Head(stack'[t]) = f[1]
         /\ Len(f) = 0 => ~Tells(t)'
         /\ \A l \in {"clean", "unlock"} : Has(stack[t], l) => Has(stack'[t], l)
         /\ note[t].reconnect =>
              /\ Len(f) = 0 => stack'[t] # <<>> /\ Head(stack'[t]).at = "after"
              /\ Len(f) = 1 => Len(stack'[t]) > 1 /\ stack'[t][2].at = "after"
<1>1. stack[t] # <<>> /\ Head(stack[t]).at \in Telling /\ stack' = Pushed(stack, t, f)
  BY DEF Tells, Continue, Pushed
<1>2. Topped(stack[t]) /\ \A i \in 1..Len(f) : f[i].at \in Telling => i = 1
  BY DEF Show, TopInv
<1>3. /\ \A u \in Threads : u # t => stack'[u] = stack[u]
      /\ Topped(stack'[t])
      /\ Len(f) > 0 => stack'[t] # <<>> /\ Head(stack'[t]) = f[1]
      /\ Len(f) = 0 => (stack'[t] # <<>> => Head(stack'[t]).at \notin Telling)
      /\ Len(f) = 0 /\ Len(stack[t]) > 1 => stack'[t] # <<>> /\ Head(stack'[t]) = stack[t][2]
      /\ Len(f) = 1 /\ Len(stack[t]) > 1 => Len(stack'[t]) > 1 /\ stack'[t][2] = stack[t][2]
  BY <1>1, <1>2, Goes
<1>4. \A l \in {"clean", "unlock"} : Has(stack[t], l) => Has(stack'[t], l)
  <2>1. \A l : Has(stack[t], l) /\ Head(stack[t]).at # l => Has(stack'[t], l)
    BY <1>1, Stepped
  <2> QED
    BY <1>1, <2>1 DEF Telling
<1>5. note[t].reconnect => Len(stack[t]) > 1 /\ stack[t][2].at = "after"
  BY <1>1 DEF Show, AfterInv, Answers, Telling
<1>6. Len(f) = 1 => Len(f) > 0
  OBVIOUS
<1> QED
  BY <1>3, <1>4, <1>5, <1>6 DEF Tells

\* The subscriber of the status keeps the invariant: a disconnect lifts a block that nobody
\* wants, and the status told last is the one that is remembered.
LEMMA ShowTold ==
  ASSUME TypeOK, Show, NEW t \in Threads, Invoke(t) \/ Enable(t) \/ Unblock(t) \/ Forget(t)
  PROVE  Show'
<1>0. /\ stack[t] # <<>> /\ Head(stack[t]).at \in {"invoke", "enable", "unblock", "forget"}
      /\ session' = session /\ sess' = sess /\ reconnects' = reconnects /\ note' = note
      /\ 0 \in 0..MaxSessions
  BY BoundsAssumption DEF Invoke, Enable, Unblock, Forget, At, sessionVars, engineVars
<1>1. Tells(t)
  BY <1>0 DEF Tells, Telling
<1>2. \A u \in Threads : u # t => note'[u] = note[u]
  BY <1>0
<1> PICK none \in Seq(Frames), enable \in Seq(Frames), unblock \in Seq(Frames), forget \in Seq(Frames) :
      /\ none = <<>> /\ enable = <<Frame("enable", 0)>>
      /\ unblock = <<Frame("unblock", 0)>> /\ forget = <<Frame("forget", 0)>>
  BY <1>0, OneFrame DEF Labels
<1>3. /\ Len(none) = 0
      /\ Len(enable) = 1 /\ enable[1].at = "enable"
      /\ Len(unblock) = 1 /\ unblock[1].at = "unblock"
      /\ Len(forget) = 1 /\ forget[1].at = "forget"
  BY DEF Frame
<1>4. /\ note[t].reconnect => note[t].newState \in {"Disconnected", "Connecting"}
      /\ At(t, "enable") => note[t].newState = "Connected"
      /\ Ends(t) => note[t].newState = "Disconnected"
      /\ TellsLife(t) => note[t].newState = sess[session].state
      /\ session = 1 /\ sess[session].state # "Disconnected" =>
           ~note[t].reconnect /\ note[t].newState # "Disconnected"
  BY <1>1 DEF Show, AfterInv, Answers, TellInv, OneTells
<1>5. LiftInv /\ ShowInv
  BY DEF Show
<1>6. ASSUME Continue(t, none), UNCHANGED <<killSwitch, networkBlocked, reblocked>>,
             At(t, "invoke") => note[t].newState # "Disconnected", ~At(t, "unblock"),
             ShowInv'
      PROVE  Show'
  <2>1. /\ \A u \in Threads : u # t => stack'[u] = stack[u]
        /\ Topped(stack'[t]) /\ ~Tells(t)'
        /\ \A l \in {"clean", "unlock"} : Has(stack[t], l) => Has(stack'[t], l)
        /\ note[t].reconnect => stack'[t] # <<>> /\ Head(stack'[t]).at = "after"
    BY <1>1, <1>3, <1>6, TellGoes
  <2>2. note'[t].reconnect => Answers(t)'
    BY <1>0, <1>4, <2>1 DEF Answers
  <2>3. ~At(t, "enable")' /\ ~Ends(t)' /\ ~TellsLife(t)'
    BY <2>1 DEF Tells, TellsLife, Telling, At, Ends
  <2>4. Lifts(t) => Lifts(t)'
    BY <1>0, <1>6 DEF Lifts, At
  <2>5. LiftInv'
    BY <1>0, <1>2, <1>5, <1>6, <2>1, <2>4, LiftStep DEF Unwanted
  <2> QED
    BY <1>0, <1>1, <1>2, <1>6, <2>1, <2>2, <2>3, <2>5, TellStep
<1>7. CASE Invoke(t) /\ note[t].newState = "Connected" /\ BlocksOnConnected
  <2>1. Continue(t, enable) /\ UNCHANGED ksVars /\ At(t, "invoke")
    BY <1>7 DEF Invoke
  <2>2. /\ \A u \in Threads : u # t => stack'[u] = stack[u]
        /\ Topped(stack'[t])
        /\ stack'[t] # <<>> /\ Head(stack'[t]).at = "enable"
        /\ \A l \in {"clean", "unlock"} : Has(stack[t], l) => Has(stack'[t], l)
    BY <1>1, <1>3, <2>1, TellGoes
  <2>3. ~note[t].reconnect
    BY <1>4, <1>7
  <2>4. TellsLife(t) /\ TellsLife(t)' /\ ~Ends(t)'
    BY <1>0, <1>1, <1>7, <2>2, <2>3 DEF TellsLife, Tells, Telling, At, Ends
  <2>5. Lifts(t) => Lifts(t)'
    BY <1>7, <2>1, <2>3 DEF Lifts, At
  <2>6. Unwanted' => Unwanted
    BY <2>1 DEF ksVars, Unwanted
  <2>7. LiftInv' /\ (Lifting => Lifting')
    BY <1>0, <1>2, <1>5, <2>2, <2>5, <2>6, LiftStep
  <2>8. ShowInv'
    <3>1. TellsLife(t)'
      BY <2>4
    <3> QED
      BY <3>1 DEF ShowInv
  <2> QED
    BY <1>0, <1>1, <1>2, <1>7, <2>2, <2>3, <2>4, <2>7, <2>8, TellStep
<1>8. CASE Invoke(t) /\ note[t].newState = "Disconnected"
  <2>1. /\ At(t, "invoke") /\ UNCHANGED <<killSwitch, networkBlocked, reblocked, openVpnConnectionState>>
        /\ \/ Continue(t, unblock)
           \/ Continue(t, forget) /\ killSwitch
    BY <1>8 DEF Invoke, DecideToUnblock, UnblocksOnDisconnected, ksVars
  <2>2. /\ \A u \in Threads : u # t => stack'[u] = stack[u]
        /\ Topped(stack'[t]) /\ stack'[t] # <<>>
        /\ Head(stack'[t]).at = "unblock" \/ (Head(stack'[t]).at = "forget" /\ killSwitch)
        /\ \A l \in {"clean", "unlock"} : Has(stack[t], l) => Has(stack'[t], l)
        /\ note[t].reconnect => Len(stack'[t]) > 1 /\ stack'[t][2].at = "after"
    BY <1>1, <1>3, <2>1, TellGoes
  <2>3. note'[t].reconnect => Answers(t)'
    BY <1>0, <1>4, <2>2 DEF Answers
  <2>4. Ends(t)' /\ ~At(t, "enable")' /\ ~TellsLife(t)' /\ ~TellsLife(t)
    BY <1>0, <1>8, <2>2 DEF At, Ends, TellsLife
  <2>5. LiftInv'
    <3>1. CASE killSwitch
      BY <2>1, <3>1 DEF LiftInv, Unwanted
    <3>2. CASE ~killSwitch
      <4>1. Lifting'
        BY <2>2, <3>2 DEF Lifting, Lifts, At
      <4> QED
        BY <4>1 DEF LiftInv
    <3> QED
      BY <3>1, <3>2
  <2>6. ShowInv'
    <3> SUFFICES ASSUME session = 1 PROVE ShowInv'
      BY <1>0 DEF ShowInv
    <3>1. sess[session].state = "Disconnected"
      BY <1>4, <1>8
    <3> QED
      BY <1>0, <2>4, <3>1 DEF ShowInv
  <2> QED
    BY <1>0, <1>1, <1>2, <1>8, <2>2, <2>3, <2>4, <2>5, <2>6, TellStep
<1>9. CASE /\ Invoke(t) /\ note[t].newState # "Disconnected"
           /\ ~(note[t].newState = "Connected" /\ BlocksOnConnected)
  <2>1. Continue(t, none) /\ PublishStatus(note[t].newState)
    BY <1>9 DEF Invoke
  <2>2. UNCHANGED <<killSwitch, networkBlocked, reblocked>> /\ openVpnConnectionState' = note[t].newState
    BY <2>1 DEF PublishStatus, historyVars
  <2>3. ShowInv'
    <3> SUFFICES ASSUME session = 1 PROVE ShowInv'
      BY <1>0 DEF ShowInv
    <3>1. CASE ~note[t].reconnect
      <4>1. note[t].newState = sess[session].state
        BY <1>1, <1>4, <1>9, <3>1 DEF TellsLife
      <4> QED
        BY <1>0, <2>2, <4>1 DEF ShowInv
    <3>2. CASE note[t].reconnect
      <4>1. sess[session].state = "Disconnected"
        BY <1>4, <3>2
      <4>2. Lifting'
        BY <1>0, <3>2 DEF Lifting, Lifts
      <4> QED
        BY <1>0, <4>1, <4>2 DEF ShowInv
    <3> QED
      BY <3>1, <3>2
  <2>4. ~At(t, "unblock")
    BY <1>9 DEF Invoke, At
  <2> QED
    BY <1>6, <1>9, <2>1, <2>2, <2>3, <2>4
<1>10. CASE Enable(t)
  <2>1. Continue(t, none) /\ EnableBlocker /\ At(t, "enable")
    BY <1>10 DEF Enable
  <2>2. sess[session].state = "Connected" /\ ~note[t].reconnect
    BY <1>1, <1>4, <2>1 DEF TellsLife
  <2>3. /\ \A u \in Threads : u # t => stack'[u] = stack[u]
        /\ Topped(stack'[t]) /\ ~Tells(t)'
        /\ \A l \in {"clean", "unlock"} : Has(stack[t], l) => Has(stack'[t], l)
    BY <1>1, <1>3, <2>1, TellGoes
  <2>4. ~note'[t].reconnect /\ ~At(t, "enable")' /\ ~Ends(t)' /\ ~TellsLife(t)'
    BY <1>0, <2>2, <2>3 DEF Tells, TellsLife, Telling, At, Ends
  <2>5. LiftInv'
    BY <1>0, <2>2 DEF LiftInv
  <2>6. ShowInv'
    BY <1>0, <2>1, <2>2 DEF ShowInv, EnableBlocker
  <2> QED
    BY <1>0, <1>1, <1>2, <2>3, <2>4, <2>5, <2>6, TellStep
<1>11. CASE Unblock(t)
  <2>1. Continue(t, forget) /\ DisableBlocker /\ At(t, "unblock")
    BY <1>11 DEF Unblock
  <2>2. /\ \A u \in Threads : u # t => stack'[u] = stack[u]
        /\ Topped(stack'[t]) /\ stack'[t] # <<>> /\ Head(stack'[t]).at = "forget"
        /\ \A l \in {"clean", "unlock"} : Has(stack[t], l) => Has(stack'[t], l)
        /\ note[t].reconnect => Len(stack'[t]) > 1 /\ stack'[t][2].at = "after"
    BY <1>1, <1>3, <2>1, TellGoes
  <2>3. note'[t].reconnect => Answers(t)'
    BY <1>0, <1>4, <2>2 DEF Answers
  <2>4. note[t].newState = "Disconnected"
    BY <1>4, <2>1 DEF Ends
  <2>5. Ends(t)' /\ ~At(t, "enable")' /\ ~TellsLife(t)'
    BY <1>0, <2>2, <2>4 DEF At, Ends, TellsLife
  <2>6. LiftInv'
    BY <2>1 DEF LiftInv, Unwanted, DisableBlocker
  <2>7. ShowInv'
    <3> SUFFICES ASSUME session = 1 PROVE ShowInv'
      BY <1>0 DEF ShowInv
    <3>1. sess[session].state = "Disconnected"
      BY <1>4, <2>4
    <3> QED
      BY <1>0, <2>5, <3>1 DEF ShowInv
  <2> QED
    BY <1>0, <1>1, <1>2, <2>2, <2>3, <2>4, <2>5, <2>6, <2>7, TellStep
<1>12. CASE Forget(t)
  <2>1. Continue(t, none) /\ ForgetRequest /\ At(t, "forget")
    BY <1>12 DEF Forget
  <2>2. UNCHANGED <<killSwitch, networkBlocked, reblocked>> /\ openVpnConnectionState' = "Disconnected"
    BY <2>1 DEF ForgetRequest, historyVars
  <2>3. ~At(t, "invoke") /\ ~At(t, "unblock")
    BY <2>1 DEF At
  <2>4. session = 1 => sess[session].state = "Disconnected"
    BY <1>4, <2>1 DEF Ends
  <2>5. ShowInv'
    BY <1>0, <2>2, <2>4 DEF ShowInv
  <2> QED
    BY <1>6, <2>1, <2>2, <2>3, <2>5
<1> QED
  BY <1>7, <1>8, <1>9, <1>10, <1>11, <1>12

\* The answer to a status keeps the invariant: a reconnect that was asked for is queued.
LEMMA ShowAfter ==
  ASSUME TypeOK, Show, NEW t \in Threads, After(t)
  PROVE  Show'
<1>0. /\ stack[t] # <<>> /\ Head(stack[t]).at = "after" /\ 0 \in 0..MaxSessions
      /\ session' = session /\ sess' = sess /\ UNCHANGED ksVars
      /\ note' = [note EXCEPT ![t] = NoNote]
      /\ reconnects' = reconnects + (IF note[t].reconnect THEN 1 ELSE 0)
  BY BoundsAssumption DEF After, At, sessionVars
<1>1. PICK f \in Seq(Frames) : stack' = Pushed(stack, t, f) /\ \A i \in 1..Len(f) : f[i].at = "stop"
  <2>1. <<>> \in Seq(Frames) /\ <<Frame("stop", 0)>> \in Seq(Frames) /\ Frame("stop", 0).at = "stop"
    BY <1>0, OneFrame, FrameTyped DEF Labels
  <2> PICK a \in Seq(Frames), b \in Seq(Frames) : a = <<>> /\ b = <<Frame("stop", 0)>>
    BY <2>1
  <2>2. (\A i \in 1..Len(a) : a[i].at = "stop") /\ (\A i \in 1..Len(b) : b[i].at = "stop")
    BY <2>1
  <2>3. stack' = Pushed(stack, t, a) \/ stack' = Pushed(stack, t, b)
    BY DEF After, Continue, Pushed
  <2> QED
    BY <2>2, <2>3
<1>2. /\ Topped(stack[t]) /\ Len(f) \in Nat /\ (Len(f) > 0 => 1 \in 1..Len(f))
      /\ \A i \in 1..Len(f) : f[i].at \in Telling => i = 1
  BY <1>1 DEF Show, TopInv, Telling
<1>3. /\ \A u \in Threads : u # t => stack'[u] = stack[u]
      /\ Topped(stack'[t])
      /\ Len(f) > 0 => stack'[t] # <<>> /\ Head(stack'[t]) = f[1]
      /\ Len(f) = 0 => (stack'[t] # <<>> => Head(stack'[t]).at \notin Telling)
  BY <1>0, <1>1, <1>2, Goes
<1>4. ~Tells(t) /\ ~Tells(t)' /\ ~At(t, "connect")
  BY <1>0, <1>1, <1>2, <1>3 DEF Tells, Telling, At
<1>5. ~note'[t].reconnect /\ \A u \in Threads : u # t => note'[u] = note[u]
  BY <1>0 DEF TypeOK, NoNote, Status
<1>6. /\ note[t].reconnect => reconnects' > 0
      /\ reconnects > 0 => reconnects' > 0
  BY <1>0 DEF TypeOK
<1>7. Mute(t)
  BY <1>3, <1>4, <1>5, <1>6 DEF Mute
<1>8. /\ openVpnConnectionState' = openVpnConnectionState
      /\ Unwanted' => Unwanted
  BY <1>0 DEF ksVars, Unwanted
<1> QED
  BY <1>0, <1>3, <1>5, <1>6, <1>7, <1>8, MuteKeeps

\* The frames a new session pushes: the publication of the change, then the cleaning of the tap adapter.
LEMMA StartFrames ==
  ASSUME NEW n \in 0..MaxSessions
  PROVE  \E f \in Seq(Frames) :
           /\ f = <<Frame("changed", n)>> \o <<Frame("clean", 0)>>
           /\ Len(f) > 0 /\ f[1].at = "changed" /\ Has(f, "clean")
           /\ \A i \in 1..Len(f) : f[i].at \in Telling => i = 1
<1> DEFINE Goal(f) ==
      /\ f = <<Frame("changed", n)>> \o <<Frame("clean", 0)>>
      /\ Len(f) > 0 /\ f[1].at = "changed" /\ Has(f, "clean")
      /\ \A i \in 1..Len(f) : f[i].at \in Telling => i = 1
<1>0. /\ Frame("changed", n) \in Frames /\ Frame("changed", n).at = "changed"
      /\ Frame("clean", 0) \in Frames /\ Frame("clean", 0).at = "clean"
  BY FrameTyped, BoundsAssumption DEF Labels
<1> PICK f : f = <<Frame("changed", n)>> \o <<Frame("clean", 0)>>
  OBVIOUS
<1>1. f \in Seq(Frames) /\ Len(f) = 2 /\ f[1].at = "changed" /\ f[2].at = "clean"
  <2> PICK a \in Frames, b \in Frames : a = Frame("changed", n) /\ b = Frame("clean", 0)
    BY <1>0
  <2>1. <<b>> \in Seq(Frames) /\ Len(<<b>>) = 1 /\ <<b>>[1] = b
    OBVIOUS
  <2>2. f = <<a>> \o <<b>>
    OBVIOUS
  <2>3. f \in Seq(Frames) /\ Len(f) = 1 + Len(<<b>>) /\ f[1] = a /\ \A i \in 1..Len(<<b>>) : f[i + 1] = <<b>>[i]
    BY <2>1, <2>2, Fronted
  <2>4. f[2] = b
    BY <2>1, <2>3
  <2> QED
    BY <1>0, <2>1, <2>3, <2>4
<1>2. Has(f, "clean") /\ \A i \in 1..Len(f) : f[i].at \in Telling => i = 1
  BY <1>1 DEF Has, Telling
<1>3. Len(f) > 0
  BY <1>1
<1>4. Goal(f)
  BY <1>1, <1>2, <1>3, Zenon
<1> HIDE DEF Goal
<1>5. \E g \in Seq(Frames) : Goal(g)
  BY <1>1, <1>4, Zenon
<1> QED
  BY <1>5 DEF Goal

\* A new session keeps the invariant: the thread that opens it tells so.
LEMMA ShowStart ==
  ASSUME Exclusive, Course, Show, NEW t \in Threads, StartSession(t)
  PROVE  Show'
<1>0. /\ TypeOK /\ stack[t] # <<>> /\ session \in 0..MaxSessions /\ 0 \in 0..MaxSessions
      /\ session' = session + 1 /\ session' \in 0..MaxSessions /\ session' # session /\ session' # 0
      /\ lock = NoThread /\ sess[session].state = "Disconnected"
  BY BoundsAssumption DEF Exclusive, TypeOK, StartSession, At
<1> PICK n \in 0..MaxSessions : n = session'
  BY <1>0
<1> PICK rec : rec = [sess[n] EXCEPT !.state = "Connecting"]
  OBVIOUS
<1>1. sess[n] \in SessionRecords /\ sess[n].state = "Disconnected"
  BY <1>0 DEF TypeOK, Course, OldInv
<1>2. rec.state = "Connecting"
  <2>1. ASSUME NEW x \in SessionRecords, NEW y, y = [x EXCEPT !.state = "Connecting"]
        PROVE  y.state = "Connecting"
    BY <2>1 DEF SessionRecords
  <2> QED
    BY <1>1, <2>1
<1>3. PICK f \in Seq(Frames) :
        /\ f = <<Frame("changed", n)>> \o <<Frame("clean", 0)>>
        /\ Len(f) > 0 /\ f[1].at = "changed" /\ Has(f, "clean")
        /\ \A i \in 1..Len(f) : f[i].at \in Telling => i = 1
  BY StartFrames
<1>5. /\ sess' = [sess EXCEPT ![n] = rec]
      /\ stack' = Pushed(stack, t, f)
      /\ note' = [note EXCEPT ![t] = Status(rec.state, rec.lastError, FALSE)]
  <2>1. SetSession(t, n, rec, <<Frame("clean", 0)>>)
    BY DEF StartSession, SetState
  <2>2. rec.state # sess[n].state
    BY <1>1, <1>2
  <2> QED
    BY <1>3, <2>1, <2>2 DEF SetSession, Continue, Pushed
<1>4. stack' = Pushed(stack, t, f)
  BY <1>5
<1>6. f \in Seq(Frames) /\ Len(f) > 0 /\ f[1].at = "changed" /\ Has(f, "clean")
      /\ \A i \in 1..Len(f) : f[i].at \in Telling => i = 1
  BY <1>3
<1>7. /\ \A u \in Threads : u # t => stack'[u] = stack[u]
      /\ Topped(stack'[t])
      /\ stack'[t] # <<>> /\ Head(stack'[t]).at = "changed" /\ Has(stack'[t], "clean")
  <2>1. Topped(stack[t])
    BY DEF Show, TopInv
  <2>2. /\ \A u \in Threads : u # t => stack'[u] = stack[u]
        /\ Topped(stack'[t])
        /\ Len(f) > 0 => stack'[t] # <<>> /\ Head(stack'[t]) = f[1]
    BY <1>0, <1>4, <1>6, <2>1, Goes
  <2>3. Has(stack'[t], "clean")
    BY <1>0, <1>4, <1>6, Stepped
  <2> QED
    BY <1>6, <2>2, <2>3
<1>8. /\ note'[t].newState = "Connecting" /\ ~note'[t].reconnect
      /\ \A u \in Threads : u # t => note'[u] = note[u]
  BY <1>0, <1>2, <1>5 DEF TypeOK, Status
<1>9. sess'[session'].state = "Connecting"
  BY <1>0, <1>2, <1>5 DEF TypeOK
<1>10. ASSUME NEW u \in Threads, u # t PROVE ~TellsLife(u)'
  <2>1. ~TellsLife(u)
    BY <1>0 DEF Show, TellInv, TellsLife
  <2> QED
    BY <1>7, <1>8, <1>10, <2>1 DEF TellsLife, Tells
<1>11. TellsLife(t)'
  BY <1>7, <1>8 DEF TellsLife, Tells, Telling
<1>12. TopInv'
  BY <1>7 DEF Show, TopInv
<1>13. AfterInv'
  <2> SUFFICES ASSUME NEW u \in Threads
               PROVE  /\ note'[u].reconnect => Answers(u)'
                      /\ At(u, "enable")' => note'[u].newState = "Connected"
                      /\ Ends(u)' => note'[u].newState = "Disconnected"
    BY DEF AfterInv
  <2>1. CASE u = t
    BY <1>7, <1>8, <2>1 DEF At, Ends
  <2>2. CASE u # t
    BY <1>7, <1>8, <2>2 DEF Show, AfterInv, Answers, At, Ends
  <2> QED
    BY <2>1, <2>2
<1>14. TellInv'
  BY <1>7, <1>8, <1>9, <1>10 DEF TellInv
<1>15. LiftInv'
  BY <1>9 DEF LiftInv
<1>16. OneTells'
  <2> SUFFICES ASSUME session' = 1, NEW u \in Threads, Tells(u)'
               PROVE  ~note'[u].reconnect /\ note'[u].newState # "Disconnected"
    BY <1>0 DEF OneTells
  <2>1. CASE u = t
    BY <1>8, <2>1
  <2>2. CASE u # t
    <3>1. session = 0 /\ Tells(u)
      BY <1>0, <1>7, <2>2 DEF Tells
    <3>2. Has(stack[u], "unlock")
      BY <3>1 DEF Show, OneTells
    <3>3. "unlock" \in LockedLabels
      BY DEF LockedLabels, LastLabels
    <3> QED
      BY <1>0, <3>2, <3>3, FreeLock
  <2> QED
    BY <2>1, <2>2
<1>17. ShowInv'
  BY <1>11 DEF ShowInv
<1> QED
  BY <1>12, <1>13, <1>14, <1>15, <1>16, <1>17 DEF Show

\* A new service has nobody who tells anything, and keeps a block for the kill switch only.
LEMMA ShowRestart ==
  ASSUME TypeOK, Restart
  PROVE  Show'
<1>1. /\ \A t \in Threads : stack'[t] = <<>> /\ ~note'[t].reconnect
      /\ \A s \in 0..MaxSessions : sess'[s].state = "Disconnected"
      /\ networkBlocked' => killSwitch'
      /\ openVpnConnectionState' = "Unknown"
  BY DEF Restart, NoNote, Status, NewSession, CleanupEnvironment
<1>2. \A t \in Threads : Len(stack'[t]) = 0
  BY <1>1
<1>3. TopInv'
  BY <1>2 DEF TopInv, Topped
<1>4. AfterInv' /\ TellInv' /\ OneTells'
  BY <1>1 DEF AfterInv, TellInv, TellsLife, Tells, OneTells, At, Ends
<1>5. LiftInv' /\ ShowInv'
  BY <1>1 DEF LiftInv, Unwanted, ShowInv
<1> QED
  BY <1>3, <1>4, <1>5 DEF Show

\* So does one that starts.
LEMMA ShowInit == Init => Show
<1> SUFFICES ASSUME Init PROVE Show
  OBVIOUS
<1>1. /\ \A t \in Threads : stack[t] = <<>> /\ ~note[t].reconnect
      /\ ~networkBlocked
      /\ openVpnConnectionState = "Unknown"
  BY DEF Init, NoNote, Status, KillSwitchInit
<1>2. \A t \in Threads : Len(stack[t]) = 0
  BY <1>1
<1>3. TopInv
  BY <1>2 DEF TopInv, Topped
<1>4. AfterInv /\ TellInv /\ OneTells
  BY <1>1 DEF AfterInv, TellInv, TellsLife, Tells, OneTells, At, Ends
<1>5. LiftInv /\ ShowInv
  BY <1>1 DEF LiftInv, Unwanted, ShowInv
<1> QED
  BY <1>3, <1>4, <1>5 DEF Show

\* A step that leaves the threads, the sessions and the traffic alone keeps it.
LEMMA ShowIdle ==
  ASSUME Show, UNCHANGED <<session, sess, stack, note, reconnects, ksVars>>
  PROVE  Show'
<1>1. \A u \in Threads : stack'[u] = stack[u] /\ note'[u] = note[u]
  OBVIOUS
<1>2. /\ openVpnConnectionState' = openVpnConnectionState
      /\ Unwanted' => Unwanted
  BY DEF ksVars, Unwanted
<1> QED
  BY <1>1, <1>2, MuteKeeps

\* Every step keeps the invariant, if nobody asks for a disconnect.
LEMMA ShowStep ==
  NoRequests /\ Exclusive /\ Settling /\ Course /\ Show /\ [Next]_vars => Show'
<1> SUFFICES ASSUME NoRequests, Exclusive, Settling, Course, Show, [Next]_vars PROVE Show'
  OBVIOUS
<1>t. TypeOK
  BY DEF Exclusive
<1>1. CASE Service
  <2>1. ASSUME NEW t \in Threads, Run(t) PROVE Show'
    <3>1. CASE \/ ConnectWhenBusy(t) \/ Clean(t) \/ Prepare(t) \/ Launch(t) \/ Attach(t) \/ Bind(t)
               \/ BindRest(t) \/ Unlock(t) \/ StopOpenVpn(t) \/ WaitExit(t) \/ Stopped(t)
      BY <1>t, <3>1, ShowMute
    <3>2. CASE Failed(t) \/ ConnectWithoutNetwork(t)
      BY <1>t, <3>2, ShowMute, ShowErrors
    <3>3. CASE StartSession(t) \/ StartReader(t) \/ OnOpenVpnExit(t) \/ SessionDisconnect(t)
      BY <3>3, ShowStart, ShowReaderStarts, ShowEnds
    <3>4. CASE \/ Changed(t) \/ Invoke(t) \/ Enable(t) \/ Unblock(t) \/ Forget(t) \/ After(t)
               \/ SwitchOffUnblocks(t) \/ StoreSetting(t)
      BY <1>t, <3>4, ShowChanged, ShowTold, ShowAfter, ShowSwitch
    <3>5. ~(Disconnect(t) \/ DisconnectWhenIdle(t) \/ StopRequested(t))
      BY <1>t, NobodyStops
    <3> QED
      BY <2>1, <3>1, <3>2, <3>3, <3>4, <3>5 DEF Run, Locked
  <2>2. ASSUME NEW s \in Sessions, ReadLine(s) PROVE Show'
    <3>1. ~(HandleErrorReply(s) \/ ErrorReply(s))
      BY <1>t, NobodyStops
    <3> QED
      BY <1>t, <2>2, <3>1, ShowLine, ShowReader DEF ReadLine
  <2>3. ASSUME NEW s \in Sessions, Write(s) \/ Exit(s) PROVE Show'
    <3>1. UNCHANGED <<session, sess, stack, note, reconnects, ksVars>>
      BY <2>3, Zenon DEF Write, Exit, sessionVars, threadVars, engineVars
    <3> QED
      BY <3>1, ShowIdle
  <2>4. ASSUME \/ \E w \in Workers : Client(w) \/ RunReconnect(w)
               \/ \E s \in Sessions : RaiseExited(s)
        PROVE  Show'
    BY <1>t, <2>4, ShowCalls
  <2> QED
    BY <1>1, <2>1, <2>2, <2>3, <2>4 DEF Service
<1>2. CASE Restart
  BY <1>t, <1>2, ShowRestart
<1>3. CASE UNCHANGED vars
  <2>1. UNCHANGED <<session, sess, stack, note, reconnects, ksVars>>
    BY <1>3, Zenon DEF vars, sessionVars, threadVars, engineVars
  <2> QED
    BY <2>1, ShowIdle
<1> QED
  BY <1>1, <1>2, <1>3 DEF Next

\* Once nothing is left to run, nobody tells anything and no reconnect is on its way.
LEMMA QuietTellsNothing ==
  ASSUME Show, Quiet
  PROVE  ~Lifting /\ \A t \in Threads : ~Tells(t)
<1>1. ASSUME NEW t \in Threads PROVE stack[t] = <<>> \/ Head(stack[t]).at = "read"
  BY DEF Threads, Quiet, Idle, At
<1>2. \A t \in Threads : ~Tells(t) /\ ~At(t, "connect") /\ ~note[t].reconnect
  BY <1>1 DEF Tells, Telling, At, Show, AfterInv, Answers
<1>3. \A t \in Threads : ~Lifts(t)
  BY <1>2 DEF Lifts, Tells, Telling, At
<1>4. ~(reconnects > 0)
  BY DEF Quiet
<1> QED
  BY <1>2, <1>3, <1>4 DEF Lifting

\* While nobody asks for a disconnect, the invariants hold together.
LEMMA Shown ==
  ASSUME NoRequests
  PROVE  Spec => [](Show)
<1>1. Init => Exclusive /\ Settling /\ Course /\ Show
  BY ExclusiveInit, SettlingInit, CourseInit, ShowInit
<1>2. Exclusive /\ Settling /\ Course /\ Show /\ [Next]_vars
        => (Exclusive /\ Settling /\ Course /\ Show)'
  BY ExclusiveStep, SettlingStep, CourseStep, ShowStep
<1> QED
  BY <1>1, <1>2, PTL DEF Spec

\* In any number of sessions, reconnects and restarts: with the kill switch off, a connection
\* that dropped, or that OpenVPN could not make, leaves no block behind once everything has
\* settled (VpnService.OpenVpnOnStateChangedNotification), but for one that came back between
\* the two steps of AppSettings.Set.  When a client, OnStop or an ERROR reply disconnects, two
\* threads tell statuses at once, and a Connected that sleeps before it blocks may end after the
\* Disconnected.
THEOREM DropsLeaveNoBlock ==
  ASSUME NoRequests
  PROVE  Spec => []DroppedLeavesNoBlock
<1>1. Show => DroppedLeavesNoBlock
  BY QuietTellsNothing DEF DroppedLeavesNoBlock, Show, LiftInv, Unwanted
<1> QED
  BY <1>1, Shown, PTL

\* What the service shows of its first session is that session's state once everything has
\* settled (VpnService.openVpnConnectionState), when nobody disconnects.
THEOREM ClientsAreTold ==
  ASSUME NoRequests
  PROVE  Spec => []ClientsSeeTheState
<1>1. Show => ClientsSeeTheState
  <2> SUFFICES ASSUME Show, Quiet, session = 1
               PROVE  openVpnConnectionState \in {sess[session].state, "Unknown"}
    BY DEF ClientsSeeTheState
  <2>1. ~Lifting /\ \A t \in Threads : ~Tells(t)
    BY QuietTellsNothing
  <2>2. \A t \in Threads : ~TellsLife(t) /\ ~Ends(t)
    BY <2>1 DEF TellsLife, Tells, Telling, At, Ends
  <2> QED
    BY <2>1, <2>2 DEF Show, ShowInv
<1> QED
  BY <1>1, Shown, PTL
=============================================================================
