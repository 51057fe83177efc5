------------------------------ MODULE OpenVpn ------------------------------
(***************************************************************************)
(* The Windows connection engine: OpenVpn and its Session, the OpenVPN     *)
(* process they drive, and the status handler of VpnService.               *)
(*                                                                         *)
(* Threads.  Workers are pool threads: they run the calls of the service   *)
(* (Connect, Disconnect) and the reconnects OpenVpn queues.  Each session  *)
(* has a reader, the thread of ManagementEndpoint.Response, and an exit    *)
(* thread, the pool callback that raises Process.Exited.  Only Connect and *)
(* Disconnect take sessionWriteLock; readers and exit threads change the   *)
(* session without it.                                                     *)
(*                                                                         *)
(* A thread's control state is a stack of frames, innermost first: a       *)
(* method that calls another pushes the callee in front of its own rest.   *)
(* One step runs to the next lock, wait, sleep, event or process call.     *)
(*                                                                         *)
(* Session k owns process k and stream k.  Session 0 is the one OpenVpn is *)
(* constructed with; it has no process.                                    *)
(***************************************************************************)
EXTENDS KillSwitch, Sequences, FiniteSets

CONSTANTS
  Workers,         \* pool threads
  MaxSessions,     \* bound: sessions started
  MaxCalls,        \* bound: calls of the service
  MaxLines,        \* bound: notifications one OpenVPN process writes
  MaxRestarts,     \* bound: restarts of the service
  Notifications,   \* the notifications OpenVPN writes in this instance
  Calls,           \* the calls clients of the service make in this instance
  OfferedProtocols, \* protocols DecideConnectionProtocol can choose in this instance
  SigtermErrors,   \* what ParseSigterm can make of a soft SIGTERM in this instance
  NoThread

ASSUME BoundsAssumption ==
  MaxSessions \in Nat \ {0} /\ MaxCalls \in Nat /\ MaxLines \in Nat /\ MaxRestarts \in Nat

Sessions == 1..MaxSessions
Reader(s) == <<"reader", s>>
ExitThread(s) == <<"exit", s>>
Threads == Workers \cup {Reader(s) : s \in Sessions} \cup {ExitThread(s) : s \in Sessions}

ASSUME ThreadsAssumption ==
  /\ IsFiniteSet(Workers)
  /\ \A s \in Sessions : Reader(s) \notin Workers /\ ExitThread(s) \notin Workers
  /\ NoThread \notin Threads

\* Management notifications that change the session, by what the handlers tell apart.
NotificationKinds ==
  {"CONNECTED", "CONNECTED_ERROR", "RECONNECTING", "EXITING", "AUTH_FAILED", "FATAL",
   "LOG_ERROR", "LOG_SIGTERM", "ERROR_REPLY"}

CallKinds == {"Connect", "Autoconnect", "Disconnect", "ToggleKillSwitch", "UnblockTraffic", "Stop"}

ASSUME InputsAssumption ==
  /\ Notifications \subseteq NotificationKinds
  /\ Calls \subseteq CallKinds
  /\ OfferedProtocols \subseteq Protocols
  /\ SigtermErrors \subseteq RetryErrors

VARIABLES
  session,             \* index of the current Session
  sess,                \* Session objects
  openVpnExe,          \* session whose process openVpnExe refers to, 0 when null
  lock,                \* owner of sessionWriteLock
  reconnectAttempts,
  latestSelectedRegion, \* number of a region, 0 when null
  regions,             \* protocol of each RemoteConnectionSettings object: one per call of Connect
  isTriggeredByAutoconnect,
  connectionState,     \* OpenVpn.ConnectionState
  reconnects,          \* reconnects in the queue of the thread pool
  stack,               \* frames of each thread
  note,                \* the status a thread is propagating
  arg,                 \* the arguments of a thread's Connect, and the error it failed with
  process,             \* the OpenVPN processes
  quitEvent,           \* AviraVPNOpenVpnQuitEvent
  crashed,             \* an exception left a pool thread and ended the service
  calls,               \* number of calls made so far
  stopping,            \* Windows has told the service to stop
  lastCall,            \* history: the last call of a client, settings aside
  restarts             \* number of restarts so far

sessionVars == <<session, sess>>
engineVars == <<openVpnExe, reconnectAttempts, latestSelectedRegion, regions,
                isTriggeredByAutoconnect, connectionState, reconnects>>
threadVars == <<lock, stack, note, arg>>
systemVars == <<process, quitEvent, crashed>>
clientVars == <<calls, stopping, lastCall, restarts>>
vars == <<sessionVars, engineVars, threadVars, systemVars, clientVars, ksVars>>

-----------------------------------------------------------------------------
(* Types *)

Labels ==
  {"connect", "clean", "prepare", "launch", "attach", "bind", "bindRest", "startReader",
   "failed", "stop", "waitExit", "stopped", "exited", "unlock",
   "disconnect", "stopRequested", "sessionDisconnect",
   "changed", "invoke", "enable", "unblock", "forget", "after",
   "switchOff", "storeOff", "quit",
   "read", "connectedError", "authFailed", "errorReply"}

Frames == [at : Labels, s : 0..MaxSessions]

SessionRecords ==
  [state : ConnectionStates, lastError : ErrorTypes, stopWasRequested : BOOLEAN,
   bound : {"no", "attached", "exited", "yes"}]

\* raised: Process.Exited was raised, and whether Bind had subscribed to it by then.
\* stream: written and not yet read.
\* written: everything written so far.
\* closed: NotificationSource.SourceClosed; "never" when the reader died without setting it.
Processes ==
  [status : {"none", "running", "exited"}, raised : {"no", "unheard", "heard"}, closed : {"no", "yes", "never"},
   stream : Seq(NotificationKinds), written : SUBSET NotificationKinds]

Notes == [newState : ConnectionStates, error : ErrorTypes, reconnect : BOOLEAN]

Args == [region : Nat, autoconnect : BOOLEAN, error : ErrorTypes]

TypeOK ==
  /\ session \in 0..MaxSessions
  /\ sess \in [0..MaxSessions -> SessionRecords]
  /\ openVpnExe \in 0..MaxSessions
  /\ lock \in Threads \cup {NoThread}
  /\ reconnectAttempts \in Nat
  /\ regions \in Seq(Protocols)
  /\ latestSelectedRegion \in 0..Len(regions)
  /\ isTriggeredByAutoconnect \in BOOLEAN
  /\ connectionState \in ConnectionStates
  /\ reconnects \in Nat
  /\ stack \in [Threads -> Seq(Frames)]
  /\ note \in [Threads -> Notes]
  /\ arg \in [Threads -> Args]
  /\ \A t \in Threads : arg[t].region <= Len(regions)
  /\ process \in [Sessions -> Processes]
  /\ quitEvent \in BOOLEAN
  /\ crashed \in BOOLEAN
  /\ calls \in Nat /\ restarts \in Nat
  /\ lastCall \in {"none", "Connect", "Disconnect", "UnblockTraffic"}
  /\ stopping \in BOOLEAN
  /\ KillSwitchTypeOK
  /\ late \subseteq Threads

NoNote == Status("Disconnected", "NoError", FALSE)
NoArg == [region |-> 0, autoconnect |-> FALSE, error |-> "NoError"]
NewSession == [state |-> "Disconnected", lastError |-> "NoError",
               stopWasRequested |-> FALSE, bound |-> "no"]
NewProcess == [status |-> "none", raised |-> "no", closed |-> "no",
               stream |-> <<>>, written |-> {}]

Init ==
  /\ session = 0
  /\ sess = [s \in 0..MaxSessions |-> NewSession]
  /\ openVpnExe = 0
  /\ lock = NoThread
  /\ reconnectAttempts = 0
  /\ latestSelectedRegion = 0
  /\ regions = <<>>
  /\ isTriggeredByAutoconnect = FALSE
  /\ connectionState = "Disconnected"
  /\ reconnects = 0
  /\ stack = [t \in Threads |-> <<>>]
  /\ note = [t \in Threads |-> NoNote]
  /\ arg = [t \in Threads |-> NoArg]
  /\ process = [s \in Sessions |-> NewProcess]
  /\ quitEvent = FALSE
  /\ crashed = FALSE
  /\ calls = 0 /\ restarts = 0
  /\ lastCall = "none"
  /\ stopping = FALSE
  /\ KillSwitchInit

-----------------------------------------------------------------------------
(* Frames *)

Frame(at, s) == [at |-> at, s |-> s]

At(t, label) == stack[t] # <<>> /\ Head(stack[t]).at = label

Inside(t, label) == \E i \in 1..Len(stack[t]) : stack[t][i].at = label

\* The session the innermost frame of t works on.
Subject(t) == Head(stack[t]).s

\* The innermost frame of t is done; t goes on with frames.
Continue(t, frames) == stack' = [stack EXCEPT ![t] = frames \o Tail(@)]

\* Session s becomes rec; when that changes its state, StateChanged is raised
\* with the new state and the error recorded so far.
SetSession(t, s, rec, frames) ==
  /\ sess' = [sess EXCEPT ![s] = rec]
  /\ IF rec.state = sess[s].state
       THEN Continue(t, frames) /\ UNCHANGED note
       ELSE /\ Continue(t, <<Frame("changed", s)>> \o frames)
            /\ note' = [note EXCEPT ![t] = Status(rec.state, rec.lastError, FALSE)]

SetState(t, s, newState, frames) ==
  SetSession(t, s, [sess[s] EXCEPT !.state = newState], frames)

\* NotifyError: every subscriber is told of a disconnect no session went through.
NotifyError(t, error, frames) ==
  /\ connectionState' = "Disconnected"
  /\ note' = [note EXCEPT ![t] = Status("Disconnected", error, FALSE)]
  /\ Continue(t, <<Frame("invoke", 0)>> \o frames)

-----------------------------------------------------------------------------
(* Calls of the service and queued reconnects, each on an idle worker *)

Idle(w) == stack[w] = <<>>

Call(w, kind, frames) ==
  /\ Idle(w) /\ kind \in Calls /\ calls < MaxCalls
  /\ calls' = calls + 1 /\ UNCHANGED <<stopping, restarts>>
  /\ stack' = [stack EXCEPT ![w] = frames]

\* VpnService.Connect and ConnectThread: the region is an object of this call, protocol
\* what DecideConnectionProtocol chose for it.
CallConnect(w) == \E protocol \in OfferedProtocols, auto \in BOOLEAN :
  /\ Call(w, IF auto THEN "Autoconnect" ELSE "Connect", <<Frame("connect", 0)>>)
  /\ arg' = [arg EXCEPT ![w] = [region |-> Len(regions) + 1, autoconnect |-> auto, error |-> "NoError"]]
  /\ regions' = Append(regions, protocol)
  /\ lastCall' = "Connect"
  /\ UNCHANGED <<sessionVars, openVpnExe, reconnectAttempts, latestSelectedRegion,
                 isTriggeredByAutoconnect, connectionState, reconnects, systemVars, ksVars,
                 lock, note>>

\* VpnService.DisconnectOpenVpn.
CallDisconnect(w) ==
  /\ Call(w, "Disconnect", <<Frame("disconnect", 0)>>)
  /\ RequestDisconnect
  /\ lastCall' = "Disconnect"
  /\ UNCHANGED <<sessionVars, engineVars, systemVars, lock, note, arg>>

\* AppSettings.Set.
CallToggleKillSwitch(w) ==
  /\ IF killSwitch
       THEN Call(w, "ToggleKillSwitch", <<Frame("switchOff", 0)>>) /\ UNCHANGED ksVars
       ELSE Call(w, "ToggleKillSwitch", <<>>) /\ StoreOn({t \in Threads : Inside(t, "unblock")})
  /\ UNCHANGED <<sessionVars, engineVars, systemVars, lock, note, arg, lastCall>>

\* OnStop, once the service has started: it disconnects, and then the process ends, for which
\* the thread waits in "quit".
CallStop(w) ==
  /\ Idle(w) /\ "Stop" \in Calls /\ ~stopping /\ restarts < MaxRestarts
  /\ stopping' = TRUE
  /\ RequestDisconnect
  /\ stack' = [stack EXCEPT ![w] = <<Frame("disconnect", 0), Frame("quit", 0)>>]
  /\ UNCHANGED <<sessionVars, engineVars, systemVars, lock, note, arg, calls, lastCall, restarts>>

CallUnblockTraffic(w) ==
  /\ Call(w, "UnblockTraffic", <<>>)
  /\ DisableBlocker
  /\ lastCall' = "UnblockTraffic"
  /\ UNCHANGED <<sessionVars, engineVars, systemVars, lock, note, arg>>

\* Mutant: a reconnect nobody queued.
RunReconnectUnqueued(w) ==
  /\ Idle(w)
  /\ reconnects' = reconnects - 1
  /\ arg' = [arg EXCEPT ![w] = [NoArg EXCEPT !.region = latestSelectedRegion]]
  /\ stack' = [stack EXCEPT ![w] = <<Frame("connect", 0)>>]
  /\ UNCHANGED <<sessionVars, openVpnExe, reconnectAttempts, latestSelectedRegion, regions,
                 isTriggeredByAutoconnect, connectionState, lock, note, systemVars,
                 clientVars, ksVars>>

\* A queued reconnect: Connect(latestSelectedRegion), not triggered by autoconnect.
RunReconnect(w) ==
  /\ Idle(w) /\ reconnects > 0
  /\ reconnects' = reconnects - 1
  /\ arg' = [arg EXCEPT ![w] = [NoArg EXCEPT !.region = latestSelectedRegion]]
  /\ stack' = [stack EXCEPT ![w] = <<Frame("connect", 0)>>]
  /\ UNCHANGED <<sessionVars, openVpnExe, reconnectAttempts, latestSelectedRegion, regions,
                 isTriggeredByAutoconnect, connectionState, lock, note, systemVars,
                 clientVars, ksVars>>

-----------------------------------------------------------------------------
(* OpenVpn.Connect *)

\* What Connect still has to do when it throws: failed is its catch block.
Fail(t, error) ==
  /\ Continue(t, <<Frame("stop", 0), Frame("sessionDisconnect", 0), Frame("failed", 0),
                 Frame("unlock", 0)>>)
  /\ arg' = [arg EXCEPT ![t].error = error]

ConnectWhenBusy(t) ==
  /\ At(t, "connect") /\ lock = NoThread
  /\ sess[session].state # "Disconnected"
  /\ Continue(t, <<>>)
  /\ arg' = [arg EXCEPT ![t] = NoArg]
  /\ UNCHANGED <<sessionVars, engineVars, systemVars, clientVars, ksVars, lock, note>>

ConnectWithoutNetwork(t) ==
  /\ At(t, "connect") /\ lock = NoThread
  /\ sess[session].state = "Disconnected"
  /\ lock' = t
  /\ NotifyError(t, "NetworkError", <<Frame("unlock", 0)>>)
  /\ UNCHANGED <<sessionVars, openVpnExe, reconnectAttempts, latestSelectedRegion, regions,
                 isTriggeredByAutoconnect, reconnects, systemVars, clientVars, ksVars, arg>>

\* StartSession: the new session is Connecting and says so.
StartSession(t) ==
  /\ At(t, "connect") /\ lock = NoThread
  /\ sess[session].state = "Disconnected"
  /\ session < MaxSessions
  /\ lock' = t
  /\ session' = session + 1
  /\ SetState(t, session', "Connecting", <<Frame("clean", 0)>>)
  /\ UNCHANGED <<engineVars, systemVars, clientVars, ksVars, arg>>

\* Mutant: abandoned processes are left alone.
CleanNothing(t) ==
  /\ At(t, "clean")
  /\ Continue(t, <<Frame("prepare", 0)>>)
  /\ UNCHANGED <<sessionVars, engineVars, systemVars, clientVars, ksVars, lock, note, arg>>

\* CleanOpenVpnAbandonedProcesses kills whatever OpenVPN process still runs.
Clean(t) ==
  /\ At(t, "clean")
  /\ process' = [s \in Sessions |-> [process[s] EXCEPT
                   !.status = IF @ = "running" THEN "exited" ELSE @]]
  /\ Continue(t, <<Frame("prepare", 0)>>)
  /\ UNCHANGED <<sessionVars, engineVars, clientVars, ksVars, lock, note, arg, quitEvent, crashed>>

\* PrepareTapAdapterForConnecting and FindAvailablePort.
Prepare(t) ==
  /\ At(t, "prepare")
  /\ \/ Continue(t, <<Frame("launch", 0)>>) /\ UNCHANGED arg
     \/ \E error \in {"TapAdapterError", "NoError"} : Fail(t, error)
  /\ UNCHANGED <<sessionVars, engineVars, systemVars, clientVars, ksVars, lock, note>>

\* openVpnExe is assigned first, so the catch block stops the process that failed to start.
Launch(t) ==
  /\ At(t, "launch")
  /\ openVpnExe' = session
  /\ \/ /\ process' = [process EXCEPT ![session].status = "running"]
        /\ latestSelectedRegion' = arg[t].region
        /\ isTriggeredByAutoconnect' = arg[t].autoconnect
        /\ Continue(t, <<Frame("attach", 0)>>)
        /\ UNCHANGED arg
     \/ /\ Fail(t, "NoError")
        /\ UNCHANGED <<process, latestSelectedRegion, isTriggeredByAutoconnect>>
  /\ UNCHANGED <<sessionVars, reconnectAttempts, regions, connectionState, reconnects, lock, note,
                 quitEvent, crashed, clientVars, ksVars>>

\* ConnectToManagementInterface: three attempts, all under the lock.
Attach(t) ==
  /\ At(t, "attach")
  /\ \/ /\ process[session].status = "running"
        /\ sess' = [sess EXCEPT ![session].bound = "attached"]
        /\ Continue(t, <<Frame("bind", 0)>>)
        /\ UNCHANGED arg
     \/ Fail(t, "NoError") /\ UNCHANGED sess
  /\ UNCHANGED <<session, engineVars, systemVars, clientVars, ksVars, lock, note>>

\* Session.Bind, up to its subscription to Exited.
Bind(t) ==
  /\ At(t, "bind")
  /\ IF sess[session].state # "Connecting"
       THEN Fail(t, "NoError") /\ UNCHANGED sess
       ELSE /\ sess' = [sess EXCEPT ![session].bound = "exited"]
            /\ Continue(t, <<Frame("bindRest", 0)>>)
            /\ UNCHANGED arg
  /\ UNCHANGED <<session, engineVars, systemVars, clientVars, ksVars, lock, note>>

\* The rest of Bind; source is assigned last.
BindRest(t) ==
  /\ At(t, "bindRest")
  /\ sess' = [sess EXCEPT ![session].bound = "yes"]
  /\ Continue(t, <<Frame("startReader", 0)>>)
  /\ UNCHANGED <<session, engineVars, systemVars, clientVars, ksVars, lock, note, arg>>

\* ManagementEndpoint.Start, the end of Connect.
StartReader(t) ==
  /\ At(t, "startReader")
  /\ stack' = [stack EXCEPT ![t] = <<Frame("unlock", 0)>> \o Tail(@),
                            ![Reader(session)] = <<Frame("read", session)>>]
  /\ UNCHANGED <<sessionVars, engineVars, systemVars, clientVars, ksVars, lock, note, arg>>

\* HandleSpecificExceptions, the end of the catch block: a VpnException is notified.
Failed(t) ==
  /\ At(t, "failed")
  /\ IF arg[t].error # "NoError"
       THEN NotifyError(t, arg[t].error, <<>>)
       ELSE Continue(t, <<>>) /\ UNCHANGED <<connectionState, note>>
  /\ UNCHANGED <<sessionVars, openVpnExe, reconnectAttempts, latestSelectedRegion, regions,
                 isTriggeredByAutoconnect, reconnects, lock, arg, systemVars, clientVars, ksVars>>

\* The end of Connect or Disconnect; the locals of the method die with it.
Unlock(t) ==
  /\ At(t, "unlock")
  /\ lock' = NoThread
  /\ Continue(t, <<>>)
  /\ note' = [note EXCEPT ![t] = NoNote]
  /\ arg' = [arg EXCEPT ![t] = NoArg]
  /\ UNCHANGED <<sessionVars, engineVars, systemVars, clientVars, ksVars>>

-----------------------------------------------------------------------------
(* OpenVpn.Disconnect and StopOpenVpn *)

DisconnectWhenIdle(t) ==
  /\ At(t, "disconnect") /\ lock = NoThread
  /\ sess[session].state = "Disconnected"
  /\ Continue(t, <<>>)
  /\ UNCHANGED <<sessionVars, engineVars, systemVars, clientVars, ksVars, lock, note, arg>>

\* Only a connected session passes through Disconnecting, and only then does
\* Session.Stop remember that the stop was requested.
Disconnect(t) ==
  /\ At(t, "disconnect") /\ lock = NoThread
  /\ sess[session].state # "Disconnected"
  /\ lock' = t
  /\ LET rest == <<Frame("stop", 0), Frame("sessionDisconnect", 0), Frame("unlock", 0)>>
     IN IF sess[session].state = "Connected"
          THEN SetState(t, session, "Disconnecting", <<Frame("stopRequested", 0)>> \o rest)
          ELSE Continue(t, rest) /\ UNCHANGED <<sess, note>>
  /\ UNCHANGED <<session, engineVars, systemVars, clientVars, ksVars, arg>>

StopRequested(t) ==
  /\ At(t, "stopRequested")
  /\ sess' = [sess EXCEPT ![session].stopWasRequested = TRUE]
  /\ Continue(t, <<>>)
  /\ UNCHANGED <<session, engineVars, systemVars, clientVars, ksVars, lock, note, arg>>

\* Mutant: Session.Disconnect leaves the state to the exit handler.
SessionDisconnectKeepsState(t) ==
  /\ At(t, "sessionDisconnect")
  /\ sess' = [sess EXCEPT ![session].lastError = "NoError"]
  /\ Continue(t, <<>>)
  /\ UNCHANGED <<session, engineVars, systemVars, clientVars, ksVars, lock, note, arg>>

SessionDisconnect(t) ==
  /\ At(t, "sessionDisconnect")
  /\ SetSession(t, session,
                [sess[session] EXCEPT !.state = "Disconnected", !.lastError = "NoError"], <<>>)
  /\ UNCHANGED <<session, engineVars, systemVars, clientVars, ksVars, lock, arg>>

\* Mutant: the process is waited for, but not told to quit.
StopWithoutQuit(t) ==
  /\ At(t, "stop")
  /\ Continue(t, IF openVpnExe = 0 THEN <<>> ELSE <<Frame("waitExit", openVpnExe)>>)
  /\ UNCHANGED <<sessionVars, engineVars, systemVars, clientVars, ksVars, lock, note, arg>>

\* OpenVpnExe.Stop asks the process to quit and waits for it without a timeout.
StopOpenVpn(t) ==
  /\ At(t, "stop")
  /\ IF openVpnExe = 0
       THEN Continue(t, <<>>) /\ UNCHANGED quitEvent
       ELSE Continue(t, <<Frame("waitExit", openVpnExe)>>) /\ quitEvent' = TRUE
  /\ UNCHANGED <<sessionVars, engineVars, process, crashed, clientVars, ksVars, lock, note, arg>>

\* Whether raising Exited for process s finds a session that can handle it.
Heard(s) == IF sess[s].bound = "yes" THEN "heard" ELSE "unheard"

\* Process.WaitForExit returns, on the waiting thread raising Exited when the
\* pool has not done so; on a process that never started it throws instead.
WaitExit(t) ==
  /\ At(t, "waitExit")
  /\ LET s == Subject(t)
         raises == process[s].status = "exited" /\ process[s].raised = "no"
     IN /\ process[s].status # "running"
        /\ process' = [process EXCEPT ![s].raised = IF raises THEN Heard(s) ELSE @]
        /\ Continue(t, (IF raises /\ Heard(s) = "heard" THEN <<Frame("exited", s)>> ELSE <<>>)
                         \o <<Frame("stopped", s)>>)
  /\ UNCHANGED <<sessionVars, engineVars, quitEvent, crashed, clientVars, ksVars, lock, note, arg>>

Stopped(t) ==
  /\ At(t, "stopped")
  /\ quitEvent' = FALSE
  /\ openVpnExe' = 0
  /\ Continue(t, <<>>)
  /\ UNCHANGED <<sessionVars, reconnectAttempts, latestSelectedRegion, regions,
                 isTriggeredByAutoconnect, connectionState, reconnects, process, crashed, clientVars, ksVars, lock, note, arg>>

\* Mutant: the exit handler does not wait for the reader.
OnOpenVpnExitEarly(t) ==
  /\ At(t, "exited")
  /\ IF sess[Subject(t)].stopWasRequested
       THEN Continue(t, <<>>) /\ UNCHANGED <<sess, note>>
       ELSE SetState(t, Subject(t), "Disconnected", <<>>)
  /\ UNCHANGED <<session, engineVars, systemVars, clientVars, ksVars, lock, arg>>

\* Session.OnOpenVpnExit, on the thread that raises Exited.
OnOpenVpnExit(t) ==
  /\ At(t, "exited")
  /\ LET s == Subject(t)
     IN /\ process[s].closed = "yes"
        /\ IF sess[s].stopWasRequested
             THEN Continue(t, <<>>) /\ UNCHANGED <<sess, note>>
             ELSE SetState(t, s, "Disconnected", <<>>)
  /\ UNCHANGED <<session, engineVars, systemVars, clientVars, ksVars, lock, arg>>

-----------------------------------------------------------------------------
(* OpenVpn.OnStateChangedNotification and its subscriber in VpnService *)

\* The protocol of region r, "none" for a null region.
Protocol(r) == IF r = 0 THEN "none" ELSE regions[r]

\* TryReconnecting may rewrite the status before anyone else sees it, and the region, which
\* whoever holds it then finds with the other protocol.
Changed(t) ==
  /\ At(t, "changed")
  /\ LET status == note[t]
         suppressed == isTriggeredByAutoconnect /\ ~killSwitch
         again == TryReconnecting(status, suppressed, reconnectAttempts,
                                 Protocol(latestSelectedRegion))
         sameProtocol == status.error \in RetryErrors
         newState == IF again /\ sameProtocol THEN "Connecting" ELSE status.newState
         error == IF again
                    THEN IF sameProtocol THEN "NoError" ELSE "UdpErrorReconnecting"
                    ELSE IF newState = "Disconnecting" THEN "NoError" ELSE status.error
     IN /\ note' = [note EXCEPT ![t] = Status(newState, error, again)]
        /\ connectionState' = newState
        /\ reconnectAttempts' = reconnectAttempts + (IF again /\ sameProtocol THEN 1 ELSE 0)
        /\ regions' = IF again /\ ~sameProtocol
                         THEN [regions EXCEPT ![latestSelectedRegion] = "tcp"] ELSE regions
  /\ Continue(t, <<Frame("invoke", 0), Frame("after", 0)>>)
  /\ UNCHANGED <<sessionVars, openVpnExe, latestSelectedRegion, isTriggeredByAutoconnect,
                 reconnects, systemVars, clientVars, ksVars, lock, arg>>

\* StateChangedNotification: OpenVpnOnStateChangedNotification up to its first wait.
Invoke(t) ==
  /\ At(t, "invoke")
  /\ CASE note[t].newState = "Connected" /\ BlocksOnConnected ->
            Continue(t, <<Frame("enable", 0)>>) /\ UNCHANGED ksVars
       [] note[t].newState = "Disconnected" ->
            IF UnblocksOnDisconnected
              THEN Continue(t, <<Frame("unblock", 0)>>) /\ DecideToUnblock(t)
              ELSE Continue(t, <<Frame("forget", 0)>>) /\ UNCHANGED ksVars
       [] OTHER ->
            Continue(t, <<>>) /\ PublishStatus(note[t].newState)
  /\ UNCHANGED <<sessionVars, engineVars, systemVars, clientVars, lock, note, arg>>

Enable(t) ==
  /\ At(t, "enable") /\ EnableBlocker /\ Continue(t, <<>>)
  /\ UNCHANGED <<sessionVars, engineVars, systemVars, clientVars, lock, note, arg>>

\* NetworkBlocker.Disable in the handler: its process has run.
Unblock(t) ==
  /\ At(t, "unblock") /\ DisableBlocker /\ Continue(t, <<Frame("forget", 0)>>)
  /\ UNCHANGED <<sessionVars, engineVars, systemVars, clientVars, lock, note, arg>>

Forget(t) ==
  /\ At(t, "forget") /\ ForgetRequest /\ Continue(t, <<>>)
  /\ UNCHANGED <<sessionVars, engineVars, systemVars, clientVars, lock, note, arg>>

\* NetworkBlocker.Disable in AppSettings.Set.
SwitchOffUnblocks(t) ==
  /\ At(t, "switchOff") /\ DisableBlocker /\ Continue(t, <<Frame("storeOff", 0)>>)
  /\ UNCHANGED <<sessionVars, engineVars, systemVars, clientVars, lock, note, arg>>

\* The rest of AppSettings.Set.
StoreSetting(t) ==
  /\ At(t, "storeOff") /\ StoreOff /\ Continue(t, <<>>)
  /\ UNCHANGED <<sessionVars, engineVars, systemVars, clientVars, lock, note, arg>>

\* The rest of OnStateChangedNotification: Reconnect counts the attempt once more.
After(t) ==
  /\ At(t, "after")
  /\ LET status == note[t]
         stops == status.newState = "Disconnected" /\ status.error = "ConnectedError"
     IN /\ reconnectAttempts' = IF status.reconnect THEN reconnectAttempts + 1
                                ELSE IF status.newState = "Connected" THEN 0
                                ELSE reconnectAttempts
        /\ reconnects' = reconnects + (IF status.reconnect THEN 1 ELSE 0)
        /\ Continue(t, IF stops THEN <<Frame("stop", 0)>> ELSE <<>>)
  /\ note' = [note EXCEPT ![t] = NoNote]
  /\ UNCHANGED <<sessionVars, openVpnExe, latestSelectedRegion, regions, isTriggeredByAutoconnect,
                 connectionState, systemVars, clientVars, ksVars, lock, arg>>

-----------------------------------------------------------------------------
(* The reader thread of a session: Session's notification handlers *)

\* The reader of s takes the next line, which is of the given kind.
Read(s, kind) ==
  /\ At(Reader(s), "read")
  /\ process[s].stream # <<>> /\ Head(process[s].stream) = kind
  /\ process' = [process EXCEPT ![s].stream = Tail(@)]
  /\ UNCHANGED <<session, quitEvent, crashed, clientVars, arg>>

\* HandleStateNotification.  A RECONNECTING that finds the session in another
\* state throws, and NotificationSource swallows the exception.
HandleStateNotification(s) ==
  LET onto(kind, newState, frames) ==
        Read(s, kind) /\ SetState(Reader(s), s, newState, frames \o <<Frame("read", s)>>)
      ignored(kind) ==
        Read(s, kind) /\ Continue(Reader(s), <<Frame("read", s)>>) /\ UNCHANGED <<sess, note>>
      connected == sess[s].state = "Connected"
  IN /\ \/ onto("CONNECTED", "Connected", <<>>)
        \/ onto("CONNECTED_ERROR", "Disconnected", <<Frame("connectedError", s)>>)
        \/ connected /\ onto("RECONNECTING", "Connecting", <<>>)
        \/ ~connected /\ ignored("RECONNECTING")
        \/ connected /\ onto("EXITING", "Disconnecting", <<>>)
        \/ ~connected /\ ignored("EXITING")
     /\ UNCHANGED <<engineVars, ksVars, lock>>

\* HandleAuthNotification, type Failed.
HandleAuthNotification(s) ==
  /\ Read(s, "AUTH_FAILED")
  /\ SetState(Reader(s), s, "Disconnected", <<Frame("authFailed", s), Frame("read", s)>>)
  /\ UNCHANGED <<engineVars, ksVars, lock>>

HandleFatalNotification(s) ==
  /\ Read(s, "FATAL")
  /\ \E error \in {"Fatal", "DnsError"} :
       SetSession(Reader(s), s, [sess[s] EXCEPT !.state = "Disconnected", !.lastError = error],
                  <<Frame("read", s)>>)
  /\ UNCHANGED <<engineVars, ksVars, lock>>

\* HandleLogNotification and HandleSigterm.
HandleLogNotification(s) ==
  /\ \E kind \in {"LOG_ERROR", "LOG_SIGTERM"} :
       /\ Read(s, kind)
       /\ \E error \in IF kind = "LOG_ERROR" THEN {"GeneralError", "NetworkError"} ELSE SigtermErrors :
            sess' = [sess EXCEPT ![s].lastError = error]
  /\ Continue(Reader(s), <<Frame("read", s)>>)
  /\ UNCHANGED <<engineVars, ksVars, lock, note>>

\* An ERROR: reply to a command: the handler of ErrorReceived disconnects on this thread.
HandleErrorReply(s) ==
  /\ Read(s, "ERROR_REPLY")
  /\ Continue(Reader(s), <<Frame("disconnect", s), Frame("errorReply", s), Frame("read", s)>>)
  /\ UNCHANGED <<sess, engineVars, ksVars, lock, note>>

ErrorReply(s) ==
  /\ At(Reader(s), "errorReply")
  /\ NotifyError(Reader(s), "GeneralError", <<>>)
  /\ UNCHANGED <<sessionVars, openVpnExe, reconnectAttempts, latestSelectedRegion, regions,
                 isTriggeredByAutoconnect, reconnects, lock, arg, systemVars, clientVars, ksVars>>

\* The error of CONNECTED,ERROR and of a failed authentication is recorded
\* after the state change has been reported.
RecordError(s) ==
  /\ \E cause \in {<<"connectedError", "ConnectedError">>, <<"authFailed", "GeneralError">>} :
       /\ At(Reader(s), cause[1])
       /\ sess' = [sess EXCEPT ![s].lastError = cause[2]]
  /\ Continue(Reader(s), <<>>)
  /\ UNCHANGED <<session, engineVars, systemVars, clientVars, ksVars, lock, note, arg>>

\* Mutant: the end of the stream is not signalled.
ReaderEndsSilently(s) ==
  /\ At(Reader(s), "read")
  /\ process[s].status = "exited"
  /\ Continue(Reader(s), <<>>)
  /\ UNCHANGED <<sessionVars, engineVars, systemVars, clientVars, ksVars, lock, note, arg>>

\* The reader ends when its process has: at the end of the stream or a reset, which loses
\* what was not read yet, SourceClosed is set; a command it cannot send throws past that.
ReaderEnds(s) ==
  /\ At(Reader(s), "read")
  /\ process[s].status = "exited"
  /\ \E closed \in {"yes", "never"} : process' = [process EXCEPT ![s].closed = closed]
  /\ Continue(Reader(s), <<>>)
  /\ UNCHANGED <<sessionVars, engineVars, quitEvent, crashed, clientVars, ksVars, lock, note, arg>>

-----------------------------------------------------------------------------
(* The OpenVPN process and the pool's wait on it *)

\* OpenVPN reports one outcome of an attempt and nothing after it is on its way out.
MayWrite(s, kind) ==
  LET written == process[s].written
      outcomes == {"CONNECTED", "CONNECTED_ERROR", "AUTH_FAILED"}
  IN /\ kind \notin written
     /\ written \cap {"EXITING", "FATAL"} = {}
     /\ kind \in outcomes => written \cap outcomes = {}
     /\ kind = "RECONNECTING" => "CONNECTED" \in written

Write(s) ==
  /\ process[s].status = "running" /\ sess[s].bound # "no"
  /\ Cardinality(process[s].written) < MaxLines
  /\ \E kind \in Notifications :
       /\ MayWrite(s, kind)
       /\ process' = [process EXCEPT ![s].stream = Append(@, kind), ![s].written = @ \cup {kind}]
  /\ UNCHANGED <<sessionVars, engineVars, threadVars, quitEvent, crashed, clientVars, ksVars>>

Exit(s) ==
  /\ process[s].status = "running"
  /\ process' = [process EXCEPT ![s].status = "exited"]
  /\ UNCHANGED <<sessionVars, engineVars, threadVars, quitEvent, crashed, clientVars, ksVars>>

\* The pool raises Exited unless a thread in WaitForExit already has.  Between the
\* two halves of Bind the handler dereferences a source that is still null.
RaiseExited(s) ==
  /\ process[s].status = "exited" /\ process[s].raised = "no"
  /\ process' = [process EXCEPT ![s].raised = Heard(s)]
  /\ stack' = [stack EXCEPT ![ExitThread(s)] =
                 IF Heard(s) = "heard" THEN <<Frame("exited", s)>> ELSE <<>>]
  /\ crashed' = (sess[s].bound = "exited")
  /\ UNCHANGED <<sessionVars, engineVars, lock, note, arg, quitEvent, clientVars, ksVars>>

-----------------------------------------------------------------------------
(* A new service *)

\* The process of the service ends in whatever it does, killed or after OnStop, and Start makes
\* a new one: a new OpenVpn with session 0, here the last one used, and CleanupEnvironment.  An
\* OpenVPN process lives on, with nobody to read what it writes or to hear of its exit:
\* SoftCleanRunningInstances asks it to quit, but waits no longer than 5 seconds.
Restart ==
  /\ restarts < MaxRestarts
  /\ restarts' = restarts + 1
  /\ sess' = [s \in 0..MaxSessions |-> NewSession]
  /\ openVpnExe' = 0 /\ reconnectAttempts' = 0 /\ latestSelectedRegion' = 0 /\ regions' = <<>>
  /\ isTriggeredByAutoconnect' = FALSE /\ connectionState' = "Disconnected" /\ reconnects' = 0
  /\ lock' = NoThread
  /\ stack' = [t \in Threads |-> <<>>]
  /\ note' = [t \in Threads |-> NoNote]
  /\ arg' = [t \in Threads |-> NoArg]
  /\ process' = [s \in Sessions |-> IF process[s].status = "none" THEN process[s]
                                    ELSE [process[s] EXCEPT !.raised = "unheard", !.stream = <<>>]]
  /\ quitEvent' = FALSE /\ crashed' = FALSE
  /\ CleanupEnvironment
  /\ lastCall' = "none" /\ stopping' = FALSE
  /\ UNCHANGED <<session, calls>>

-----------------------------------------------------------------------------
(* The system *)

\* The steps of a thread that is inside a method.
Locked(t) ==
  \/ Clean(t) \/ Prepare(t) \/ Launch(t) \/ Attach(t) \/ Bind(t) \/ BindRest(t)
  \/ StartReader(t) \/ Failed(t) \/ Unlock(t) \/ StopRequested(t) \/ SessionDisconnect(t)

Run(t) ==
  \/ ConnectWhenBusy(t) \/ ConnectWithoutNetwork(t) \/ StartSession(t) \/ Locked(t)
  \/ DisconnectWhenIdle(t) \/ Disconnect(t)
  \/ StopOpenVpn(t) \/ WaitExit(t) \/ Stopped(t) \/ OnOpenVpnExit(t)
  \/ Changed(t) \/ Invoke(t) \/ Enable(t) \/ Unblock(t) \/ Forget(t) \/ After(t)
  \/ SwitchOffUnblocks(t) \/ StoreSetting(t)

ReadLine(s) ==
  \/ HandleStateNotification(s) \/ HandleAuthNotification(s) \/ HandleFatalNotification(s)
  \/ HandleLogNotification(s) \/ HandleErrorReply(s) \/ ErrorReply(s) \/ RecordError(s)
  \/ ReaderEnds(s)

Client(w) ==
  \/ CallConnect(w) \/ CallDisconnect(w) \/ CallToggleKillSwitch(w) \/ CallUnblockTraffic(w)
  \/ CallStop(w)

Service ==
  \/ \E w \in Workers : Client(w) \/ RunReconnect(w)
  \/ \E t \in Threads : Run(t)
  \/ \E s \in Sessions : ReadLine(s) \/ Write(s) \/ Exit(s) \/ RaiseExited(s)

Next == (~crashed /\ Service) \/ Restart

Spec == Init /\ [][Next]_vars

\* Threads and pool items are scheduled; a process told to quit exits.  Nothing
\* makes a client call, OpenVPN write or a process exit of its own accord.
Fairness ==
  /\ \A t \in Threads : WF_vars(~crashed /\ Run(t))
  /\ \A w \in Workers : WF_vars(~crashed /\ RunReconnect(w))
  /\ \A s \in Sessions :
       /\ WF_vars(~crashed /\ ReadLine(s))
       /\ WF_vars(~crashed /\ RaiseExited(s))
       /\ WF_vars(~crashed /\ quitEvent /\ Exit(s))

FairSpec == Spec /\ Fairness

-----------------------------------------------------------------------------
(* Properties *)

\* At most one OpenVPN process runs at any time: Connect kills what an earlier
\* session, or a service that was killed, left behind before it launches the next
\* (OpenVpn.Connect).
OneProcess ==
  \A r, s \in Sessions :
    process[r].status = "running" /\ process[s].status = "running" => r = s

\* Automatic reconnects cannot go on for ever: without a Connected in between, a
\* retry after an error (counted twice) and one fallback per call are all there is.
ReconnectsBounded == reconnectAttempts <= 2 + calls

\* Nothing is left to run: workers are idle, no exit waits to be raised or handled,
\* and readers wait for running processes.
Quiet ==
  /\ ~crashed /\ reconnects = 0
  /\ \A w \in Workers : Idle(w)
  /\ \A s \in Sessions :
       /\ stack[ExitThread(s)] = <<>>
       /\ process[s].status = "exited" => process[s].raised # "no"
       /\ stack[Reader(s)] # <<>> =>
            At(Reader(s), "read") /\ process[s].status = "running" /\ process[s].stream = <<>>

\* A session whose process has exited, and whose handler heard of it, ends up
\* Disconnected however Disconnect, the reader and the exit handler interleave:
\* when stopWasRequested silences the handler, Disconnect finishes the session.
DeadSessionSettles ==
  Quiet => \A s \in Sessions :
    process[s].raised = "heard" => sess[s].state = "Disconnected"

\* Once everything has settled, the state the service shows, if it has had one since it
\* started, is the session's
\* (VpnService.openVpnConnectionState).  Of the first session only: the exit handler of an
\* older session may publish its Disconnected after the next one published Connected.
ClientsSeeTheState ==
  Quiet /\ session = 1 => openVpnConnectionState \in {sess[session].state, "Unknown"}

\* With the kill switch off, a connection that dropped leaves no block behind: the
\* Connected handler that sleeps before blocking ends before the drop is reported, and a
\* new service lifts what an earlier one left (CleanupEnvironment).  Except for a block that
\* came back while the kill switch was being switched off, after AppSettings.Set had lifted
\* it and before it stored the setting.
DroppedLeavesNoBlock ==
  Quiet /\ ~killSwitch /\ sess[session].state = "Disconnected" => ~networkBlocked \/ reblocked

\* With the kill switch on, a dropped connection stays blocked, and so it does when the
\* service is killed and started again: a block is lifted only when the last thing the user
\* asked for was to disconnect or to unblock, when the service has been told to stop, in order
\* to switch the kill switch off, or by a handler that decided so before it was switched on.
DropStaysBlocked ==
  [][killSwitch /\ killSwitch' /\ networkBlocked /\ ~networkBlocked'
       => \/ lastCall' \in {"Disconnect", "UnblockTraffic"}
          \/ stopping
          \/ \E t \in Threads : SwitchOffUnblocks(t) \/ (t \in late /\ Unblock(t))]_vars

\* This does not hold, nor does the next: no run checks them (see the README).
\* Traffic stays blocked only because the connection dropped: after a disconnect the
\* user asked for, everything settles with the traffic unblocked.
RequestedDisconnectUnblocks ==
  Quiet /\ lastCall = "Disconnect" /\ sess[session].state = "Disconnected" => ~networkBlocked

\* OnOpenVpnExit takes its "Stop was not requested" branch only while no thread is
\* disconnecting the session.
StopWasNotRequested ==
  \A t \in Threads :
    /\ At(t, "exited")
    /\ process[Subject(t)].closed = "yes" /\ ~sess[Subject(t)].stopWasRequested
    => \A u \in Threads : ~Inside(u, "sessionDisconnect")

\* The source of s can no longer be closed: its reader died of a command it could not
\* send, or it is disconnecting and waits for what only itself can do, in OnOpenVpnExit
\* or for the lock of a thread that is in OnOpenVpnExit.
NeverCloses(s) ==
  \/ process[s].closed = "never"
  \/ At(Reader(s), "exited")
  \/ /\ At(Reader(s), "disconnect")
     /\ \E t \in Threads : lock = t /\ At(t, "exited") /\ Subject(t) = s

\* A call of Disconnect returns, whatever Connect, the reader and the exit handler do,
\* unless the reader of a session is lost (OpenVpnExe.Stop waits without a timeout).
DisconnectReturns ==
  \A w \in Workers :
    At(w, "disconnect") ~> (Idle(w) \/ crashed \/ \E s \in Sessions : NeverCloses(s))

\* An exit that was heard of ends the session, unless its reader is lost.
ExitIsNoticed ==
  \A s \in Sessions :
    process[s].raised = "heard" ~> (sess[s].state = "Disconnected" \/ crashed \/ NeverCloses(s))
=============================================================================
