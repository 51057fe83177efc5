------------------------- MODULE ManagementEndpoint -------------------------
(***************************************************************************)
(* The connection to the management interface of an OpenVPN process: the   *)
(* reader thread of ManagementEndpoint.Response, the queue of commands,    *)
(* and the handlers of Session that give commands while the reader is in   *)
(* them.  A command is its number in the order of the calls of Request.    *)
(***************************************************************************)
EXTENDS Naturals, Sequences

CONSTANTS
  MaxNotifications   \* bound: notifications OpenVPN writes

ASSUME NotificationsAssumption == MaxNotifications \in Nat

VARIABLES
  requestQueue,   \* commands not answered yet, with their Active flag
  reader,         \* what the reader thread is doing
  commands,       \* commands the handler the reader is in has still to give
  requested,      \* number of calls of Request
  wire,           \* commands sent and not executed
  executed,       \* commands OpenVPN executed
  stream,         \* messages written by OpenVPN and not read
  written,        \* number of notifications written
  running         \* the OpenVPN process runs

endpointVars == <<requestQueue, reader, commands, requested>>
openVpnVars == <<executed, stream, written, running>>
vars == <<endpointVars, wire, openVpnVars>>

\* The commands a notification makes Session give: HandleReadyNotification sends
\* state, bytecount, log and verb; a hold is released; credentials are two commands;
\* LOG stands for every notification that makes it give none.
CommandsOf == [READY |-> 4, HOLD |-> 1, AUTH |-> 2, LOG |-> 0]

Replies == {"SUCCESS", "ERROR"}

Messages == [type : Replies \cup DOMAIN CommandsOf, number : Nat]

\* reader: "closed" after StreamClosed, "dead" when an exception ended it before.
TypeOK ==
  /\ requestQueue \in Seq([body : Nat, active : BOOLEAN])
  /\ reader \in {"reading", "handling", "error", "closed", "dead"}
  /\ commands \in 0..4
  /\ requested \in Nat
  /\ wire \in Seq(Nat)
  /\ executed \in Nat
  /\ stream \in Seq(Messages)
  /\ written \in Nat
  /\ running \in BOOLEAN

Init ==
  /\ requestQueue = <<>>
  /\ reader = "reading"
  /\ commands = 0
  /\ requested = 0
  /\ wire = <<>>
  /\ executed = 0
  /\ stream = <<>>
  /\ written = 0
  /\ running = TRUE

-----------------------------------------------------------------------------
(* The endpoint *)

\* Mutant: the Active flag is not looked at.
SendsAnyway(queue, sent) ==
  IF queue # <<>>
    THEN /\ requestQueue' = [queue EXCEPT ![1] = [body |-> Head(queue).body, active |-> TRUE]]
         /\ wire' = IF sent THEN Append(wire, Head(queue).body) ELSE wire
         /\ sent \/ ~running
    ELSE requestQueue' = queue /\ wire' = wire /\ sent

\* ProcessNextRequest for the given queue.  Active is set before the write; a write to
\* a process that is gone may throw, and sent says that it did not.
ProcessNextRequest(queue, sent) ==
  IF queue # <<>> /\ ~Head(queue).active
    THEN /\ requestQueue' = [queue EXCEPT ![1] = [body |-> Head(queue).body, active |-> TRUE]]
         /\ wire' = IF sent THEN Append(wire, Head(queue).body) ELSE wire
         /\ sent \/ ~running
    ELSE /\ requestQueue' = queue /\ wire' = wire /\ sent

\* Mutants: one command too many; a command that is queued and not sent.
RequestsOneMore ==
  /\ reader = "handling"
  /\ requested' = requested + 1
  /\ \E sent \in BOOLEAN :
       ProcessNextRequest(Append(requestQueue, [body |-> requested + 1, active |-> FALSE]), sent)
  /\ commands' = commands - 1
  /\ UNCHANGED <<reader, openVpnVars>>

RequestOnlyQueues ==
  /\ reader = "handling" /\ commands > 0
  /\ requested' = requested + 1
  /\ requestQueue' = Append(requestQueue, [body |-> requested + 1, active |-> FALSE])
  /\ commands' = commands - 1
  /\ UNCHANGED <<reader, wire, openVpnVars>>

\* Request, called by the handler the reader is in; it swallows a failed write.
Request ==
  /\ reader = "handling" /\ commands > 0
  /\ requested' = requested + 1
  /\ \E sent \in BOOLEAN :
       ProcessNextRequest(Append(requestQueue, [body |-> requested + 1, active |-> FALSE]), sent)
  /\ commands' = commands - 1
  /\ UNCHANGED <<reader, openVpnVars>>

HandlerReturns ==
  /\ reader = "handling" /\ commands = 0
  /\ reader' = "reading"
  /\ UNCHANGED <<requestQueue, commands, requested, wire, openVpnVars>>

ReadMessage(types) ==
  /\ reader = "reading" /\ stream # <<>> /\ Head(stream).type \in types
  /\ stream' = Tail(stream)

\* Mutant: an exception of a handler is not caught.
ReadNotificationUncaught ==
  /\ ReadMessage(DOMAIN CommandsOf)
  /\ reader' \in {"handling", "dead"}
  /\ commands' = CommandsOf[Head(stream).type]
  /\ UNCHANGED <<requestQueue, requested, wire, executed, written, running>>

\* ProcessMessage, a realtime message: its handler runs on this thread.
ReadNotification ==
  /\ ReadMessage(DOMAIN CommandsOf)
  /\ reader' = "handling"
  /\ commands' = CommandsOf[Head(stream).type]
  /\ UNCHANGED <<requestQueue, requested, wire, executed, written, running>>

\* The end of ProcessMessage for a reply: the answered command leaves the queue and
\* the next one is sent; a failed write, or an empty queue, ends the reader.
Dequeue ==
  /\ \E sent \in BOOLEAN :
       /\ IF requestQueue = <<>>
            THEN ~sent /\ UNCHANGED <<requestQueue, wire>>
            ELSE ProcessNextRequest(Tail(requestQueue), sent)
       /\ reader' = IF sent THEN "reading" ELSE "dead"
  /\ UNCHANGED <<commands, requested, executed, written>>

ReadSuccess == ReadMessage({"SUCCESS"}) /\ Dequeue /\ UNCHANGED running

\* ERROR: first runs ErrorReceived, whose handler disconnects: OpenVPN is told to quit and
\* waited for, unless the session is already Disconnected.
ReadError ==
  /\ ReadMessage({"ERROR"})
  /\ reader' = "error"
  /\ running' \in {running, FALSE}
  /\ UNCHANGED <<requestQueue, commands, requested, wire, executed, written>>

AfterError == reader = "error" /\ Dequeue /\ UNCHANGED <<stream, running>>

\* ReadLine returns null at the end of the stream, and after a reset, which loses what was
\* not read yet; StreamClosed follows.
StreamEnds ==
  /\ reader = "reading" /\ ~running
  /\ reader' = "closed"
  /\ stream' = <<>>
  /\ UNCHANGED <<requestQueue, commands, requested, wire, executed, written, running>>

-----------------------------------------------------------------------------
(* OpenVPN *)

Execute ==
  /\ running /\ wire # <<>>
  /\ \E type \in Replies : stream' = Append(stream, [type |-> type, number |-> Head(wire)])
  /\ wire' = Tail(wire)
  /\ executed' = executed + 1
  /\ UNCHANGED <<endpointVars, written, running>>

Notify ==
  /\ running /\ written < MaxNotifications
  /\ \E type \in DOMAIN CommandsOf : stream' = Append(stream, [type |-> type, number |-> 0])
  /\ written' = written + 1
  /\ UNCHANGED <<endpointVars, wire, executed, running>>

Exit ==
  /\ running
  /\ running' = FALSE
  /\ UNCHANGED <<endpointVars, wire, executed, stream, written>>

-----------------------------------------------------------------------------
(* The system *)

Read == ReadNotification \/ ReadSuccess \/ ReadError \/ AfterError \/ StreamEnds

Next == Request \/ HandlerReturns \/ Read \/ Execute \/ Notify \/ Exit

Spec == Init /\ [][Next]_vars

\* The reader is scheduled, and OpenVPN answers while it runs.
FairSpec == Spec /\ WF_vars(Request \/ HandlerReturns \/ Read) /\ WF_vars(Execute)

-----------------------------------------------------------------------------
(* Properties *)

answered == requested - Len(requestQueue)

\* A reply is taken for the command it answers: the queue is never empty when a reply
\* arrives (Dequeue would throw and end the reader), and its head is that command.
RepliesMatch ==
  reader = "reading" /\ stream # <<>> /\ Head(stream).type \in Replies
    => requestQueue # <<>> /\ Head(requestQueue).body = Head(stream).number

\* No command waits behind an idle connection: whatever is queued, its head has been
\* sent (or its write has failed), since nothing but a reply sends the next one.
HeadIsActive ==
  /\ requestQueue # <<>> => Head(requestQueue).active
  /\ \A i \in 2..Len(requestQueue) : ~requestQueue[i].active

\* The reader ends without StreamClosed only because OpenVPN is gone; it then leaves the
\* rest of the queue behind (and OnOpenVpnExit waits for SourceClosed in vain).
ReaderDiesWithOpenVpn == reader = "dead" => ~running /\ requestQueue # <<>>

\* Every command given is answered, or OpenVPN exits.
CommandsAreAnswered ==
  \A n \in 1..(4 * MaxNotifications) : requested >= n ~> (answered >= n \/ ~running)

\* Commands are executed in order, one at a time.
Channel == INSTANCE CommandChannel

ImplementsChannel == Channel!ChannelSpec
=============================================================================
