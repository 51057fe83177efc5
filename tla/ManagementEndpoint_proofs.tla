---------------------- MODULE ManagementEndpoint_proofs ----------------------
(***************************************************************************)
(* The command channel of ManagementEndpoint is correct for any number of  *)
(* notifications: replies meet the command they answer, nothing is stuck   *)
(* behind an idle connection, and the endpoint implements CommandChannel.  *)
(*                                                                         *)
(* The inductive invariant follows the one command in flight: it is on the *)
(* wire, or its reply is in the stream, or the reader is in the handler of *)
(* its ERROR: reply, and everywhere it is the head of the queue.           *)
(***************************************************************************)
EXTENDS ManagementEndpoint, SequenceTheorems, TLAPS

\* The queue holds the commands that follow the answered ones, in order.
QueueInv ==
  /\ Len(requestQueue) <= requested
  /\ \A i \in 1..Len(requestQueue) : requestQueue[i].body = answered + i

CountInv == executed \in answered..(answered + 1) /\ executed <= requested

\* What is on the wire is the head of the queue, and nothing else is in flight.
WireInv ==
  /\ Len(wire) <= 1
  /\ wire # <<>> => wire[1] = answered + 1 /\ executed = answered /\ requestQueue # <<>>

IsReply(i) == stream[i].type \in Replies

\* The stream holds at most one reply, which answers the head of the queue.
StreamInv ==
  /\ \A i \in 1..Len(stream) :
       IsReply(i) => stream[i].number = answered + 1 /\ executed = answered + 1
  /\ \A i, j \in 1..Len(stream) : IsReply(i) /\ IsReply(j) => i = j

\* In the handler of an ERROR: reply that reply has been read, and no other is in the stream.
ErrorInv ==
  reader = "error" =>
    /\ executed = answered + 1
    /\ \A i \in 1..Len(stream) : ~IsReply(i)

Inv == TypeOK /\ QueueInv /\ CountInv /\ WireInv /\ StreamInv /\ ErrorInv
         /\ HeadIsActive /\ ReaderDiesWithOpenVpn

-----------------------------------------------------------------------------
\* A queue that is not empty has its commands counted as given and not answered.
LEMMA QueueCount ==
  ASSUME TypeOK, QueueInv, CountInv
  PROVE  /\ answered \in Nat
         /\ requestQueue = <<>> <=> answered = requested
         /\ executed = answered + 1 => requestQueue # <<>>
<1>1. Len(requestQueue) \in Nat BY DEF TypeOK
<1>2. requestQueue = <<>> <=> Len(requestQueue) = 0 BY DEF TypeOK
<1> QED BY <1>1, <1>2 DEF TypeOK, QueueInv, CountInv, answered

THEOREM InitInv == Init => Inv
BY SMT DEF Init, Inv, TypeOK, QueueInv, CountInv, WireInv, StreamInv, ErrorInv, HeadIsActive,
       ReaderDiesWithOpenVpn, answered, CommandsOf, Messages, IsReply

\* A sequence whose head is replaced.
LEMMA ReplaceHead ==
  ASSUME NEW R, NEW s \in Seq(R), s # <<>>, NEW e \in R,
         NEW after, after = [s EXCEPT ![1] = e]
  PROVE  /\ after \in Seq(R) /\ after # <<>> /\ Len(after) = Len(s)
         /\ Head(after) = e
         /\ after[1] = e
         /\ \A i \in 2..Len(s) : after[i] = s[i]
<1>1. Len(s) > 0 /\ Len(s) \in Nat BY EmptySeq
<1>2. /\ after \in Seq(R) /\ Len(after) = Len(s)
      /\ \A i \in 1..Len(s) : after[i] = IF i = 1 THEN e ELSE s[i]
  BY <1>1, ExceptSeq
<1>3. after # <<>> BY <1>1, <1>2, EmptySeq
<1>4. after[1] = e BY <1>1, <1>2
<1>5. Head(after) = e BY <1>1, <1>2, <1>3, <1>4
<1>6. ASSUME NEW i \in 2..Len(s) PROVE after[i] = s[i] BY <1>1, <1>2
<1> QED BY <1>2, <1>3, <1>4, <1>5, <1>6

\* ProcessNextRequest marks an inactive head and puts it on the wire.
LEMMA SendsHead ==
  ASSUME NEW queue \in Seq([body : Nat, active : BOOLEAN]), queue # <<>>, ~Head(queue).active,
         NEW sent \in BOOLEAN, ProcessNextRequest(queue, sent)
  PROVE  /\ requestQueue' \in Seq([body : Nat, active : BOOLEAN]) /\ requestQueue' # <<>>
         /\ Len(requestQueue') = Len(queue)
         /\ Head(requestQueue').active
         /\ \A i \in 1..Len(queue) : requestQueue'[i].body = queue[i].body
         /\ \A i \in 2..Len(queue) : requestQueue'[i].active = queue[i].active
         /\ wire' = IF sent THEN Append(wire, Head(queue).body) ELSE wire
         /\ sent \/ ~running
<1> DEFINE Requests == [body : Nat, active : BOOLEAN]
           first == [body |-> Head(queue).body, active |-> TRUE]
<1>1. /\ requestQueue' = [queue EXCEPT ![1] = first]
      /\ wire' = IF sent THEN Append(wire, Head(queue).body) ELSE wire
      /\ sent \/ ~running
  BY DEF ProcessNextRequest
<1>2. queue \in Seq(Requests) OBVIOUS
<1>3. Len(queue) \in Nat /\ queue[1] \in Requests /\ Head(queue) = queue[1]
  <2> HIDE DEF Requests
  <2>1. Len(queue) \in Nat /\ Len(queue) > 0 BY <1>2, EmptySeq
  <2> QED BY <1>2, <2>1, ElementOfSeq
<1>4. first \in Requests /\ first.active /\ first.body = queue[1].body BY <1>3
<1> HIDE DEF first
<1>5. /\ requestQueue' \in Seq(Requests) /\ requestQueue' # <<>>
      /\ Len(requestQueue') = Len(queue)
      /\ Head(requestQueue') = first
      /\ requestQueue'[1] = first
      /\ \A i \in 2..Len(queue) : requestQueue'[i] = queue[i]
  <2> HIDE DEF Requests
  <2> QED BY <1>1, <1>2, <1>4, ReplaceHead
<1>6. ASSUME NEW i \in 1..Len(queue) PROVE requestQueue'[i].body = queue[i].body
  BY <1>3, <1>4, <1>5
<1> QED BY <1>1, <1>4, <1>5, <1>6, Zenon

\* Dequeue, when it answers the command in flight and no other reply is left.
LEMMA DequeueInv ==
  ASSUME TypeOK, QueueInv, CountInv, WireInv, HeadIsActive,
         executed = answered + 1, stream' \in Seq(Messages),
         \A i \in 1..Len(stream') : ~(stream'[i].type \in Replies),
         running' = running, Dequeue
  PROVE  /\ Inv'
         /\ answered' = answered + 1
<1> DEFINE queue == Tail(requestQueue)
           Requests == [body : Nat, active : BOOLEAN]
<1>1. requestQueue # <<>> /\ answered \in Nat BY QueueCount
<1>2. requested \in Nat /\ executed \in Nat /\ requestQueue \in Seq(Requests) /\ wire \in Seq(Nat)
  BY DEF TypeOK
<1>3. wire = <<>> BY <1>1 DEF WireInv
<1>4. /\ queue \in Seq(Requests)
      /\ Len(queue) = Len(requestQueue) - 1 /\ Len(queue) \in Nat
      /\ \A i \in 1..Len(queue) : queue[i] = requestQueue[i + 1]
  <2> HIDE DEF Requests
  <2> QED BY <1>1, <1>2, HeadTailProperties, LenProperties
<1>5. Len(requestQueue) = Len(queue) + 1 /\ requested = answered + 1 + Len(queue)
  <2> HIDE DEF queue, Requests
  <2> QED BY <1>1, <1>2, <1>4, LenProperties DEF answered
<1>6. \A i \in 1..Len(queue) : ~queue[i].active /\ queue[i].body = answered + 1 + i
  <2> SUFFICES ASSUME NEW i \in 1..Len(queue)
               PROVE  ~queue[i].active /\ queue[i].body = answered + 1 + i
    OBVIOUS
  <2>1. i + 1 \in 2..Len(requestQueue) /\ i + 1 \in 1..Len(requestQueue)
    <3> HIDE DEF queue
    <3> QED BY <1>4, <1>5
  <2> HIDE DEF queue
  <2> QED BY <1>1, <1>4, <2>1 DEF HeadIsActive, QueueInv
<1>7. PICK sent \in BOOLEAN : ProcessNextRequest(queue, sent) /\ reader' = IF sent THEN "reading" ELSE "dead"
  BY <1>1 DEF Dequeue
<1>8. UNCHANGED <<commands, requested, executed, written, running>> BY DEF Dequeue
<1>9. CASE queue = <<>>
  <2> HIDE DEF queue
  <2>1. requestQueue' = <<>> /\ wire' = <<>> /\ reader' = "reading"
    BY <1>3, <1>7, <1>9 DEF ProcessNextRequest
  <2>2. Len(queue) = 0 /\ Len(requestQueue') = 0 BY <1>9, <2>1, EmptySeq, Zenon
  <2>3. answered' = answered + 1 /\ requested = answered + 1
    BY <1>1, <1>2, <1>5, <1>8, <2>2 DEF answered
  <2> QED BY <1>1, <1>8, <2>1, <2>2, <2>3 DEF Inv, TypeOK, QueueInv, CountInv, WireInv, StreamInv, ErrorInv,
              HeadIsActive, ReaderDiesWithOpenVpn, IsReply, answered
<1>10. CASE queue # <<>>
  <2> HIDE DEF queue
  <2>1. Len(queue) > 0 BY <1>4, <1>10, EmptySeq
  <2>2. Head(queue) = queue[1] BY <1>4, <1>10
  <2>3. ~Head(queue).active /\ Head(queue).body = answered + 2
    BY <1>1, <1>4, <1>6, <2>1, <2>2
  <2>4. /\ wire' = IF sent THEN Append(wire, Head(queue).body) ELSE wire
        /\ sent \/ ~running
    BY <1>4, <1>7, <1>10, <2>3, SendsHead
  <2>5. /\ requestQueue' \in Seq(Requests) /\ requestQueue' # <<>>
        /\ Len(requestQueue') = Len(queue)
        /\ Head(requestQueue').active
        /\ \A i \in 1..Len(queue) : requestQueue'[i].body = queue[i].body
        /\ \A i \in 2..Len(queue) : requestQueue'[i].active = queue[i].active
    BY <1>4, <1>7, <1>10, <2>3, SendsHead
  <2>6. answered' = answered + 1
    BY <1>1, <1>2, <1>5, <1>8, <2>5 DEF answered
  <2>7. /\ wire' \in Seq(Nat) /\ Len(wire') <= 1
        /\ wire' # <<>> => wire'[1] = answered + 2
    BY <1>1, <1>3, <2>3, <2>4
  <2>8. \A i \in 2..Len(queue) : ~queue[i].active
    <3> SUFFICES ASSUME NEW i \in 2..Len(queue) PROVE i \in 1..Len(queue) BY <1>6
    <3> QED BY <1>4
  <2>13. HeadIsActive' BY <2>5, <2>8 DEF HeadIsActive
  <2>9. QueueInv' BY <1>1, <1>2, <1>4, <1>5, <1>6, <1>8, <2>5, <2>6 DEF QueueInv
  <2>10. CountInv' /\ executed' = answered' BY <1>1, <1>2, <1>4, <1>5, <1>8, <2>6 DEF CountInv
  <2>11. WireInv' BY <1>1, <2>5, <2>6, <2>7, <2>10 DEF WireInv
  <2>12. TypeOK' BY <1>7, <1>8, <2>5, <2>7 DEF TypeOK
  <2> QED BY <1>7, <1>8, <2>4, <2>5, <2>6, <2>9, <2>10, <2>11, <2>12, <2>13
      DEF Inv, StreamInv, ErrorInv, ReaderDiesWithOpenVpn, IsReply
<1> QED BY <1>9, <1>10

-----------------------------------------------------------------------------
\* Request with an empty queue sends the command; otherwise it waits for its turn.
LEMMA RequestInv == Inv /\ Request => Inv' /\ answered' = answered
<1> SUFFICES ASSUME Inv, Request PROVE Inv' /\ answered' = answered
  OBVIOUS
<1> DEFINE Requests == [body : Nat, active : BOOLEAN]
           command == [body |-> requested + 1, active |-> FALSE]
           queue == Append(requestQueue, command)
<1> USE DEF Inv
<1>1. /\ requested \in Nat /\ executed \in Nat /\ requestQueue \in Seq(Requests)
      /\ wire \in Seq(Nat) /\ command \in Requests /\ answered \in Nat
      /\ Len(requestQueue) \in Nat /\ requested = answered + Len(requestQueue)
  BY QueueCount, LenProperties DEF TypeOK, answered
<1>2. /\ queue \in Seq(Requests) /\ queue # <<>>
      /\ Len(queue) = Len(requestQueue) + 1
      /\ \A i \in 1..Len(requestQueue) : queue[i] = requestQueue[i]
      /\ queue[Len(requestQueue) + 1] = command
  <2> HIDE DEF Requests, command
  <2> QED BY <1>1, AppendProperties
<1>3. PICK sent \in BOOLEAN : ProcessNextRequest(queue, sent)
  BY DEF Request
<1>4. /\ requested' = requested + 1 /\ reader = "handling" /\ reader' = reader
      /\ commands' \in 0..4 /\ UNCHANGED openVpnVars
  BY DEF Request, TypeOK
<1>5. /\ requestQueue' \in Seq(Requests) /\ requestQueue' # <<>>
      /\ Len(requestQueue') = Len(queue)
      /\ Head(requestQueue').active
      /\ \A i \in 1..Len(queue) : requestQueue'[i].body = queue[i].body
      /\ \A i \in 2..Len(queue) : requestQueue'[i].active = queue[i].active
      /\ IF requestQueue = <<>>
           THEN wire' = wire \/ wire' = Append(wire, requested + 1)
           ELSE wire' = wire
  <2>1. CASE requestQueue = <<>>
    <3> HIDE DEF queue, command
    <3>1. Len(requestQueue) = 0 BY <2>1, EmptySeq
    <3>2. Head(queue) = command BY <1>2, <3>1
    <3>3. ~Head(queue).active /\ Head(queue).body = requested + 1 BY <3>2 DEF command
    <3>4. /\ requestQueue' \in Seq(Requests) /\ requestQueue' # <<>>
          /\ Len(requestQueue') = Len(queue)
          /\ Head(requestQueue').active
          /\ \A i \in 1..Len(queue) : requestQueue'[i].body = queue[i].body
          /\ \A i \in 2..Len(queue) : requestQueue'[i].active = queue[i].active
      BY <1>2, <1>3, <3>3, SendsHead
    <3>5. wire' = IF sent THEN Append(wire, requested + 1) ELSE wire
      BY <1>2, <1>3, <3>3, SendsHead
    <3> QED BY <2>1, <3>4, <3>5
  <2>2. CASE requestQueue # <<>>
    <3> HIDE DEF queue, command
    <3>1. Len(requestQueue) > 0 BY <1>1, <2>2, EmptySeq
    <3>2. Head(requestQueue) = requestQueue[1] /\ Head(queue) = queue[1] BY <1>1, <1>2, <2>2
    <3>3. Head(queue) = Head(requestQueue) BY <1>1, <1>2, <3>1, <3>2
    <3>4. Head(queue).active BY <2>2, <3>3 DEF HeadIsActive
    <3> QED BY <1>2, <1>3, <2>2, <3>4 DEF ProcessNextRequest
  <2> QED BY <2>1, <2>2
<1> HIDE DEF queue
<1>6. answered' = answered
  BY <1>1, <1>2, <1>4, <1>5 DEF answered
<1>7. wire' \in Seq(Nat) /\ WireInv'
  <2>1. CASE requestQueue # <<>>
    BY <1>1, <1>4, <1>5, <1>6, <2>1 DEF WireInv, openVpnVars
  <2>2. CASE requestQueue = <<>>
    <3>1. wire = <<>> /\ Len(requestQueue) = 0 BY <2>2, EmptySeq DEF WireInv
    <3>2. requested = answered /\ executed = answered BY <1>1, <3>1 DEF CountInv
    <3>3. wire' \in Seq(Nat) /\ Len(wire') <= 1 /\ (wire' # <<>> => wire'[1] = answered + 1)
      <4>1. wire' = <<>> \/ wire' = Append(<<>>, requested + 1) BY <1>5, <2>2, <3>1
      <4>2. Append(<<>>, requested + 1) = <<answered + 1>> BY <3>2
      <4>3. CASE wire' = <<>> BY <4>3, EmptySeq
      <4>4. CASE wire' = <<answered + 1>> BY <1>1, <4>4
      <4> QED BY <4>1, <4>2, <4>3, <4>4
    <3> QED BY <1>4, <1>5, <1>6, <3>2, <3>3 DEF WireInv, openVpnVars
  <2> QED BY <2>1, <2>2
<1>10. CountInv' BY <1>1, <1>4, <1>6 DEF CountInv, openVpnVars
<1>11. HeadIsActive'
  <2>1. ASSUME NEW i \in 2..Len(queue) PROVE ~queue[i].active
    <3>1. CASE i = Len(requestQueue) + 1 BY <1>2, <3>1
    <3>2. CASE i \in 2..Len(requestQueue)
      <4>1. i \in 1..Len(requestQueue) BY <1>1, <3>2
      <4> QED BY <1>2, <3>2, <4>1 DEF HeadIsActive
    <3> QED BY <1>1, <1>2, <3>1, <3>2
  <2> QED BY <1>5, <2>1 DEF HeadIsActive
<1>12. QueueInv'
  <2>1. ASSUME NEW i \in 1..Len(queue) PROVE queue[i].body = answered + i
    <3>1. CASE i = Len(requestQueue) + 1 BY <1>1, <1>2, <3>1
    <3>2. CASE i \in 1..Len(requestQueue) BY <1>1, <1>2, <3>2 DEF QueueInv
    <3> QED BY <1>1, <1>2, <3>1, <3>2
  <2> QED BY <1>1, <1>2, <1>4, <1>5, <1>6, <2>1 DEF QueueInv
<1>8. StreamInv' /\ ErrorInv' /\ ReaderDiesWithOpenVpn'
  BY <1>4, <1>5, <1>6 DEF StreamInv, ErrorInv, ReaderDiesWithOpenVpn, openVpnVars, IsReply
<1>9. TypeOK' BY <1>1, <1>4, <1>5, <1>7 DEF TypeOK, openVpnVars
<1> QED BY <1>6, <1>7, <1>8, <1>9, <1>10, <1>11, <1>12

-----------------------------------------------------------------------------
\* Reading a message takes it out of the stream; a reply was the only one.
LEMMA ReadsHead ==
  ASSUME Inv, NEW types, ReadMessage(types)
  PROVE  /\ stream' \in Seq(Messages)
         /\ Len(stream) \in Nat /\ Len(stream) > 0 /\ Head(stream) = stream[1]
         /\ stream[1] \in Messages /\ stream[1].type \in types
         /\ Len(stream') = Len(stream) - 1
         /\ \A i \in 1..Len(stream') :
              i + 1 \in 1..Len(stream) /\ i + 1 # 1 /\ stream'[i] = stream[i + 1]
<1>1. stream \in Seq(Messages) /\ stream # <<>> /\ Head(stream).type \in types /\ stream' = Tail(stream)
  BY DEF Inv, TypeOK, ReadMessage
<1>2. Len(stream) \in Nat /\ Len(stream) > 0 BY <1>1, EmptySeq
<1>3. Head(stream) = stream[1] BY <1>1
<1>4. stream[1] \in Messages BY <1>1, <1>2, ElementOfSeq
<1>5. /\ stream' \in Seq(Messages) /\ Len(stream') = Len(stream) - 1
      /\ \A i \in 1..Len(stream') : stream'[i] = stream[i + 1]
  BY <1>1, HeadTailProperties
<1>6. \A i \in 1..Len(stream') : i + 1 \in 1..Len(stream) /\ i + 1 # 1 BY <1>2, <1>5
<1> QED BY <1>1, <1>2, <1>3, <1>4, <1>5, <1>6

\* Once the reply has been read, no other is left.
LEMMA ReadsOnlyReply ==
  ASSUME Inv, ReadMessage(Replies)
  PROVE  /\ stream' \in Seq(Messages)
         /\ \A i \in 1..Len(stream') : stream'[i].type \notin Replies
         /\ executed = answered + 1
<1>1. 1 \in 1..Len(stream) /\ IsReply(1) BY ReadsHead DEF IsReply
<1>2. executed = answered + 1 BY <1>1 DEF Inv, StreamInv
<1>3. ASSUME NEW i \in 1..Len(stream') PROVE stream'[i].type \notin Replies
  <2>1. i + 1 \in 1..Len(stream) /\ i + 1 # 1 /\ stream'[i] = stream[i + 1] BY ReadsHead
  <2>2. ~IsReply(i + 1) BY <1>1, <2>1 DEF Inv, StreamInv
  <2> QED BY <2>1, <2>2 DEF IsReply
<1> QED BY <1>2, <1>3, ReadsHead

LEMMA ReadNotificationInv == Inv /\ ReadNotification => Inv' /\ answered' = answered
<1> SUFFICES ASSUME Inv, ReadNotification PROVE Inv' /\ answered' = answered
  OBVIOUS
<1>1. ReadMessage(DOMAIN CommandsOf) BY DEF ReadNotification
<1>2. answered' = answered BY DEF ReadNotification, answered
<1>3. TypeOK'
  <2>1. Head(stream).type \in DOMAIN CommandsOf BY <1>1 DEF ReadMessage
  <2>2. commands' \in 0..4 BY <2>1 DEF ReadNotification, CommandsOf
  <2> QED BY <1>1, <2>2, ReadsHead DEF ReadNotification, Inv, TypeOK
<1>4. StreamInv'
  <2>1. \A i \in 1..Len(stream') : IsReply(i)' <=> IsReply(i + 1) BY <1>1, ReadsHead DEF IsReply
  <2>2. executed' = executed BY DEF ReadNotification
  <2>3. ASSUME NEW i \in 1..Len(stream'), IsReply(i)'
        PROVE  stream'[i].number = answered' + 1 /\ executed' = answered' + 1
    BY <1>1, <1>2, <2>1, <2>2, <2>3, ReadsHead DEF Inv, StreamInv
  <2>4. ASSUME NEW i \in 1..Len(stream'), NEW j \in 1..Len(stream'), IsReply(i)', IsReply(j)'
        PROVE  i = j
    <3>1. i + 1 \in 1..Len(stream) /\ j + 1 \in 1..Len(stream) BY <1>1, ReadsHead
    <3>2. i + 1 = j + 1 BY <2>1, <2>4, <3>1 DEF Inv, StreamInv
    <3> QED BY <1>1, <3>2, ReadsHead
  <2> QED BY <2>3, <2>4 DEF StreamInv
<1> QED BY <1>2, <1>3, <1>4 DEF Inv, QueueInv, CountInv, WireInv, ErrorInv, HeadIsActive,
                                 ReaderDiesWithOpenVpn, ReadNotification

LEMMA ReadSuccessInv == Inv /\ ReadSuccess => Inv' /\ answered' = answered + 1
<1> SUFFICES ASSUME Inv, ReadSuccess PROVE Inv' /\ answered' = answered + 1
  OBVIOUS
<1>1. ReadMessage(Replies) /\ Dequeue /\ running' = running
  BY DEF ReadSuccess, ReadMessage, Replies
<1>2. /\ stream' \in Seq(Messages) /\ executed = answered + 1
      /\ \A i \in 1..Len(stream') : stream'[i].type \notin Replies
  BY <1>1, ReadsOnlyReply
<1> QED BY <1>1, <1>2, DequeueInv DEF Inv

LEMMA ReadErrorInv == Inv /\ ReadError => Inv' /\ answered' = answered
<1> SUFFICES ASSUME Inv, ReadError PROVE Inv' /\ answered' = answered
  OBVIOUS
<1>1. ReadMessage(Replies) BY DEF ReadError, ReadMessage, Replies
<1>2. /\ stream' \in Seq(Messages) /\ executed = answered + 1
      /\ \A i \in 1..Len(stream') : stream'[i].type \notin Replies
  BY <1>1, ReadsOnlyReply
<1>3. answered' = answered BY DEF ReadError, answered
<1> QED BY <1>2, <1>3 DEF Inv, TypeOK, QueueInv, CountInv, WireInv, StreamInv, ErrorInv, HeadIsActive,
                          ReaderDiesWithOpenVpn, IsReply, ReadError

LEMMA AfterErrorInv == Inv /\ AfterError => Inv' /\ answered' = answered + 1
<1> SUFFICES ASSUME Inv, AfterError PROVE Inv' /\ answered' = answered + 1
  OBVIOUS
<1>1. Dequeue /\ running' = running /\ stream' = stream BY DEF AfterError
<1>2. /\ stream' \in Seq(Messages) /\ executed = answered + 1
      /\ \A i \in 1..Len(stream') : stream'[i].type \notin Replies
  BY <1>1 DEF AfterError, Inv, TypeOK, ErrorInv, IsReply
<1> QED BY <1>1, <1>2, DequeueInv DEF Inv

\* A message OpenVPN writes joins the stream behind the others.
LEMMA Appended ==
  ASSUME Inv, NEW m \in Messages, stream' = Append(stream, m)
  PROVE  /\ stream' \in Seq(Messages) /\ Len(stream) \in Nat
         /\ Len(stream') = Len(stream) + 1
         /\ \A i \in 1..Len(stream) : stream'[i] = stream[i]
         /\ stream'[Len(stream) + 1] = m
<1>1. stream \in Seq(Messages) BY DEF Inv, TypeOK
<1> QED BY <1>1, AppendProperties, LenProperties

LEMMA ExecuteInv == Inv /\ Execute => Inv' /\ answered' = answered /\ executed = answered
                                       /\ executed < requested
<1> SUFFICES ASSUME Inv, Execute
             PROVE  Inv' /\ answered' = answered /\ executed = answered /\ executed < requested
  OBVIOUS
<1>1. PICK type \in Replies : stream' = Append(stream, [type |-> type, number |-> Head(wire)])
  BY DEF Execute
<1>2. /\ wire \in Seq(Nat) /\ wire # <<>> /\ running /\ requestQueue # <<>>
      /\ executed = answered /\ answered \in Nat /\ requested \in Nat
  BY QueueCount DEF Execute, Inv, TypeOK, WireInv
<1>3. Len(wire) = 1 /\ Head(wire) = answered + 1
  <2> DEFINE n == Len(wire)
  <2>1. n \in Nat /\ n > 0 BY <1>2, EmptySeq
  <2>2. Head(wire) = wire[1] BY <1>2
  <2>3. n <= 1 BY DEF Inv, WireInv
  <2>4. wire[1] = answered + 1 BY <1>2 DEF Inv, WireInv
  <2>5. n = 1
    <3> HIDE DEF n
    <3> QED BY <2>1, <2>3
  <2> QED BY <2>2, <2>4, <2>5, Zenon
<1>4. wire' = <<>>
  <2>1. wire' = Tail(wire) /\ Len(Tail(wire)) = 0 /\ Tail(wire) \in Seq(Nat)
    BY <1>2, <1>3, HeadTailProperties DEF Execute
  <2> QED BY <2>1, EmptySeq
<1>5. UNCHANGED <<requestQueue, reader, commands, requested, written, running>>
      /\ executed' = executed + 1
  BY DEF Execute, endpointVars
<1>6. answered' = answered BY <1>5 DEF answered
<1>7. executed < requested BY <1>2, QueueCount DEF Inv, CountInv
<1> DEFINE reply == [type |-> type, number |-> answered + 1]
<1>8. /\ reply \in Messages /\ stream' = Append(stream, reply)
      /\ reply.type \in Replies /\ reply.number = answered + 1
  BY <1>1, <1>2, <1>3 DEF Messages
<1> HIDE DEF reply
<1>9. /\ stream' \in Seq(Messages) /\ Len(stream) \in Nat /\ Len(stream') = Len(stream) + 1
      /\ \A i \in 1..Len(stream) : stream'[i] = stream[i]
      /\ stream'[Len(stream) + 1] = reply
  BY <1>8, Appended
<1>10. ASSUME NEW i \in 1..Len(stream'), IsReply(i)' PROVE i = Len(stream) + 1
  <2>1. ASSUME i \in 1..Len(stream) PROVE FALSE
    <3>1. IsReply(i) BY <1>9, <1>10, <2>1 DEF IsReply
    <3> QED BY <1>2, <2>1, <3>1 DEF Inv, StreamInv
  <2> QED BY <1>9, <2>1
<1>11. StreamInv'
  <2>1. \A i \in 1..Len(stream') : IsReply(i)' => stream'[i] = reply BY <1>9, <1>10
  <2> QED BY <1>2, <1>5, <1>6, <1>8, <1>10, <2>1 DEF StreamInv
<1>12. ErrorInv' BY <1>2, <1>5 DEF Inv, ErrorInv
<1>13. CountInv' BY <1>2, <1>5, <1>6, <1>7 DEF CountInv
<1>14. TypeOK' BY <1>2, <1>4, <1>5, <1>9, EmptySeq DEF Inv, TypeOK
<1>15. WireInv' BY <1>4, EmptySeq DEF WireInv
<1> QED BY <1>2, <1>5, <1>6, <1>7, <1>11, <1>12, <1>13, <1>14, <1>15
        DEF Inv, QueueInv, HeadIsActive, ReaderDiesWithOpenVpn

LEMMA NotifyInv == Inv /\ Notify => Inv' /\ answered' = answered
<1> SUFFICES ASSUME Inv, Notify PROVE Inv' /\ answered' = answered
  OBVIOUS
<1>1. PICK type \in DOMAIN CommandsOf : stream' = Append(stream, [type |-> type, number |-> 0])
  BY DEF Notify
<1> DEFINE notification == [type |-> type, number |-> 0]
<1>2. notification \in Messages /\ notification.type \notin Replies
  BY DEF Messages, CommandsOf, Replies
<1>3. UNCHANGED <<requestQueue, reader, commands, requested, wire, executed, running>>
      /\ written' = written + 1
  BY DEF Notify, endpointVars
<1>4. answered' = answered BY <1>3 DEF answered
<1> HIDE DEF notification
<1>5. /\ stream' \in Seq(Messages) /\ Len(stream) \in Nat /\ Len(stream') = Len(stream) + 1
      /\ \A i \in 1..Len(stream) : stream'[i] = stream[i]
      /\ stream'[Len(stream) + 1] = notification
  BY <1>1, <1>2, Appended DEF notification
<1>6. ASSUME NEW i \in 1..Len(stream'), IsReply(i)'
      PROVE  i \in 1..Len(stream) /\ IsReply(i) /\ stream'[i] = stream[i]
  <2>1. i # Len(stream) + 1 BY <1>2, <1>5, <1>6 DEF IsReply
  <2>2. i \in 1..Len(stream) BY <1>5, <2>1
  <2> QED BY <1>5, <1>6, <2>2 DEF IsReply
<1>7. StreamInv' BY <1>3, <1>4, <1>6 DEF Inv, StreamInv
<1>8. ErrorInv' BY <1>3, <1>4, <1>6 DEF Inv, ErrorInv
<1>9. TypeOK' BY <1>3, <1>5 DEF Inv, TypeOK
<1> QED BY <1>3, <1>4, <1>7, <1>8, <1>9
        DEF Inv, QueueInv, CountInv, WireInv, HeadIsActive, ReaderDiesWithOpenVpn

LEMMA OtherInv ==
  Inv /\ (HandlerReturns \/ StreamEnds \/ Exit \/ UNCHANGED vars) => Inv' /\ UNCHANGED <<requested, executed, requestQueue>>
<1> SUFFICES ASSUME Inv, HandlerReturns \/ StreamEnds \/ Exit \/ UNCHANGED vars
             PROVE  Inv' /\ UNCHANGED <<requested, executed, requestQueue>>
  OBVIOUS
<1>1. UNCHANGED <<commands, requested, executed, requestQueue, wire, written>>
  BY DEF HandlerReturns, StreamEnds, Exit, vars, endpointVars, openVpnVars
<1>2. /\ stream' = stream \/ stream' = <<>>
      /\ reader' \in {reader, "reading", "closed"}
      /\ running' \in {running, FALSE}
  BY DEF HandlerReturns, StreamEnds, Exit, vars, endpointVars, openVpnVars
<1>3. answered' = answered BY <1>1 DEF answered
<1>4. TypeOK' BY <1>1, <1>2, EmptySeq DEF Inv, TypeOK
<1>5. StreamInv'
  <2>1. CASE stream' = stream BY <1>1, <1>3, <2>1 DEF Inv, StreamInv, IsReply
  <2>2. CASE stream' = <<>>
    <3>1. 1..Len(stream') = {} BY <2>2, EmptySeq
    <3> QED BY <3>1 DEF StreamInv
  <2> QED BY <1>2, <2>1, <2>2
<1>6. ErrorInv'
  <2> SUFFICES ASSUME reader' = "error"
               PROVE  /\ executed' = answered' + 1
                      /\ \A i \in 1..Len(stream') : ~IsReply(i)'
    BY DEF ErrorInv
  <2>1. reader = "error" BY <1>2
  <2>2. executed' = answered' + 1 BY <1>1, <1>3, <2>1 DEF Inv, ErrorInv
  <2>3. CASE stream' = stream BY <2>1, <2>2, <2>3 DEF Inv, ErrorInv, IsReply
  <2>4. CASE stream' = <<>>
    <3>1. 1..Len(stream') = {} BY <2>4, EmptySeq
    <3> QED BY <2>2, <3>1
  <2> QED BY <1>2, <2>3, <2>4
<1> QED BY <1>1, <1>2, <1>3, <1>4, <1>5, <1>6
        DEF Inv, TypeOK, QueueInv, CountInv, WireInv, HeadIsActive, ReaderDiesWithOpenVpn

-----------------------------------------------------------------------------
\* The invariant is inductive.
LEMMA InvIsInductive == Inv /\ [Next]_vars => Inv'
BY RequestInv, ReadNotificationInv, ReadSuccessInv, ReadErrorInv, AfterErrorInv, ExecuteInv,
   NotifyInv, OtherInv DEF Next, Read

\* The queue and the connection agree in every reachable state.
THEOREM InvHolds == Spec => []Inv
BY InitInv, InvIsInductive, PTL DEF Spec

\* Types are preserved (TypeOK).
THEOREM TypeCorrect == Spec => []TypeOK
<1>1. Inv => TypeOK BY DEF Inv
<1> QED BY <1>1, InvHolds, PTL

\* A reply always finds the command it answers at the head of the queue, so
\* ProcessMessage never takes an element from an empty queue.
THEOREM RepliesMatchHolds == Spec => []RepliesMatch
<1>1. Inv => RepliesMatch
  <2> SUFFICES ASSUME Inv, stream # <<>>, Head(stream).type \in Replies
               PROVE  requestQueue # <<>> /\ Head(requestQueue).body = Head(stream).number
    BY DEF RepliesMatch
  <2>1. Len(stream) \in Nat /\ Len(stream) > 0 /\ Head(stream) = stream[1]
    BY EmptySeq DEF Inv, TypeOK
  <2>2. Head(stream).number = answered + 1 /\ executed = answered + 1
    BY <2>1 DEF Inv, StreamInv, IsReply
  <2>3. requestQueue # <<>> /\ answered \in Nat BY <2>2, QueueCount DEF Inv
  <2>4. Len(requestQueue) \in Nat /\ Len(requestQueue) > 0 /\ Head(requestQueue) = requestQueue[1]
    BY <2>3, EmptySeq DEF Inv, TypeOK
  <2> QED BY <2>2, <2>3, <2>4 DEF Inv, QueueInv
<1> QED BY <1>1, InvHolds, PTL

\* Whatever is queued, its head has been sent or its write has failed.
THEOREM HeadIsActiveHolds == Spec => []HeadIsActive
<1>1. Inv => HeadIsActive BY DEF Inv
<1> QED BY <1>1, InvHolds, PTL

\* The reader ends without StreamClosed only after OpenVPN has gone, leaving commands behind.
THEOREM ReaderDiesWithOpenVpnHolds == Spec => []ReaderDiesWithOpenVpn
<1>1. Inv => ReaderDiesWithOpenVpn BY DEF Inv
<1> QED BY <1>1, InvHolds, PTL

\* The endpoint is a command channel: commands are executed in the order of the calls of
\* Request, one at a time.
THEOREM EndpointImplementsChannel == Spec => ImplementsChannel
<1>1. Init => Channel!ChannelInit
  <2> SUFFICES ASSUME Init PROVE requested = 0 /\ executed = 0 /\ answered = 0
    BY DEF Channel!ChannelInit
  <2>1. requested = 0 /\ executed = 0 /\ Len(requestQueue) = 0 BY EmptySeq DEF Init
  <2> QED BY <2>1 DEF answered
<1>2. Inv /\ Inv' /\ [Next]_vars =>
        [Channel!Request \/ Channel!Execute \/ Channel!Answer]_Channel!channel
  <2> SUFFICES ASSUME Inv, Inv', [Next]_vars
               PROVE  [Channel!Request \/ Channel!Execute \/ Channel!Answer]_Channel!channel
    OBVIOUS
  <2> USE DEF Channel!Request, Channel!Execute, Channel!Answer, Channel!channel
  <2>1. CASE Request
    BY <2>1, RequestInv DEF Request, openVpnVars
  <2>2. CASE ReadNotification \/ ReadError
    BY <2>2, ReadNotificationInv, ReadErrorInv DEF ReadNotification, ReadError
  <2>3. CASE ReadSuccess \/ AfterError
    <3>1. answered' = answered + 1 /\ UNCHANGED <<requested, executed>>
      BY <2>3, ReadSuccessInv, AfterErrorInv DEF ReadSuccess, AfterError, Dequeue
    <3>2. answered \in Nat /\ executed \in Nat BY QueueCount DEF Inv, TypeOK
    <3>3. answered < executed BY <3>1, <3>2 DEF Inv, CountInv
    <3> QED BY <3>1, <3>3
  <2>4. CASE Execute
    BY <2>4, ExecuteInv DEF Execute, endpointVars
  <2>5. CASE Notify
    BY <2>5, NotifyInv DEF Notify, endpointVars
  <2>6. CASE HandlerReturns \/ StreamEnds \/ Exit \/ UNCHANGED vars
    BY <2>6, OtherInv DEF answered
  <2> QED BY <2>1, <2>2, <2>3, <2>4, <2>5, <2>6 DEF Next, Read
<1> QED BY <1>1, <1>2, InvHolds, PTL DEF Spec, ImplementsChannel, Channel!ChannelSpec
=============================================================================
