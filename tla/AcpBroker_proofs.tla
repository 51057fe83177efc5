-------------------------- MODULE AcpBroker_proofs --------------------------
(***************************************************************************)
(* Theorems about an ACP broker: its endpoints on a pipe, and its          *)
(* subscriptions.                                                          *)
(*                                                                         *)
(* The endpoints: every response meets the request it answers, and a peer  *)
(* that serves requests knows the resources of the other one: for any two  *)
(* peers, any clients, and every order in which the pools and the pipe     *)
(* deliver.                                                                *)
(*                                                                         *)
(* RepliesMatch is not inductive: a response that is handled removes the   *)
(* id it came under, which must leave no other response under that id.     *)
(* Chain follows the id a peer gives to a request it forwards: onto the    *)
(* pipe, into the other peer's pool or among the requests held back there, *)
(* into an entry of its responseHandlers as the external id, and back. It  *)
(* is at one place at a time (Apart), and all the way it is registered for *)
(* the same request of this peer (Matches).                                *)
(*                                                                         *)
(* InitializedKnowsResources rests on Phases: while a request of the       *)
(* initialisation waits, the reader is past the handshake, and the last    *)
(* one is made when the first has registered the resource.                 *)
(*                                                                         *)
(* The subscriptions: the dispatcher keeps the promise of Delivery for any *)
(* number of subscriptions, notifications and threads.  The promise is     *)
(* about what has been put into a queue and what the handler has been      *)
(* called with; the inductive invariant says that the queue is the         *)
(* difference of the two (OrderInv), that a thread calls a handler only    *)
(* about a notification that is not in its queue yet (OnceInv), and that   *)
(* the threads between Enqueue and the work item are the difference        *)
(* between queue and work items (WorkMatchesQueue).                        *)
(***************************************************************************)
EXTENDS MCAcpBroker, SequenceTheorems, FiniteSetTheorems, TLAPS

\* The messages of a sequence.
Among(s) == {s[k] : k \in 1..Len(s)}

\* No message is there twice.
Distinct(s) == \A k, l \in 1..Len(s) : s[k] = s[l] => k = l

\* Where an id of p can be, on its way through the other peer and back.
PlaceNames == {"asked", "queued", "held", "kept", "served", "returning", "back"}

\* An id, with the request that goes with it.
Token(i, r) == [id |-> i, request |-> r]

MessageTokens(s, type) == {Token(m.id, m.request) : m \in {n \in Among(s) : n.type = type}}

\* The ids of p that are at the place a, and the requests that go with them.
Tokens(p, a) ==
  LET q == Other(p)
  IN CASE a = "asked"     -> MessageTokens(wire[q], "request")
       [] a = "queued"    -> {Token(x.id, x.request) :
                                x \in {y \in pool[q] : y.task = "request" /\ y.handler = "adapter"}}
       [] a = "held"      -> MessageTokens(held[q], "request")
       [] a = "kept"      -> MessageTokens(pendingRequests[q], "request")
       [] a = "served"    -> {Token(e.externalId, e.request) :
                                e \in {responseHandlers[q][j] : j \in
                                   {k \in DOMAIN responseHandlers[q] : responseHandlers[q][k].handler = "adapter"}}}
       [] a = "returning" -> MessageTokens(wire[p], "response")
       [] a = "back"      -> {Token(x.id, x.request) : x \in {y \in pool[p] : y.task = "response"}}

\* An id is at one place at a time.
Apart(p) ==
  \A a, b \in PlaceNames : a # b =>
    \A t \in Tokens(p, a), u \in Tokens(p, b) : t.id # u.id

\* It is registered, for its request.
Match(p, a, t) ==
  /\ t.id \in DOMAIN responseHandlers[p]
  /\ responseHandlers[p][t.id].request = t.request
  /\ a # "back" => responseHandlers[p][t.id].handler = "client"

Matches(p) == \A a \in PlaceNames : \A t \in Tokens(p, a) : Match(p, a, t)

\* No id of the other peer is served twice.
ServedOnce(p) ==
  LET h == responseHandlers[p]
  IN \A i, j \in DOMAIN h :
       h[i].handler = "adapter" /\ h[j].handler = "adapter" /\ h[i].externalId = h[j].externalId => i = j

\* Requests of p itself are answered to a client, the others to the remote.
Directed(p) ==
  /\ \A x \in pool[p] : x.task = "request" => (x.handler = "client" <=> x.request.from = p)
  /\ \A i \in DOMAIN responseHandlers[p] :
       responseHandlers[p][i].handler = "client" <=> responseHandlers[p][i].request.from = p
  /\ \A m \in Among(held[p]) \cup Among(pendingRequests[p]) : m.type = "request"

Chain == \A p \in Peers : Matches(p) /\ Apart(p) /\ ServedOnce(p) /\ Distinct(wire[p]) /\ Directed(p)

\* TypeOK does not say what responseHandlers is a function of.
Typed == TypeOK /\ responseHandlers = [p \in Peers |-> responseHandlers[p]]

\* The request r of p waits in the pool, or for its response.
Outstanding(p, r) ==
  \/ \E x \in pool[p] : x.task = "request" /\ x.request = r
  \/ \E i \in DOMAIN responseHandlers[p] : responseHandlers[p][i].request = r

Get(p, what) == [from |-> p, what |-> what]

\* How far p is with its initialisation.
Phases(p) ==
  /\ reader[p] = "ended" => broken
  /\ reader[p] \notin {"handshake", "ended"} => "lists" \in proxies[p]
  /\ initialized[p] \/ (\E g \in Gets : Outstanding(p, Get(p, g))) => reader[p] # "handshake"
  /\ initialized[p] \/ Outstanding(p, Get(p, "getSubscriptions")) => broken \/ "resource" \in proxies[p]

IInv == Typed /\ Chain /\ \A p \in Peers : Phases(p)

-----------------------------------------------------------------------------
(* The two peers and the sequences of messages *)

\* Peers are two, each the other of the other.
LEMMA TwoPeers ==
  ASSUME NEW p \in Peers
  PROVE  /\ Other(p) \in Peers /\ Other(p) # p /\ Other(Other(p)) = p
         /\ \A q \in Peers : q = p \/ q = Other(p)
<1>1. PICK a, b \in Peers : a # b /\ Peers = {a, b}  BY PeersAssumption
<1>2. Other(a) = b /\ Other(b) = a  BY <1>1 DEF Other
<1> QED  BY <1>1, <1>2

\* Of the empty sequence, a sequence with one more message, a tail and a concatenation.
LEMMA AmongEmpty == Among(<<>>) = {} /\ Distinct(<<>>)
BY DEF Among, Distinct

\* A message at the end.
LEMMA AmongAppend ==
  ASSUME NEW S, NEW s \in Seq(S), NEW m \in S
  PROVE  /\ Among(Append(s, m)) = Among(s) \cup {m}
         /\ Distinct(s) /\ m \notin Among(s) => Distinct(Append(s, m))
<1>1. /\ Len(Append(s, m)) = Len(s) + 1 /\ Len(s) \in Nat
      /\ \A i \in 1..Len(s) : Append(s, m)[i] = s[i]
      /\ Append(s, m)[Len(s) + 1] = m
  BY AppendProperties, LenProperties
<1>2. \A i \in 1..Len(Append(s, m)) : i \in 1..Len(s) \/ i = Len(s) + 1  BY <1>1
<1>3. Len(s) + 1 \in 1..Len(Append(s, m)) /\ 1..Len(s) \subseteq 1..Len(Append(s, m))  BY <1>1
<1>4. Among(Append(s, m)) = Among(s) \cup {m}  BY <1>1, <1>2, <1>3 DEF Among
<1>5. Distinct(s) /\ m \notin Among(s) => Distinct(Append(s, m))
  BY <1>1, <1>2 DEF Among, Distinct
<1> QED  BY <1>4, <1>5

\* The first message is taken.
LEMMA AmongTail ==
  ASSUME NEW S, NEW s \in Seq(S), s # <<>>
  PROVE  /\ Head(s) \in Among(s) /\ Head(s) \in S
         /\ Among(Tail(s)) \subseteq Among(s)
         /\ Distinct(s) => Distinct(Tail(s)) /\ Head(s) \notin Among(Tail(s))
<1>1. /\ Len(s) \in Nat /\ Len(s) # 0 /\ Len(Tail(s)) = Len(s) - 1
      /\ \A i \in 1..Len(Tail(s)) : Tail(s)[i] = s[i + 1]
      /\ Head(s) = s[1] /\ Head(s) \in S
  BY HeadTailProperties, LenProperties, EmptySeq
<1>2. \A i \in 1..Len(Tail(s)) : i + 1 \in 1..Len(s) /\ i + 1 # 1  BY <1>1
<1>3. 1 \in 1..Len(s)  BY <1>1
<1>4. Head(s) \in Among(s)  BY <1>1, <1>3 DEF Among
<1>5. Among(Tail(s)) \subseteq Among(s)  BY <1>1, <1>2 DEF Among
<1>6. ASSUME Distinct(s) PROVE Distinct(Tail(s)) /\ Head(s) \notin Among(Tail(s))
  <2>1. \A i, j \in 1..Len(Tail(s)) : i + 1 = j + 1 => i = j  BY <1>1
  <2>2. Distinct(Tail(s))  BY <1>1, <1>2, <1>6, <2>1 DEF Distinct
  <2>3. Head(s) \notin Among(Tail(s))  BY <1>1, <1>2, <1>3, <1>6 DEF Distinct, Among
  <2> QED  BY <2>2, <2>3
<1> QED  BY <1>1, <1>4, <1>5, <1>6

\* Two sequences one after the other.
LEMMA AmongConcat ==
  ASSUME NEW S, NEW s \in Seq(S), NEW t \in Seq(S)
  PROVE  s \o t \in Seq(S) /\ Among(s \o t) = Among(s) \cup Among(t)
<1>1. /\ s \o t \in Seq(S)
      /\ Len(s \o t) = Len(s) + Len(t) /\ Len(s) \in Nat /\ Len(t) \in Nat
      /\ \A i \in 1..Len(s) + Len(t) : (s \o t)[i] = IF i <= Len(s) THEN s[i] ELSE t[i - Len(s)]
  BY ConcatProperties, LenProperties
<1>2. Among(s \o t) \subseteq Among(s) \cup Among(t)
  <2> SUFFICES ASSUME NEW i \in 1..Len(s) + Len(t) PROVE (s \o t)[i] \in Among(s) \cup Among(t)
    BY <1>1 DEF Among
  <2>1. CASE i <= Len(s)
    <3>1. i \in 1..Len(s)  BY <1>1, <2>1
    <3> QED  BY <1>1, <2>1, <3>1 DEF Among
  <2>2. CASE ~(i <= Len(s))
    <3>1. i - Len(s) \in 1..Len(t)  BY <1>1, <2>2
    <3> QED  BY <1>1, <2>2, <3>1 DEF Among
  <2> QED  BY <2>1, <2>2
<1>3. Among(s) \subseteq Among(s \o t)
  <2> SUFFICES ASSUME NEW i \in 1..Len(s) PROVE s[i] \in Among(s \o t)
    BY DEF Among
  <2>1. i \in 1..Len(s) + Len(t) /\ i <= Len(s)  BY <1>1
  <2> QED  BY <1>1, <2>1 DEF Among
<1>4. Among(t) \subseteq Among(s \o t)
  <2> SUFFICES ASSUME NEW i \in 1..Len(t) PROVE t[i] \in Among(s \o t)
    BY DEF Among
  <2>1. /\ Len(s) + i \in 1..Len(s) + Len(t) /\ ~(Len(s) + i <= Len(s))
        /\ (Len(s) + i) - Len(s) = i
    BY <1>1
  <2> QED  BY <1>1, <2>1 DEF Among
<1> QED  BY <1>1, <1>2, <1>3, <1>4

-----------------------------------------------------------------------------
(* Types *)

\* The messages on the pipe and the requests held back are messages.
LEMMA AmongMessages ==
  ASSUME Typed, NEW p \in Peers
  PROVE  /\ Among(wire[p]) \subseteq Messages
         /\ Among(held[p]) \subseteq Messages
         /\ Among(pendingRequests[p]) \subseteq Messages
<1>1. wire[p] \in Seq(Messages) /\ held[p] \in Seq(Messages) /\ pendingRequests[p] \in Seq(Messages)
  BY DEF Typed, TypeOK
<1> QED  BY <1>1, ElementOfSeq DEF Among

\* Nothing is registered yet.
LEMMA InitTyped == Init => Typed
<1> SUFFICES ASSUME Init PROVE Typed  OBVIOUS
<1>1. DOMAIN <<>> = {}  BY EmptySeq
<1>2. <<>> \in Seq(Messages)  BY EmptySeq
<1> QED  BY <1>1, <1>2 DEF Init, Typed, TypeOK

\* The request of p itself, as an item of the pool.
LEMMA OwnTyped ==
  ASSUME Typed, NEW p \in Peers, NEW what \in Gets \cup Clients
  PROVE  Own(p, what) \in Items /\ [from |-> p, what |-> what] \in Requests
BY DEF Typed, TypeOK, Own, Items, Requests

\* A request of the remote, as an item of the pool.
LEMMA ReceivedTyped ==
  ASSUME NEW m \in Messages
  PROVE  Received(m) \in Items /\ m.request \in Requests
BY DEF Received, Items, Messages

\* What RegisterRequestMessage does to the ids and to responseHandlers.
LEMMA RegisterEffect ==
  ASSUME Typed, NEW p \in Peers, NEW item \in Items, item.task = "request", Register(p, item),
         NEW id, id = lastUniqueId[p] + 1
  PROVE  /\ id \in Nat /\ id \notin DOMAIN responseHandlers[p]
         /\ lastUniqueId' = [lastUniqueId EXCEPT ![p] = id] /\ lastUniqueId'[p] = id
         /\ DOMAIN responseHandlers'[p] = (DOMAIN responseHandlers[p]) \cup {id}
         /\ \A i \in DOMAIN responseHandlers[p] : responseHandlers'[p][i] = responseHandlers[p][i]
         /\ responseHandlers'[p][id] =
              [request |-> item.request, externalId |-> item.id, handler |-> item.handler]
         /\ \A q \in Peers : q # p => responseHandlers'[q] = responseHandlers[q]
         /\ responseHandlers' = [q \in Peers |-> responseHandlers'[q]]
         /\ \A q \in Peers : /\ DOMAIN responseHandlers'[q] \subseteq 1..lastUniqueId'[q]
                            /\ \A i \in DOMAIN responseHandlers'[q] : responseHandlers'[q][i] \in Entries
         /\ lastUniqueId' \in [Peers -> Nat]
<1> DEFINE h == [i \in (DOMAIN responseHandlers[p]) \cup {id} |->
                   IF i = id
                     THEN [request |-> item.request, externalId |-> item.id, handler |-> item.handler]
                     ELSE responseHandlers[p][i]]
<1>1. id \in Nat /\ id \notin DOMAIN responseHandlers[p]  BY DEF Typed, TypeOK
<1>2. /\ lastUniqueId' = [lastUniqueId EXCEPT ![p] = id]
      /\ responseHandlers' = [responseHandlers EXCEPT ![p] = h]
  BY DEF Register
<1>3. /\ DOMAIN h = (DOMAIN responseHandlers[p]) \cup {id}
      /\ \A i \in DOMAIN responseHandlers[p] : h[i] = responseHandlers[p][i]
      /\ h[id] = [request |-> item.request, externalId |-> item.id, handler |-> item.handler]
  BY <1>1
<1>4. h[id] \in Entries  BY <1>3 DEF Items, Entries
<1> HIDE DEF h
<1>5. /\ responseHandlers'[p] = h
      /\ \A q \in Peers : q # p => responseHandlers'[q] = responseHandlers[q]
      /\ responseHandlers' = [q \in Peers |-> responseHandlers'[q]]
  BY <1>2 DEF Typed
<1>6. lastUniqueId' \in [Peers -> Nat]  BY <1>1, <1>2 DEF Typed, TypeOK
<1>7. \A q \in Peers : q # p => lastUniqueId'[q] = lastUniqueId[q]  BY <1>2 DEF Typed, TypeOK
<1>8. lastUniqueId'[p] = id  BY <1>2 DEF Typed, TypeOK
<1>9. DOMAIN h \subseteq 1..id  BY <1>3 DEF Typed, TypeOK
<1>10. \A i \in DOMAIN h : h[i] \in Entries  BY <1>3, <1>4 DEF Typed, TypeOK
<1>11. \A q \in Peers : /\ DOMAIN responseHandlers'[q] \subseteq 1..lastUniqueId'[q]
                       /\ \A i \in DOMAIN responseHandlers'[q] : responseHandlers'[q][i] \in Entries
  BY <1>5, <1>7, <1>8, <1>9, <1>10 DEF Typed, TypeOK
<1> QED  BY <1>1, <1>2, <1>3, <1>5, <1>6, <1>8, <1>11

\* What HandleResponse does to responseHandlers.
LEMMA ForgetEffect ==
  ASSUME Typed, NEW p \in Peers, NEW item, Waiting(p, item), Forget(p, item)
  PROVE  /\ DOMAIN responseHandlers'[p] = (DOMAIN responseHandlers[p]) \ {item.id}
         /\ \A i \in DOMAIN responseHandlers'[p] : responseHandlers'[p][i] = responseHandlers[p][i]
         /\ \A q \in Peers : q # p => responseHandlers'[q] = responseHandlers[q]
         /\ responseHandlers' = [q \in Peers |-> responseHandlers'[q]]
         /\ Entry(p, item) \in Entries
<1> DEFINE h == [i \in (DOMAIN responseHandlers[p]) \ {item.id} |-> responseHandlers[p][i]]
<1>1. responseHandlers' = [responseHandlers EXCEPT ![p] = h]  BY DEF Forget
<1>2. /\ DOMAIN h = (DOMAIN responseHandlers[p]) \ {item.id}
      /\ \A i \in DOMAIN h : h[i] = responseHandlers[p][i]
  OBVIOUS
<1> HIDE DEF h
<1>3. /\ responseHandlers'[p] = h
      /\ \A q \in Peers : q # p => responseHandlers'[q] = responseHandlers[q]
      /\ responseHandlers' = [q \in Peers |-> responseHandlers'[q]]
  BY <1>1 DEF Typed
<1>4. Entry(p, item) \in Entries  BY DEF Entry, Waiting, Typed, TypeOK
<1> QED  BY <1>2, <1>3, <1>4

\* The part of Typed that says of what responseHandlers consists.
HandlersTyped ==
  /\ \A p \in Peers :
       /\ DOMAIN responseHandlers[p] \subseteq 1..lastUniqueId[p]
       /\ \A id \in DOMAIN responseHandlers[p] : responseHandlers[p][id] \in Entries
  /\ responseHandlers = [p \in Peers |-> responseHandlers[p]]

\* Ids that are given out leave the entries where they are.
LEMMA CreatedTyped ==
  ASSUME Typed, NEW p \in Peers, Created(p)
  PROVE  /\ lastUniqueId' \in [Peers -> Nat]
         /\ \A q \in Peers : 1..lastUniqueId[q] \subseteq 1..lastUniqueId'[q]
<1>1. lastUniqueId \in [Peers -> Nat]  BY DEF Typed, TypeOK
<1>2. \A q \in Peers : lastUniqueId'[q] = IF q = p THEN lastUniqueId[q] + 1 ELSE lastUniqueId[q]
  BY <1>1 DEF Created
<1>3. lastUniqueId' \in [Peers -> Nat]  BY <1>1 DEF Created
<1>4. \A q \in Peers : lastUniqueId[q] \in Nat /\ lastUniqueId[q] <= lastUniqueId'[q]
  BY <1>1, <1>2
<1> QED  BY <1>3, <1>4

\* A step that registers nothing.
LEMMA HandlersKept ==
  ASSUME Typed, responseHandlers' = responseHandlers,
         \A q \in Peers : 1..lastUniqueId[q] \subseteq 1..lastUniqueId'[q]
  PROVE  HandlersTyped'
BY DEF Typed, TypeOK, HandlersTyped

\* What the call of a response handler does.
LEMMA AnswerTyped ==
  ASSUME Typed, NEW p \in Peers, NEW item, item.request \in Requests, NEW found \in BOOLEAN,
         Answer(p, item, found)
  PROVE  /\ lastUniqueId' \in [Peers -> Nat]
         /\ \A q \in Peers : 1..lastUniqueId[q] \subseteq 1..lastUniqueId'[q]
         /\ pool' \in [Peers -> SUBSET Items]
         /\ initialized' \in [Peers -> BOOLEAN]
         /\ proxies' \in [Peers -> SUBSET {"lists", "resource"}]
         /\ made' \subseteq Requests /\ answered' \subseteq Requests
<1>1. answered' \subseteq Requests  BY DEF Answer, Typed, TypeOK
<1>2. "getSubscriptions" \in Gets  BY DEF Gets
<1>3. [task |-> "flush"] \in Items  BY DEF Items
<1>4. CASE item.request.what = "getResources"
  <2>1. /\ proxies' = [proxies EXCEPT ![p] = @ \cup (IF found THEN {"resource"} ELSE {})]
        /\ pool' = [pool EXCEPT ![p] = (@ \ {item}) \cup {Own(p, "getSubscriptions")}]
        /\ made' = made \cup {[from |-> p, what |-> "getSubscriptions"]}
        /\ Created(p) /\ initialized' = initialized
    BY <1>4 DEF Answer, Done
  <2>2. pool' \in [Peers -> SUBSET Items]
    <3>1. Own(p, "getSubscriptions") \in Items /\ pool \in [Peers -> SUBSET Items]
      BY <1>2, OwnTyped DEF Typed, TypeOK
    <3> QED  BY <2>1, <3>1
  <2>3. made' \subseteq Requests  BY <2>1, <1>2, OwnTyped DEF Typed, TypeOK
  <2>4. proxies' \in [Peers -> SUBSET {"lists", "resource"}]  BY <2>1 DEF Typed, TypeOK
  <2> QED  BY <2>1, <2>2, <2>3, <2>4, <1>1, CreatedTyped DEF Typed, TypeOK
<1>5. CASE item.request.what # "getResources"
  <2> DEFINE last == item.request.what = "getSubscriptions"
  <2>1. /\ initialized' = [initialized EXCEPT ![p] = @ \/ last]
        /\ pool' = [pool EXCEPT ![p] = (@ \ {item}) \cup (IF last THEN {[task |-> "flush"]} ELSE {})]
        /\ proxies' = proxies /\ made' = made /\ lastUniqueId' = lastUniqueId
    BY <1>5 DEF Answer, Done
  <2>2. pool' \in [Peers -> SUBSET Items]  BY <2>1, <1>3 DEF Typed, TypeOK
  <2>3. initialized' \in [Peers -> BOOLEAN]  BY <2>1 DEF Typed, TypeOK
  <2> QED  BY <2>1, <2>2, <2>3, <1>1 DEF Typed, TypeOK
<1> QED  BY <1>4, <1>5

\* What is written to the pipe.
LEMMA SendTyped ==
  ASSUME Typed, NEW p \in Peers, NEW type \in {"request", "response"}, NEW id \in Nat,
         NEW request \in Requests, Send(p, type, id, request)
  PROVE  wire' \in [Peers -> Seq(Messages)]
<1>1. [type |-> type, id |-> id, request |-> request] \in Messages  BY DEF Messages
<1>2. wire \in [Peers -> Seq(Messages)]  BY DEF Typed, TypeOK
<1>3. Append(wire[Other(p)], [type |-> type, id |-> id, request |-> request]) \in Seq(Messages)
  BY <1>1, <1>2, TwoPeers, AppendProperties
<1> QED  BY <1>2, <1>3 DEF Send

\* The reader takes a message.
LEMMA TakeTyped ==
  ASSUME Typed, NEW p \in Peers, NEW m, Reads(p, m), Take(p)
  PROVE  /\ m \in Messages /\ m.id \in Nat /\ m.request \in Requests
         /\ wire' \in [Peers -> Seq(Messages)]
         /\ wire[p] \in Seq(Messages) /\ wire[p] # <<>>
         /\ wire'[p] = Tail(wire[p]) /\ \A q \in Peers : q # p => wire'[q] = wire[q]
<1>1. wire \in [Peers -> Seq(Messages)]  BY DEF Typed, TypeOK
<1>2. wire[p] # <<>> /\ m = Head(wire[p])  BY DEF Reads
<1>3. m \in Messages /\ Tail(wire[p]) \in Seq(Messages)  BY <1>1, <1>2, HeadTailProperties
<1>4. wire' = [wire EXCEPT ![p] = Tail(wire[p])]  BY DEF Take
<1> QED  BY <1>1, <1>2, <1>3, <1>4 DEF Messages

\* The fields of a request in the pool.
LEMMA RequestItem ==
  ASSUME NEW item \in Items, item.task = "request"
  PROVE  item.request \in Requests /\ item.id \in Nat /\ item.handler \in {"client", "adapter"}
BY DEF Items

\* The fields of a response in the pool.
LEMMA ResponseItem ==
  ASSUME NEW item \in Items, item.task = "response"
  PROVE  item.request \in Requests /\ item.id \in Nat
BY DEF Items

\* What is in a pool is an item.
LEMMA PoolItem == ASSUME Typed, NEW p \in Peers, NEW item \in pool[p] PROVE item \in Items
BY DEF Typed, TypeOK

\* QueueUserWorkItem.
LEMMA QueueTyped ==
  ASSUME Typed, NEW p \in Peers, NEW item \in Items, Queue(p, item)
  PROVE  /\ pool' \in [Peers -> SUBSET Items]
         /\ pool'[p] = pool[p] \cup {item}
         /\ \A q \in Peers : q # p => pool'[q] = pool[q]
BY DEF Typed, TypeOK, Queue

\* An item is done.
LEMMA DoneTyped ==
  ASSUME Typed, NEW p \in Peers, NEW item, NEW others \in SUBSET Items, Done(p, item, others)
  PROVE  /\ pool' \in [Peers -> SUBSET Items]
         /\ pool'[p] = (pool[p] \ {item}) \cup others
         /\ \A q \in Peers : q # p => pool'[q] = pool[q]
BY DEF Typed, TypeOK, Done

\* The variables other than responseHandlers and lastUniqueId are typed.
LEMMA TypedParts ==
  ASSUME HandlersTyped', lastUniqueId' \in [Peers -> Nat],
         pool' \in [Peers -> SUBSET Items],
         wire' \in [Peers -> Seq(Messages)],
         reader' \in [Peers -> {"handshake", "reading", "adding", "ended"}],
         held' \in [Peers -> Seq(Messages)],
         initialized' \in [Peers -> BOOLEAN],
         pendingRequests' \in [Peers -> Seq(Messages)],
         proxies' \in [Peers -> SUBSET {"lists", "resource"}],
         broken' \in BOOLEAN, made' \subseteq Requests, answered' \subseteq Requests
  PROVE  Typed'
BY DEF Typed, TypeOK, HandlersTyped

\* Every step is one of the actions.
LEMMA NextSteps ==
  ASSUME Next
  PROVE  \/ Break
         \/ \E p \in Peers :
              \/ Request(p) \/ ForwardRequest(p) \/ ServeRequest(p) \/ NotFound(p) \/ ForwardFails(p)
              \/ HandleOwnResponse(p) \/ ReturnResponse(p) \/ ProcessPendingRequests(p)
              \/ Initialize(p) \/ AddPendingRequest(p) \/ ReaderEnds(p)
              \/ \E m : ReadGet(p, m) \/ ReadRequest(p, m) \/ ReadResponse(p, m)
BY DEF Next, Broker, Reader, ReadMessage

\* Every action keeps the types.
LEMMA TypeStep == Typed /\ [Next]_vars => Typed'
<1> SUFFICES ASSUME Typed, [Next]_vars PROVE Typed'  OBVIOUS
<1>1. CASE UNCHANGED vars
  BY <1>1 DEF Typed, TypeOK, vars, brokerVars, processorVars, historyVars
<1>2. CASE Break
  <2>1. <<>> \in Seq(Messages)  BY EmptySeq
  <2> QED  BY <1>2, <2>1 DEF Break, Typed, TypeOK, brokerVars, processorVars, historyVars
<1>3. ASSUME NEW p \in Peers, Request(p) PROVE Typed'
  <2>1. PICK c \in Clients : made' = made \cup {[from |-> p, what |-> c]} /\ Queue(p, Own(p, c))
    BY <1>3 DEF Request
  <2>2. Own(p, c) \in Items /\ [from |-> p, what |-> c] \in Requests  BY OwnTyped
  <2>3. Created(p) /\ UNCHANGED <<responseHandlers, wire, reader, held, processorVars, broken, answered>>
    BY <1>3 DEF Request
  <2>4. HandlersTyped'  BY <2>3, CreatedTyped, HandlersKept
  <2> QED  BY <2>1, <2>2, <2>3, <2>4, CreatedTyped, QueueTyped, TypedParts DEF Typed, TypeOK, processorVars
<1>4. ASSUME NEW p \in Peers, ForwardRequest(p) PROVE Typed'
  <2>1. PICK item \in pool[p] :
          /\ item.task = "request" /\ Register(p, item)
          /\ Send(p, "request", lastUniqueId'[p], item.request) /\ Done(p, item, {})
    BY <1>4 DEF ForwardRequest, ForRemote
  <2>2. UNCHANGED <<reader, held, processorVars, broken, historyVars>>  BY <1>4 DEF ForwardRequest
  <2>3. item \in Items /\ item.request \in Requests  BY <2>1, PoolItem, RequestItem
  <2>4. HandlersTyped' /\ lastUniqueId' \in [Peers -> Nat]
    BY <2>1, <2>3, RegisterEffect DEF HandlersTyped
  <2>5. wire' \in [Peers -> Seq(Messages)]  BY <2>1, <2>3, <2>4, SendTyped
  <2>6. pool' \in [Peers -> SUBSET Items]  BY <2>1, DoneTyped
  <2> QED  BY <2>2, <2>4, <2>5, <2>6, TypedParts DEF Typed, TypeOK, processorVars, historyVars
<1>5. ASSUME NEW p \in Peers, ServeRequest(p) PROVE Typed'
  <2>1. PICK item \in pool[p] :
          /\ item.task = "request" /\ Register(p, item)
          /\ Done(p, item, {[task |-> "response", request |-> item.request, id |-> lastUniqueId'[p]]})
    BY <1>5 DEF ServeRequest
  <2>2. UNCHANGED <<wire, reader, held, processorVars, broken, historyVars>>  BY <1>5 DEF ServeRequest
  <2>3. item \in Items /\ item.request \in Requests  BY <2>1, PoolItem, RequestItem
  <2>4. HandlersTyped' /\ lastUniqueId' \in [Peers -> Nat]
    BY <2>1, <2>3, RegisterEffect DEF HandlersTyped
  <2>5. [task |-> "response", request |-> item.request, id |-> lastUniqueId'[p]] \in Items
    BY <2>3, <2>4 DEF Items
  <2>6. pool' \in [Peers -> SUBSET Items]  BY <2>1, <2>5, DoneTyped
  <2> QED  BY <2>2, <2>4, <2>6, TypedParts DEF Typed, TypeOK, processorVars, historyVars
<1>6. ASSUME NEW p \in Peers, NotFound(p) \/ ForwardFails(p) PROVE Typed'
  <2>1. PICK item \in pool[p] : item.task = "request" /\ Answer(p, item, FALSE)
    BY <1>6 DEF NotFound, ForwardFails, ForRemote
  <2>2. UNCHANGED <<responseHandlers, wire, reader, held, pendingRequests, broken>>
    BY <1>6 DEF NotFound, ForwardFails
  <2>3. item.request \in Requests  BY <2>1, PoolItem, RequestItem
  <2>4. HandlersTyped'  BY <2>1, <2>2, <2>3, AnswerTyped, HandlersKept
  <2> QED  BY <2>1, <2>2, <2>3, <2>4, AnswerTyped, TypedParts DEF Typed, TypeOK
<1>7. ASSUME NEW p \in Peers, HandleOwnResponse(p) PROVE Typed'
  <2>1. PICK item \in pool[p] :
          /\ Waiting(p, item) /\ Forget(p, item)
          /\ Answer(p, [item EXCEPT !.request = Entry(p, item).request], TRUE)
    BY <1>7 DEF HandleOwnResponse
  <2>2. UNCHANGED <<wire, reader, held, pendingRequests, broken>>  BY <1>7 DEF HandleOwnResponse
  <2> DEFINE item2 == [item EXCEPT !.request = Entry(p, item).request]
  <2>3. item2.request \in Requests
    <3>1. item \in Items  BY PoolItem
    <3>2. Entry(p, item).request \in Requests  BY <2>1, ForgetEffect DEF Entries
    <3> QED  BY <2>1, <3>1, <3>2 DEF Items, Waiting
  <2> HIDE DEF item2
  <2>4. /\ lastUniqueId' \in [Peers -> Nat]
        /\ \A q \in Peers : 1..lastUniqueId[q] \subseteq 1..lastUniqueId'[q]
        /\ pool' \in [Peers -> SUBSET Items]
        /\ initialized' \in [Peers -> BOOLEAN]
        /\ proxies' \in [Peers -> SUBSET {"lists", "resource"}]
        /\ made' \subseteq Requests /\ answered' \subseteq Requests
    BY <2>1, <2>3, AnswerTyped DEF item2
  <2>5. HandlersTyped'
    <3>1. /\ \A q \in Peers : q # p => responseHandlers'[q] = responseHandlers[q]
          /\ DOMAIN responseHandlers'[p] \subseteq DOMAIN responseHandlers[p]
          /\ \A i \in DOMAIN responseHandlers'[p] : responseHandlers'[p][i] = responseHandlers[p][i]
          /\ responseHandlers' = [q \in Peers |-> responseHandlers'[q]]
      BY <2>1, ForgetEffect
    <3>2. HandlersTyped  BY DEF Typed, TypeOK, HandlersTyped
    <3> QED  BY <3>1, <3>2, <2>4 DEF HandlersTyped
  <2> QED  BY <2>2, <2>4, <2>5, TypedParts DEF Typed, TypeOK
<1>8. ASSUME NEW p \in Peers, ReturnResponse(p) PROVE Typed'
  <2>1. PICK item \in pool[p] :
          /\ Waiting(p, item) /\ Forget(p, item)
          /\ Send(p, "response", Entry(p, item).externalId, item.request)
          /\ Done(p, item, {})
    BY <1>8 DEF ReturnResponse
  <2>2. UNCHANGED <<lastUniqueId, reader, held, processorVars, broken, historyVars>>
    BY <1>8 DEF ReturnResponse
  <2>3. item.request \in Requests  BY <2>1, PoolItem, ResponseItem DEF Waiting
  <2>4. Entry(p, item).externalId \in Nat  BY <2>1, ForgetEffect DEF Entries
  <2>5. wire' \in [Peers -> Seq(Messages)]  BY <2>1, <2>3, <2>4, SendTyped
  <2>6. pool' \in [Peers -> SUBSET Items]  BY <2>1, DoneTyped
  <2>7. HandlersTyped'
    <3>1. /\ \A q \in Peers : q # p => responseHandlers'[q] = responseHandlers[q]
          /\ DOMAIN responseHandlers'[p] \subseteq DOMAIN responseHandlers[p]
          /\ \A i \in DOMAIN responseHandlers'[p] : responseHandlers'[p][i] = responseHandlers[p][i]
          /\ responseHandlers' = [q \in Peers |-> responseHandlers'[q]]
      BY <2>1, ForgetEffect
    <3>2. HandlersTyped  BY DEF Typed, TypeOK, HandlersTyped
    <3> QED  BY <3>1, <3>2, <2>2 DEF HandlersTyped
  <2> QED  BY <2>2, <2>5, <2>6, <2>7, TypedParts DEF Typed, TypeOK, processorVars, historyVars
<1>9. ASSUME NEW p \in Peers, ProcessPendingRequests(p) PROVE Typed'
  <2> DEFINE flushed == {Received(pendingRequests[p][i]) : i \in 1..Len(pendingRequests[p])}
  <2>1. PICK item \in pool[p] : Done(p, item, flushed)
    BY <1>9 DEF ProcessPendingRequests
  <2>2. /\ pendingRequests' = [pendingRequests EXCEPT ![p] = <<>>]
        /\ UNCHANGED <<brokerVars, wire, reader, held, initialized, proxies, broken, historyVars>>
    BY <1>9 DEF ProcessPendingRequests
  <2>3. flushed \in SUBSET Items
    <3>1. \A i \in 1..Len(pendingRequests[p]) : pendingRequests[p][i] \in Messages
      BY AmongMessages DEF Among
    <3> QED  BY <3>1, ReceivedTyped
  <2>4. pool' \in [Peers -> SUBSET Items]  BY <2>1, <2>3, DoneTyped
  <2>5. pendingRequests' \in [Peers -> Seq(Messages)]
    <3>1. <<>> \in Seq(Messages)  BY EmptySeq
    <3> QED  BY <2>2, <3>1 DEF Typed, TypeOK
  <2> QED  BY <2>2, <2>4, <2>5 DEF Typed, TypeOK, brokerVars, historyVars
<1>10. ASSUME NEW p \in Peers, Initialize(p) PROVE Typed'
  <2>1. "getResources" \in Gets  BY DEF Gets
  <2>2. Own(p, "getResources") \in Items /\ [from |-> p, what |-> "getResources"] \in Requests
    BY <2>1, OwnTyped
  <2>3. Created(p) /\ UNCHANGED <<responseHandlers, wire, held, initialized, pendingRequests, broken, answered>>
    BY <1>10 DEF Initialize
  <2>4. HandlersTyped'  BY <2>3, CreatedTyped, HandlersKept
  <2>5. pool' \in [Peers -> SUBSET Items]  BY <1>10, <2>2 DEF Initialize, Typed, TypeOK
  <2>6. /\ proxies' \in [Peers -> SUBSET {"lists", "resource"}]
        /\ reader' \in [Peers -> {"handshake", "reading", "adding", "ended"}]
        /\ made' \subseteq Requests
    BY <1>10, <2>2 DEF Initialize, Typed, TypeOK
  <2> QED  BY <2>3, <2>4, <2>5, <2>6, CreatedTyped, TypedParts DEF Typed, TypeOK
<1>11. ASSUME NEW p \in Peers, AddPendingRequest(p) PROVE Typed'
  <2>1. /\ pendingRequests \in [Peers -> Seq(Messages)] /\ held \in [Peers -> Seq(Messages)]
        /\ <<>> \in Seq(Messages)
    BY EmptySeq DEF Typed, TypeOK
  <2>2. pendingRequests[p] \o held[p] \in Seq(Messages)  BY <2>1, AmongConcat
  <2>3. pendingRequests' \in [Peers -> Seq(Messages)] /\ held' \in [Peers -> Seq(Messages)]
    BY <1>11, <2>1, <2>2 DEF AddPendingRequest
  <2> QED  BY <1>11, <2>3 DEF AddPendingRequest, Typed, TypeOK, brokerVars, historyVars
<1>12. ASSUME NEW p \in Peers, ReaderEnds(p) PROVE Typed'
  BY <1>12 DEF ReaderEnds, Typed, TypeOK, brokerVars, historyVars
<1>13. ASSUME NEW p \in Peers, NEW m, ReadGet(p, m) PROVE Typed'
  <2>1. Reads(p, m) /\ Take(p) /\ Queue(p, Received(m))  BY <1>13 DEF ReadGet
  <2>2. wire' \in [Peers -> Seq(Messages)] /\ Received(m) \in Items
    BY <2>1, TakeTyped, ReceivedTyped
  <2>3. pool' \in [Peers -> SUBSET Items]  BY <2>1, <2>2, QueueTyped
  <2> QED  BY <1>13, <2>2, <2>3 DEF ReadGet, Typed, TypeOK, brokerVars, processorVars, historyVars
<1>14. ASSUME NEW p \in Peers, NEW m, ReadRequest(p, m) PROVE Typed'
  <2>1. Reads(p, m) /\ Take(p) /\ UNCHANGED <<brokerVars, processorVars, broken, historyVars>>
    BY <1>14 DEF ReadRequest
  <2>2. wire' \in [Peers -> Seq(Messages)] /\ Received(m) \in Items /\ m \in Messages
    BY <2>1, TakeTyped, ReceivedTyped
  <2>3. CASE initialized[p]
    <3>1. Queue(p, Received(m)) /\ UNCHANGED <<reader, held>>  BY <1>14, <2>3 DEF ReadRequest
    <3>2. pool' \in [Peers -> SUBSET Items]  BY <3>1, <2>2, QueueTyped
    <3> QED  BY <2>1, <2>2, <3>1, <3>2 DEF Typed, TypeOK, brokerVars, processorVars, historyVars
  <2>4. CASE ~initialized[p]
    <3>1. /\ reader' = [reader EXCEPT ![p] = "adding"]
          /\ held' = [held EXCEPT ![p] = <<m>>] /\ pool' = pool
      BY <1>14, <2>4 DEF ReadRequest
    <3>2. <<m>> \in Seq(Messages)  BY <2>2
    <3>3. held' \in [Peers -> Seq(Messages)]  BY <3>1, <3>2 DEF Typed, TypeOK
    <3> QED  BY <2>1, <2>2, <3>1, <3>3 DEF Typed, TypeOK, brokerVars, processorVars, historyVars
  <2> QED  BY <2>3, <2>4
<1>15. ASSUME NEW p \in Peers, NEW m, ReadResponse(p, m) PROVE Typed'
  <2> DEFINE item == [task |-> "response", request |-> m.request, id |-> m.id]
  <2>1. Reads(p, m) /\ Take(p) /\ Queue(p, item)  BY <1>15 DEF ReadResponse
  <2>2. wire' \in [Peers -> Seq(Messages)] /\ item \in Items
    BY <2>1, TakeTyped DEF Items
  <2>3. pool' \in [Peers -> SUBSET Items]  BY <2>1, <2>2, QueueTyped
  <2> QED  BY <1>15, <2>2, <2>3 DEF ReadResponse, Typed, TypeOK, brokerVars, processorVars, historyVars
<1> QED
  BY <1>1, <1>2, <1>3, <1>4, <1>5, <1>6, <1>7, <1>8, <1>9, <1>10, <1>11, <1>12, <1>13, <1>14, <1>15,
     NextSteps

\* What is on the pipe, in the pool and registered has its type.
THEOREM TypeCorrect == Spec => []TypeOK
<1>1. Init => Typed  BY InitTyped
<1>2. Typed /\ [Next]_vars => Typed'  BY TypeStep
<1>3. Typed => TypeOK  BY DEF Typed
<1> QED  BY <1>1, <1>2, <1>3, PTL DEF Spec

-----------------------------------------------------------------------------
(* Every response meets its request *)

\* What is at each place, q being the other peer.
AtPlaces(p, q, t) ==
  /\ t \in Tokens(p, "asked") <=> \E m \in Among(wire[q]) : m.type = "request" /\ t = Token(m.id, m.request)
  /\ t \in Tokens(p, "queued") <=>
       \E x \in pool[q] : x.task = "request" /\ x.handler = "adapter" /\ t = Token(x.id, x.request)
  /\ t \in Tokens(p, "held") <=> \E m \in Among(held[q]) : m.type = "request" /\ t = Token(m.id, m.request)
  /\ t \in Tokens(p, "kept") <=>
       \E m \in Among(pendingRequests[q]) : m.type = "request" /\ t = Token(m.id, m.request)
  /\ t \in Tokens(p, "served") <=>
       \E j \in DOMAIN responseHandlers[q] :
         /\ responseHandlers[q][j].handler = "adapter"
         /\ t = Token(responseHandlers[q][j].externalId, responseHandlers[q][j].request)
  /\ t \in Tokens(p, "returning") <=>
       \E m \in Among(wire[p]) : m.type = "response" /\ t = Token(m.id, m.request)
  /\ t \in Tokens(p, "back") <=> \E x \in pool[p] : x.task = "response" /\ t = Token(x.id, x.request)

\* Tokens spelled out, before and after a step.
LEMMA InTokens ==
  ASSUME NEW p \in Peers, NEW q \in Peers, q = Other(p)
  PROVE  \A t : AtPlaces(p, q, t) /\ AtPlaces(p, q, t)'
<1> TAKE t
<1>1. AtPlaces(p, q, t)  BY DEF AtPlaces, Tokens, MessageTokens
<1>2. AtPlaces(p, q, t)'  BY DEF AtPlaces, Tokens, MessageTokens
<1> QED  BY <1>1, <1>2

\* No place gains a token.
LEMMA TokensLost ==
  ASSUME NEW p \in Peers, Matches(p), Apart(p),
         \A c \in PlaceNames : Tokens(p, c)' \subseteq Tokens(p, c),
         \A i \in DOMAIN responseHandlers[p] :
           i \in DOMAIN responseHandlers'[p] /\ responseHandlers'[p][i] = responseHandlers[p][i]
  PROVE  Matches(p)' /\ Apart(p)'
<1>1. Matches(p)'  BY DEF Matches, Match
<1>2. Apart(p)'  BY DEF Apart
<1> QED  BY <1>1, <1>2

\* An id is forgotten that is at no place any more.
LEMMA TokenForgotten ==
  ASSUME NEW p \in Peers, Matches(p), Apart(p), NEW id,
         \A c \in PlaceNames : Tokens(p, c)' \subseteq Tokens(p, c),
         \A c \in PlaceNames : \A t \in Tokens(p, c)' : t.id # id,
         \A i \in (DOMAIN responseHandlers[p]) \ {id} :
           i \in DOMAIN responseHandlers'[p] /\ responseHandlers'[p][i] = responseHandlers[p][i]
  PROVE  Matches(p)' /\ Apart(p)'
<1>1. Matches(p)'
  <2> SUFFICES ASSUME NEW c \in PlaceNames, NEW t \in Tokens(p, c)' PROVE Match(p, c, t)'
    BY DEF Matches
  <2>1. Match(p, c, t) /\ t.id # id  BY DEF Matches
  <2> QED  BY <2>1 DEF Match
<1>2. Apart(p)'  BY DEF Apart
<1> QED  BY <1>1, <1>2

\* One place gains one token, of an id that is at no other place.
LEMMA TokenGained ==
  ASSUME NEW p \in Peers, Matches(p), Apart(p), NEW b \in PlaceNames, NEW u,
         \A c \in PlaceNames : c # b => Tokens(p, c)' \subseteq Tokens(p, c),
         Tokens(p, b)' \subseteq Tokens(p, b) \cup {u},
         Match(p, b, u)',
         \A c \in PlaceNames : c # b => \A t \in Tokens(p, c)' : t.id # u.id,
         \A i \in DOMAIN responseHandlers[p] :
           i \in DOMAIN responseHandlers'[p] /\ responseHandlers'[p][i] = responseHandlers[p][i]
  PROVE  Matches(p)' /\ Apart(p)'
<1>1. Matches(p)'
  <2> SUFFICES ASSUME NEW c \in PlaceNames, NEW t \in Tokens(p, c)' PROVE Match(p, c, t)'
    BY DEF Matches
  <2>1. CASE t \in Tokens(p, c)
    <3>1. Match(p, c, t)  BY <2>1 DEF Matches
    <3> QED  BY <3>1 DEF Match
  <2>2. CASE t \notin Tokens(p, c)
    <3>1. c = b /\ t = u  BY <2>2
    <3> QED  BY <3>1
  <2> QED  BY <2>1, <2>2
<1>2. Apart(p)'
  <2> SUFFICES ASSUME NEW c \in PlaceNames, NEW d \in PlaceNames, c # d,
                      NEW t \in Tokens(p, c)', NEW w \in Tokens(p, d)'
               PROVE  t.id # w.id
    BY DEF Apart
  <2>1. CASE t \in Tokens(p, c) /\ w \in Tokens(p, d)  BY <2>1 DEF Apart
  <2>2. CASE t \notin Tokens(p, c)
    <3>1. c = b /\ t = u  BY <2>2
    <3> QED  BY <3>1
  <2>3. CASE w \notin Tokens(p, d)
    <3>1. d = b /\ w = u  BY <2>3
    <3> QED  BY <3>1
  <2> QED  BY <2>1, <2>2, <2>3
<1> QED  BY <1>1, <1>2

\* All the tokens of the place a pass to the place b.
LEMMA TokensPass ==
  ASSUME NEW p \in Peers, Matches(p), Apart(p), responseHandlers' = responseHandlers,
         NEW a \in PlaceNames, NEW b \in PlaceNames, a # "back",
         \A c \in PlaceNames : c # b => Tokens(p, c)' \subseteq Tokens(p, c),
         Tokens(p, a)' = {},
         Tokens(p, b)' \subseteq Tokens(p, b) \cup Tokens(p, a)
  PROVE  Matches(p)' /\ Apart(p)'
<1>1. Matches(p)'
  <2> SUFFICES ASSUME NEW c \in PlaceNames, NEW t \in Tokens(p, c)' PROVE Match(p, c, t)'
    BY DEF Matches
  <2>1. CASE t \in Tokens(p, c)
    <3>1. Match(p, c, t)  BY <2>1 DEF Matches
    <3> QED  BY <3>1 DEF Match
  <2>2. CASE t \notin Tokens(p, c)
    <3>1. Match(p, a, t)  BY <2>2 DEF Matches
    <3> QED  BY <3>1 DEF Match
  <2> QED  BY <2>1, <2>2
<1>2. Apart(p)'
  <2> SUFFICES ASSUME NEW c \in PlaceNames, NEW d \in PlaceNames, c # d,
                      NEW t \in Tokens(p, c)', NEW w \in Tokens(p, d)'
               PROVE  t.id # w.id
    BY DEF Apart
  <2>1. c # a /\ d # a  OBVIOUS
  <2>2. CASE t \in Tokens(p, c) /\ w \in Tokens(p, d)  BY <2>2 DEF Apart
  <2>3. CASE t \notin Tokens(p, c)
    <3>1. c = b /\ t \in Tokens(p, a) /\ w \in Tokens(p, d)  BY <2>3
    <3> QED  BY <2>1, <3>1 DEF Apart
  <2>4. CASE w \notin Tokens(p, d)
    <3>1. d = b /\ w \in Tokens(p, a) /\ t \in Tokens(p, c)  BY <2>4
    <3> QED  BY <2>1, <3>1 DEF Apart
  <2> QED  BY <2>2, <2>3, <2>4
<1> QED  BY <1>1, <1>2

\* Places to which nothing is added.
LEMMA TokensKept ==
  ASSUME NEW p \in Peers, NEW q \in Peers, q = Other(p)
  PROVE
    /\ (\A m \in Among(wire'[q]) : m.type = "request" => m \in Among(wire[q]))
         => Tokens(p, "asked")' \subseteq Tokens(p, "asked")
    /\ (\A x \in pool'[q] : x.task = "request" /\ x.handler = "adapter" => x \in pool[q])
         => Tokens(p, "queued")' \subseteq Tokens(p, "queued")
    /\ Among(held'[q]) \subseteq Among(held[q]) => Tokens(p, "held")' \subseteq Tokens(p, "held")
    /\ Among(pendingRequests'[q]) \subseteq Among(pendingRequests[q])
         => Tokens(p, "kept")' \subseteq Tokens(p, "kept")
    /\ (\A j \in DOMAIN responseHandlers'[q] : responseHandlers'[q][j].handler = "adapter" =>
           j \in DOMAIN responseHandlers[q] /\ responseHandlers'[q][j] = responseHandlers[q][j])
         => Tokens(p, "served")' \subseteq Tokens(p, "served")
    /\ (\A m \in Among(wire'[p]) : m.type = "response" => m \in Among(wire[p]))
         => Tokens(p, "returning")' \subseteq Tokens(p, "returning")
    /\ (\A x \in pool'[p] : x.task = "response" => x \in pool[p])
         => Tokens(p, "back")' \subseteq Tokens(p, "back")
<1>1. \A t : AtPlaces(p, q, t) /\ AtPlaces(p, q, t)'  BY InTokens
<1> QED  BY <1>1 DEF AtPlaces

\* Steps that touch none of the tokens, but lose some of them.
LEMMA ChainKept ==
  ASSUME Typed, Chain,
         responseHandlers' = responseHandlers, held' = held, pendingRequests' = pendingRequests,
         \A p \in Peers : wire'[p] = wire[p] \/ wire'[p] = <<>>,
         \A p \in Peers : \A x \in pool'[p] :
           \/ x \in pool[p] \/ x.task = "flush"
           \/ x.task = "request" /\ x.handler = "client" /\ x.request.from = p
  PROVE  Chain'
<1> SUFFICES ASSUME NEW p \in Peers
             PROVE  Matches(p)' /\ Apart(p)' /\ ServedOnce(p)' /\ Distinct(wire[p])' /\ Directed(p)'
  BY DEF Chain
<1> DEFINE q == Other(p)
<1>1. q \in Peers  BY TwoPeers
<1>2. Among(wire'[p]) \subseteq Among(wire[p]) /\ Among(wire'[q]) \subseteq Among(wire[q])
  BY <1>1, AmongEmpty
<1>3. \A c \in PlaceNames : Tokens(p, c)' \subseteq Tokens(p, c)
  BY <1>1, <1>2, TokensKept DEF PlaceNames
<1>4. Matches(p)' /\ Apart(p)'
  <2>1. Matches(p) /\ Apart(p)  BY DEF Chain
  <2> QED  BY <1>3, <2>1, TokensLost
<1>5. ServedOnce(p)'  BY DEF Chain, ServedOnce
<1>6. Distinct(wire[p])'  BY AmongEmpty DEF Chain
<1>7. Directed(p)'  BY DEF Chain, Directed
<1> QED  BY <1>4, <1>5, <1>6, <1>7

\* An id that is at a place is registered.
LEMMA TokenRegistered ==
  ASSUME Chain, NEW p \in Peers, NEW c \in PlaceNames, NEW t \in Tokens(p, c)
  PROVE  Match(p, c, t)
BY DEF Chain, Matches

\* A request goes to the remote: its new id is at the place "asked", and nowhere else.
LEMMA ForwardChain == ASSUME Typed, Chain, NEW x \in Peers, ForwardRequest(x) PROVE Chain'
<1> PICK y : y = Other(x)  OBVIOUS
<1> PICK n : n = lastUniqueId[x] + 1  OBVIOUS
<1>1. y \in Peers /\ y # x /\ Other(y) = x /\ \A p \in Peers : p = x \/ p = y  BY TwoPeers
<1>2. PICK item \in pool[x] :
        /\ item.task = "request" /\ item.request.from = x /\ Register(x, item)
        /\ Send(x, "request", lastUniqueId'[x], item.request) /\ Done(x, item, {})
  BY DEF ForwardRequest, ForRemote
<1>3. held' = held /\ pendingRequests' = pendingRequests  BY DEF ForwardRequest, processorVars
<1>4. /\ item \in Items /\ item.request \in Requests /\ item.handler = "client"
  BY <1>2, PoolItem, RequestItem DEF Chain, Directed
<1>5. /\ n \in Nat /\ n \notin DOMAIN responseHandlers[x] /\ lastUniqueId'[x] = n
      /\ DOMAIN responseHandlers'[x] = (DOMAIN responseHandlers[x]) \cup {n}
      /\ \A i \in DOMAIN responseHandlers[x] : responseHandlers'[x][i] = responseHandlers[x][i]
      /\ responseHandlers'[x][n].request = item.request /\ responseHandlers'[x][n].handler = "client"
      /\ responseHandlers'[y] = responseHandlers[y]
  <2>1. Register(x, item) /\ item.task = "request" /\ item \in Items  BY <1>2, <1>4
  <2>2. /\ n \in Nat /\ n \notin DOMAIN responseHandlers[x] /\ lastUniqueId'[x] = n
        /\ DOMAIN responseHandlers'[x] = (DOMAIN responseHandlers[x]) \cup {n}
        /\ \A i \in DOMAIN responseHandlers[x] : responseHandlers'[x][i] = responseHandlers[x][i]
        /\ responseHandlers'[x][n] =
             [request |-> item.request, externalId |-> item.id, handler |-> item.handler]
        /\ \A q \in Peers : q # x => responseHandlers'[q] = responseHandlers[q]
    BY <2>1, RegisterEffect
  <2> QED  BY <1>1, <1>4, <2>2
<1>6. pool'[x] = pool[x] \ {item} /\ pool'[y] = pool[y]  BY <1>1, <1>2, DoneTyped
<1> PICK m : m = [type |-> "request", id |-> n, request |-> item.request]  OBVIOUS
<1>7. m \in Messages /\ m.type = "request" /\ m.id = n /\ m.request = item.request
  BY <1>4, <1>5 DEF Messages
<1>8. /\ wire'[x] = wire[x] /\ wire'[y] \in {wire[y], Append(wire[y], m)}
      /\ wire[y] \in Seq(Messages)
  BY <1>1, <1>2, <1>5 DEF Send, Typed, TypeOK
<1>9. /\ Among(wire'[y]) \subseteq Among(wire[y]) \cup {m}
      /\ m \notin Among(wire[y]) /\ Distinct(wire[y]) => Distinct(wire'[y])
  <2>1. CASE wire'[y] = wire[y]  BY <2>1
  <2>2. CASE wire'[y] = Append(wire[y], m)  BY <1>7, <1>8, <2>2, AmongAppend
  <2> QED  BY <1>8, <2>1, <2>2
<1>10. \A c \in PlaceNames : c # "asked" => Tokens(x, c)' \subseteq Tokens(x, c)
  BY <1>1, <1>3, <1>5, <1>6, <1>8, TokensKept DEF PlaceNames
<1>11. Tokens(x, "asked")' \subseteq Tokens(x, "asked") \cup {Token(n, item.request)}
  <2>1. \A t : AtPlaces(x, y, t) /\ AtPlaces(x, y, t)'  BY <1>1, InTokens
  <2> QED  BY <1>7, <1>9, <2>1 DEF AtPlaces
<1>12. \A c \in PlaceNames : \A t \in Tokens(x, c) : t.id # n  BY <1>5, TokenRegistered DEF Match
<1>13. Matches(x)' /\ Apart(x)'
  <2>1. "asked" \in PlaceNames  BY DEF PlaceNames
  <2>2. Token(n, item.request).id = n /\ Token(n, item.request).request = item.request  BY DEF Token
  <2>3. Match(x, "asked", Token(n, item.request))'  BY <1>5, <2>2 DEF Match
  <2>4. \A c \in PlaceNames : c # "asked" =>
          \A t \in Tokens(x, c)' : t.id # Token(n, item.request).id
    BY <1>10, <1>12, <2>2
  <2>5. Matches(x) /\ Apart(x)  BY DEF Chain
  <2> QED  BY <1>5, <1>10, <1>11, <2>1, <2>3, <2>4, <2>5, TokenGained
<1>14. Matches(y)' /\ Apart(y)'
  <2>1. \A k \in Among(wire'[y]) : k.type = "response" => k \in Among(wire[y])  BY <1>7, <1>9
  <2>2. \A j \in DOMAIN responseHandlers'[x] : responseHandlers'[x][j].handler = "adapter" =>
           j \in DOMAIN responseHandlers[x] /\ responseHandlers'[x][j] = responseHandlers[x][j]
    BY <1>5
  <2>3. \A c \in PlaceNames : Tokens(y, c)' \subseteq Tokens(y, c)
    BY <1>1, <1>3, <1>5, <1>6, <1>8, <2>1, <2>2, TokensKept DEF PlaceNames
  <2>4. Matches(y) /\ Apart(y)  BY <1>1 DEF Chain
  <2> QED  BY <1>1, <1>5, <2>3, <2>4, TokensLost
<1>15. \A p \in Peers : ServedOnce(p)'
  <2>1. ServedOnce(x) /\ ServedOnce(y)  BY <1>1 DEF Chain
  <2>2. ServedOnce(x)'  BY <1>5, <2>1 DEF ServedOnce
  <2>3. ServedOnce(y)'  BY <1>5, <2>1 DEF ServedOnce
  <2> QED  BY <1>1, <2>2, <2>3
<1>16. \A p \in Peers : Distinct(wire[p])'
  <2>1. m \notin Among(wire[y])
    <3>1. \A t : AtPlaces(x, y, t)  BY <1>1, InTokens
    <3>2. SUFFICES ASSUME m \in Among(wire[y]) PROVE FALSE  OBVIOUS
    <3>3. Token(n, item.request) \in Tokens(x, "asked")  BY <1>7, <3>1, <3>2 DEF AtPlaces
    <3>4. "asked" \in PlaceNames  BY DEF PlaceNames
    <3> QED  BY <1>12, <3>3, <3>4 DEF Token
  <2> QED  BY <1>1, <1>8, <1>9, <2>1 DEF Chain
<1>17. \A p \in Peers : Directed(p)'
  <2>1. Directed(x) /\ Directed(y)  BY <1>1 DEF Chain
  <2>2. Directed(x)'  BY <1>2, <1>3, <1>5, <1>6, <2>1 DEF Directed
  <2>3. Directed(y)'  BY <1>3, <1>5, <1>6, <2>1 DEF Directed
  <2> QED  BY <1>1, <2>2, <2>3
<1> QED  BY <1>1, <1>13, <1>14, <1>15, <1>16, <1>17 DEF Chain

\* A request of the remote is given to the provider: its id passes from "queued" to "served".
LEMMA ServeChain == ASSUME Typed, Chain, NEW x \in Peers, ServeRequest(x) PROVE Chain'
<1> PICK y : y = Other(x)  OBVIOUS
<1> PICK n : n = lastUniqueId[x] + 1  OBVIOUS
<1>1. y \in Peers /\ y # x /\ Other(y) = x /\ \A p \in Peers : p = x \/ p = y  BY TwoPeers
<1>2. PICK item \in pool[x] :
        /\ item.task = "request" /\ item.request.from # x /\ Register(x, item)
        /\ Done(x, item, {[task |-> "response", request |-> item.request, id |-> lastUniqueId'[x]]})
  BY DEF ServeRequest
<1>3. held' = held /\ pendingRequests' = pendingRequests /\ wire' = wire
  BY DEF ServeRequest, processorVars
<1>4. /\ item \in Items /\ item.request \in Requests /\ item.handler = "adapter" /\ item.id \in Nat
  BY <1>2, PoolItem, RequestItem DEF Chain, Directed
<1>5. /\ n \in Nat /\ n \notin DOMAIN responseHandlers[x] /\ lastUniqueId'[x] = n
      /\ DOMAIN responseHandlers'[x] = (DOMAIN responseHandlers[x]) \cup {n}
      /\ \A i \in DOMAIN responseHandlers[x] : responseHandlers'[x][i] = responseHandlers[x][i]
      /\ responseHandlers'[x][n].request = item.request /\ responseHandlers'[x][n].handler = "adapter"
      /\ responseHandlers'[x][n].externalId = item.id
      /\ responseHandlers'[y] = responseHandlers[y]
  <2>1. Register(x, item) /\ item.task = "request" /\ item \in Items  BY <1>2, <1>4
  <2>2. /\ n \in Nat /\ n \notin DOMAIN responseHandlers[x] /\ lastUniqueId'[x] = n
        /\ DOMAIN responseHandlers'[x] = (DOMAIN responseHandlers[x]) \cup {n}
        /\ \A i \in DOMAIN responseHandlers[x] : responseHandlers'[x][i] = responseHandlers[x][i]
        /\ responseHandlers'[x][n] =
             [request |-> item.request, externalId |-> item.id, handler |-> item.handler]
        /\ \A q \in Peers : q # x => responseHandlers'[q] = responseHandlers[q]
    BY <2>1, RegisterEffect
  <2> QED  BY <1>1, <1>4, <2>2
<1> PICK answer : answer = [task |-> "response", request |-> item.request, id |-> n]  OBVIOUS
<1>6. pool'[x] = (pool[x] \ {item}) \cup {answer} /\ pool'[y] = pool[y]
  <2>1. answer \in Items  BY <1>4, <1>5 DEF Items
  <2> QED  BY <1>1, <1>2, <1>5, <2>1, DoneTyped
<1>7. answer.task = "response" /\ answer.id = n /\ answer.request = item.request  OBVIOUS
<1>8. \A t : AtPlaces(x, y, t) /\ AtPlaces(x, y, t)' /\ AtPlaces(y, x, t) /\ AtPlaces(y, x, t)'
  BY <1>1, InTokens
<1>9. Matches(x)' /\ Apart(x)'
  <2>1. \A c \in PlaceNames : c # "back" => Tokens(x, c)' \subseteq Tokens(x, c)
    BY <1>1, <1>3, <1>5, <1>6, TokensKept DEF PlaceNames
  <2>2. Tokens(x, "back")' \subseteq Tokens(x, "back") \cup {Token(n, item.request)}
    BY <1>6, <1>7, <1>8 DEF AtPlaces
  <2>3. \A c \in PlaceNames : \A t \in Tokens(x, c) : t.id # n  BY <1>5, TokenRegistered DEF Match
  <2>4. "back" \in PlaceNames  BY DEF PlaceNames
  <2>5. Token(n, item.request).id = n /\ Token(n, item.request).request = item.request  BY DEF Token
  <2>6. Match(x, "back", Token(n, item.request))'  BY <1>5, <2>5 DEF Match
  <2>7. \A c \in PlaceNames : c # "back" =>
          \A t \in Tokens(x, c)' : t.id # Token(n, item.request).id
    BY <2>1, <2>3, <2>5
  <2>8. Matches(x) /\ Apart(x)  BY DEF Chain
  <2> QED  BY <1>5, <2>1, <2>2, <2>4, <2>6, <2>7, <2>8, TokenGained
<1> DEFINE u == Token(item.id, item.request)
<1>10. u \in Tokens(y, "queued")  BY <1>2, <1>4, <1>8 DEF AtPlaces
<1>11. u.id = item.id /\ u.request = item.request  BY DEF Token
<1>12. "queued" \in PlaceNames /\ "served" \in PlaceNames  BY DEF PlaceNames
<1> HIDE DEF u
<1>13. Matches(y)' /\ Apart(y)'
  <2>1. \A c \in PlaceNames : c # "served" => Tokens(y, c)' \subseteq Tokens(y, c)
    <3>1. \A k \in pool'[x] : k.task = "request" => k \in pool[x]  BY <1>6, <1>7
    <3> QED  BY <1>1, <1>3, <1>5, <1>6, <3>1, TokensKept DEF PlaceNames
  <2>2. Tokens(y, "served")' \subseteq Tokens(y, "served") \cup {u}
    BY <1>5, <1>8 DEF AtPlaces, u
  <2>3. Match(y, "served", u)'
    <3>1. Match(y, "queued", u)  BY <1>1, <1>10, <1>12, TokenRegistered
    <3> QED  BY <1>5, <3>1 DEF Match
  <2>4. \A c \in PlaceNames : c # "served" => \A t \in Tokens(y, c)' : t.id # u.id
    <3> SUFFICES ASSUME NEW c \in PlaceNames, c # "served", NEW t \in Tokens(y, c)' PROVE t.id # u.id
      OBVIOUS
    <3>1. t \in Tokens(y, c)  BY <2>1
    <3>2. CASE c # "queued"
      BY <1>1, <1>10, <1>12, <3>1, <3>2 DEF Chain, Apart
    <3>3. CASE c = "queued"
      <4>1. PICK k \in pool'[x] : k.task = "request" /\ k.handler = "adapter" /\ t = Token(k.id, k.request)
        BY <1>8, <3>3 DEF AtPlaces
      <4>2. k \in pool[x] /\ k # item  BY <1>6, <1>7, <4>1
      <4>3. SUFFICES ASSUME t.id = u.id PROVE FALSE  OBVIOUS
      <4>4. k.id = item.id  BY <4>1, <4>3, <1>11 DEF Token
      <4>5. Match(y, "queued", t) /\ Match(y, "queued", u)
        BY <1>1, <1>10, <1>12, <3>1, <3>3, TokenRegistered
      <4>6. t.request = u.request  BY <4>3, <4>5 DEF Match
      <4>7. k.request = item.request  BY <4>1, <4>6, <1>11 DEF Token
      <4>8. k \in Items  BY <4>2, PoolItem
      <4> QED  BY <1>2, <1>4, <4>1, <4>2, <4>4, <4>7, <4>8 DEF Items
    <3> QED  BY <3>2, <3>3
  <2>5. Matches(y) /\ Apart(y)  BY <1>1 DEF Chain
  <2> QED  BY <1>1, <1>5, <1>12, <2>1, <2>2, <2>3, <2>4, <2>5, TokenGained
<1>14. \A p \in Peers : ServedOnce(p)'
  <2>1. ServedOnce(x) /\ ServedOnce(y)  BY <1>1 DEF Chain
  <2>2. ASSUME NEW i \in DOMAIN responseHandlers[x], responseHandlers[x][i].handler = "adapter"
        PROVE  responseHandlers[x][i].externalId # item.id
    <3>1. Token(responseHandlers[x][i].externalId, responseHandlers[x][i].request) \in Tokens(y, "served")
      BY <1>8, <2>2 DEF AtPlaces
    <3>2. Token(responseHandlers[x][i].externalId, responseHandlers[x][i].request).id # u.id
      BY <1>1, <1>10, <1>12, <3>1 DEF Chain, Apart
    <3> QED  BY <3>2, <1>11 DEF Token
  <2>3. ServedOnce(x)'  BY <1>5, <2>1, <2>2 DEF ServedOnce
  <2>4. ServedOnce(y)'  BY <1>5, <2>1 DEF ServedOnce
  <2> QED  BY <1>1, <2>3, <2>4
<1>15. \A p \in Peers : Directed(p)'
  <2>1. Directed(x) /\ Directed(y)  BY <1>1 DEF Chain
  <2>2. Directed(x)'  BY <1>2, <1>3, <1>5, <1>6, <1>7, <2>1 DEF Directed
  <2>3. Directed(y)'  BY <1>3, <1>5, <1>6, <2>1 DEF Directed
  <2> QED  BY <1>1, <2>2, <2>3
<1> QED  BY <1>1, <1>3, <1>9, <1>13, <1>14, <1>15 DEF Chain

\* What the call of a response handler leaves in the pool.
LEMMA AnswerPool ==
  ASSUME Typed, NEW p \in Peers, NEW item, NEW found \in BOOLEAN, Answer(p, item, found)
  PROVE  /\ \A z \in pool'[p] :
              \/ z \in pool[p] /\ z # item
              \/ z.task = "flush"
              \/ z.task = "request" /\ z.handler = "client" /\ z.request.from = p
         /\ \A q \in Peers : q # p => pool'[q] = pool[q]
<1> DEFINE own == Own(p, "getSubscriptions")
           flush == [task |-> "flush"]
<1>1. own.task = "request" /\ own.handler = "client" /\ own.request.from = p  BY DEF Own
<1>2. flush.task = "flush"  OBVIOUS
<1> HIDE DEF own, flush
<1>3. PICK others \in SUBSET {own, flush} : pool' = [pool EXCEPT ![p] = (@ \ {item}) \cup others]
  BY DEF Answer, Done, own, flush
<1>4. /\ pool'[p] = (pool[p] \ {item}) \cup others
      /\ \A q \in Peers : q # p => pool'[q] = pool[q]
  BY <1>3 DEF Typed, TypeOK
<1> QED  BY <1>1, <1>2, <1>4

\* Two responses in the pool of x with one id are the same item.
LEMMA OneResponse ==
  ASSUME Typed, Chain, NEW x \in Peers, NEW a \in pool[x], NEW b \in pool[x],
         a.task = "response", b.task = "response", a.id = b.id
  PROVE  a = b
<1>1. Other(x) \in Peers /\ "back" \in PlaceNames  BY TwoPeers DEF PlaceNames
<1>2. \A t : AtPlaces(x, Other(x), t)  BY <1>1, InTokens
<1>3. Token(a.id, a.request) \in Tokens(x, "back") /\ Token(b.id, b.request) \in Tokens(x, "back")
  BY <1>2 DEF AtPlaces
<1>4. /\ Match(x, "back", Token(a.id, a.request))
      /\ Match(x, "back", Token(b.id, b.request))
  BY <1>1, <1>3, TokenRegistered
<1>5. a.request = b.request  BY <1>4 DEF Match, Token
<1>6. a \in Items /\ b \in Items  BY PoolItem
<1> QED  BY <1>5, <1>6 DEF Items

\* The response of a request of this peer: its id is forgotten.
LEMMA HandleOwnChain == ASSUME Typed, Chain, NEW x \in Peers, HandleOwnResponse(x) PROVE Chain'
<1> PICK y : y = Other(x)  OBVIOUS
<1>1. y \in Peers /\ y # x /\ Other(y) = x /\ \A p \in Peers : p = x \/ p = y  BY TwoPeers
<1>2. PICK item \in pool[x] :
        /\ Waiting(x, item) /\ Entry(x, item).handler = "client" /\ Forget(x, item)
        /\ Answer(x, [item EXCEPT !.request = Entry(x, item).request], TRUE)
  BY DEF HandleOwnResponse
<1>3. held' = held /\ pendingRequests' = pendingRequests /\ wire' = wire
  BY DEF HandleOwnResponse
<1>4. /\ DOMAIN responseHandlers'[x] = (DOMAIN responseHandlers[x]) \ {item.id}
      /\ \A i \in DOMAIN responseHandlers'[x] : responseHandlers'[x][i] = responseHandlers[x][i]
      /\ responseHandlers'[y] = responseHandlers[y]
  BY <1>1, <1>2, ForgetEffect
<1>5. \A t : AtPlaces(x, y, t) /\ AtPlaces(x, y, t)'  BY <1>1, InTokens
<1> PICK u : u = Token(item.id, item.request)  OBVIOUS
<1>6. u.id = item.id /\ u.request = item.request  BY DEF Token
<1>7. "back" \in PlaceNames /\ item.task = "response" /\ item \in Items
  BY <1>2, PoolItem DEF PlaceNames, Waiting
<1>8. u \in Tokens(x, "back") /\ Match(x, "back", u)  BY <1>5, <1>7, TokenRegistered DEF AtPlaces
<1>9. [item EXCEPT !.request = Entry(x, item).request] = item
  <2>1. Entry(x, item).request = item.request  BY <1>6, <1>8 DEF Match, Entry
  <2> QED  BY <1>7, <2>1 DEF Items
<1>10. /\ \A z \in pool'[x] :
            \/ z \in pool[x] /\ z # item
            \/ z.task = "flush"
            \/ z.task = "request" /\ z.handler = "client" /\ z.request.from = x
       /\ pool'[y] = pool[y]
  <2>1. Answer(x, item, TRUE)  BY <1>2, <1>9
  <2>2. /\ \A z \in pool'[x] :
              \/ z \in pool[x] /\ z # item
              \/ z.task = "flush"
              \/ z.task = "request" /\ z.handler = "client" /\ z.request.from = x
        /\ \A q \in Peers : q # x => pool'[q] = pool[q]
    BY <2>1, AnswerPool, Zenon
  <2> QED  BY <1>1, <2>2
<1>11. Matches(x)' /\ Apart(x)'
  <2>1. \A c \in PlaceNames : Tokens(x, c)' \subseteq Tokens(x, c)
    <3>1. \A z \in pool'[x] : z.task = "response" => z \in pool[x]  BY <1>10
    <3> QED  BY <1>1, <1>3, <1>4, <1>10, <3>1, TokensKept DEF PlaceNames
  <2>2. \A c \in PlaceNames : \A t \in Tokens(x, c)' : t.id # item.id
    <3> SUFFICES ASSUME NEW c \in PlaceNames, NEW t \in Tokens(x, c)' PROVE t.id # item.id
      OBVIOUS
    <3>1. CASE c # "back"
      BY <1>6, <1>7, <1>8, <2>1, <3>1 DEF Chain, Apart
    <3>2. CASE c = "back"
      <4>1. PICK z \in pool'[x] : z.task = "response" /\ t = Token(z.id, z.request)
        BY <1>5, <3>2 DEF AtPlaces
      <4>2. z \in pool[x] /\ z # item  BY <1>10, <4>1
      <4>3. z.id # item.id  BY <1>7, <4>1, <4>2, OneResponse
      <4> QED  BY <4>1, <4>3 DEF Token
    <3> QED  BY <3>1, <3>2
  <2>3. \A i \in (DOMAIN responseHandlers[x]) \ {item.id} :
           i \in DOMAIN responseHandlers'[x] /\ responseHandlers'[x][i] = responseHandlers[x][i]
    BY <1>4
  <2>4. Matches(x) /\ Apart(x)  BY DEF Chain
  <2> QED  BY <2>1, <2>2, <2>3, <2>4, TokenForgotten
<1>12. Matches(y)' /\ Apart(y)'
  <2>1. \A z \in pool'[x] : z.task = "request" /\ z.handler = "adapter" => z \in pool[x]  BY <1>10
  <2>2. \A c \in PlaceNames : Tokens(y, c)' \subseteq Tokens(y, c)
    BY <1>1, <1>3, <1>4, <1>10, <2>1, TokensKept DEF PlaceNames
  <2>3. Matches(y) /\ Apart(y)  BY <1>1 DEF Chain
  <2> QED  BY <1>1, <1>4, <2>2, <2>3, TokensLost
<1>13. \A p \in Peers : ServedOnce(p)'
  <2>1. ServedOnce(x) /\ ServedOnce(y)  BY <1>1 DEF Chain
  <2>2. ServedOnce(x)'  BY <1>4, <2>1 DEF ServedOnce
  <2>3. ServedOnce(y)'  BY <1>4, <2>1 DEF ServedOnce
  <2> QED  BY <1>1, <2>2, <2>3
<1>14. \A p \in Peers : Directed(p)'
  <2>1. Directed(x) /\ Directed(y)  BY <1>1 DEF Chain
  <2>2. Directed(x)'  BY <1>3, <1>4, <1>10, <2>1 DEF Directed
  <2>3. Directed(y)'  BY <1>3, <1>4, <1>10, <2>1 DEF Directed
  <2> QED  BY <1>1, <2>2, <2>3
<1> QED  BY <1>1, <1>3, <1>11, <1>12, <1>13, <1>14 DEF Chain

\* The response of a request of the remote: its id passes from "served" to "returning".
LEMMA ReturnChain == ASSUME Typed, Chain, NEW x \in Peers, ReturnResponse(x) PROVE Chain'
<1> PICK y : y = Other(x)  OBVIOUS
<1>1. y \in Peers /\ y # x /\ Other(y) = x /\ \A p \in Peers : p = x \/ p = y  BY TwoPeers
<1>2. PICK item \in pool[x] :
        /\ Waiting(x, item) /\ Entry(x, item).handler = "adapter" /\ Forget(x, item)
        /\ Send(x, "response", Entry(x, item).externalId, item.request) /\ Done(x, item, {})
  BY DEF ReturnResponse
<1>3. held' = held /\ pendingRequests' = pendingRequests
  BY DEF ReturnResponse, processorVars
<1> PICK ext : ext = Entry(x, item).externalId  OBVIOUS
<1>4. /\ DOMAIN responseHandlers'[x] = (DOMAIN responseHandlers[x]) \ {item.id}
      /\ \A i \in DOMAIN responseHandlers'[x] : responseHandlers'[x][i] = responseHandlers[x][i]
      /\ responseHandlers'[y] = responseHandlers[y]
      /\ ext \in Nat
      /\ item.id \in DOMAIN responseHandlers[x]
      /\ responseHandlers[x][item.id].externalId = ext
      /\ responseHandlers[x][item.id].handler = "adapter"
  BY <1>1, <1>2, ForgetEffect DEF Entry, Entries, Waiting
<1>5. \A t : /\ AtPlaces(x, y, t) /\ AtPlaces(x, y, t)'
             /\ AtPlaces(y, x, t) /\ AtPlaces(y, x, t)'
  BY <1>1, InTokens
<1> PICK u : u = Token(item.id, item.request)  OBVIOUS
<1> PICK v : v = Token(ext, item.request)  OBVIOUS
<1>6. u.id = item.id /\ u.request = item.request /\ v.id = ext /\ v.request = item.request  BY DEF Token
<1>7. /\ "back" \in PlaceNames /\ "served" \in PlaceNames /\ "returning" \in PlaceNames
      /\ item.task = "response" /\ item \in Items
  BY <1>2, PoolItem DEF PlaceNames, Waiting
<1>8. u \in Tokens(x, "back") /\ Match(x, "back", u)  BY <1>5, <1>7, TokenRegistered DEF AtPlaces
<1>9. responseHandlers[x][item.id].request = item.request  BY <1>6, <1>8 DEF Match
<1>10. v \in Tokens(y, "served")  BY <1>4, <1>5, <1>9 DEF AtPlaces
<1>11. pool'[x] = pool[x] \ {item} /\ pool'[y] = pool[y]  BY <1>1, <1>2, DoneTyped
<1> PICK m : m = [type |-> "response", id |-> ext, request |-> item.request]  OBVIOUS
<1>12. m \in Messages /\ m.type = "response" /\ m.id = ext /\ m.request = item.request
  BY <1>4, <1>7 DEF Messages, Items
<1>13. /\ wire'[x] = wire[x] /\ wire'[y] \in {wire[y], Append(wire[y], m)}
       /\ wire[y] \in Seq(Messages)
  BY <1>1, <1>2 DEF Send, Typed, TypeOK
<1>14. /\ Among(wire'[y]) \subseteq Among(wire[y]) \cup {m}
       /\ m \notin Among(wire[y]) /\ Distinct(wire[y]) => Distinct(wire'[y])
  <2>1. CASE wire'[y] = wire[y]  BY <2>1
  <2>2. CASE wire'[y] = Append(wire[y], m)  BY <1>12, <1>13, <2>2, AmongAppend
  <2> QED  BY <1>13, <2>1, <2>2
<1>15. Matches(x)' /\ Apart(x)'
  <2>1. \A c \in PlaceNames : Tokens(x, c)' \subseteq Tokens(x, c)
    <3>1. \A k \in Among(wire'[y]) : k.type = "request" => k \in Among(wire[y])  BY <1>12, <1>14
    <3> QED  BY <1>1, <1>3, <1>4, <1>11, <1>13, <3>1, TokensKept DEF PlaceNames
  <2>2. \A c \in PlaceNames : \A t \in Tokens(x, c)' : t.id # item.id
    <3> SUFFICES ASSUME NEW c \in PlaceNames, NEW t \in Tokens(x, c)' PROVE t.id # item.id
      OBVIOUS
    <3>1. CASE c # "back"
      BY <1>6, <1>7, <1>8, <2>1, <3>1 DEF Chain, Apart
    <3>2. CASE c = "back"
      <4>1. PICK z \in pool'[x] : z.task = "response" /\ t = Token(z.id, z.request)
        BY <1>5, <3>2 DEF AtPlaces
      <4>2. z \in pool[x] /\ z # item  BY <1>11, <4>1
      <4>3. z.id # item.id  BY <1>7, <4>1, <4>2, OneResponse
      <4> QED  BY <4>1, <4>3 DEF Token
    <3> QED  BY <3>1, <3>2
  <2>3. \A i \in (DOMAIN responseHandlers[x]) \ {item.id} :
           i \in DOMAIN responseHandlers'[x] /\ responseHandlers'[x][i] = responseHandlers[x][i]
    BY <1>4
  <2>4. Matches(x) /\ Apart(x)  BY DEF Chain
  <2> QED  BY <2>1, <2>2, <2>3, <2>4, TokenForgotten
<1>16. Matches(y)' /\ Apart(y)'
  <2>1. \A c \in PlaceNames : c # "returning" => Tokens(y, c)' \subseteq Tokens(y, c)
    BY <1>1, <1>3, <1>4, <1>11, <1>13, TokensKept DEF PlaceNames
  <2>2. Tokens(y, "returning")' \subseteq Tokens(y, "returning") \cup {v}
    BY <1>5, <1>12, <1>14 DEF AtPlaces
  <2>3. Match(y, "returning", v)'
    <3>1. Match(y, "served", v)  BY <1>1, <1>7, <1>10, TokenRegistered
    <3> QED  BY <1>4, <3>1 DEF Match
  <2>4. \A c \in PlaceNames : c # "returning" => \A t \in Tokens(y, c)' : t.id # v.id
    <3> SUFFICES ASSUME NEW c \in PlaceNames, c # "returning", NEW t \in Tokens(y, c)' PROVE t.id # ext
      BY <1>6
    <3>1. CASE c # "served"
      BY <1>1, <1>6, <1>7, <1>10, <2>1, <3>1 DEF Chain, Apart
    <3>2. CASE c = "served"
      <4>1. PICK j \in DOMAIN responseHandlers'[x] :
              /\ responseHandlers'[x][j].handler = "adapter"
              /\ t = Token(responseHandlers'[x][j].externalId, responseHandlers'[x][j].request)
        BY <1>5, <3>2 DEF AtPlaces
      <4>2. j \in DOMAIN responseHandlers[x] /\ j # item.id /\ responseHandlers'[x][j] = responseHandlers[x][j]
        BY <1>4
      <4>3. responseHandlers[x][j].externalId # ext
        BY <1>4, <4>1, <4>2 DEF Chain, ServedOnce
      <4> QED  BY <4>1, <4>2, <4>3 DEF Token
    <3> QED  BY <3>1, <3>2
  <2>5. Matches(y) /\ Apart(y)  BY <1>1 DEF Chain
  <2> QED  BY <1>1, <1>4, <1>7, <2>1, <2>2, <2>3, <2>4, <2>5, TokenGained
<1>17. \A p \in Peers : ServedOnce(p)'
  <2>1. ServedOnce(x) /\ ServedOnce(y)  BY <1>1 DEF Chain
  <2>2. ServedOnce(x)'  BY <1>4, <2>1 DEF ServedOnce
  <2>3. ServedOnce(y)'  BY <1>4, <2>1 DEF ServedOnce
  <2> QED  BY <1>1, <2>2, <2>3
<1>18. \A p \in Peers : Distinct(wire[p])'
  <2>1. m \notin Among(wire[y])
    <3> SUFFICES ASSUME m \in Among(wire[y]) PROVE FALSE  OBVIOUS
    <3>1. v \in Tokens(y, "returning")  BY <1>5, <1>12 DEF AtPlaces
    <3> QED  BY <1>1, <1>7, <1>10, <3>1 DEF Chain, Apart
  <2> QED  BY <1>1, <1>13, <1>14, <2>1 DEF Chain
<1>19. \A p \in Peers : Directed(p)'
  <2>1. Directed(x) /\ Directed(y)  BY <1>1 DEF Chain
  <2>2. Directed(x)'  BY <1>3, <1>4, <1>11, <2>1 DEF Directed
  <2>3. Directed(y)'  BY <1>3, <1>4, <1>11, <2>1 DEF Directed
  <2> QED  BY <1>1, <2>2, <2>3
<1> QED  BY <1>1, <1>15, <1>16, <1>17, <1>18, <1>19 DEF Chain

\* The requests held back are queued: "kept" passes to "queued".
LEMMA FlushChain == ASSUME Typed, Chain, NEW x \in Peers, ProcessPendingRequests(x) PROVE Chain'
<1> PICK y : y = Other(x)  OBVIOUS
<1>1. y \in Peers /\ y # x /\ Other(y) = x /\ \A p \in Peers : p = x \/ p = y  BY TwoPeers
<1> DEFINE flushed == {Received(pendingRequests[x][i]) : i \in 1..Len(pendingRequests[x])}
<1>2. PICK item \in pool[x] : item.task = "flush" /\ Done(x, item, flushed)
  BY DEF ProcessPendingRequests
<1>3. /\ pendingRequests' = [pendingRequests EXCEPT ![x] = <<>>]
      /\ held' = held /\ wire' = wire /\ responseHandlers' = responseHandlers
  BY DEF ProcessPendingRequests, brokerVars
<1>4. Among(pendingRequests[x]) \subseteq Messages  BY AmongMessages
<1>5. flushed = {Received(m) : m \in Among(pendingRequests[x])}  BY DEF Among
<1>6. flushed \in SUBSET Items  BY <1>4, <1>5, ReceivedTyped
<1>7. pool'[x] = (pool[x] \ {item}) \cup flushed /\ pool'[y] = pool[y]
  BY <1>1, <1>2, <1>6, DoneTyped
<1>8. \A z \in flushed : \E m \in Among(pendingRequests[x]) :
         /\ m.type = "request" /\ z.task = "request" /\ z.handler = "adapter"
         /\ z.id = m.id /\ z.request = m.request
  <2>1. \A m \in Among(pendingRequests[x]) : m.type = "request"  BY DEF Chain, Directed
  <2> QED  BY <1>5, <2>1 DEF Received
<1> HIDE DEF flushed
<1>9. pendingRequests'[x] = <<>> /\ pendingRequests'[y] = pendingRequests[y]
  BY <1>1, <1>3 DEF Typed, TypeOK
<1>10. Among(pendingRequests'[x]) = {}  BY <1>9, AmongEmpty
<1>11. \A t : AtPlaces(y, x, t) /\ AtPlaces(y, x, t)'  BY <1>1, InTokens
<1>12. "queued" \in PlaceNames /\ "kept" \in PlaceNames  BY DEF PlaceNames
<1>13. \A z \in flushed : Token(z.id, z.request) \in Tokens(y, "kept")
  BY <1>8, <1>11 DEF AtPlaces
<1>14. Matches(x)' /\ Apart(x)'
  <2>1. \A z \in pool'[x] : z.task = "response" => z \in pool[x]  BY <1>7, <1>8
  <2>2. \A c \in PlaceNames : Tokens(x, c)' \subseteq Tokens(x, c)
    BY <1>1, <1>3, <1>7, <1>9, <2>1, TokensKept DEF PlaceNames
  <2>3. Matches(x) /\ Apart(x)  BY DEF Chain
  <2> QED  BY <1>3, <2>2, <2>3, TokensLost
<1>15. Matches(y)' /\ Apart(y)'
  <2>1. \A c \in PlaceNames : c # "queued" => Tokens(y, c)' \subseteq Tokens(y, c)
    BY <1>1, <1>3, <1>7, <1>10, TokensKept DEF PlaceNames
  <2>2. Tokens(y, "queued")' \subseteq Tokens(y, "queued") \cup Tokens(y, "kept")
    BY <1>7, <1>11, <1>13 DEF AtPlaces
  <2>3. Tokens(y, "kept")' = {}  BY <1>10, <1>11 DEF AtPlaces
  <2>4. Matches(y) /\ Apart(y)  BY <1>1 DEF Chain
  <2> QED  BY <1>1, <1>3, <1>12, <2>1, <2>2, <2>3, <2>4, TokensPass
<1>16. \A p \in Peers : ServedOnce(p)' /\ Distinct(wire[p])'
  BY <1>3 DEF Chain, ServedOnce
<1>17. \A p \in Peers : Directed(p)'
  <2>1. Directed(x) /\ Directed(y)  BY <1>1 DEF Chain
  <2>2. \A z \in flushed : z.request.from # x
    <3> SUFFICES ASSUME NEW z \in flushed PROVE z.request.from # x  OBVIOUS
    <3>1. Match(y, "kept", Token(z.id, z.request))  BY <1>1, <1>12, <1>13, TokenRegistered
    <3> QED  BY <1>1, <2>1, <3>1 DEF Match, Token, Directed
  <2>3. Directed(x)'  BY <1>3, <1>7, <1>8, <1>10, <2>1, <2>2 DEF Directed
  <2>4. Directed(y)'  BY <1>3, <1>7, <1>9, <2>1 DEF Directed
  <2> QED  BY <1>1, <2>3, <2>4
<1> QED  BY <1>1, <1>14, <1>15, <1>16, <1>17 DEF Chain

\* The reader adds the request it held: "held" passes to "kept".
LEMMA AddChain == ASSUME Typed, Chain, NEW x \in Peers, AddPendingRequest(x) PROVE Chain'
<1> PICK y : y = Other(x)  OBVIOUS
<1>1. y \in Peers /\ y # x /\ Other(y) = x /\ \A p \in Peers : p = x \/ p = y  BY TwoPeers
<1>2. /\ pendingRequests' = [pendingRequests EXCEPT ![x] = @ \o held[x]]
      /\ held' = [held EXCEPT ![x] = <<>>]
      /\ pool' = pool /\ wire' = wire /\ responseHandlers' = responseHandlers
  BY DEF AddPendingRequest, brokerVars
<1>3. /\ pendingRequests'[x] = pendingRequests[x] \o held[x] /\ pendingRequests'[y] = pendingRequests[y]
      /\ held'[x] = <<>> /\ held'[y] = held[y]
      /\ pendingRequests[x] \in Seq(Messages) /\ held[x] \in Seq(Messages)
  BY <1>1, <1>2 DEF Typed, TypeOK
<1>4. Among(pendingRequests'[x]) = Among(pendingRequests[x]) \cup Among(held[x])
  BY <1>3, AmongConcat
<1>5. Among(held'[x]) = {}  BY <1>3, AmongEmpty
<1>6. \A t : AtPlaces(y, x, t) /\ AtPlaces(y, x, t)'  BY <1>1, InTokens
<1>7. "held" \in PlaceNames /\ "kept" \in PlaceNames  BY DEF PlaceNames
<1>8. Matches(x)' /\ Apart(x)'
  <2>1. \A c \in PlaceNames : Tokens(x, c)' \subseteq Tokens(x, c)
    BY <1>1, <1>2, <1>3, TokensKept DEF PlaceNames
  <2>2. Matches(x) /\ Apart(x)  BY DEF Chain
  <2> QED  BY <1>2, <2>1, <2>2, TokensLost
<1>9. Matches(y)' /\ Apart(y)'
  <2>1. \A c \in PlaceNames : c # "kept" => Tokens(y, c)' \subseteq Tokens(y, c)
    BY <1>1, <1>2, <1>5, TokensKept DEF PlaceNames
  <2>2. Tokens(y, "kept")' \subseteq Tokens(y, "kept") \cup Tokens(y, "held")
    BY <1>4, <1>6 DEF AtPlaces
  <2>3. Tokens(y, "held")' = {}  BY <1>5, <1>6 DEF AtPlaces
  <2>4. Matches(y) /\ Apart(y)  BY <1>1 DEF Chain
  <2> QED  BY <1>1, <1>2, <1>7, <2>1, <2>2, <2>3, <2>4, TokensPass
<1>10. \A p \in Peers : ServedOnce(p)' /\ Distinct(wire[p])'
  BY <1>2 DEF Chain, ServedOnce
<1>11. \A p \in Peers : Directed(p)'
  <2>1. Directed(x) /\ Directed(y)  BY <1>1 DEF Chain
  <2>2. Directed(x)'  BY <1>2, <1>4, <1>5, <2>1 DEF Directed
  <2>3. Directed(y)'  BY <1>2, <1>3, <2>1 DEF Directed
  <2> QED  BY <1>1, <2>2, <2>3
<1> QED  BY <1>1, <1>8, <1>9, <1>10, <1>11 DEF Chain

\* What the reader takes from the pipe is registered, and nothing that stays there has its id.
LEMMA TakenMessage ==
  ASSUME Typed, Chain, NEW x \in Peers, NEW y, y = Other(x), NEW m, Reads(x, m), Take(x)
  PROVE  /\ m \in Among(wire[x]) /\ m \in Messages /\ m.id \in Nat /\ m.request \in Requests
         /\ wire'[y] = wire[y] /\ Among(wire'[x]) \subseteq Among(wire[x]) /\ Distinct(wire'[x])
         /\ m.type = "request" => Token(m.id, m.request) \in Tokens(y, "asked")
         /\ m.type = "response" => Token(m.id, m.request) \in Tokens(x, "returning")
         /\ \A k \in Among(wire'[x]) : k.type = m.type => k.id # m.id
<1>1. y \in Peers /\ y # x /\ Other(y) = x  BY TwoPeers
<1>2. /\ m \in Messages /\ m.id \in Nat /\ m.request \in Requests
      /\ wire[x] \in Seq(Messages) /\ wire[x] # <<>> /\ m = Head(wire[x])
      /\ wire'[x] = Tail(wire[x]) /\ wire'[y] = wire[y]
  <2>1. m = Head(wire[x])  BY DEF Reads
  <2> QED  BY <1>1, <2>1, TakeTyped
<1>3. Distinct(wire[x])  BY DEF Chain
<1>4. /\ m \in Among(wire[x]) /\ Among(wire'[x]) \subseteq Among(wire[x])
      /\ Distinct(wire'[x]) /\ m \notin Among(wire'[x])
  BY <1>2, <1>3, AmongTail
<1>5. \A t : AtPlaces(x, y, t) /\ AtPlaces(y, x, t)  BY <1>1, InTokens
<1>6. \A k \in Among(wire[x]) :
        /\ k.type = "request" => Token(k.id, k.request) \in Tokens(y, "asked")
        /\ k.type = "response" => Token(k.id, k.request) \in Tokens(x, "returning")
  BY <1>5 DEF AtPlaces
<1>7. "asked" \in PlaceNames /\ "returning" \in PlaceNames  BY DEF PlaceNames
<1>8. ASSUME NEW k \in Among(wire'[x]), k.type = m.type, k.id = m.id PROVE FALSE
  <2>1. k \in Among(wire[x]) /\ k # m  BY <1>4
  <2>2. k \in Messages  BY <2>1, AmongMessages
  <2>3. k.request = m.request
    <3>1. CASE m.type = "request"
      <4>1. Match(y, "asked", Token(k.id, k.request)) /\ Match(y, "asked", Token(m.id, m.request))
        BY <1>1, <1>4, <1>6, <1>7, <1>8, <2>1, <3>1, TokenRegistered
      <4> QED  BY <1>8, <4>1 DEF Match, Token
    <3>2. CASE m.type = "response"
      <4>1. Match(x, "returning", Token(k.id, k.request)) /\ Match(x, "returning", Token(m.id, m.request))
        BY <1>4, <1>6, <1>7, <1>8, <2>1, <3>2, TokenRegistered
      <4> QED  BY <1>8, <4>1 DEF Match, Token
    <3> QED  BY <1>2, <3>1, <3>2 DEF Messages
  <2> QED  BY <1>2, <1>8, <2>1, <2>2, <2>3 DEF Messages
<1> QED  BY <1>2, <1>4, <1>6, <1>8

\* The reader takes a request: its id passes from "asked" to "queued" or "held".
LEMMA ReadRequestChain ==
  ASSUME Typed, Chain, NEW x \in Peers, NEW m, ReadGet(x, m) \/ ReadRequest(x, m)
  PROVE  Chain'
<1> PICK y : y = Other(x)  OBVIOUS
<1>1. y \in Peers /\ y # x /\ Other(y) = x /\ \A p \in Peers : p = x \/ p = y  BY TwoPeers
<1>2. Reads(x, m) /\ Take(x) /\ m.type = "request"  BY DEF ReadGet, ReadRequest
<1>3. responseHandlers' = responseHandlers /\ pendingRequests' = pendingRequests
  BY DEF ReadGet, ReadRequest, brokerVars, processorVars
<1> PICK u : u = Token(m.id, m.request)  OBVIOUS
<1>4. /\ m \in Among(wire[x]) /\ m \in Messages /\ m.id \in Nat /\ m.request \in Requests
      /\ wire'[y] = wire[y] /\ Among(wire'[x]) \subseteq Among(wire[x]) /\ Distinct(wire'[x])
      /\ u \in Tokens(y, "asked")
      /\ \A k \in Among(wire'[x]) : k.type = "request" => k.id # m.id
  BY <1>2, TakenMessage
<1>5. u.id = m.id /\ u.request = m.request  BY DEF Token
<1>6. \A t : AtPlaces(y, x, t) /\ AtPlaces(y, x, t)'  BY <1>1, InTokens
<1>7. "asked" \in PlaceNames /\ "queued" \in PlaceNames /\ "held" \in PlaceNames  BY DEF PlaceNames
<1>8. Match(y, "asked", u)  BY <1>1, <1>4, <1>7, TokenRegistered
<1>9. m.request.from = y
  BY <1>1, <1>5, <1>8 DEF Match, Chain, Directed
<1>10. Received(m) \in Items /\ Received(m).task = "request" /\ Received(m).handler = "adapter"
       /\ Received(m).id = m.id /\ Received(m).request = m.request
  BY <1>4, ReceivedTyped DEF Received
<1>11. \/ Queue(x, Received(m)) /\ held' = held
       \/ held' = [held EXCEPT ![x] = <<m>>] /\ pool' = pool
  BY DEF ReadGet, ReadRequest
<1>12. /\ \A z \in pool'[x] : z \in pool[x] \/ z = Received(m)
       /\ \A k \in Among(held'[x]) : k \in Among(held[x]) \/ k = m
       /\ pool'[y] = pool[y] /\ held'[y] = held[y]
       /\ pool'[x] = pool[x] \/ held'[x] = held[x]
  <2>1. CASE Queue(x, Received(m)) /\ held' = held
    BY <1>1, <1>10, <2>1, QueueTyped
  <2>2. CASE held' = [held EXCEPT ![x] = <<m>>] /\ pool' = pool
    <3>1. held'[x] = <<m>> /\ held'[y] = held[y]  BY <1>1, <2>2 DEF Typed, TypeOK
    <3>2. Among(<<m>>) = {m}  BY DEF Among
    <3> QED  BY <2>2, <3>1, <3>2
  <2> QED  BY <1>11, <2>1, <2>2
<1>13. Matches(x)' /\ Apart(x)'
  <2>1. \A z \in pool'[x] : z.task = "response" => z \in pool[x]  BY <1>10, <1>12
  <2>2. \A c \in PlaceNames : Tokens(x, c)' \subseteq Tokens(x, c)
    BY <1>1, <1>3, <1>4, <1>12, <2>1, TokensKept DEF PlaceNames
  <2>3. Matches(x) /\ Apart(x)  BY DEF Chain
  <2> QED  BY <1>3, <2>2, <2>3, TokensLost
<1>14. \A c \in PlaceNames : c # "queued" /\ c # "held" => Tokens(y, c)' \subseteq Tokens(y, c)
  BY <1>1, <1>3, <1>4, <1>12, TokensKept DEF PlaceNames
<1>15. /\ Tokens(y, "queued")' \subseteq Tokens(y, "queued") \cup {u}
       /\ Tokens(y, "held")' \subseteq Tokens(y, "held") \cup {u}
  BY <1>6, <1>10, <1>12 DEF AtPlaces
<1>16. \/ Tokens(y, "queued")' \subseteq Tokens(y, "queued")
       \/ Tokens(y, "held")' \subseteq Tokens(y, "held")
  BY <1>1, <1>12, TokensKept
<1>17. \A t \in Tokens(y, "asked")' : t.id # u.id
  BY <1>4, <1>5, <1>6 DEF AtPlaces, Token
<1>18. \A c \in PlaceNames : \A t \in Tokens(y, c)' : t \in Tokens(y, c) => t.id # u.id
  <2> SUFFICES ASSUME NEW c \in PlaceNames, NEW t \in Tokens(y, c)', t \in Tokens(y, c)
               PROVE  t.id # u.id
    OBVIOUS
  <2>1. CASE c = "asked"  BY <1>17, <2>1
  <2>2. CASE c # "asked"  BY <1>1, <1>4, <1>7, <2>2 DEF Chain, Apart
  <2> QED  BY <2>1, <2>2
<1>19. Matches(y)' /\ Apart(y)'
  <2>1. Matches(y) /\ Apart(y)  BY <1>1 DEF Chain
  <2>2. \A i \in DOMAIN responseHandlers[y] :
           i \in DOMAIN responseHandlers'[y] /\ responseHandlers'[y][i] = responseHandlers[y][i]
    BY <1>3
  <2>3. Match(y, "queued", u)' /\ Match(y, "held", u)'  BY <1>3, <1>8 DEF Match
  <2>4. CASE Tokens(y, "held")' \subseteq Tokens(y, "held")
    <3>1. \A c \in PlaceNames : c # "queued" => Tokens(y, c)' \subseteq Tokens(y, c)  BY <1>14, <2>4
    <3>2. \A c \in PlaceNames : c # "queued" => \A t \in Tokens(y, c)' : t.id # u.id
      BY <1>18, <3>1
    <3> QED  BY <1>1, <1>7, <1>15, <2>1, <2>2, <2>3, <3>1, <3>2, TokenGained
  <2>5. CASE Tokens(y, "queued")' \subseteq Tokens(y, "queued")
    <3>1. \A c \in PlaceNames : c # "held" => Tokens(y, c)' \subseteq Tokens(y, c)  BY <1>14, <2>5
    <3>2. \A c \in PlaceNames : c # "held" => \A t \in Tokens(y, c)' : t.id # u.id
      BY <1>18, <3>1
    <3> QED  BY <1>1, <1>7, <1>15, <2>1, <2>2, <2>3, <3>1, <3>2, TokenGained
  <2> QED  BY <1>16, <2>4, <2>5
<1>20. \A p \in Peers : ServedOnce(p)' /\ Distinct(wire[p])'
  BY <1>1, <1>3, <1>4 DEF Chain, ServedOnce
<1>21. \A p \in Peers : Directed(p)'
  <2>1. Directed(x) /\ Directed(y)  BY <1>1 DEF Chain
  <2>2. Directed(x)'  BY <1>1, <1>2, <1>3, <1>9, <1>10, <1>12, <2>1 DEF Directed
  <2>3. Directed(y)'  BY <1>3, <1>12, <2>1 DEF Directed
  <2> QED  BY <1>1, <2>2, <2>3
<1> QED  BY <1>1, <1>13, <1>19, <1>20, <1>21 DEF Chain

\* The reader takes a response: its id passes from "returning" to "back".
LEMMA ReadResponseChain ==
  ASSUME Typed, Chain, NEW x \in Peers, NEW m, ReadResponse(x, m)
  PROVE  Chain'
<1> PICK y : y = Other(x)  OBVIOUS
<1>1. y \in Peers /\ y # x /\ Other(y) = x /\ \A p \in Peers : p = x \/ p = y  BY TwoPeers
<1> PICK item : item = [task |-> "response", request |-> m.request, id |-> m.id]  OBVIOUS
<1>2. Reads(x, m) /\ Take(x) /\ m.type = "response" /\ Queue(x, item)  BY DEF ReadResponse
<1>3. responseHandlers' = responseHandlers /\ held' = held /\ pendingRequests' = pendingRequests
  BY DEF ReadResponse, brokerVars, processorVars
<1> PICK u : u = Token(m.id, m.request)  OBVIOUS
<1>4. /\ m \in Among(wire[x]) /\ m \in Messages /\ m.id \in Nat /\ m.request \in Requests
      /\ wire'[y] = wire[y] /\ Among(wire'[x]) \subseteq Among(wire[x]) /\ Distinct(wire'[x])
      /\ u \in Tokens(x, "returning")
      /\ \A k \in Among(wire'[x]) : k.type = "response" => k.id # m.id
  BY <1>2, TakenMessage
<1>5. u.id = m.id /\ u.request = m.request  BY DEF Token
<1>6. \A t : AtPlaces(x, y, t) /\ AtPlaces(x, y, t)'  BY <1>1, InTokens
<1>7. "back" \in PlaceNames /\ "returning" \in PlaceNames  BY DEF PlaceNames
<1>8. Match(x, "returning", u)  BY <1>4, <1>7, TokenRegistered
<1>9. item \in Items /\ item.task = "response" /\ item.id = m.id /\ item.request = m.request
  BY <1>4 DEF Items
<1>10. /\ pool'[x] = pool[x] \cup {item} /\ pool'[y] = pool[y]
  BY <1>1, <1>2, <1>9, QueueTyped
<1>11. Matches(y)' /\ Apart(y)'
  <2>1. \A z \in pool'[x] : z.task = "request" => z \in pool[x]  BY <1>9, <1>10
  <2>2. \A c \in PlaceNames : Tokens(y, c)' \subseteq Tokens(y, c)
    BY <1>1, <1>3, <1>4, <1>10, <2>1, TokensKept DEF PlaceNames
  <2>3. Matches(y) /\ Apart(y)  BY <1>1 DEF Chain
  <2> QED  BY <1>1, <1>3, <2>2, <2>3, TokensLost
<1>12. Matches(x)' /\ Apart(x)'
  <2>1. \A c \in PlaceNames : c # "back" => Tokens(x, c)' \subseteq Tokens(x, c)
    BY <1>1, <1>3, <1>4, <1>10, TokensKept DEF PlaceNames
  <2>2. Tokens(x, "back")' \subseteq Tokens(x, "back") \cup {u}
    BY <1>6, <1>9, <1>10 DEF AtPlaces
  <2>3. Match(x, "back", u)'  BY <1>3, <1>8 DEF Match
  <2>4. \A c \in PlaceNames : c # "back" => \A t \in Tokens(x, c)' : t.id # u.id
    <3> SUFFICES ASSUME NEW c \in PlaceNames, c # "back", NEW t \in Tokens(x, c)' PROVE t.id # u.id
      OBVIOUS
    <3>1. CASE c = "returning"
      <4>1. PICK k \in Among(wire'[x]) : k.type = "response" /\ t = Token(k.id, k.request)
        BY <1>6, <3>1 DEF AtPlaces
      <4> QED  BY <1>4, <1>5, <4>1 DEF Token
    <3>2. CASE c # "returning"
      BY <1>4, <1>7, <2>1, <3>2 DEF Chain, Apart
    <3> QED  BY <3>1, <3>2
  <2>5. \A i \in DOMAIN responseHandlers[x] :
           i \in DOMAIN responseHandlers'[x] /\ responseHandlers'[x][i] = responseHandlers[x][i]
    BY <1>3
  <2>6. Matches(x) /\ Apart(x)  BY DEF Chain
  <2> QED  BY <1>7, <2>1, <2>2, <2>3, <2>4, <2>5, <2>6, TokenGained
<1>13. \A p \in Peers : ServedOnce(p)' /\ Distinct(wire[p])'
  BY <1>1, <1>3, <1>4 DEF Chain, ServedOnce
<1>14. \A p \in Peers : Directed(p)'
  <2>1. Directed(x) /\ Directed(y)  BY <1>1 DEF Chain
  <2>2. Directed(x)'  BY <1>3, <1>9, <1>10, <2>1 DEF Directed
  <2>3. Directed(y)'  BY <1>3, <1>10, <2>1 DEF Directed
  <2> QED  BY <1>1, <2>2, <2>3
<1> QED  BY <1>1, <1>11, <1>12, <1>13, <1>14 DEF Chain

\* No id is given out yet.
LEMMA InitChain == Init => Chain
<1> SUFFICES ASSUME Init, NEW p \in Peers
             PROVE  Matches(p) /\ Apart(p) /\ ServedOnce(p) /\ Distinct(wire[p]) /\ Directed(p)
  BY DEF Chain
<1> PICK y : y = Other(p)  OBVIOUS
<1>1. y \in Peers /\ DOMAIN <<>> = {} /\ Among(<<>>) = {}  BY TwoPeers, AmongEmpty, EmptySeq
<1>2. \A t : AtPlaces(p, y, t)  BY <1>1, InTokens
<1>3. \A q \in Peers : /\ wire[q] = <<>> /\ held[q] = <<>> /\ pendingRequests[q] = <<>>
                       /\ pool[q] = {} /\ responseHandlers[q] = <<>>
  BY DEF Init
<1>4. \A c \in PlaceNames : Tokens(p, c) = {}
  BY <1>1, <1>2, <1>3 DEF AtPlaces, PlaceNames
<1>5. Matches(p) /\ Apart(p)  BY <1>4 DEF Matches, Apart
<1>6. ServedOnce(p) /\ Distinct(wire[p]) /\ Directed(p)
  BY <1>1, <1>3, AmongEmpty DEF ServedOnce, Directed
<1> QED  BY <1>5, <1>6

\* Every action keeps the chain.
LEMMA ChainStep == Typed /\ Chain /\ [Next]_vars => Chain'
<1> SUFFICES ASSUME Typed, Chain, [Next]_vars PROVE Chain'  OBVIOUS
<1>1. CASE UNCHANGED vars
  BY <1>1, ChainKept DEF vars, brokerVars, processorVars
<1>2. CASE Break
  BY <1>2, ChainKept DEF Break, brokerVars, processorVars
<1>3. ASSUME NEW p \in Peers, Request(p) PROVE Chain'
  <2>1. PICK c \in Clients : Queue(p, Own(p, c))  BY <1>3 DEF Request
  <2>2. /\ responseHandlers' = responseHandlers /\ wire' = wire /\ held' = held
        /\ pendingRequests' = pendingRequests
    BY <1>3 DEF Request, processorVars
  <2>3. /\ Own(p, c) \in Items /\ Own(p, c).task = "request" /\ Own(p, c).handler = "client"
        /\ Own(p, c).request.from = p
    BY OwnTyped DEF Own
  <2>4. pool'[p] = pool[p] \cup {Own(p, c)} /\ \A q \in Peers : q # p => pool'[q] = pool[q]
    BY <2>1, <2>3, QueueTyped
  <2> QED  BY <2>2, <2>3, <2>4, ChainKept
<1>4. ASSUME NEW p \in Peers, NotFound(p) \/ ForwardFails(p) PROVE Chain'
  <2>1. PICK item \in pool[p] : Answer(p, item, FALSE)  BY <1>4 DEF NotFound, ForwardFails
  <2>2. /\ responseHandlers' = responseHandlers /\ wire' = wire /\ held' = held
        /\ pendingRequests' = pendingRequests
    BY <1>4 DEF NotFound, ForwardFails
  <2>3. /\ \A z \in pool'[p] :
              \/ z \in pool[p] /\ z # item
              \/ z.task = "flush"
              \/ z.task = "request" /\ z.handler = "client" /\ z.request.from = p
        /\ \A q \in Peers : q # p => pool'[q] = pool[q]
    BY <2>1, AnswerPool, Zenon
  <2> QED  BY <2>2, <2>3, ChainKept
<1>5. ASSUME NEW p \in Peers, Initialize(p) PROVE Chain'
  <2>1. /\ responseHandlers' = responseHandlers /\ wire' = wire /\ held' = held
        /\ pendingRequests' = pendingRequests
        /\ pool' = [pool EXCEPT ![p] = @ \cup {Own(p, "getResources")}]
    BY <1>5 DEF Initialize
  <2>2. /\ Own(p, "getResources").task = "request" /\ Own(p, "getResources").handler = "client"
        /\ Own(p, "getResources").request.from = p
    BY DEF Own
  <2>3. pool'[p] = pool[p] \cup {Own(p, "getResources")} /\ \A q \in Peers : q # p => pool'[q] = pool[q]
    BY <2>1 DEF Typed, TypeOK
  <2> QED  BY <2>1, <2>2, <2>3, ChainKept
<1>6. ASSUME NEW p \in Peers, ReaderEnds(p) PROVE Chain'
  BY <1>6, ChainKept DEF ReaderEnds, brokerVars
<1> QED
  BY <1>1, <1>2, <1>3, <1>4, <1>5, <1>6, NextSteps, ForwardChain, ServeChain, HandleOwnChain,
     ReturnChain, FlushChain, AddChain, ReadRequestChain, ReadResponseChain

\* Every response meets the request it answers, for any peers and clients and however the
\* pools and the pipe order the messages: the id under which it comes is registered, and
\* for that request (ResponseMessageHandler).
THEOREM ResponsesMeetRequests == Spec => []RepliesMatch
<1>1. Init => Typed /\ Chain  BY InitTyped, InitChain
<1>2. Typed /\ Chain /\ [Next]_vars => (Typed /\ Chain)'  BY TypeStep, ChainStep
<1>3. Typed /\ Chain => RepliesMatch
  <2> SUFFICES ASSUME Typed, Chain, NEW p \in Peers
               PROVE  /\ \A item \in pool[p] : item.task = "response" =>
                           Waiting(p, item) /\ Entry(p, item).request = item.request
                      /\ \A i \in 1..Len(wire[p]) : wire[p][i].type = "response" =>
                           /\ wire[p][i].id \in DOMAIN responseHandlers[p]
                           /\ responseHandlers[p][wire[p][i].id].request = wire[p][i].request
    BY DEF RepliesMatch
  <2> PICK y : y = Other(p)  OBVIOUS
  <2>1. \A t : AtPlaces(p, y, t)  BY TwoPeers, InTokens
  <2>2. "back" \in PlaceNames /\ "returning" \in PlaceNames  BY DEF PlaceNames
  <2>3. ASSUME NEW item \in pool[p], item.task = "response"
        PROVE  Waiting(p, item) /\ Entry(p, item).request = item.request
    <3>1. Token(item.id, item.request) \in Tokens(p, "back")  BY <2>1, <2>3 DEF AtPlaces
    <3>2. Match(p, "back", Token(item.id, item.request))  BY <2>2, <3>1, TokenRegistered
    <3> QED  BY <2>3, <3>2 DEF Match, Token, Waiting, Entry
  <2>4. ASSUME NEW i \in 1..Len(wire[p]), wire[p][i].type = "response"
        PROVE  /\ wire[p][i].id \in DOMAIN responseHandlers[p]
               /\ responseHandlers[p][wire[p][i].id].request = wire[p][i].request
    <3>1. wire[p][i] \in Among(wire[p])  BY DEF Among
    <3>2. Token(wire[p][i].id, wire[p][i].request) \in Tokens(p, "returning")
      BY <2>1, <2>4, <3>1 DEF AtPlaces
    <3>3. Match(p, "returning", Token(wire[p][i].id, wire[p][i].request))
      BY <2>2, <3>2, TokenRegistered
    <3> QED  BY <3>3 DEF Match, Token
  <2> QED  BY <2>3, <2>4
<1> QED  BY <1>1, <1>2, <1>3, PTL DEF Spec

-----------------------------------------------------------------------------
(* Who is initialised knows the resources of the other peer *)

\* Nobody has begun.
LEMMA InitPhases == Init => \A p \in Peers : Phases(p)
<1> SUFFICES ASSUME Init, NEW p \in Peers PROVE Phases(p)  OBVIOUS
<1>1. DOMAIN <<>> = {}  BY EmptySeq
<1>2. /\ pool[p] = {} /\ responseHandlers[p] = <<>> /\ reader[p] = "handshake" /\ ~initialized[p]
  BY DEF Init
<1> QED  BY <1>1, <1>2 DEF Phases, Outstanding

\* No request of the initialisation of p begins to wait.
NoneAdded(p) ==
  \A g \in Gets : Outstanding(p, Get(p, g))' => Outstanding(p, Get(p, g))

\* Steps that leave the initialisation of p as it is.
LEMMA PhasesKept ==
  ASSUME NEW p \in Peers, Phases(p), NoneAdded(p),
         initialized'[p] = initialized[p], proxies'[p] = proxies[p], broken => broken',
         reader'[p] = reader[p] \/ {reader[p], reader'[p]} \subseteq {"reading", "adding"}
  PROVE  Phases(p)'
<1>1. "getSubscriptions" \in Gets  BY DEF Gets
<1>2. reader'[p] = "ended" <=> reader[p] = "ended"  OBVIOUS
<1>3. reader'[p] = "handshake" <=> reader[p] = "handshake"  OBVIOUS
<1>4. (reader[p] = "ended" => broken)'  BY <1>2 DEF Phases
<1>5. (reader[p] \notin {"handshake", "ended"} => "lists" \in proxies[p])'  BY <1>2, <1>3 DEF Phases
<1>6. (initialized[p] \/ (\E g \in Gets : Outstanding(p, Get(p, g))) => reader[p] # "handshake")'
  BY <1>3 DEF Phases, NoneAdded
<1>7. (initialized[p] \/ Outstanding(p, Get(p, "getSubscriptions"))
         => broken \/ "resource" \in proxies[p])'
  BY <1>1 DEF Phases, NoneAdded
<1> QED  BY <1>4, <1>5, <1>6, <1>7 DEF Phases

\* What can add a request to the outstanding ones.
LEMMA NoneAddedFrom ==
  ASSUME NEW p \in Peers,
         \A z \in pool'[p] : z.task = "request" /\ z.request.from = p /\ z.request.what \in Gets =>
           z \in pool[p] \/ Outstanding(p, z.request),
         \A i \in DOMAIN responseHandlers'[p] : responseHandlers'[p][i].request.from = p =>
           Outstanding(p, responseHandlers'[p][i].request)
  PROVE  NoneAdded(p)
BY DEF NoneAdded, Outstanding, Get

\* The entries of p before and after a step that registers nothing.
LEMMA EntriesOutstanding ==
  ASSUME NEW p \in Peers,
         \A i \in DOMAIN responseHandlers'[p] :
           i \in DOMAIN responseHandlers[p] /\ responseHandlers'[p][i] = responseHandlers[p][i]
  PROVE  \A i \in DOMAIN responseHandlers'[p] : Outstanding(p, responseHandlers'[p][i].request)
BY DEF Outstanding

\* A response handler of p is called for the request of item, that was outstanding; without
\* a response only when the pipe is broken, or for a request of a client.
LEMMA AnswerPhases ==
  ASSUME Typed, \A p \in Peers : Phases(p), NEW x \in Peers, NEW item, item.request \in Requests,
         item.request.from = x, Outstanding(x, item.request), NEW found \in BOOLEAN,
         Answer(x, item, found), broken' = broken, reader' = reader,
         item.request.what \in Gets => broken \/ found,
         \A p \in Peers : \A i \in DOMAIN responseHandlers'[p] :
           i \in DOMAIN responseHandlers[p] /\ responseHandlers'[p][i] = responseHandlers[p][i]
  PROVE  \A p \in Peers : Phases(p)'
<1>1. /\ initialized \in [Peers -> BOOLEAN] /\ proxies \in [Peers -> SUBSET {"lists", "resource"}]
  BY DEF Typed, TypeOK
<1>2. \A p \in Peers : \A i \in DOMAIN responseHandlers'[p] :
        Outstanding(p, responseHandlers'[p][i].request)
  BY EntriesOutstanding
<1>3. ASSUME NEW p \in Peers, p # x PROVE Phases(p)'
  <2>1. initialized'[p] = initialized[p] /\ proxies'[p] = proxies[p]
    BY <1>1, <1>3 DEF Answer
  <2>2. pool'[p] = pool[p]  BY <1>3, AnswerPool
  <2>3. NoneAdded(p)  BY <1>2, <2>2, NoneAddedFrom
  <2> QED  BY <2>1, <2>3, PhasesKept
<1>4. item.request.what \in Gets => reader[x] # "handshake"
  <2>1. item.request = Get(x, item.request.what)  BY DEF Get, Requests
  <2> QED  BY <2>1 DEF Phases
<1>5. CASE item.request.what = "getResources"
  <2>1. /\ proxies' = [proxies EXCEPT ![x] = @ \cup (IF found THEN {"resource"} ELSE {})]
        /\ initialized' = initialized
    BY <1>5 DEF Answer
  <2>2. /\ proxies[x] \subseteq proxies'[x]
        /\ found => "resource" \in proxies'[x]
    BY <1>1, <2>1
  <2>3. "getResources" \in Gets  BY DEF Gets
  <2>4. broken \/ found  BY <1>5, <2>3
  <2>5. reader[x] # "handshake"  BY <1>4, <1>5, <2>3
  <2>6. Phases(x)'  BY <2>1, <2>2, <2>4, <2>5 DEF Phases
  <2> QED  BY <1>3, <2>6
<1>6. CASE item.request.what = "getSubscriptions"
  <2>1. /\ proxies' = proxies
        /\ Done(x, item, {[task |-> "flush"]})
    BY <1>6 DEF Answer
  <2>2. \A z \in pool'[x] : z \in pool[x] \/ z.task = "flush"
    BY <2>1 DEF Done, Typed, TypeOK
  <2>3. NoneAdded(x)  BY <1>2, <2>2, NoneAddedFrom
  <2>4. "getSubscriptions" \in Gets  BY DEF Gets
  <2>5. reader[x] # "handshake"  BY <1>4, <1>6, <2>4
  <2>6. broken \/ "resource" \in proxies[x]
    <3>1. item.request = Get(x, "getSubscriptions")  BY <1>6 DEF Get, Requests
    <3> QED  BY <3>1 DEF Phases
  <2>7. Phases(x)'  BY <2>1, <2>5, <2>6 DEF Phases
  <2> QED  BY <1>3, <2>7
<1>7. CASE item.request.what \notin {"getResources", "getSubscriptions"}
  <2>1. /\ proxies' = proxies
        /\ initialized' = [initialized EXCEPT ![x] = @ \/ FALSE]
        /\ Done(x, item, {})
    BY <1>7 DEF Answer
  <2>2. initialized'[x] = initialized[x]
    <3>1. initialized'[x] = (initialized[x] \/ FALSE)  BY <1>1, <2>1
    <3>2. initialized[x] \in BOOLEAN  BY <1>1
    <3> QED  BY <3>1, <3>2
  <2>3. \A z \in pool'[x] : z \in pool[x]  BY <2>1, DoneTyped
  <2>4. NoneAdded(x)  BY <1>2, <2>3, NoneAddedFrom
  <2>5. Phases(x)'  BY <2>1, <2>2, <2>4, PhasesKept
  <2> QED  BY <1>3, <2>5
<1> QED  BY <1>5, <1>6, <1>7

\* Every action keeps the phases.
LEMMA PhasesStep ==
  ASSUME Typed, Chain, \A p \in Peers : Phases(p), [Next]_vars
  PROVE  \A p \in Peers : Phases(p)'
<1>1. CASE UNCHANGED vars
  <2>1. \A p \in Peers : NoneAdded(p)
    BY <1>1, NoneAddedFrom, EntriesOutstanding DEF vars, brokerVars
  <2> QED  BY <1>1, <2>1, PhasesKept DEF vars, processorVars
<1>2. CASE Break
  <2>1. \A p \in Peers : NoneAdded(p)
    BY <1>2, NoneAddedFrom, EntriesOutstanding DEF Break, brokerVars
  <2> QED  BY <1>2, <2>1, PhasesKept DEF Break, processorVars
<1>3. ASSUME NEW x \in Peers, Request(x) PROVE \A p \in Peers : Phases(p)'
  <2>1. PICK c \in Clients : Queue(x, Own(x, c))  BY <1>3 DEF Request
  <2>2. /\ responseHandlers' = responseHandlers /\ reader' = reader /\ broken' = broken
        /\ initialized' = initialized /\ proxies' = proxies
    BY <1>3 DEF Request, processorVars
  <2>3. Own(x, c) \in Items /\ Own(x, c).request.what \notin Gets
    BY OwnTyped, PeersAssumption DEF Own, Gets
  <2>4. pool'[x] = pool[x] \cup {Own(x, c)} /\ \A q \in Peers : q # x => pool'[q] = pool[q]
    BY <2>1, <2>3, QueueTyped
  <2>5. \A p \in Peers : NoneAdded(p)  BY <2>2, <2>3, <2>4, NoneAddedFrom, EntriesOutstanding
  <2> QED  BY <2>2, <2>5, PhasesKept
<1>4. ASSUME NEW x \in Peers, ForwardRequest(x) \/ ServeRequest(x) PROVE \A p \in Peers : Phases(p)'
  <2>p. PICK item \in pool[x] : \E others :
          /\ item.task = "request" /\ Register(x, item) /\ Done(x, item, others)
          /\ \A z \in others : z.task = "response" /\ z \in Items
    <3>1. CASE ForwardRequest(x)
      BY <3>1 DEF ForwardRequest, ForRemote
    <3>2. CASE ServeRequest(x)
      <4>1. PICK item \in pool[x] :
              /\ item.task = "request" /\ Register(x, item)
              /\ Done(x, item, {[task |-> "response", request |-> item.request, id |-> lastUniqueId'[x]]})
        BY <3>2 DEF ServeRequest
      <4>2. item \in Items /\ item.request \in Requests  BY <4>1, PoolItem, RequestItem
      <4>3. lastUniqueId'[x] \in Nat  BY <4>1, <4>2, RegisterEffect
      <4>4. [task |-> "response", request |-> item.request, id |-> lastUniqueId'[x]] \in Items
        BY <4>2, <4>3 DEF Items
      <4> QED  BY <4>1, <4>4
    <3> QED  BY <1>4, <3>1, <3>2
  <2>1. PICK others :
          /\ item.task = "request" /\ Register(x, item) /\ Done(x, item, others)
          /\ \A z \in others : z.task = "response" /\ z \in Items
    BY <2>p
  <2>2. /\ reader' = reader /\ broken' = broken /\ initialized' = initialized /\ proxies' = proxies
    BY <1>4 DEF ForwardRequest, ServeRequest, processorVars
  <2> PICK n : n = lastUniqueId[x] + 1  OBVIOUS
  <2>3. item \in Items  BY <2>1, PoolItem
  <2>4. /\ DOMAIN responseHandlers'[x] = (DOMAIN responseHandlers[x]) \cup {n}
        /\ \A i \in DOMAIN responseHandlers[x] : responseHandlers'[x][i] = responseHandlers[x][i]
        /\ responseHandlers'[x][n] =
             [request |-> item.request, externalId |-> item.id, handler |-> item.handler]
        /\ \A q \in Peers : q # x => responseHandlers'[q] = responseHandlers[q]
    BY <2>1, <2>3, RegisterEffect
  <2>5. /\ pool'[x] = (pool[x] \ {item}) \cup others
        /\ \A q \in Peers : q # x => pool'[q] = pool[q]
    BY <2>1, DoneTyped
  <2>6. \A i \in DOMAIN responseHandlers'[x] : Outstanding(x, responseHandlers'[x][i].request)
    BY <2>1, <2>4 DEF Outstanding
  <2>7. \A p \in Peers : NoneAdded(p)
    BY <2>1, <2>4, <2>5, <2>6, NoneAddedFrom, EntriesOutstanding
  <2> QED  BY <2>2, <2>7, PhasesKept
<1>5. ASSUME NEW x \in Peers, NotFound(x) \/ ForwardFails(x) PROVE \A p \in Peers : Phases(p)'
  <2>1. PICK item \in pool[x] :
          /\ Answer(x, item, FALSE) /\ item.task = "request" /\ item.request.from = x
          /\ \/ broken
             \/ (IF item.request.what \in Gets THEN "lists" ELSE "resource") \notin proxies[x]
    BY <1>5 DEF NotFound, ForwardFails, ForRemote
  <2>2. responseHandlers' = responseHandlers /\ reader' = reader /\ broken' = broken
    BY <1>5 DEF NotFound, ForwardFails
  <2>3. item.request \in Requests /\ Outstanding(x, item.request)
    BY <2>1, PoolItem, RequestItem DEF Outstanding
  <2>4. ASSUME item.request.what \in Gets PROVE broken
    <3>1. item.request = Get(x, item.request.what)  BY <2>1, <2>3 DEF Get, Requests
    <3>2. reader[x] # "handshake"  BY <2>3, <2>4, <3>1 DEF Phases
    <3> QED  BY <2>1, <2>4, <3>2 DEF Phases
  <2> QED  BY <2>1, <2>2, <2>3, <2>4, AnswerPhases
<1>6. ASSUME NEW x \in Peers, HandleOwnResponse(x) PROVE \A p \in Peers : Phases(p)'
  <2>1. PICK item \in pool[x] :
          /\ Waiting(x, item) /\ Entry(x, item).handler = "client" /\ Forget(x, item)
          /\ Answer(x, [item EXCEPT !.request = Entry(x, item).request], TRUE)
    BY <1>6 DEF HandleOwnResponse
  <2>2. reader' = reader /\ broken' = broken  BY <1>6 DEF HandleOwnResponse
  <2> PICK answered2 : answered2 = [item EXCEPT !.request = Entry(x, item).request]  OBVIOUS
  <2>3. answered2.request = Entry(x, item).request
    <3>1. item \in Items /\ item.task = "response"  BY <2>1, PoolItem DEF Waiting
    <3> QED  BY <3>1 DEF Items
  <2>4. Entry(x, item) \in Entries  BY <2>1, ForgetEffect
  <2>5. answered2.request \in Requests  BY <2>3, <2>4 DEF Entries
  <2>6. Outstanding(x, answered2.request) /\ answered2.request.from = x
    BY <2>1, <2>3 DEF Outstanding, Entry, Waiting, Chain, Directed
  <2>7. \A p \in Peers : \A i \in DOMAIN responseHandlers'[p] :
           i \in DOMAIN responseHandlers[p] /\ responseHandlers'[p][i] = responseHandlers[p][i]
    <3>1. /\ DOMAIN responseHandlers'[x] = (DOMAIN responseHandlers[x]) \ {item.id}
          /\ \A i \in DOMAIN responseHandlers'[x] : responseHandlers'[x][i] = responseHandlers[x][i]
          /\ \A q \in Peers : q # x => responseHandlers'[q] = responseHandlers[q]
      BY <2>1, ForgetEffect
    <3> QED  BY <3>1
  <2> QED  BY <2>1, <2>2, <2>5, <2>6, <2>7, AnswerPhases
<1>7. ASSUME NEW x \in Peers, ReturnResponse(x) PROVE \A p \in Peers : Phases(p)'
  <2>1. PICK item \in pool[x] : Waiting(x, item) /\ Forget(x, item) /\ Done(x, item, {})
    BY <1>7 DEF ReturnResponse
  <2>2. reader' = reader /\ broken' = broken /\ initialized' = initialized /\ proxies' = proxies
    BY <1>7 DEF ReturnResponse, processorVars
  <2>3. /\ DOMAIN responseHandlers'[x] = (DOMAIN responseHandlers[x]) \ {item.id}
        /\ \A i \in DOMAIN responseHandlers'[x] : responseHandlers'[x][i] = responseHandlers[x][i]
        /\ \A q \in Peers : q # x => responseHandlers'[q] = responseHandlers[q]
    BY <2>1, ForgetEffect
  <2>4. pool'[x] = pool[x] \ {item} /\ \A q \in Peers : q # x => pool'[q] = pool[q]
    BY <2>1, DoneTyped
  <2>5. \A p \in Peers : NoneAdded(p)  BY <2>3, <2>4, NoneAddedFrom, EntriesOutstanding
  <2> QED  BY <2>2, <2>5, PhasesKept
<1>8. ASSUME NEW x \in Peers, ProcessPendingRequests(x) PROVE \A p \in Peers : Phases(p)'
  <2> DEFINE flushed == {Received(pendingRequests[x][i]) : i \in 1..Len(pendingRequests[x])}
  <2>1. PICK item \in pool[x] : Done(x, item, flushed)
    BY <1>8 DEF ProcessPendingRequests
  <2>2. /\ responseHandlers' = responseHandlers /\ reader' = reader /\ broken' = broken
        /\ initialized' = initialized /\ proxies' = proxies
    BY <1>8 DEF ProcessPendingRequests, brokerVars
  <2>3. \A i \in 1..Len(pendingRequests[x]) : pendingRequests[x][i] \in Messages
    BY AmongMessages DEF Among
  <2>4. flushed \in SUBSET Items  BY <2>3, ReceivedTyped
  <2>5. \A z \in flushed : z.task = "request" /\ z.handler = "adapter"  BY DEF Received
  <2> HIDE DEF flushed
  <2>6. /\ pool'[x] = (pool[x] \ {item}) \cup flushed
        /\ \A q \in Peers : q # x => pool'[q] = pool[q]
    BY <2>1, <2>4, DoneTyped
  <2>7. Directed(x)'  BY <1>8, FlushChain DEF Chain
  <2>8. \A z \in flushed : z.request.from # x  BY <2>5, <2>6, <2>7 DEF Directed
  <2>9. \A p \in Peers : NoneAdded(p)
    BY <2>2, <2>6, <2>8, NoneAddedFrom, EntriesOutstanding
  <2> QED  BY <2>2, <2>9, PhasesKept
<1>9. ASSUME NEW x \in Peers, Initialize(x) PROVE \A p \in Peers : Phases(p)'
  <2>1. /\ responseHandlers' = responseHandlers /\ broken' = broken /\ initialized' = initialized
        /\ reader[x] = "handshake"
        /\ reader' = [reader EXCEPT ![x] = "reading"]
        /\ proxies' = [proxies EXCEPT ![x] = {"lists"}]
        /\ pool' = [pool EXCEPT ![x] = @ \cup {Own(x, "getResources")}]
    BY <1>9 DEF Initialize
  <2>2. /\ reader'[x] = "reading" /\ proxies'[x] = {"lists"}
        /\ pool'[x] = pool[x] \cup {Own(x, "getResources")}
        /\ \A q \in Peers : q # x =>
             reader'[q] = reader[q] /\ proxies'[q] = proxies[q] /\ pool'[q] = pool[q]
    BY <2>1 DEF Typed, TypeOK
  <2>3. ASSUME NEW p \in Peers, p # x PROVE Phases(p)'
    <3>1. NoneAdded(p)  BY <2>1, <2>2, <2>3, NoneAddedFrom, EntriesOutstanding
    <3> QED  BY <2>1, <2>2, <2>3, <3>1, PhasesKept
  <2>4. ~initialized[x] /\ \A g \in Gets : ~Outstanding(x, Get(x, g))
    BY <2>1 DEF Phases
  <2>5. ~Outstanding(x, Get(x, "getSubscriptions"))'
    <3>1. "getSubscriptions" \in Gets  BY DEF Gets
    <3>2. Own(x, "getResources").request # Get(x, "getSubscriptions")  BY DEF Own, Get
    <3> QED  BY <2>1, <2>2, <2>4, <3>1, <3>2 DEF Outstanding, Get
  <2>6. Phases(x)'  BY <2>1, <2>2, <2>4, <2>5 DEF Phases
  <2> QED  BY <2>3, <2>6
<1>10. ASSUME NEW x \in Peers, AddPendingRequest(x) PROVE \A p \in Peers : Phases(p)'
  <2>1. /\ responseHandlers' = responseHandlers /\ broken' = broken /\ initialized' = initialized
        /\ reader[x] = "adding" /\ pool' = pool /\ proxies' = proxies
        /\ reader' = [reader EXCEPT ![x] = "reading"]
    BY <1>10 DEF AddPendingRequest, brokerVars
  <2>2. reader'[x] = "reading" /\ \A q \in Peers : q # x => reader'[q] = reader[q]
    BY <2>1 DEF Typed, TypeOK
  <2>3. \A p \in Peers : NoneAdded(p)  BY <2>1, NoneAddedFrom, EntriesOutstanding
  <2> QED  BY <2>1, <2>2, <2>3, PhasesKept
<1>11. ASSUME NEW x \in Peers, ReaderEnds(x) PROVE \A p \in Peers : Phases(p)'
  <2>1. /\ responseHandlers' = responseHandlers /\ broken' = broken /\ initialized' = initialized
        /\ broken /\ reader[x] = "reading" /\ pool' = pool
        /\ reader' = [reader EXCEPT ![x] = "ended"] /\ proxies' = [proxies EXCEPT ![x] = {}]
    BY <1>11 DEF ReaderEnds, brokerVars
  <2>2. /\ reader'[x] = "ended"
        /\ \A q \in Peers : q # x => reader'[q] = reader[q] /\ proxies'[q] = proxies[q]
    BY <2>1 DEF Typed, TypeOK
  <2>3. \A p \in Peers : NoneAdded(p)  BY <2>1, NoneAddedFrom, EntriesOutstanding
  <2>4. Phases(x)'  BY <2>1, <2>2 DEF Phases
  <2> QED  BY <2>1, <2>2, <2>3, <2>4, PhasesKept
<1>12. ASSUME NEW x \in Peers, NEW m, ReadGet(x, m) \/ ReadRequest(x, m) \/ ReadResponse(x, m)
       PROVE  \A p \in Peers : Phases(p)'
  <2>1. /\ responseHandlers' = responseHandlers /\ broken' = broken /\ initialized' = initialized
        /\ proxies' = proxies
    BY <1>12 DEF ReadGet, ReadRequest, ReadResponse, brokerVars, processorVars
  <2>2. \/ reader' = reader
        \/ reader[x] = "reading" /\ reader' = [reader EXCEPT ![x] = "adding"]
    BY <1>12 DEF ReadGet, ReadRequest, ReadResponse, Reads
  <2>3. \A p \in Peers : reader'[p] = reader[p] \/ {reader[p], reader'[p]} \subseteq {"reading", "adding"}
    BY <2>2 DEF Typed, TypeOK
  <2>4. Reads(x, m) /\ Take(x)  BY <1>12 DEF ReadGet, ReadRequest, ReadResponse
  <2>5. m \in Messages  BY <2>4, TakeTyped
  <2>6. /\ \A z \in pool'[x] : z \in pool[x] \/ z.task = "response" \/ z.handler = "adapter"
        /\ \A q \in Peers : q # x => pool'[q] = pool[q]
    <3>1. CASE pool' = pool  BY <3>1
    <3>2. CASE Queue(x, Received(m))
      <4>1. Received(m) \in Items /\ Received(m).handler = "adapter"
        BY <2>5, ReceivedTyped DEF Received
      <4> QED  BY <3>2, <4>1, QueueTyped
    <3>3. CASE ReadResponse(x, m)
      <4> PICK item : item = [task |-> "response", request |-> m.request, id |-> m.id]  OBVIOUS
      <4>1. item \in Items /\ item.task = "response"  BY <2>5 DEF Items, Messages
      <4>2. Queue(x, item)  BY <3>3 DEF ReadResponse
      <4> QED  BY <4>1, <4>2, QueueTyped
    <3> QED  BY <1>12, <3>1, <3>2, <3>3 DEF ReadGet, ReadRequest
  <2>7. Directed(x)'  BY <1>12, ReadRequestChain, ReadResponseChain DEF Chain
  <2>8. \A z \in pool'[x] : z.task = "request" /\ z.request.from = x => z \in pool[x]
    BY <2>6, <2>7 DEF Directed
  <2>9. \A p \in Peers : NoneAdded(p)
    BY <2>1, <2>6, <2>8, NoneAddedFrom, EntriesOutstanding
  <2> QED  BY <2>1, <2>3, <2>9, PhasesKept
<1> QED
  BY <1>1, <1>2, <1>3, <1>4, <1>5, <1>6, <1>7, <1>8, <1>9, <1>10, <1>11, <1>12, NextSteps

\* IInv holds at first.
LEMMA InitIInv == Init => IInv
BY InitTyped, InitChain, InitPhases DEF IInv

\* IInv is inductive.
LEMMA IInvStep == IInv /\ [Next]_vars => IInv'
BY TypeStep, ChainStep, PhasesStep DEF IInv

\* A peer that serves requests knows the resources of the other, unless the pipe is
\* broken: the chain of its two requests has passed through both brokers
\* (RemoteMessageProcessor.Initialize).
THEOREM ServesWhenItKnows == Spec => []InitializedKnowsResources
<1>1. IInv => InitializedKnowsResources
  <2> SUFFICES ASSUME IInv, NEW p \in Peers, initialized[p], ~broken
               PROVE  proxies[p] = {"lists", "resource"}
    BY DEF InitializedKnowsResources
  <2>1. Phases(p) /\ proxies[p] \in SUBSET {"lists", "resource"}  BY DEF IInv, Typed, TypeOK
  <2> QED  BY <2>1 DEF Phases
<1> QED  BY <1>1, InitIInv, IInvStep, PTL DEF Spec

-----------------------------------------------------------------------------
(* The subscriptions *)

\* The queue is what has been put in and not been taken out.
OrderInv ==
  \A s \in Subscriptions :
    /\ Len(enqueued[s]) = Len(handled[s]) + Len(queue[s])
    /\ \A i \in 1..Len(queue[s]) : queue[s][i] = enqueued[s][Len(handled[s]) + i]

\* What has been put into a queue is not about to be put there.
OnceInv ==
  /\ \A n \in Notifications : handlers[n] # {} => n \in dispatched
  /\ \A s \in Subscriptions : \A i \in 1..Len(enqueued[s]) :
       enqueued[s][i] \in dispatched /\ s \notin handlers[enqueued[s][i]]

\* The threads between Enqueue and the work item of s.
CallersOf(s) == {n \in Notifications : calling[n] = s}

WorkInv ==
  \A s \in Subscriptions :
    IsFiniteSet(CallersOf(s)) /\ workItems[s] + Cardinality(CallersOf(s)) = Len(queue[s])

DispatchInv == Subs!TypeOK /\ OrderInv /\ OnceInv /\ WorkInv

-----------------------------------------------------------------------------
THEOREM DispatchInit == Subs!Init => DispatchInv
<1> SUFFICES ASSUME Subs!Init PROVE DispatchInv OBVIOUS
<1>1. <<>> \in Seq(Notifications) /\ Len(<<>>) = 0 OBVIOUS
<1>2. Subs!TypeOK BY <1>1 DEF Subs!Init, Subs!TypeOK
<1>3. OrderInv BY <1>1 DEF Subs!Init, OrderInv
<1>4. OnceInv BY <1>1 DEF Subs!Init, OnceInv
<1>5. ASSUME NEW s \in Subscriptions
      PROVE  IsFiniteSet(CallersOf(s)) /\ workItems[s] + Cardinality(CallersOf(s)) = Len(queue[s])
  <2>1. CallersOf(s) = {} BY SubscriptionsAssumption DEF Subs!Sensible, Subs!Init, CallersOf
  <2>2. workItems[s] = 0 /\ queue[s] = <<>> BY DEF Subs!Init
  <2> QED BY <1>1, <2>1, <2>2, FS_EmptySet
<1> QED BY <1>2, <1>3, <1>4, <1>5 DEF DispatchInv, WorkInv

\* The list of the subscriptions and the copies of it do not matter to the queues.
LEMMA ListStep ==
  ASSUME DispatchInv, NEW s \in Subscriptions, Subs!Add(s) \/ Subs!Remove(s)
  PROVE  DispatchInv'
<1>1. /\ subscriptions' \subseteq Subscriptions /\ added' \subseteq Subscriptions
      /\ dispatched' = dispatched /\ handlers' = handlers /\ calling' = calling
      /\ queue' = queue /\ workItems' = workItems /\ handling' = handling
      /\ enqueued' = enqueued /\ handled' = handled
  BY DEF DispatchInv, Subs!TypeOK, Subs!Add, Subs!Remove, Subs!listVars, Subs!threadVars, Subs!dispatcherVars, Subs!historyVars
<1>2. Subs!TypeOK' BY <1>1 DEF DispatchInv, Subs!TypeOK
<1>3. OrderInv' BY <1>1 DEF DispatchInv, OrderInv
<1>4. OnceInv' BY <1>1 DEF DispatchInv, OnceInv
<1>5. WorkInv' BY <1>1 DEF DispatchInv, WorkInv, CallersOf
<1> QED BY <1>2, <1>3, <1>4, <1>5 DEF DispatchInv

LEMMA CopyStep ==
  ASSUME DispatchInv, NEW n \in Notifications, Subs!DispatchNotification(n)
  PROVE  DispatchInv'
<1>1. /\ subscriptions' = subscriptions /\ added' = added /\ calling' = calling
      /\ queue' = queue /\ workItems' = workItems /\ handling' = handling
      /\ enqueued' = enqueued /\ handled' = handled
      /\ n \notin dispatched /\ dispatched' = dispatched \cup {n}
      /\ handlers' = [handlers EXCEPT ![n] = Matching[n] \cap subscriptions]
  BY DEF Subs!DispatchNotification, Subs!listVars, Subs!dispatcherVars, Subs!historyVars
<1>2. Subs!TypeOK' BY <1>1, SubscriptionsAssumption DEF Subs!Sensible, DispatchInv, Subs!TypeOK
<1>3. OrderInv' BY <1>1 DEF DispatchInv, OrderInv
<1>4. \A m \in Notifications : m # n => handlers'[m] = handlers[m] BY <1>1 DEF DispatchInv, Subs!TypeOK
<1>5. \A s \in Subscriptions : \A i \in 1..Len(enqueued[s]) : enqueued[s][i] \in Notifications
  BY ElementOfSeq DEF DispatchInv, Subs!TypeOK
<1>6. OnceInv' BY <1>1, <1>4, <1>5 DEF DispatchInv, OnceInv
<1>7. WorkInv' BY <1>1 DEF DispatchInv, WorkInv, CallersOf
<1> QED BY <1>2, <1>3, <1>6, <1>7 DEF DispatchInv

LEMMA EnqueueStep ==
  ASSUME DispatchInv, NEW n \in Notifications, NEW s \in Subscriptions, Subs!Enqueue(n, s)
  PROVE  DispatchInv' /\ \A i \in 1..Len(enqueued[s]) : enqueued[s][i] # n
<1>1. /\ subscriptions' = subscriptions /\ added' = added /\ dispatched' = dispatched
      /\ workItems' = workItems /\ handling' = handling /\ handled' = handled
      /\ s \in handlers[n] /\ calling[n] = None
      /\ handlers' = [handlers EXCEPT ![n] = @ \ {s}]
      /\ calling' = [calling EXCEPT ![n] = s]
      /\ queue' = [queue EXCEPT ![s] = Append(@, n)]
      /\ enqueued' = [enqueued EXCEPT ![s] = Append(@, n)]
  BY DEF Subs!Enqueue, Subs!listVars
<1>2. queue[s] \in Seq(Notifications) /\ enqueued[s] \in Seq(Notifications) BY DEF DispatchInv, Subs!TypeOK
<1>3. /\ Append(queue[s], n) \in Seq(Notifications) /\ Append(enqueued[s], n) \in Seq(Notifications)
      /\ Len(Append(queue[s], n)) = Len(queue[s]) + 1
      /\ Len(Append(enqueued[s], n)) = Len(enqueued[s]) + 1
      /\ \A i \in 1..Len(queue[s]) : Append(queue[s], n)[i] = queue[s][i]
      /\ Append(queue[s], n)[Len(queue[s]) + 1] = n
      /\ \A i \in 1..Len(enqueued[s]) : Append(enqueued[s], n)[i] = enqueued[s][i]
      /\ Append(enqueued[s], n)[Len(enqueued[s]) + 1] = n
  BY <1>2, AppendProperties
<1>4. /\ queue'[s] = Append(queue[s], n) /\ enqueued'[s] = Append(enqueued[s], n)
      /\ \A t \in Subscriptions : t # s => queue'[t] = queue[t] /\ enqueued'[t] = enqueued[t]
  BY <1>1 DEF DispatchInv, Subs!TypeOK
<1>5. Subs!TypeOK' BY <1>1, <1>3 DEF DispatchInv, Subs!TypeOK
<1>6. OrderInv'
  <2>1. ASSUME NEW t \in Subscriptions
        PROVE  /\ Len(enqueued'[t]) = Len(handled[t]) + Len(queue'[t])
               /\ \A i \in 1..Len(queue'[t]) : queue'[t][i] = enqueued'[t][Len(handled[t]) + i]
    <3>1. CASE t # s BY <3>1, <1>4 DEF DispatchInv, OrderInv
    <3>2. CASE t = s
      <4>0. /\ queue \in [Subscriptions -> Seq(Notifications)] /\ handled \in [Subscriptions -> Seq(Notifications)]
            /\ enqueued \in [Subscriptions -> Seq(Notifications)]
            /\ Len(enqueued[s]) = Len(handled[s]) + Len(queue[s])
        BY DEF DispatchInv, Subs!TypeOK, OrderInv
      <4>1. \A i \in 1..Len(queue[s]) : queue[s][i] = enqueued[s][Len(handled[s]) + i]
        BY DEF DispatchInv, OrderInv
      <4>2. ASSUME NEW i \in 1..(Len(queue[s]) + 1)
            PROVE  Append(queue[s], n)[i] = Append(enqueued[s], n)[Len(handled[s]) + i]
        <5>1. CASE i = Len(queue[s]) + 1
          <6>1. Len(handled[s]) + i = Len(enqueued[s]) + 1 BY <4>0, <5>1
          <6> QED BY <1>3, <5>1, <6>1
        <5>2. CASE i # Len(queue[s]) + 1
          <6>1. i \in 1..Len(queue[s]) /\ Len(handled[s]) + i \in 1..Len(enqueued[s]) BY <4>0, <5>2
          <6> QED BY <1>3, <4>1, <6>1
        <5> QED BY <5>1, <5>2
      <4>3. Len(Append(enqueued[s], n)) = Len(handled[s]) + Len(Append(queue[s], n)) BY <1>3, <4>0
      <4>4. 1..Len(Append(queue[s], n)) = 1..(Len(queue[s]) + 1) BY <1>3
      <4> QED BY <1>4, <3>2, <4>2, <4>3, <4>4
    <3> QED BY <3>1, <3>2
  <2> QED BY <2>1, <1>1 DEF OrderInv
<1>7. \A i \in 1..Len(enqueued[s]) : enqueued[s][i] # n BY <1>1 DEF DispatchInv, OnceInv
<1>8. OnceInv'
  <2>1. n \in dispatched BY <1>1 DEF DispatchInv, OnceInv
  <2>2. \A m \in Notifications : handlers'[m] \subseteq handlers[m] BY <1>1 DEF DispatchInv, Subs!TypeOK
  <2>3. s \notin handlers'[n] BY <1>1 DEF DispatchInv, Subs!TypeOK
  <2>4. ASSUME NEW t \in Subscriptions, NEW i \in 1..Len(enqueued'[t])
        PROVE  enqueued'[t][i] \in dispatched /\ t \notin handlers'[enqueued'[t][i]]
    <3>1. enqueued[t] \in Seq(Notifications) BY DEF DispatchInv, Subs!TypeOK
    <3>2. CASE i \in 1..Len(enqueued[t])
      <4>1. enqueued'[t][i] = enqueued[t][i] /\ enqueued[t][i] \in Notifications
        BY <1>3, <1>4, <3>1, <3>2, ElementOfSeq
      <4> QED BY <2>2, <3>2, <4>1 DEF DispatchInv, OnceInv
    <3>3. CASE i \notin 1..Len(enqueued[t])
      <4>1. t = s BY <1>4, <3>3
      <4>2. Len(enqueued[s]) \in Nat BY <1>2, LenProperties
      <4>3. i = Len(enqueued[s]) + 1 BY <1>3, <1>4, <3>3, <4>1, <4>2
      <4> QED BY <1>3, <1>4, <2>1, <2>3, <4>1, <4>3
    <3> QED BY <3>2, <3>3
  <2> QED BY <2>2, <2>4, <1>1 DEF DispatchInv, OnceInv
<1>9. WorkInv'
  <2>1. ASSUME NEW t \in Subscriptions
        PROVE  IsFiniteSet(CallersOf(t)') /\ workItems[t] + Cardinality(CallersOf(t)') = Len(queue'[t])
    <3>1. IsFiniteSet(CallersOf(t)) /\ workItems[t] + Cardinality(CallersOf(t)) = Len(queue[t])
      BY DEF DispatchInv, WorkInv
    <3>2. CASE t # s
      <4>1. CallersOf(t)' = CallersOf(t) BY <1>1, <3>2, SubscriptionsAssumption DEF Subs!Sensible, DispatchInv, Subs!TypeOK, CallersOf
      <4> QED BY <1>4, <3>1, <3>2, <4>1
    <3>3. CASE t = s
      <4>1. CallersOf(s)' = CallersOf(s) \cup {n} /\ n \notin CallersOf(s)
        BY <1>1, SubscriptionsAssumption DEF Subs!Sensible, DispatchInv, Subs!TypeOK, CallersOf
      <4>2. IsFiniteSet(CallersOf(s)') /\ Cardinality(CallersOf(s)') = Cardinality(CallersOf(s)) + 1
        BY <3>1, <3>3, <4>1, FS_AddElement
      <4>3. Cardinality(CallersOf(s)) \in Nat /\ workItems[s] \in Nat
        BY <3>1, <3>3, FS_CardinalityType DEF DispatchInv, Subs!TypeOK
      <4>4. Len(queue'[s]) = Len(queue[s]) + 1 BY <1>3, <1>4
      <4> HIDE DEF CallersOf
      <4> QED BY <3>1, <3>3, <4>2, <4>3, <4>4
    <3> QED BY <3>2, <3>3
  <2> QED BY <2>1, <1>1 DEF WorkInv
<1> QED BY <1>5, <1>6, <1>7, <1>8, <1>9 DEF DispatchInv

LEMMA QueueWorkItemStep ==
  ASSUME DispatchInv, NEW n \in Notifications, Subs!QueueWorkItem(n)
  PROVE  DispatchInv'
<1> DEFINE s == calling[n]
<1>1. /\ subscriptions' = subscriptions /\ added' = added /\ dispatched' = dispatched
      /\ handlers' = handlers /\ queue' = queue /\ handling' = handling
      /\ enqueued' = enqueued /\ handled' = handled
      /\ s # None
      /\ calling' = [calling EXCEPT ![n] = None]
      /\ workItems' = [workItems EXCEPT ![s] = @ + 1]
  BY DEF Subs!QueueWorkItem, Subs!listVars, Subs!historyVars
<1>2. s \in Subscriptions BY <1>1 DEF DispatchInv, Subs!TypeOK
<1>3. Subs!TypeOK' BY <1>1, <1>2 DEF DispatchInv, Subs!TypeOK
<1>4. OrderInv' BY <1>1 DEF DispatchInv, OrderInv
<1>5. OnceInv' BY <1>1 DEF DispatchInv, OnceInv
<1>6. WorkInv'
  <2>1. ASSUME NEW t \in Subscriptions
        PROVE  IsFiniteSet(CallersOf(t)') /\ workItems'[t] + Cardinality(CallersOf(t)') = Len(queue[t])
    <3>1. IsFiniteSet(CallersOf(t)) /\ workItems[t] + Cardinality(CallersOf(t)) = Len(queue[t])
      BY DEF DispatchInv, WorkInv
    <3>2. CASE t # s
      <4>1. CallersOf(t)' = CallersOf(t) BY <1>1, <3>2, SubscriptionsAssumption DEF Subs!Sensible, DispatchInv, Subs!TypeOK, CallersOf
      <4>2. workItems'[t] = workItems[t] BY <1>1, <3>2 DEF DispatchInv, Subs!TypeOK
      <4> QED BY <3>1, <4>1, <4>2
    <3>3. CASE t = s
      <4>1. CallersOf(t)' = CallersOf(t) \ {n} /\ n \in CallersOf(t)
        BY <1>1, <3>3, SubscriptionsAssumption DEF Subs!Sensible, DispatchInv, Subs!TypeOK, CallersOf
      <4>2. IsFiniteSet(CallersOf(t)') /\ Cardinality(CallersOf(t)') = Cardinality(CallersOf(t)) - 1
        BY <3>1, <4>1, FS_RemoveElement
      <4>3. Cardinality(CallersOf(t)) \in Nat /\ workItems[t] \in Nat
        BY <3>1, FS_CardinalityType DEF DispatchInv, Subs!TypeOK
      <4>4. workItems'[t] = workItems[t] + 1 BY <1>1, <3>3 DEF DispatchInv, Subs!TypeOK
      <4> HIDE DEF CallersOf, s
      <4> QED BY <3>1, <4>2, <4>3, <4>4
    <3> QED BY <3>2, <3>3
  <2> QED BY <2>1, <1>1 DEF WorkInv
<1> QED BY <1>3, <1>4, <1>5, <1>6 DEF DispatchInv

\* A work item finds an element in the queue, the next that the handler is to be called with.
LEMMA FirstIsNext ==
  ASSUME DispatchInv, NEW s \in Subscriptions, workItems[s] > 0
  PROVE  /\ queue[s] # <<>>
         /\ Len(handled[s]) < Len(enqueued[s])
         /\ Head(queue[s]) = enqueued[s][Len(handled[s]) + 1]
<1>1. /\ queue \in [Subscriptions -> Seq(Notifications)] /\ handled \in [Subscriptions -> Seq(Notifications)]
      /\ enqueued \in [Subscriptions -> Seq(Notifications)] /\ workItems \in [Subscriptions -> Nat]
  BY DEF DispatchInv, Subs!TypeOK
<1>2. Cardinality(CallersOf(s)) \in Nat /\ workItems[s] + Cardinality(CallersOf(s)) = Len(queue[s])
  BY FS_CardinalityType DEF DispatchInv, WorkInv
<1>3. Len(queue[s]) > 0
  <2> HIDE DEF CallersOf
  <2> QED BY <1>1, <1>2
<1>4. queue[s] # <<>> /\ Head(queue[s]) = queue[s][1] BY <1>1, <1>3
<1>5. /\ Len(enqueued[s]) = Len(handled[s]) + Len(queue[s])
      /\ queue[s][1] = enqueued[s][Len(handled[s]) + 1]
  BY <1>1, <1>3 DEF DispatchInv, OrderInv
<1> QED BY <1>1, <1>3, <1>4, <1>5

LEMMA CallStep ==
  ASSUME DispatchInv, NEW s \in Subscriptions, Subs!Call(s)
  PROVE  DispatchInv'
<1> DEFINE n == Head(queue[s])
<1>1. /\ subscriptions' = subscriptions /\ added' = added /\ dispatched' = dispatched
      /\ handlers' = handlers /\ calling' = calling /\ enqueued' = enqueued
      /\ workItems[s] > 0
      /\ workItems' = [workItems EXCEPT ![s] = @ - 1]
  BY DEF Subs!Call, Subs!listVars, Subs!threadVars
<1>2. queue[s] # <<>> BY <1>1, FirstIsNext
<1>3. /\ queue' = [queue EXCEPT ![s] = Tail(@)]
      /\ handling' = [handling EXCEPT ![s] = n]
      /\ handled' = [handled EXCEPT ![s] = Append(@, n)]
  BY <1>2 DEF Subs!Call
<1>4. queue[s] \in Seq(Notifications) /\ handled[s] \in Seq(Notifications) BY DEF DispatchInv, Subs!TypeOK
<1>5. /\ n \in Notifications /\ Tail(queue[s]) \in Seq(Notifications)
      /\ Len(Tail(queue[s])) = Len(queue[s]) - 1
      /\ \A i \in 1..Len(Tail(queue[s])) : Tail(queue[s])[i] = queue[s][i + 1]
  BY <1>2, <1>4, HeadTailProperties
<1>6. Append(handled[s], n) \in Seq(Notifications) /\ Len(Append(handled[s], n)) = Len(handled[s]) + 1
  BY <1>4, <1>5, AppendProperties
<1>7. /\ queue'[s] = Tail(queue[s]) /\ handled'[s] = Append(handled[s], n) /\ workItems'[s] = workItems[s] - 1
      /\ \A t \in Subscriptions :
           t # s => queue'[t] = queue[t] /\ handled'[t] = handled[t] /\ workItems'[t] = workItems[t]
  BY <1>1, <1>3 DEF DispatchInv, Subs!TypeOK
<1>8. workItems[s] \in Nat /\ workItems[s] - 1 \in Nat BY <1>1 DEF DispatchInv, Subs!TypeOK
<1> HIDE DEF n
<1>9. Subs!TypeOK' BY <1>1, <1>3, <1>5, <1>6, <1>8 DEF DispatchInv, Subs!TypeOK
<1>10. OrderInv'
  <2>1. ASSUME NEW t \in Subscriptions
        PROVE  /\ Len(enqueued[t]) = Len(handled'[t]) + Len(queue'[t])
               /\ \A i \in 1..Len(queue'[t]) : queue'[t][i] = enqueued[t][Len(handled'[t]) + i]
    <3>1. CASE t # s BY <3>1, <1>7 DEF DispatchInv, OrderInv
    <3>2. CASE t = s
      <4>0. /\ queue \in [Subscriptions -> Seq(Notifications)] /\ handled \in [Subscriptions -> Seq(Notifications)]
            /\ enqueued \in [Subscriptions -> Seq(Notifications)]
            /\ Len(enqueued[s]) = Len(handled[s]) + Len(queue[s])
        BY DEF DispatchInv, Subs!TypeOK, OrderInv
      <4>1. \A i \in 1..Len(queue[s]) : queue[s][i] = enqueued[s][Len(handled[s]) + i]
        BY DEF DispatchInv, OrderInv
      <4>2. ASSUME NEW i \in 1..(Len(queue[s]) - 1)
            PROVE  Tail(queue[s])[i] = enqueued[s][(Len(handled[s]) + 1) + i]
        <5>1. i + 1 \in 1..Len(queue[s]) /\ Len(handled[s]) + (i + 1) = (Len(handled[s]) + 1) + i BY <4>0
        <5> QED BY <1>5, <4>1, <5>1
      <4>3. Len(enqueued[s]) = Len(Append(handled[s], n)) + Len(Tail(queue[s])) BY <1>5, <1>6, <4>0
      <4>4. 1..Len(Tail(queue[s])) = 1..(Len(queue[s]) - 1) BY <1>5
      <4> QED BY <1>6, <1>7, <3>2, <4>2, <4>3, <4>4
    <3> QED BY <3>1, <3>2
  <2> QED BY <2>1, <1>1 DEF OrderInv
<1>11. OnceInv' BY <1>1 DEF DispatchInv, OnceInv
<1>12. WorkInv'
  <2>1. ASSUME NEW t \in Subscriptions
        PROVE  IsFiniteSet(CallersOf(t)) /\ workItems'[t] + Cardinality(CallersOf(t)) = Len(queue'[t])
    <3>1. IsFiniteSet(CallersOf(t)) /\ workItems[t] + Cardinality(CallersOf(t)) = Len(queue[t])
      BY DEF DispatchInv, WorkInv
    <3>2. Cardinality(CallersOf(t)) \in Nat BY <3>1, FS_CardinalityType
    <3>3. queue \in [Subscriptions -> Seq(Notifications)] /\ workItems \in [Subscriptions -> Nat] BY DEF DispatchInv, Subs!TypeOK
    <3> HIDE DEF CallersOf
    <3> DEFINE callers == Cardinality(CallersOf(t))
    <3>4. callers \in Nat /\ workItems[t] + callers = Len(queue[t]) BY <3>1, <3>2
    <3> HIDE DEF callers
    <3>5. workItems[t] - 1 + callers = Len(queue[t]) - 1 BY <3>3, <3>4
    <3>6. t = s => workItems[t] - 1 + callers = Len(Tail(queue[t])) BY <1>5, <3>5
    <3> QED BY <1>7, <3>1, <3>6 DEF callers
  <2>2. \A t \in Subscriptions : CallersOf(t)' = CallersOf(t) BY <1>1 DEF CallersOf
  <2> QED BY <2>1, <2>2 DEF WorkInv
<1> QED BY <1>9, <1>10, <1>11, <1>12 DEF DispatchInv

LEMMA ReturnStep ==
  ASSUME DispatchInv, NEW s \in Subscriptions, Subs!Return(s)
  PROVE  DispatchInv'
<1>1. /\ subscriptions' = subscriptions /\ added' = added /\ dispatched' = dispatched
      /\ handlers' = handlers /\ calling' = calling /\ queue' = queue /\ workItems' = workItems
      /\ enqueued' = enqueued /\ handled' = handled
      /\ handling' = [handling EXCEPT ![s] = None]
  BY DEF Subs!Return, Subs!listVars, Subs!threadVars, Subs!historyVars
<1>2. Subs!TypeOK' BY <1>1 DEF DispatchInv, Subs!TypeOK
<1>3. OrderInv' BY <1>1 DEF DispatchInv, OrderInv
<1>4. OnceInv' BY <1>1 DEF DispatchInv, OnceInv
<1>5. WorkInv' BY <1>1 DEF DispatchInv, WorkInv, CallersOf
<1> QED BY <1>2, <1>3, <1>4, <1>5 DEF DispatchInv

THEOREM DispatchNext == DispatchInv /\ [Subs!Next]_(Subs!vars) => DispatchInv'
<1> SUFFICES ASSUME DispatchInv, [Subs!Next]_(Subs!vars) PROVE DispatchInv' OBVIOUS
<1>1. CASE UNCHANGED Subs!vars
  <2>1. /\ subscriptions' = subscriptions /\ added' = added /\ dispatched' = dispatched
        /\ handlers' = handlers /\ calling' = calling /\ queue' = queue /\ workItems' = workItems
        /\ handling' = handling /\ enqueued' = enqueued /\ handled' = handled
    BY <1>1 DEF Subs!vars, Subs!listVars, Subs!threadVars, Subs!dispatcherVars, Subs!historyVars
  <2>2. Subs!TypeOK' BY <2>1 DEF DispatchInv, Subs!TypeOK
  <2>3. OrderInv' BY <2>1 DEF DispatchInv, OrderInv
  <2>4. OnceInv' BY <2>1 DEF DispatchInv, OnceInv
  <2>5. WorkInv' BY <2>1 DEF DispatchInv, WorkInv, CallersOf
  <2> QED BY <2>2, <2>3, <2>4, <2>5 DEF DispatchInv
<1>2. ASSUME NEW s \in Subscriptions, Subs!Add(s) \/ Subs!Remove(s) \/ Subs!Call(s) \/ Subs!Return(s) PROVE DispatchInv'
  BY <1>2, ListStep, CallStep, ReturnStep
<1>3. ASSUME NEW n \in Notifications, Subs!DispatchNotification(n) \/ Subs!QueueWorkItem(n) \/ \E s \in Subscriptions : Subs!Enqueue(n, s)
      PROVE  DispatchInv'
  BY <1>3, CopyStep, QueueWorkItemStep, EnqueueStep
<1> QED BY <1>1, <1>2, <1>3 DEF Subs!Next

THEOREM DispatchHolds == Subs!Spec => []DispatchInv
BY DispatchInit, DispatchNext, PTL DEF Subs!Spec

\* The queues and the threads of the dispatchers have their types (RegisteredSubscriptionHandlers,
\* SequentialDispatcher).
THEOREM DispatcherTypeCorrect == Subs!Spec => []Subs!TypeOK
<1>1. DispatchInv => Subs!TypeOK BY DEF DispatchInv
<1> QED BY <1>1, DispatchHolds, PTL

\* No work item finds the queue empty and none is missing, for any number of threads
\* (SequentialDispatcher.DispatchAsync).
THEOREM WorkIsConserved == Subs!Spec => []WorkMatchesQueue
<1>1. DispatchInv => WorkMatchesQueue
  BY DEF DispatchInv, WorkInv, WorkMatchesQueue, Subs!WorkMatchesQueue, CallersOf, Subs!Cardinality, Cardinality
<1> QED BY <1>1, DispatchHolds, PTL

\* Whatever threads dispatch and however the pool runs the work items, a subscription is told
\* everything once and in order (SequentialDispatcher).
THEOREM DispatcherImplementsDelivery == Subs!Spec => ImplementsDelivery
<1> DEFINE running == [s \in Subscriptions |-> handling[s] # None]
<1>1. Subs!Init => Subs!Promise!Init BY SubscriptionsAssumption DEF Subs!Sensible, Subs!Init, Subs!Promise!Init
<1>2. ASSUME DispatchInv, [Subs!Next]_(Subs!vars) PROVE [Subs!Promise!Next]_<<enqueued, handled, running>>
  <2>1. ASSUME handling' = handling PROVE running' = running BY <2>1
  <2>2. ASSUME NEW n \in Notifications, NEW s \in Subscriptions, Subs!Enqueue(n, s)
        PROVE  Subs!Promise!Send(s, n)
    <3>1. \A i \in 1..Len(enqueued[s]) : enqueued[s][i] # n BY <1>2, <2>2, EnqueueStep
    <3>2. /\ enqueued' = [enqueued EXCEPT ![s] = Append(@, n)]
          /\ handled' = handled /\ handling' = handling
      BY <2>2 DEF Subs!Enqueue
    <3> QED BY <2>1, <3>1, <3>2 DEF Subs!Promise!Send
  <2>3. ASSUME NEW s \in Subscriptions, Subs!Call(s) PROVE Subs!Promise!Call(s)
    <3>1. workItems[s] > 0 /\ handling[s] = None /\ enqueued' = enqueued BY <2>3 DEF Subs!Call
    <3>2. /\ queue[s] # <<>> /\ Len(handled[s]) < Len(enqueued[s])
          /\ Head(queue[s]) = enqueued[s][Len(handled[s]) + 1]
      BY <1>2, <3>1, FirstIsNext
    <3>3. /\ handled' = [handled EXCEPT ![s] = Append(@, Head(queue[s]))]
          /\ handling' = [handling EXCEPT ![s] = Head(queue[s])]
      BY <2>3, <3>2 DEF Subs!Call
    <3>4. Head(queue[s]) # None
      <4>1. queue[s] \in Seq(Notifications) BY <1>2 DEF DispatchInv, Subs!TypeOK
      <4>2. Head(queue[s]) \in Notifications BY <3>2, <4>1, HeadTailProperties
      <4> QED BY <4>2, SubscriptionsAssumption DEF Subs!Sensible
    <3>5. running' = [running EXCEPT ![s] = TRUE]
      BY <1>2, <3>3, <3>4, Zenon DEF DispatchInv, Subs!TypeOK
    <3>6. ~running[s] BY <3>1
    <3>7. handled' = [handled EXCEPT ![s] = Append(@, enqueued[s][Len(@) + 1])]
      BY <1>2, <3>2, <3>3 DEF DispatchInv, Subs!TypeOK
    <3> HIDE DEF running
    <3> QED BY <3>1, <3>2, <3>5, <3>6, <3>7 DEF Subs!Promise!Call, running
  <2>4. ASSUME NEW s \in Subscriptions, Subs!Return(s) PROVE Subs!Promise!Return(s)
    <3>1. /\ handling[s] # None /\ handling' = [handling EXCEPT ![s] = None]
          /\ enqueued' = enqueued /\ handled' = handled
      BY <2>4 DEF Subs!Return, Subs!historyVars
    <3>2. running' = [running EXCEPT ![s] = FALSE] BY <1>2, <3>1, Zenon DEF DispatchInv, Subs!TypeOK
    <3> QED BY <3>1, <3>2 DEF Subs!Promise!Return
  <2>5. ASSUME NEW s \in Subscriptions, Subs!Add(s) \/ Subs!Remove(s)
        PROVE  enqueued' = enqueued /\ handled' = handled /\ handling' = handling
    BY <2>5 DEF Subs!Add, Subs!Remove, Subs!dispatcherVars, Subs!historyVars
  <2>6. ASSUME NEW n \in Notifications, Subs!DispatchNotification(n) \/ Subs!QueueWorkItem(n)
        PROVE  enqueued' = enqueued /\ handled' = handled /\ handling' = handling
    BY <2>6 DEF Subs!DispatchNotification, Subs!QueueWorkItem, Subs!dispatcherVars, Subs!historyVars
  <2>7. CASE UNCHANGED Subs!vars
    BY <2>1, <2>7 DEF Subs!vars, Subs!dispatcherVars, Subs!historyVars
  <2> QED BY <1>2, <2>1, <2>2, <2>3, <2>4, <2>5, <2>6, <2>7 DEF Subs!Next, Subs!Promise!Next
<1> QED BY <1>1, <1>2, DispatchHolds, PTL DEF Subs!Spec, ImplementsDelivery, Subs!ImplementsDelivery, Subs!Promise!Spec
=============================================================================
