---------------------------- MODULE AcpEndpoints ----------------------------
(***************************************************************************)
(* Two ACP message brokers joined by a duplex named pipe: how a request    *)
(* finds its response through both of them, and how each side learns the   *)
(* resources and subscriptions of the other before it serves its requests. *)
(*                                                                         *)
(* AcpMessageBroker runs every request and every response on the thread    *)
(* pool, so both overtake each other there; the pipe and the reader thread *)
(* of NamedPipeAdapter.ProcessMessages keep the order.  Both peers run the *)
(* same library.  Every peer offers one resource, with a provider that     *)
(* answers at any later time, and requests the one of the other peer.      *)
(* Left out: notifications of later changes to the resources, and with     *)
(* them POST /subscriptions, which asks for them, is answered by the       *)
(* remote's reader thread and has an empty response handler.  A broken     *)
(* pipe is not connected again, so there is no response that nobody waits  *)
(* for.                                                                    *)
(***************************************************************************)
EXTENDS Naturals, Sequences

CONSTANTS
  Peers,
  Clients,   \* bound: the clients, which make one request each
  Callers,   \* bound: the peers that have these clients
  MayBreak   \* whether the pipe can break

ASSUME PeersAssumption ==
  /\ \E p, q \in Peers : p # q /\ Peers = {p, q}
  /\ Clients \cap {"getResources", "getSubscriptions"} = {}
  /\ Callers \subseteq Peers
  /\ MayBreak \in BOOLEAN

VARIABLES
  lastUniqueId,       \* UniqueIdProvider of each process
  responseHandlers,   \* ResponseMessageHandler: the requests that wait for a response, by id
  pool,               \* work items in the thread pool
  wire,               \* messages on their way to each peer
  reader,             \* what the thread in ProcessMessages does
  held,               \* the request the reader is about to add to pendingRequests
  initialized,
  pendingRequests,
  proxies,            \* what of the remote is registered here: its lists, its resource
  broken,             \* the pipe is broken
  made,               \* history: requests dispatched by their peer
  answered            \* history: requests whose response handler was called

brokerVars == <<lastUniqueId, responseHandlers>>
processorVars == <<initialized, pendingRequests, proxies>>
historyVars == <<made, answered>>
vars == <<brokerVars, pool, wire, reader, held, processorVars, broken, historyVars>>

Other(p) == CHOOSE q \in Peers : q # p

\* The requests of RequestRemoteResources and RequestRemoteSubscriptions.
Gets == {"getResources", "getSubscriptions"}

Requests == [from : Peers, what : Gets \cup Clients]

\* handler: the ResponseHandler is the callback of the client, or sends to the remote.
Entries == [request : Requests, externalId : Nat, handler : {"client", "adapter"}]

Messages == [type : {"request", "response"}, id : Nat, request : Requests]

Items ==
  [task : {"request"}, request : Requests, id : Nat, handler : {"client", "adapter"}]
    \cup [task : {"response"}, request : Requests, id : Nat]
    \cup [task : {"flush"}]

TypeOK ==
  /\ lastUniqueId \in [Peers -> Nat]
  /\ \A p \in Peers :
       /\ DOMAIN responseHandlers[p] \subseteq 1..lastUniqueId[p]
       /\ \A id \in DOMAIN responseHandlers[p] : responseHandlers[p][id] \in Entries
  /\ pool \in [Peers -> SUBSET Items]
  /\ wire \in [Peers -> Seq(Messages)]
  /\ reader \in [Peers -> {"handshake", "reading", "adding", "ended"}]
  /\ held \in [Peers -> Seq(Messages)]
  /\ initialized \in [Peers -> BOOLEAN]
  /\ pendingRequests \in [Peers -> Seq(Messages)]
  /\ proxies \in [Peers -> SUBSET {"lists", "resource"}]
  /\ broken \in BOOLEAN
  /\ made \subseteq Requests
  /\ answered \subseteq Requests

Init ==
  /\ lastUniqueId = [p \in Peers |-> 0]
  /\ responseHandlers = [p \in Peers |-> <<>>]
  /\ pool = [p \in Peers |-> {}]
  /\ wire = [p \in Peers |-> <<>>]
  /\ reader = [p \in Peers |-> "handshake"]
  /\ held = [p \in Peers |-> <<>>]
  /\ initialized = [p \in Peers |-> FALSE]
  /\ pendingRequests = [p \in Peers |-> <<>>]
  /\ proxies = [p \in Peers |-> {}]
  /\ broken = FALSE
  /\ made = {}
  /\ answered = {}

-----------------------------------------------------------------------------
(* The broker *)

\* DispatchRequest of a request of p itself, created with the next id, and of a request m
\* that p received.
Own(p, what) ==
  [task |-> "request", request |-> [from |-> p, what |-> what],
   id |-> lastUniqueId[p] + 1, handler |-> "client"]
Received(m) == [task |-> "request", request |-> m.request, id |-> m.id, handler |-> "adapter"]

Created(p) == lastUniqueId' = [lastUniqueId EXCEPT ![p] = @ + 1]

\* The item of p is done and leaves others behind.
Done(p, item, others) == pool' = [pool EXCEPT ![p] = (@ \ {item}) \cup others]

\* Channel.Send: what is written to a pipe that breaks is lost without an error.
Send(p, type, id, request) ==
  wire' = IF broken THEN wire
          ELSE [wire EXCEPT ![Other(p)] =
                  Append(@, [type |-> type, id |-> id, request |-> request])]

\* Mutant: the id of the sender is kept.
RegisterKeepsId(p, item) ==
  LET id == item.id
  IN /\ lastUniqueId' = [lastUniqueId EXCEPT ![p] = @ + 1]
     /\ responseHandlers' = [responseHandlers EXCEPT ![p] =
          [i \in (DOMAIN @) \cup {id} |->
             IF i = id
               THEN [request |-> item.request, externalId |-> item.id, handler |-> item.handler]
               ELSE @[i]]]

\* RegisterRequestMessage: the request gets the next id of this process.
Register(p, item) ==
  LET id == lastUniqueId[p] + 1
  IN /\ lastUniqueId' = [lastUniqueId EXCEPT ![p] = id]
     /\ responseHandlers' = [responseHandlers EXCEPT ![p] =
          [i \in (DOMAIN @) \cup {id} |->
             IF i = id
               THEN [request |-> item.request, externalId |-> item.id, handler |-> item.handler]
               ELSE @[i]]]

\* The next request of p that a proxy takes, or none takes.
ForRemote(p, item, proxied) ==
  /\ item.task = "request" /\ item.request.from = p
  /\ proxied <=> (IF item.request.what \in Gets THEN "lists" ELSE "resource") \in proxies[p]

\* HandleRequest of a request for the remote, through its proxy.
ForwardRequest(p) == \E item \in pool[p] :
  /\ ForRemote(p, item, TRUE)
  /\ Register(p, item)
  /\ Send(p, "request", lastUniqueId'[p], item.request)
  /\ Done(p, item, {})
  /\ UNCHANGED <<reader, held, processorVars, broken, historyVars>>

\* HandleRequest of a request of the remote: the provider here answers later.
ServeRequest(p) == \E item \in pool[p] :
  /\ item.task = "request" /\ item.request.from # p
  /\ Register(p, item)
  /\ Done(p, item, {[task |-> "response", request |-> item.request, id |-> lastUniqueId'[p]]})
  /\ UNCHANGED <<wire, reader, held, processorVars, broken, historyVars>>

\* The response handler of a request of p is called; item led to it.  A response without
\* data registers nothing, and the callbacks go on all the same.
Answer(p, item, found) ==
  /\ answered' = answered \cup {item.request}
  /\ IF item.request.what = "getResources"
       THEN /\ proxies' = [proxies EXCEPT ![p] = @ \cup (IF found THEN {"resource"} ELSE {})]
            /\ Done(p, item, {Own(p, "getSubscriptions")})
            /\ made' = made \cup {[from |-> p, what |-> "getSubscriptions"]}
            /\ Created(p)
            /\ UNCHANGED initialized
       ELSE /\ LET last == item.request.what = "getSubscriptions"
               IN /\ initialized' = [initialized EXCEPT ![p] = @ \/ last]
                  /\ Done(p, item, IF last THEN {[task |-> "flush"]} ELSE {})
            /\ UNCHANGED <<proxies, made, lastUniqueId>>

\* RespondNotFoundBehavior: no handler, the request is answered where it was made.
NotFound(p) == \E item \in pool[p] :
  /\ ForRemote(p, item, FALSE)
  /\ Answer(p, item, FALSE)
  /\ UNCHANGED <<responseHandlers, wire, reader, held, pendingRequests, broken>>

\* The exception of a proxy that writes to a broken pipe is answered with an error.  The
\* entry, which stays in responseHandlers for ever, is left out.
ForwardFails(p) == \E item \in pool[p] :
  /\ broken /\ ForRemote(p, item, TRUE)
  /\ Answer(p, item, FALSE)
  /\ UNCHANGED <<responseHandlers, wire, reader, held, pendingRequests, broken>>

Entry(p, item) == responseHandlers[p][item.id]

Waiting(p, item) == item.task = "response" /\ item.id \in DOMAIN responseHandlers[p]

Forget(p, item) ==
  responseHandlers' = [responseHandlers EXCEPT ![p] = [i \in (DOMAIN @) \ {item.id} |-> @[i]]]

\* ResponseMessageHandler.HandleResponse, for a request of this peer.
HandleOwnResponse(p) == \E item \in pool[p] :
  /\ Waiting(p, item) /\ Entry(p, item).handler = "client"
  /\ Forget(p, item)
  /\ Answer(p, [item EXCEPT !.request = Entry(p, item).request], TRUE)
  /\ UNCHANGED <<wire, reader, held, pendingRequests, broken>>

\* HandleResponse for a request of the remote: the response goes back under the remote's id.
ReturnResponse(p) == \E item \in pool[p] :
  /\ Waiting(p, item) /\ Entry(p, item).handler = "adapter"
  /\ Forget(p, item)
  /\ Send(p, "response", Entry(p, item).externalId, item.request)
  /\ Done(p, item, {})
  /\ UNCHANGED <<lastUniqueId, reader, held, processorVars, broken, historyVars>>

\* Mutant: the requests that were held back are dropped.
DropPendingRequests(p) == \E item \in pool[p] :
  /\ item.task = "flush"
  /\ Done(p, item, {})
  /\ pendingRequests' = [pendingRequests EXCEPT ![p] = <<>>]
  /\ UNCHANGED <<brokerVars, wire, reader, held, initialized, proxies, broken, historyVars>>

\* ProcessPendingRequests, under pendingRequestsLock.
ProcessPendingRequests(p) == \E item \in pool[p] :
  /\ item.task = "flush"
  /\ Done(p, item, {Received(pendingRequests[p][i]) : i \in 1..Len(pendingRequests[p])})
  /\ pendingRequests' = [pendingRequests EXCEPT ![p] = <<>>]
  /\ UNCHANGED <<brokerVars, wire, reader, held, initialized, proxies, broken, historyVars>>

-----------------------------------------------------------------------------
(* The reader thread: NamedPipeAdapter.ProcessMessages after the handshake *)

\* Mutant: the other list is requested first.
InitializeBackwards(p) ==
  /\ reader[p] = "handshake"
  /\ reader' = [reader EXCEPT ![p] = "reading"]
  /\ proxies' = [proxies EXCEPT ![p] = {"lists"}]
  /\ pool' = [pool EXCEPT ![p] = @ \cup {Own(p, "getSubscriptions")}]
  /\ made' = made \cup {[from |-> p, what |-> "getSubscriptions"]}
  /\ Created(p)
  /\ UNCHANGED <<responseHandlers, wire, held, initialized, pendingRequests, broken, answered>>

\* RemoteMessageProcessor.Initialize: the proxies of the remote's lists, then the first
\* request; the other follows its answer.
Initialize(p) ==
  /\ reader[p] = "handshake"
  /\ reader' = [reader EXCEPT ![p] = "reading"]
  /\ proxies' = [proxies EXCEPT ![p] = {"lists"}]
  /\ pool' = [pool EXCEPT ![p] = @ \cup {Own(p, "getResources")}]
  /\ made' = made \cup {[from |-> p, what |-> "getResources"]}
  /\ Created(p)
  /\ UNCHANGED <<responseHandlers, wire, held, initialized, pendingRequests, broken, answered>>

\* The next message on the pipe is m.
Reads(p, m) == reader[p] = "reading" /\ wire[p] # <<>> /\ m = Head(wire[p])

Take(p) == wire' = [wire EXCEPT ![p] = Tail(@)]

Queue(p, item) == pool' = [pool EXCEPT ![p] = @ \cup {item}]

\* Mutant: the requests of the initialisation wait for it as well.
ReadGetWhenInitialized(p, m) ==
  /\ Reads(p, m) /\ m.type = "request" /\ m.request.what \in Gets
  /\ initialized[p]
  /\ Take(p) /\ Queue(p, Received(m))
  /\ UNCHANGED <<brokerVars, reader, held, processorVars, broken, historyVars>>

\* HandleRequest of GET /resources and GET /subscriptions, initialised or not.
ReadGet(p, m) ==
  /\ Reads(p, m) /\ m.type = "request" /\ m.request.what \in Gets
  /\ Take(p) /\ Queue(p, Received(m))
  /\ UNCHANGED <<brokerVars, reader, held, processorVars, broken, historyVars>>

\* HandleRequest of any other request; initialized is read without the lock.
ReadRequest(p, m) ==
  /\ Reads(p, m) /\ m.type = "request" /\ m.request.what \in Clients
  /\ Take(p)
  /\ IF initialized[p]
       THEN Queue(p, Received(m)) /\ UNCHANGED <<reader, held>>
       ELSE /\ reader' = [reader EXCEPT ![p] = "adding"]
            /\ held' = [held EXCEPT ![p] = <<m>>]
            /\ UNCHANGED pool
  /\ UNCHANGED <<brokerVars, processorVars, broken, historyVars>>

AddPendingRequest(p) ==
  /\ reader[p] = "adding"
  /\ pendingRequests' = [pendingRequests EXCEPT ![p] = @ \o held[p]]
  /\ held' = [held EXCEPT ![p] = <<>>]
  /\ reader' = [reader EXCEPT ![p] = "reading"]
  /\ UNCHANGED <<brokerVars, pool, wire, initialized, proxies, broken, historyVars>>

ReadResponse(p, m) ==
  /\ Reads(p, m) /\ m.type = "response"
  /\ Take(p)
  /\ Queue(p, [task |-> "response", request |-> m.request, id |-> m.id])
  /\ UNCHANGED <<brokerVars, reader, held, processorVars, broken, historyVars>>

\* The end of ProcessMessages: UnregisterRemoteResources.
ReaderEnds(p) ==
  /\ broken /\ reader[p] = "reading"
  /\ reader' = [reader EXCEPT ![p] = "ended"]
  /\ proxies' = [proxies EXCEPT ![p] = {}]
  /\ UNCHANGED <<brokerVars, pool, wire, held, initialized, pendingRequests, broken, historyVars>>

-----------------------------------------------------------------------------
(* Clients and the pipe *)

\* A client of p dispatches its request for the resource of the other peer.
Request(p) == \E c \in Clients :
  /\ p \in Callers
  /\ [from |-> p, what |-> c] \notin made
  /\ made' = made \cup {[from |-> p, what |-> c]}
  /\ Queue(p, Own(p, c))
  /\ Created(p)
  /\ UNCHANGED <<responseHandlers, wire, reader, held, processorVars, broken, answered>>

\* The pipe breaks; what it holds is lost.  Bound: it is not connected again.
Break ==
  /\ MayBreak /\ ~broken
  /\ \A p \in Peers : reader[p] # "handshake"
  /\ broken' = TRUE
  /\ wire' = [p \in Peers |-> <<>>]
  /\ UNCHANGED <<brokerVars, pool, reader, held, processorVars, historyVars>>

Broker(p) ==
  \/ ForwardRequest(p) \/ ServeRequest(p) \/ NotFound(p) \/ ForwardFails(p)
  \/ HandleOwnResponse(p) \/ ReturnResponse(p) \/ ProcessPendingRequests(p)

ReadMessage(p) == \E m \in {wire[p][i] : i \in 1..Len(wire[p])} :
  ReadGet(p, m) \/ ReadRequest(p, m) \/ ReadResponse(p, m)

Reader(p) == Initialize(p) \/ ReadMessage(p) \/ AddPendingRequest(p) \/ ReaderEnds(p)

Next == Break \/ \E p \in Peers : Request(p) \/ Broker(p) \/ Reader(p)

Spec == Init /\ [][Next]_vars

\* The pool runs every item and the reader reads what arrives; no client has to make a
\* request and no pipe has to break.
Fairness ==
  \A p \in Peers :
    /\ WF_vars(ForwardRequest(p)) /\ WF_vars(ServeRequest(p)) /\ WF_vars(NotFound(p))
    /\ WF_vars(HandleOwnResponse(p)) /\ WF_vars(ReturnResponse(p))
    /\ WF_vars(ProcessPendingRequests(p)) /\ WF_vars(Reader(p))

FairSpec == Spec /\ Fairness

-----------------------------------------------------------------------------
(* Properties *)

\* Every response meets the request it answers, although both processes number their
\* requests from 1 and every broker gives a request an id of its own
\* (ResponseMessageHandler): it is in responseHandlers, and it is that request.
RepliesMatch ==
  \A p \in Peers :
    /\ \A item \in pool[p] : item.task = "response" =>
         Waiting(p, item) /\ Entry(p, item).request = item.request
    /\ \A i \in 1..Len(wire[p]) :
         LET m == wire[p][i]
         IN m.type = "response" =>
              m.id \in DOMAIN responseHandlers[p] /\ responseHandlers[p][m.id].request = m.request

\* A peer that serves requests knows the resources of the other one: it is initialised
\* by the end of a chain of two requests that both brokers pass on.
InitializedKnowsResources ==
  \A p \in Peers : initialized[p] /\ ~broken => proxies[p] = {"lists", "resource"}

\* Neither peer waits for the other for ever: each answers the requests of the other's
\* initialisation before its own has ended (RemoteMessageProcessor.HandleRequest).
BothInitialize == <>(broken \/ \A p \in Peers : initialized[p])

\* The request r was added to pendingRequests after they had been processed.
Stranded(r) ==
  LET p == Other(r.from)
  IN /\ initialized[p] /\ [task |-> "flush"] \notin pool[p]
     /\ \E i \in 1..Len(pendingRequests[p]) : pendingRequests[p][i].request = r

\* Every request is answered, unless the pipe breaks or it is the one that the reader
\* held back while the initialisation ended.
RequestsAnswered ==
  \A r \in Requests : r \in made ~> (r \in answered \/ broken \/ Stranded(r))
=============================================================================
