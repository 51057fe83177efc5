----------------------------- MODULE MessageBus -----------------------------
(***************************************************************************)
(* The message bus of the web user interface (vpn-1.0.0.js, MessageBus),   *)
(* with the path its envelopes take: the host window's HostRouter, which   *)
(* sends each from a work item of the thread pool, the PipeMessenger that  *)
(* reconnects when it is used, and the Router of the service.              *)
(*                                                                         *)
(* The page draws the id of a request at random and keeps its callback in  *)
(* a table under that id. Replies and notifications come in any order: the *)
(* pool runs work items in any order at every hop. The callbacks of the    *)
(* page run later, from $timeout, in the order they were scheduled.        *)
(*                                                                         *)
(* Envelopes whose content does not matter are what they are about: a      *)
(* member of Requests is that request, a member of Topics a subscription.  *)
(***************************************************************************)
EXTENDS Naturals, Sequences, FiniteSets

CONSTANTS
  Requests,     \* the calls of MessageBus.request
  Topics,       \* the methods the page subscribes to
  Ids,          \* the ids MessageBus can draw
  None,         \* no request, no id
  MaxBreaks     \* bound: how often the service stops

ASSUME MessageBusAssumption ==
  /\ 0 \in Ids /\ None \notin Ids /\ None \notin Requests \cup Topics
  /\ Requests \cap Topics = {}
  /\ MaxBreaks \in Nat

VARIABLES
  callbacks,         \* the topics with a callback in the page
  requestCallbacks,  \* for each id the request whose callback is registered
  idOf,              \* history: the id each request drew
  ran,               \* history: the requests whose replies a callback ran with
  timeouts,          \* the tasks given to $timeout, in order
  work,              \* how many work items of the host send an envelope
  pipe,              \* the host's PipeMessenger
  opener,            \* the envelope whose work item is connecting the pipe
  toService,         \* how many copies of an envelope are under way to the service
  subscribed,        \* the topics the service publishes on the current pipe
  toPage,            \* replies and failures under way to the page
  reestablished,     \* how many connectionReestablished are under way to the page
  running,           \* the service runs
  startEvent,        \* the service has signalled its start to the host
  breaks             \* how often the service has stopped

pageVars == <<callbacks, requestCallbacks, idOf, ran, timeouts>>
hostVars == <<work, pipe, opener, reestablished>>
serviceVars == <<toService, subscribed, toPage, running, startEvent, breaks>>
vars == <<pageVars, hostVars, serviceVars>>

Envelopes == Requests \cup Topics

\* No messenger yet, disconnected, connecting without a stream, connected to a service
\* that has not connected back, connected, closed but not yet marked as disconnected,
\* and waiting for a service that is gone.
PipeStates == {"none", "down", "opening", "half", "up", "closing", "lost"}

\* What a $timeout of the page will do.
CallbackTask(l, r) == [kind |-> "callback", callback |-> l, reply |-> r]
Reestablish == [kind |-> "reestablish"]
RequestError == [kind |-> "requestError"]
Tasks == {CallbackTask(l, r) : l \in Requests, r \in Requests} \cup {Reestablish, RequestError}

\* What the page receives for a request: the service's reply or the host's failure.
Incoming == [kind : {"reply", "broken"}, request : Requests]

TypeOK ==
  /\ callbacks \subseteq Topics
  /\ requestCallbacks \in [Ids -> Requests \cup {None}]
  /\ idOf \in [Requests -> Ids \cup {None}]
  /\ ran \in [Requests -> SUBSET Requests]
  /\ timeouts \in Seq(Tasks)
  /\ work \in [Envelopes -> Nat] /\ toService \in [Envelopes -> Nat]
  /\ pipe \in PipeStates
  /\ opener \in Envelopes \cup {None} /\ (opener # None <=> pipe = "opening")
  /\ subscribed \subseteq Topics
  /\ toPage \subseteq Incoming
  /\ reestablished \in Nat
  /\ running \in BOOLEAN /\ startEvent \in BOOLEAN
  /\ breaks \in 0..(MaxBreaks + 1)

\* The page is loaded; the service runs or is still starting.
Init ==
  /\ callbacks = {}
  /\ requestCallbacks = [i \in Ids |-> None]
  /\ idOf = [r \in Requests |-> None]
  /\ ran = [r \in Requests |-> {}]
  /\ timeouts = <<>>
  /\ work = [e \in Envelopes |-> 0]
  /\ pipe = "none" /\ opener = None
  /\ toService = [e \in Envelopes |-> 0]
  /\ subscribed = {} /\ toPage = {} /\ reestablished = 0
  /\ running \in BOOLEAN /\ startEvent = FALSE
  /\ breaks = IF running THEN 0 ELSE 1

-----------------------------------------------------------------------------
(* The host: what the page hands over is sent from the thread pool.        *)

\* One more, or one less, of an envelope.
Plus(bag, e) == [bag EXCEPT ![e] = @ + 1]
Minus(bag, e) == [bag EXCEPT ![e] = @ - 1]

\* Mutant: what makes the host connect is not sent itself.
HostConnectsOnly(es) ==
  /\ pipe' = IF pipe = "none" /\ es # {} /\ running THEN "half" ELSE pipe
  /\ work' = [e \in Envelopes |-> IF pipe # "none" /\ e \in es THEN work[e] + 1 ELSE work[e]]
  /\ UNCHANGED opener

\* HostRouter.Send for each of the envelopes, called from the page: the host is
\* resolved at once, and each envelope becomes a work item. Without a messenger and a
\* service to connect to nothing is sent.
HostSend(es) ==
  LET resolved == pipe # "none" \/ running IN
  /\ pipe' = IF pipe = "none" /\ es # {} /\ running THEN "half" ELSE pipe
  /\ work' = [e \in Envelopes |-> IF resolved /\ e \in es THEN work[e] + 1 ELSE work[e]]
  /\ UNCHANGED opener

\* The failed reply the host makes up for a request it could not send. For a
\* subscription it has no id, and the page ignores it.
NotifyBrokenConnection(e) ==
  toPage' = toPage \cup {[kind |-> "broken", request |-> r] : r \in Requests \cap {e}}

\* A work item sends its envelope over a connected pipe. If the service at its
\* other end is gone the write fails, which is only logged.
WorkSends(e) ==
  /\ work[e] > 0 /\ pipe \in {"half", "up", "lost"}
  /\ work' = Minus(work, e)
  /\ toService' = IF running /\ pipe # "lost" THEN Plus(toService, e) ELSE toService
  /\ UNCHANGED <<pageVars, pipe, opener, reestablished, subscribed, toPage, running, startEvent, breaks>>

\* A work item finds the messenger without a stream, because another connects or
\* because the pipe is being closed: the envelope is dropped without a word.
WorkDrops(e) ==
  /\ work[e] > 0 /\ pipe \in {"opening", "closing"}
  /\ work' = Minus(work, e)
  /\ UNCHANGED <<pageVars, pipe, opener, reestablished, serviceVars>>

\* A work item finds the pipe down and connects it.
WorkConnects(e) ==
  /\ work[e] > 0 /\ pipe = "down"
  /\ work' = Minus(work, e)
  /\ IF running
     THEN pipe' = "opening" /\ opener' = e /\ UNCHANGED toPage
     ELSE NotifyBrokenConnection(e) /\ UNCHANGED <<pipe, opener>>
  /\ UNCHANGED <<pageVars, reestablished, toService, subscribed, running, startEvent, breaks>>

\* Mutant: the new connection is not reported to the page.
OpenedSilently ==
  /\ pipe = "opening"
  /\ opener' = None
  /\ IF running
     THEN pipe' = "half" /\ toService' = Plus(toService, opener)
     ELSE pipe' = "down" /\ UNCHANGED toService
  /\ UNCHANGED <<pageVars, work, reestablished, subscribed, toPage, running, startEvent, breaks>>

\* Mutant: a connection that fails is not given up.
OpenedKeepsOpener ==
  /\ pipe = "opening"
  /\ IF running
     THEN /\ pipe' = "half" /\ opener' = None
          /\ reestablished' = reestablished + 1
          /\ toService' = Plus(toService, opener)
     ELSE pipe' = "down" /\ UNCHANGED <<opener, reestablished, toService>>
  /\ UNCHANGED <<pageVars, work, subscribed, toPage, running, startEvent, breaks>>

\* The work item that connects finishes: it reports the new connection and sends
\* its envelope, or fails with the service that has just stopped.
Opened ==
  /\ pipe = "opening"
  /\ opener' = None
  /\ IF running
     THEN /\ pipe' = "half"
          /\ reestablished' = reestablished + 1
          /\ toService' = Plus(toService, opener)
     ELSE pipe' = "down" /\ UNCHANGED <<reestablished, toService>>
  /\ UNCHANGED <<pageVars, work, subscribed, toPage, running, startEvent, breaks>>

\* The service connects back: from now on the host reads, and so does the service.
ConnectsBack ==
  /\ pipe = "half" /\ running
  /\ pipe' = "up"
  /\ UNCHANGED <<pageVars, work, opener, reestablished, serviceVars>>

\* The reader of the pipe notices its end and closes the streams ...
HostSeesBreak ==
  /\ pipe = "up" /\ ~running
  /\ pipe' = "closing"
  /\ UNCHANGED <<pageVars, work, opener, reestablished, serviceVars>>

\* ... and then allows the next connection.
PipeClosed ==
  /\ pipe = "closing"
  /\ pipe' = "down"
  /\ UNCHANGED <<pageVars, work, opener, reestablished, serviceVars>>

\* The host passes the start event of the service on to the page.
ReconnectToService ==
  /\ startEvent
  /\ startEvent' = FALSE
  /\ reestablished' = reestablished + 1
  /\ UNCHANGED <<pageVars, work, pipe, opener, toService, subscribed, toPage, running, breaks>>

-----------------------------------------------------------------------------
(* The service.                                                            *)

\* The service subscribes the connection or answers the request.
ServiceHandles(e) ==
  /\ running /\ pipe = "up" /\ toService[e] > 0
  /\ toService' = Minus(toService, e)
  /\ subscribed' = subscribed \cup (Topics \cap {e})
  /\ toPage' = toPage \cup {[kind |-> "reply", request |-> r] : r \in Requests \cap {e}}
  /\ UNCHANGED <<pageVars, hostVars, running, startEvent, breaks>>

\* The service stops; what is in the pipes may be lost, its subscriptions are. A host that
\* it has not connected back to does not read, and waits for ever.
ServiceStops ==
  /\ running /\ breaks < MaxBreaks
  /\ running' = FALSE /\ breaks' = breaks + 1
  /\ pipe' = IF pipe = "half" THEN "lost" ELSE pipe
  /\ toService' = [e \in Envelopes |-> 0]
  /\ subscribed' = {}
  /\ \E lost \in SUBSET {m \in toPage : m.kind = "reply"} : toPage' = toPage \ lost
  /\ UNCHANGED <<pageVars, work, opener, reestablished, startEvent>>

\* The service starts again and signals the host. That takes long enough for the
\* host to have noticed the end of the old pipe.
ServiceStarts ==
  /\ ~running /\ pipe \in {"none", "down", "lost"}
  /\ running' = TRUE /\ startEvent' = TRUE
  /\ UNCHANGED <<pageVars, hostVars, toService, subscribed, toPage, breaks>>

-----------------------------------------------------------------------------
(* The page.                                                               *)

\* MessageBus.subscribe: the callback is kept, whatever becomes of the envelope.
Subscribe(t) ==
  /\ t \notin callbacks
  /\ callbacks' = callbacks \cup {t}
  /\ HostSend({t})
  /\ UNCHANGED <<requestCallbacks, idOf, ran, timeouts, reestablished, serviceVars>>

\* The page's part when the host has no connection to send a request on: the
\* failed reply arrives while the page is still in send.
FailsAtOnce(id) == pipe = "none" /\ ~running /\ id # 0

\* Mutant: the callback is kept under an id drawn for itself.
RequestDrawsTwice(r, id) ==
  /\ idOf[r] = None
  /\ idOf' = [idOf EXCEPT ![r] = id]
  /\ \E other \in Ids : requestCallbacks' = [requestCallbacks EXCEPT ![other] = r]
  /\ HostSend({r})
  /\ timeouts' = IF FailsAtOnce(id) THEN Append(timeouts, RequestError) ELSE timeouts
  /\ UNCHANGED <<callbacks, ran, reestablished, serviceVars>>

\* MessageBus.request: the id is drawn at random. It may be one that is in use,
\* whose callback it then replaces, or zero.
Request(r, id) ==
  /\ idOf[r] = None
  /\ idOf' = [idOf EXCEPT ![r] = id]
  /\ requestCallbacks' = [requestCallbacks EXCEPT ![id] = r]
  /\ HostSend({r})
  /\ timeouts' = IF FailsAtOnce(id) THEN Append(timeouts, RequestError) ELSE timeouts
  /\ UNCHANGED <<callbacks, ran, reestablished, serviceVars>>

\* External.onMessage with a failed or an ordinary reply: a failure to connect is
\* reported and leaves the callback in the table, any other reply takes it out. A
\* reply with id zero counts as one without an id.
OnReply(m) ==
  LET id == idOf[m.request]
      l == requestCallbacks[id]
      known == id # 0 /\ m.kind = "reply" /\ l # None IN
  /\ m \in toPage
  /\ toPage' = toPage \ {m}
  /\ requestCallbacks' = IF known THEN [requestCallbacks EXCEPT ![id] = None] ELSE requestCallbacks
  /\ timeouts' =
       IF known THEN Append(timeouts, CallbackTask(l, m.request))
       ELSE IF id # 0 /\ m.kind = "broken" THEN Append(timeouts, RequestError)
       ELSE timeouts
  /\ UNCHANGED <<callbacks, idOf, ran, hostVars, toService, subscribed, running, startEvent, breaks>>

\* External.onMessage with a notification, of which one matters here.
OnConnectionReestablished ==
  /\ reestablished > 0
  /\ reestablished' = reestablished - 1
  /\ timeouts' = Append(timeouts, Reestablish)
  /\ UNCHANGED <<callbacks, requestCallbacks, idOf, ran, work, pipe, opener, serviceVars>>

\* The first $timeout is due: the callback of a reply, ...
CallbackRuns ==
  /\ timeouts # <<>> /\ Head(timeouts).kind = "callback"
  /\ ran' = [ran EXCEPT ![Head(timeouts).callback] = @ \cup {Head(timeouts).reply}]
  /\ timeouts' = Tail(timeouts)
  /\ UNCHANGED <<callbacks, requestCallbacks, idOf, hostVars, serviceVars>>

\* ... reestablishConnection, which subscribes once more to every topic, ...
ReestablishConnection ==
  /\ timeouts # <<>> /\ Head(timeouts).kind = "reestablish"
  /\ HostSend(callbacks)
  /\ timeouts' = Tail(timeouts)
  /\ UNCHANGED <<callbacks, requestCallbacks, idOf, ran, reestablished, serviceVars>>

\* ... or the banner that says that the service cannot be reached.
ShowRequestError ==
  /\ timeouts # <<>> /\ Head(timeouts).kind = "requestError"
  /\ timeouts' = Tail(timeouts)
  /\ UNCHANGED <<callbacks, requestCallbacks, idOf, ran, hostVars, serviceVars>>

-----------------------------------------------------------------------------
Next ==
  \/ \E e \in Envelopes : WorkSends(e) \/ WorkDrops(e) \/ WorkConnects(e) \/ ServiceHandles(e)
  \/ Opened \/ ConnectsBack \/ HostSeesBreak \/ PipeClosed \/ ReconnectToService
  \/ ServiceStops \/ ServiceStarts
  \/ \E t \in Topics : Subscribe(t)
  \/ \E r \in Requests, id \in Ids : Request(r, id)
  \/ \E m \in toPage : OnReply(m)
  \/ OnConnectionReestablished \/ CallbackRuns \/ ReestablishConnection \/ ShowRequestError

Spec == Init /\ [][Next]_vars

\* The work items of the host and the service run at last, the service connects back and
\* the end of a pipe is noticed, $timeout fires, and a service that stopped is started
\* again. When the page subscribes or makes a request is up to it.
Fairness ==
  /\ \A e \in Envelopes :
       WF_vars(WorkSends(e) \/ WorkDrops(e) \/ WorkConnects(e)) /\ WF_vars(ServiceHandles(e))
  /\ WF_vars(Opened) /\ WF_vars(ConnectsBack) /\ WF_vars(HostSeesBreak) /\ WF_vars(PipeClosed)
  /\ WF_vars(ReconnectToService) /\ WF_vars(ServiceStarts)
  /\ \A m \in Incoming : WF_vars(OnReply(m))
  /\ WF_vars(OnConnectionReestablished)
  /\ WF_vars(CallbackRuns \/ ReestablishConnection \/ ShowRequestError)

FairSpec == Spec /\ Fairness

-----------------------------------------------------------------------------
\* Two requests share their id only by an unlucky draw, and zero is no id.
Unlucky(r) == idOf[r] = 0 \/ \E q \in Requests \ {r} : idOf[q] = idOf[r]

\* A callback runs once, with the reply to its own request, unless another request drew
\* the same id: the entry leaves the table before the callback is scheduled
\* (MessageBus.request, External.onMessage).
RepliesReachTheirCallback ==
  [][\A r \in Requests :
       ran'[r] # ran[r] => ran[r] = {} /\ (ran'[r] = {r} \/ Unlucky(r)')]_vars

\* A request settles: its callback runs, unless its id was an unlucky draw or the
\* service was not there all the time.
RequestsSettle ==
  \A r \in Requests : idOf[r] # None ~> (ran[r] # {} \/ Unlucky(r) \/ breaks > 0)

\* A topic with a callback is subscribed at the service at last and for good, whatever
\* the service missed while it was away or while the pipe was being connected
\* (reestablishConnection, PipeMessenger.Send). Except on a host that waits for a service
\* that stopped before it connected back: it takes itself for connected and never
\* connects again.
SubscribedAtLast ==
  \A t \in Topics : t \in callbacks ~> (pipe = "lost" \/ [](t \in subscribed))
=============================================================================
