---------------------------- MODULE Subscriptions ----------------------------
(***************************************************************************)
(* The subscriptions of an ACP broker.  DispatchNotification runs on the   *)
(* thread that made a change or read it from the pipe: it copies the list  *)
(* of the handlers that match and gives the notification to the dispatcher *)
(* of each.  SequentialDispatcher puts it into the queue of the            *)
(* subscription and asks the thread pool for one work item, which takes    *)
(* the first of the queue: the items overtake each other, the queue and    *)
(* the lock on the handler keep the order.                                 *)
(*                                                                         *)
(* A notification is dispatched once, by any thread.  What the changes of  *)
(* the list itself publish are notifications like any other.               *)
(***************************************************************************)
EXTENDS Naturals, Sequences, FiniteSets

CONSTANTS
  Subscriptions,   \* bound: the ids, each of which is given once
  Notifications,   \* bound: each is dispatched once
  Matching,        \* for a notification the subscriptions whose location matches it and whose owner is not excluded
  None

\* What the proofs suppose of the constants; None is no id.
Sensible ==
  /\ Matching \in [Notifications -> SUBSET Subscriptions]
  /\ None \notin Subscriptions \cup Notifications

VARIABLES
  subscriptions,   \* RegisteredSubscriptionHandlers.subscriptions
  added,           \* the ids that have been given
  dispatched,      \* the notifications whose thread has copied the list
  handlers,        \* for each notification the handlers its thread has still to call
  calling,         \* for each notification the handler its thread is in, between Enqueue and the work item
  queue,           \* SequentialDispatcher.queue
  workItems,       \* work items in the pool, or waiting for the lock on the handler
  handling,        \* what the handler is called with under its lock
  enqueued,        \* history: what has been put into the queue
  handled          \* history: what the handler has been called with

listVars == <<subscriptions, added>>
threadVars == <<dispatched, handlers, calling>>
dispatcherVars == <<queue, workItems, handling>>
historyVars == <<enqueued, handled>>
vars == <<listVars, threadVars, dispatcherVars, historyVars>>

TypeOK ==
  /\ subscriptions \subseteq Subscriptions /\ added \subseteq Subscriptions
  /\ dispatched \subseteq Notifications
  /\ handlers \in [Notifications -> SUBSET Subscriptions]
  /\ calling \in [Notifications -> Subscriptions \cup {None}]
  /\ queue \in [Subscriptions -> Seq(Notifications)]
  /\ workItems \in [Subscriptions -> Nat]
  /\ handling \in [Subscriptions -> Notifications \cup {None}]
  /\ enqueued \in [Subscriptions -> Seq(Notifications)]
  /\ handled \in [Subscriptions -> Seq(Notifications)]

Init ==
  /\ subscriptions = {} /\ added = {} /\ dispatched = {}
  /\ handlers = [n \in Notifications |-> {}]
  /\ calling = [n \in Notifications |-> None]
  /\ queue = [s \in Subscriptions |-> <<>>]
  /\ workItems = [s \in Subscriptions |-> 0]
  /\ handling = [s \in Subscriptions |-> None]
  /\ enqueued = [s \in Subscriptions |-> <<>>]
  /\ handled = [s \in Subscriptions |-> <<>>]

-----------------------------------------------------------------------------
(* RegisteredSubscriptionHandlers, each under the lock on its list *)

Add(s) ==
  /\ s \notin added
  /\ added' = added \cup {s}
  /\ subscriptions' = subscriptions \cup {s}
  /\ UNCHANGED <<threadVars, dispatcherVars, historyVars>>

\* What is in the queue or in a copy of the list still reaches the handler.
Remove(s) ==
  /\ s \in subscriptions
  /\ subscriptions' = subscriptions \ {s}
  /\ UNCHANGED <<added, threadVars, dispatcherVars, historyVars>>

\* DispatchNotification up to the copy of the list (Get).
DispatchNotification(n) ==
  /\ n \notin dispatched
  /\ dispatched' = dispatched \cup {n}
  /\ handlers' = [handlers EXCEPT ![n] = Matching[n] \cap subscriptions]
  /\ UNCHANGED <<listVars, calling, dispatcherVars, historyVars>>

-----------------------------------------------------------------------------
(* SequentialDispatcher *)

\* DispatchAsync up to the end of Enqueue.
Enqueue(n, s) ==
  /\ s \in handlers[n] /\ calling[n] = None
  /\ handlers' = [handlers EXCEPT ![n] = @ \ {s}]
  /\ calling' = [calling EXCEPT ![n] = s]
  /\ queue' = [queue EXCEPT ![s] = Append(@, n)]
  /\ enqueued' = [enqueued EXCEPT ![s] = Append(@, n)]
  /\ UNCHANGED <<listVars, dispatched, workItems, handling, handled>>

\* Mutant: only the first of a queue gets a work item.
QueueFirstWorkItem(n) ==
  LET s == calling[n]
  IN /\ s # None
     /\ calling' = [calling EXCEPT ![n] = None]
     /\ workItems' = [workItems EXCEPT ![s] = IF Len(queue[s]) = 1 THEN @ + 1 ELSE @]
     /\ UNCHANGED <<listVars, dispatched, handlers, queue, handling, historyVars>>

\* DispatchAsyncFromQueue: one work item for every element of the queue.
QueueWorkItem(n) ==
  LET s == calling[n]
  IN /\ s # None
     /\ calling' = [calling EXCEPT ![n] = None]
     /\ workItems' = [workItems EXCEPT ![s] = @ + 1]
     /\ UNCHANGED <<listVars, dispatched, handlers, queue, handling, historyVars>>

\* Mutant: the handler is called without its lock.
CallUnlocked(s) ==
  /\ workItems[s] > 0
  /\ workItems' = [workItems EXCEPT ![s] = @ - 1]
  /\ IF queue[s] # <<>>
       THEN /\ queue' = [queue EXCEPT ![s] = Tail(@)]
            /\ handling' = [handling EXCEPT ![s] = Head(queue[s])]
            /\ handled' = [handled EXCEPT ![s] = Append(@, Head(queue[s]))]
       ELSE UNCHANGED <<queue, handling, handled>>
  /\ UNCHANGED <<listVars, threadVars, enqueued>>

\* A work item gets the lock on the handler, and calls it with the first of the queue; with
\* an empty queue Dequeue throws, and the item ends.
Call(s) ==
  /\ workItems[s] > 0 /\ handling[s] = None
  /\ workItems' = [workItems EXCEPT ![s] = @ - 1]
  /\ IF queue[s] # <<>>
       THEN /\ queue' = [queue EXCEPT ![s] = Tail(@)]
            /\ handling' = [handling EXCEPT ![s] = Head(queue[s])]
            /\ handled' = [handled EXCEPT ![s] = Append(@, Head(queue[s]))]
       ELSE UNCHANGED <<queue, handling, handled>>
  /\ UNCHANGED <<listVars, threadVars, enqueued>>

\* The handler returns or throws, which is the same to the dispatcher.
Return(s) ==
  /\ handling[s] # None
  /\ handling' = [handling EXCEPT ![s] = None]
  /\ UNCHANGED <<listVars, threadVars, queue, workItems, historyVars>>

Next ==
  \/ \E s \in Subscriptions : Add(s) \/ Remove(s) \/ Call(s) \/ Return(s)
  \/ \E n \in Notifications :
       DispatchNotification(n) \/ QueueWorkItem(n) \/ \E s \in Subscriptions : Enqueue(n, s)

Spec == Init /\ [][Next]_vars

\* A thread in DispatchNotification goes on, the pool runs its items, and a handler returns.
Fairness ==
  /\ \A s \in Subscriptions : WF_vars(Call(s)) /\ WF_vars(Return(s))
  /\ \A n \in Notifications : WF_vars(QueueWorkItem(n))

FairSpec == Spec /\ Fairness

-----------------------------------------------------------------------------
(* Properties *)

\* A subscription is told everything once and in order, whatever threads dispatch and
\* however the pool runs the work items (SequentialDispatcher): the promise of Delivery.
Promise ==
  INSTANCE Delivery WITH sent <- enqueued, received <- handled,
                         busy <- [s \in Subscriptions |-> handling[s] # None]
ImplementsDelivery == Promise!Spec

\* No work item finds the queue empty and none is missing: for what is in a queue there is
\* a work item, or a thread that is about to ask for it (DispatchAsync).
WorkMatchesQueue ==
  \A s \in Subscriptions :
    workItems[s] + Cardinality({n \in Notifications : calling[n] = s}) = Len(queue[s])

\* What has been put into a queue reaches the handler, whether the subscription is removed
\* meanwhile or not.
AllDelivered ==
  \A s \in Subscriptions, n \in Notifications :
    (\E i \in 1..Len(enqueued[s]) : enqueued[s][i] = n) ~> (\E i \in 1..Len(handled[s]) : handled[s][i] = n)
=============================================================================
