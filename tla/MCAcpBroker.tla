----------------------------- MODULE MCAcpBroker -----------------------------
(***************************************************************************)
(* Two parts of the ACP broker for TLC, of which a behaviour has one: the  *)
(* subscriptions, and the endpoints on a pipe that holds. The other part   *)
(* stays as it starts, so that the states of the two add up.               *)
(***************************************************************************)
EXTENDS AcpEndpoints

CONSTANTS
  Subscriptions, Notifications, Matching, None,
  s1, n3           \* n3 matches s1 only

VARIABLES
  part,
  subscriptions, added, dispatched, handlers, calling, queue, workItems, handling, enqueued, handled

Subs == INSTANCE Subscriptions

ASSUME SubscriptionsAssumption == Subs!Sensible

subVars == <<subscriptions, added, dispatched, handlers, calling, queue, workItems, handling, enqueued, handled>>

MCMatching == [n \in Notifications |-> IF n = n3 THEN {s1} ELSE Subscriptions]

MCInit == part \in {"subscriptions", "endpoints"} /\ Init /\ Subs!Init

MCNext ==
  \/ part = "subscriptions" /\ Subs!Next /\ UNCHANGED <<part, vars>>
  \/ part = "endpoints" /\ Next /\ UNCHANGED <<part, subVars>>

\* The fairness of a part binds the behaviours that have it.
Dispatching(A) == part = "subscriptions" /\ A
Connected(A) == part = "endpoints" /\ A

MCFairness ==
  /\ \A s \in Subscriptions :
       WF_subVars(Dispatching(Subs!Call(s))) /\ WF_subVars(Dispatching(Subs!Return(s)))
  /\ \A n \in Notifications : WF_subVars(Dispatching(Subs!QueueWorkItem(n)))
  /\ \A p \in Peers :
       /\ WF_vars(Connected(ForwardRequest(p))) /\ WF_vars(Connected(ServeRequest(p)))
       /\ WF_vars(Connected(NotFound(p))) /\ WF_vars(Connected(HandleOwnResponse(p)))
       /\ WF_vars(Connected(ReturnResponse(p)))
       /\ WF_vars(Connected(ProcessPendingRequests(p)))
       /\ WF_vars(Connected(Reader(p)))

MCSpec == MCInit /\ [][MCNext]_<<part, vars, subVars>> /\ MCFairness

\* The properties of Subscriptions, which says what they are about, and what AcpEndpoints
\* promises of a pipe that holds.
WorkMatchesQueue == Subs!WorkMatchesQueue
ImplementsDelivery == Subs!ImplementsDelivery
AllDelivered == Subs!AllDelivered
PeersInitialize == part = "endpoints" => BothInitialize
=============================================================================
