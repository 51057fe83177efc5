------------------------------ MODULE Delivery ------------------------------
(***************************************************************************)
(* What a subscription promises: its handler is called with every          *)
(* notification that was sent to it, once, in the order they were sent,    *)
(* and only after the call before has returned.                            *)
(***************************************************************************)
EXTENDS Naturals, Sequences

CONSTANTS Subscriptions, Notifications

VARIABLES
  sent,       \* to each subscription
  received,   \* what its handler has been called with
  busy        \* its handler is running

Init ==
  /\ sent = [s \in Subscriptions |-> <<>>]
  /\ received = [s \in Subscriptions |-> <<>>]
  /\ busy = [s \in Subscriptions |-> FALSE]

Send(s, n) ==
  /\ \A i \in 1..Len(sent[s]) : sent[s][i] # n
  /\ sent' = [sent EXCEPT ![s] = Append(@, n)]
  /\ UNCHANGED <<received, busy>>

Call(s) ==
  /\ ~busy[s] /\ Len(received[s]) < Len(sent[s])
  /\ received' = [received EXCEPT ![s] = Append(@, sent[s][Len(@) + 1])]
  /\ busy' = [busy EXCEPT ![s] = TRUE]
  /\ UNCHANGED sent

Return(s) ==
  /\ busy[s]
  /\ busy' = [busy EXCEPT ![s] = FALSE]
  /\ UNCHANGED <<sent, received>>

Next == \E s \in Subscriptions : Call(s) \/ Return(s) \/ \E n \in Notifications : Send(s, n)

Spec == Init /\ [][Next]_<<sent, received, busy>>
=============================================================================
