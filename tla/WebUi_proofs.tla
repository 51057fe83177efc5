-------------------------- MODULE WebUi_proofs --------------------------
(***************************************************************************)
(* The web user interface, for any number of requests, regions and clicks, *)
(* however the host and the service reorder or lose envelopes and however  *)
(* often the service stops: its variables have their types, a callback of  *)
(* the message bus runs once and with the reply to its own request, the    *)
(* parts of the connection page agree when nothing is under way, and the   *)
(* views never strand the user.                                            *)
(*                                                                         *)
(* The bus: the inductive invariant follows a callback, which is in the    *)
(* table under the id its request drew, or scheduled once, or has run, and *)
(* never two of these. A reply is about a request that has been made, so   *)
(* that it looks the callback up under an id that was drawn.               *)
(*                                                                         *)
(* The views: the invariant follows the question about the theme, of which *)
(* one form at most is under way, from the page's first request to the     *)
(* task that changes the view. A header that is switched off is owed this  *)
(* change, or the user's choice of a theme, or the task that switches the  *)
(* header on; and as long as it is off no view of the diagnosis is opened. *)
(*                                                                         *)
(* The connection is proved about in GuiConnection_proofs; the page takes  *)
(* its steps, and those of the other parts.                                *)
(***************************************************************************)
EXTENDS MCWebUi, SequenceTheorems, TLAPS

\* A callback in the table is there under the id its request drew.
EntriesInv == \A i \in Ids : requestCallbacks[i] # None => idOf[requestCallbacks[i]] = i

\* The callback of a request is in the table.
InTable(r) == \E i \in Ids : requestCallbacks[i] = r

IsCallback(i) == timeouts[i].kind = "callback"

\* A scheduled callback has left the table, has not run, and is given a reply to a
\* request with the id of its own.
TasksInv ==
  \A i \in 1..Len(timeouts) :
    IsCallback(i) =>
      /\ idOf[timeouts[i].callback] \in Ids
      /\ idOf[timeouts[i].reply] = idOf[timeouts[i].callback]
      /\ ~InTable(timeouts[i].callback)
      /\ ran[timeouts[i].callback] = {}

\* It is scheduled once.
OnceInv ==
  \A i, j \in 1..Len(timeouts) :
    IsCallback(i) /\ IsCallback(j) /\ timeouts[i].callback = timeouts[j].callback => i = j

\* A callback that has run is not in the table, and its request has been made.
RanInv == \A r \in Requests : ran[r] # {} => idOf[r] # None /\ ~InTable(r)

\* Nothing is under way about a request before it is made.
RequestedInv ==
  \A r \in Requests :
    idOf[r] = None =>
      work[r] = 0 /\ toService[r] = 0 /\ opener # r /\ \A m \in toPage : m.request # r

PageInv == EntriesInv /\ TasksInv /\ OnceInv /\ RanInv

Inv == TypeOK /\ PageInv /\ RequestedInv

-----------------------------------------------------------------------------
\* The bus starts with the invariant.
THEOREM InitInv == Init => Inv
<1> SUFFICES ASSUME Init PROVE Inv OBVIOUS
<1>1. timeouts = <<>> /\ Len(timeouts) = 0 /\ timeouts \in Seq(Tasks)
  BY EmptySeq DEF Init
<1>2. breaks \in 0..(MaxBreaks + 1) BY MessageBusAssumption DEF Init
<1>3. TypeOK BY <1>1, <1>2, MessageBusAssumption DEF Init, TypeOK, PipeStates, Envelopes
<1>4. PageInv BY <1>1 DEF Init, PageInv, EntriesInv, TasksInv, OnceInv, RanInv
<1>5. RequestedInv BY MessageBusAssumption DEF Init, RequestedInv, Envelopes
<1> QED BY <1>3, <1>4, <1>5 DEF Inv

\* One more and one less of an envelope are counts again; the others stay.
LEMMA Counts ==
  ASSUME NEW bag \in [Envelopes -> Nat], NEW e \in Envelopes
  PROVE  /\ Plus(bag, e) \in [Envelopes -> Nat]
         /\ bag[e] > 0 => Minus(bag, e) \in [Envelopes -> Nat]
         /\ \A d \in Envelopes \ {e} : Plus(bag, e)[d] = bag[d] /\ Minus(bag, e)[d] = bag[d]
BY DEF Plus, Minus

\* HostSend adds to the work of its envelopes only, and changes the pipe as its type
\* allows.
LEMMA HostSends ==
  ASSUME TypeOK, NEW es \in SUBSET Envelopes, HostSend(es)
  PROVE  /\ work' \in [Envelopes -> Nat]
         /\ \A e \in Envelopes \ es : work'[e] = work[e]
         /\ pipe' \in PipeStates /\ opener' = opener
         /\ pipe' = "opening" <=> pipe = "opening"
BY DEF TypeOK, HostSend, PipeStates

\* The tasks after the first one is gone.
LEMMA TaskGone ==
  ASSUME TypeOK, timeouts # <<>>, timeouts' = Tail(timeouts)
  PROVE  /\ timeouts' \in Seq(Tasks) /\ Len(timeouts') \in Nat
         /\ Len(timeouts) = Len(timeouts') + 1
         /\ Head(timeouts) = timeouts[1] /\ timeouts[1] \in Tasks
         /\ \A i \in 1..Len(timeouts') : i + 1 \in 1..Len(timeouts) /\ timeouts'[i] = timeouts[i + 1]
<1>1. timeouts \in Seq(Tasks) BY DEF TypeOK
<1>2. Len(timeouts) \in Nat /\ Len(timeouts) > 0 BY <1>1, EmptySeq, LenProperties
<1>3. /\ timeouts' \in Seq(Tasks) /\ Len(timeouts') = Len(timeouts) - 1
      /\ \A i \in 1..Len(timeouts') : timeouts'[i] = timeouts[i + 1]
  BY <1>1, HeadTailProperties
<1>4. Head(timeouts) = timeouts[1] /\ timeouts[1] \in Tasks BY <1>1, <1>2, ElementOfSeq
<1> QED BY <1>2, <1>3, <1>4

\* The tasks after another one is scheduled.
LEMMA TaskAdded ==
  ASSUME TypeOK, NEW t \in Tasks, timeouts' = Append(timeouts, t)
  PROVE  /\ timeouts' \in Seq(Tasks) /\ Len(timeouts) \in Nat
         /\ Len(timeouts') = Len(timeouts) + 1
         /\ timeouts'[Len(timeouts')] = t
         /\ \A i \in 1..Len(timeouts) : timeouts'[i] = timeouts[i]
         /\ \A i \in 1..Len(timeouts') : i = Len(timeouts') \/ i \in 1..Len(timeouts)
<1>1. timeouts \in Seq(Tasks) BY DEF TypeOK
<1>2. Len(timeouts) \in Nat BY <1>1, LenProperties
<1>3. /\ timeouts' \in Seq(Tasks)
      /\ Len(timeouts') = Len(timeouts) + 1
      /\ timeouts'[Len(timeouts) + 1] = t
      /\ \A i \in 1..Len(timeouts) : timeouts'[i] = timeouts[i]
  BY <1>1, AppendProperties
<1> QED BY <1>2, <1>3

\* A callback is in its table once at most, under the id of its request.
LEMMA EntryOfRequest ==
  ASSUME TypeOK, EntriesInv, NEW r \in Requests, InTable(r)
  PROVE  idOf[r] \in Ids /\ requestCallbacks[idOf[r]] = r
BY MessageBusAssumption DEF EntriesInv, InTable

-----------------------------------------------------------------------------
(* What does not touch the page leaves its invariant alone.                *)

\* A step that leaves the variables of the page as they are keeps the page's invariant.
LEMMA PageStays ==
  ASSUME PageInv, UNCHANGED pageVars
  PROVE  PageInv'
<1>1. UNCHANGED <<requestCallbacks, idOf, ran, timeouts>> BY DEF pageVars
<1> QED BY <1>1 DEF PageInv, EntriesInv, TasksInv, OnceInv, RanInv, InTable, IsCallback

\* The work items of the host and the service: they move and lose envelopes of
\* requests that were made, and add none.
LEMMA HostAndServiceInv ==
  ASSUME Inv, UNCHANGED pageVars,
         \/ \E e \in Envelopes : WorkSends(e) \/ WorkDrops(e) \/ WorkConnects(e) \/ ServiceHandles(e)
         \/ Opened \/ ConnectsBack \/ HostSeesBreak \/ PipeClosed \/ ReconnectToService
         \/ ServiceStops \/ ServiceStarts
  PROVE  Inv'
<1>1. TypeOK /\ PageInv /\ RequestedInv BY DEF Inv
<1>2. PageInv' BY <1>1, PageStays
<1>3. UNCHANGED <<callbacks, requestCallbacks, idOf, ran, timeouts>> BY DEF pageVars
<1>4. work \in [Envelopes -> Nat] /\ toService \in [Envelopes -> Nat] BY <1>1 DEF TypeOK
<1>5. Requests \subseteq Envelopes /\ None \notin Envelopes BY MessageBusAssumption DEF Envelopes
<1>6. ASSUME NEW e \in Envelopes, WorkSends(e) PROVE TypeOK' /\ RequestedInv'
  <2>1. /\ work' = Minus(work, e) /\ work[e] > 0
        /\ toService' = Plus(toService, e) \/ toService' = toService
        /\ UNCHANGED <<pipe, opener, reestablished, subscribed, toPage, running, startEvent, breaks>>
    BY <1>6 DEF WorkSends
  <2>2. work' \in [Envelopes -> Nat] /\ toService' \in [Envelopes -> Nat] BY <1>4, <2>1, Counts
  <2>3. \A d \in Envelopes \ {e} : work'[d] = work[d] /\ toService'[d] = toService[d]
    BY <1>4, <2>1, Counts
  <2>4. TypeOK' BY <1>1, <1>3, <2>1, <2>2 DEF TypeOK
  <2>5. RequestedInv' BY <1>1, <1>3, <1>4, <1>5, <2>1, <2>3 DEF RequestedInv
  <2> QED BY <2>4, <2>5
<1>7. ASSUME NEW e \in Envelopes, WorkDrops(e) PROVE TypeOK' /\ RequestedInv'
  <2>1. /\ work' = Minus(work, e) /\ work[e] > 0
        /\ UNCHANGED <<pipe, opener, reestablished, toService, subscribed, toPage, running, startEvent, breaks>>
    BY <1>7 DEF WorkDrops, serviceVars
  <2>2. /\ work' \in [Envelopes -> Nat]
        /\ \A d \in Envelopes \ {e} : work'[d] = work[d]
    BY <1>4, <2>1, Counts
  <2>3. TypeOK' BY <1>1, <1>3, <2>1, <2>2 DEF TypeOK
  <2>4. RequestedInv' BY <1>1, <1>3, <1>4, <1>5, <2>1, <2>2 DEF RequestedInv
  <2> QED BY <2>3, <2>4
<1>8. ASSUME NEW e \in Envelopes, WorkConnects(e) PROVE TypeOK' /\ RequestedInv'
  <2>1. /\ work' = Minus(work, e) /\ work[e] > 0 /\ pipe = "down"
        /\ \/ pipe' = "opening" /\ opener' = e /\ toPage' = toPage
           \/ NotifyBrokenConnection(e) /\ UNCHANGED <<pipe, opener>>
        /\ UNCHANGED <<reestablished, toService, subscribed, running, startEvent, breaks>>
    BY <1>8 DEF WorkConnects
  <2>2. /\ work' \in [Envelopes -> Nat]
        /\ \A d \in Envelopes \ {e} : work'[d] = work[d]
    BY <1>4, <2>1, Counts
  <2>3. toPage' \subseteq Incoming /\ \A m \in toPage' : m \in toPage \/ m.request = e
    BY <1>1, <2>1 DEF TypeOK, NotifyBrokenConnection, Incoming
  <2>4. pipe' \in PipeStates /\ opener' \in Envelopes \cup {None} /\ (opener' # None <=> pipe' = "opening")
    BY <1>1, <1>5, <2>1 DEF TypeOK, PipeStates
  <2>5. TypeOK' BY <1>1, <1>3, <2>1, <2>2, <2>3, <2>4 DEF TypeOK
  <2>6. RequestedInv'
    <3> SUFFICES ASSUME NEW r \in Requests, idOf[r] = None
                 PROVE  work'[r] = 0 /\ toService'[r] = 0 /\ opener' # r /\ \A m \in toPage' : m.request # r
      BY <1>3 DEF RequestedInv
    <3>1. work[r] = 0 /\ toService[r] = 0 /\ opener # r /\ \A m \in toPage : m.request # r
      BY <1>1 DEF RequestedInv
    <3>2. e # r BY <2>1, <3>1
    <3> QED BY <1>5, <2>1, <2>2, <2>3, <3>1, <3>2
  <2> QED BY <2>5, <2>6
<1>9. ASSUME NEW e \in Envelopes, ServiceHandles(e) PROVE TypeOK' /\ RequestedInv'
  <2>1. /\ toService' = Minus(toService, e) /\ toService[e] > 0
        /\ subscribed' = subscribed \cup (Topics \cap {e})
        /\ toPage' = toPage \cup {[kind |-> "reply", request |-> r] : r \in Requests \cap {e}}
        /\ UNCHANGED <<work, pipe, opener, reestablished, running, startEvent, breaks>>
    BY <1>9 DEF ServiceHandles, hostVars
  <2>2. /\ toService' \in [Envelopes -> Nat]
        /\ \A d \in Envelopes \ {e} : toService'[d] = toService[d]
    BY <1>4, <2>1, Counts
  <2>3. toPage' \subseteq Incoming /\ \A m \in toPage' : m \in toPage \/ m.request = e
    BY <1>1, <2>1 DEF TypeOK, Incoming
  <2>4. subscribed' \subseteq Topics BY <1>1, <2>1 DEF TypeOK
  <2>5. TypeOK' BY <1>1, <1>3, <2>1, <2>2, <2>3, <2>4 DEF TypeOK
  <2>6. RequestedInv'
    <3> SUFFICES ASSUME NEW r \in Requests, idOf[r] = None
                 PROVE  work'[r] = 0 /\ toService'[r] = 0 /\ opener' # r /\ \A m \in toPage' : m.request # r
      BY <1>3 DEF RequestedInv
    <3>1. work[r] = 0 /\ toService[r] = 0 /\ opener # r /\ \A m \in toPage : m.request # r
      BY <1>1 DEF RequestedInv
    <3>2. e # r BY <2>1, <3>1
    <3> QED BY <1>5, <2>1, <2>2, <2>3, <3>1, <3>2
  <2> QED BY <2>5, <2>6
<1>10. CASE Opened
  <2>1. /\ pipe = "opening" /\ opener' = None
        /\ \/ pipe' = "half" /\ reestablished' = reestablished + 1 /\ toService' = Plus(toService, opener)
           \/ pipe' = "down" /\ UNCHANGED <<reestablished, toService>>
        /\ UNCHANGED <<work, subscribed, toPage, running, startEvent, breaks>>
    BY <1>10 DEF Opened
  <2>2. opener \in Envelopes BY <1>1, <2>1 DEF TypeOK
  <2>3. /\ toService' \in [Envelopes -> Nat]
        /\ \A d \in Envelopes \ {opener} : toService'[d] = toService[d]
    BY <1>4, <2>1, <2>2, Counts
  <2>4. TypeOK' BY <1>1, <1>3, <2>1, <2>3 DEF TypeOK, PipeStates
  <2>5. RequestedInv'
    BY <1>1, <1>3, <1>5, <2>1, <2>3, MessageBusAssumption DEF RequestedInv
  <2> QED BY <1>2, <2>4, <2>5 DEF Inv
<1>11. CASE ConnectsBack \/ HostSeesBreak \/ PipeClosed
  <2>1. /\ pipe \in {"half", "up", "closing"} /\ pipe' \in {"up", "closing", "down"}
        /\ UNCHANGED <<work, opener, reestablished, toService, subscribed, toPage, running, startEvent, breaks>>
    BY <1>11 DEF ConnectsBack, HostSeesBreak, PipeClosed, serviceVars
  <2>2. TypeOK' BY <1>1, <1>3, <2>1 DEF TypeOK, PipeStates
  <2>3. RequestedInv' BY <1>1, <1>3, <2>1 DEF RequestedInv
  <2> QED BY <1>2, <2>2, <2>3 DEF Inv
<1>12. CASE ReconnectToService
  <2>1. /\ startEvent' = FALSE /\ reestablished' = reestablished + 1
        /\ UNCHANGED <<work, pipe, opener, toService, subscribed, toPage, running, breaks>>
    BY <1>12 DEF ReconnectToService
  <2>2. reestablished' \in Nat /\ startEvent' \in BOOLEAN
    <3>1. reestablished \in Nat BY <1>1 DEF TypeOK
    <3>2. startEvent' \in BOOLEAN BY <2>1, Zenon
    <3>3. reestablished' = reestablished + 1 BY <2>1
    <3> QED BY <3>1, <3>2, <3>3
  <2>3. TypeOK' BY <1>1, <1>3, <2>1, <2>2 DEF TypeOK
  <2>4. RequestedInv' BY <1>1, <1>3, <2>1 DEF RequestedInv
  <2> QED BY <1>2, <2>3, <2>4 DEF Inv
<1>13. CASE ServiceStops
  <2>1. /\ breaks < MaxBreaks /\ running' = FALSE /\ breaks' = breaks + 1
        /\ toService' = [e \in Envelopes |-> 0]
        /\ subscribed' = {}
        /\ toPage' \subseteq toPage
        /\ pipe' = pipe \/ (pipe = "half" /\ pipe' = "lost")
        /\ UNCHANGED <<work, opener, reestablished, startEvent>>
    BY <1>13 DEF ServiceStops
  <2>2. breaks' \in 0..(MaxBreaks + 1) BY <1>1, <2>1, MessageBusAssumption DEF TypeOK
  <2>3. TypeOK' BY <1>1, <1>3, <2>1, <2>2 DEF TypeOK, PipeStates
  <2>4. RequestedInv' BY <1>1, <1>3, <1>5, <2>1 DEF RequestedInv
  <2> QED BY <1>2, <2>3, <2>4 DEF Inv
<1>14. CASE ServiceStarts
  <2>1. /\ running' = TRUE /\ startEvent' = TRUE
        /\ UNCHANGED <<work, pipe, opener, reestablished, toService, subscribed, toPage, breaks>>
    BY <1>14 DEF ServiceStarts, hostVars
  <2>2. TypeOK' BY <1>1, <1>3, <2>1 DEF TypeOK
  <2>3. RequestedInv' BY <1>1, <1>3, <2>1 DEF RequestedInv
  <2> QED BY <1>2, <2>2, <2>3 DEF Inv
<1> QED BY <1>2, <1>6, <1>7, <1>8, <1>9, <1>10, <1>11, <1>12, <1>13, <1>14 DEF Inv

-----------------------------------------------------------------------------
(* The page.                                                               *)

\* MessageBus.request: only the new request has an entry under the id, and it has
\* nothing under way yet.
LEMMA RequestInv ==
  ASSUME Inv, NEW r \in Requests, NEW id \in Ids, Request(r, id)
  PROVE  Inv'
<1>1. TypeOK /\ EntriesInv /\ TasksInv /\ OnceInv /\ RanInv /\ RequestedInv BY DEF Inv, PageInv
<1>2. /\ idOf[r] = None
      /\ idOf' = [idOf EXCEPT ![r] = id]
      /\ requestCallbacks' = [requestCallbacks EXCEPT ![id] = r]
      /\ HostSend({r})
      /\ timeouts' = Append(timeouts, RequestError) \/ timeouts' = timeouts
      /\ UNCHANGED <<callbacks, ran, reestablished, toService, subscribed, toPage, running, startEvent, breaks>>
  BY DEF Request, serviceVars
<1>3. r \in Envelopes /\ Requests \subseteq Envelopes BY DEF Envelopes
<1>4. /\ work' \in [Envelopes -> Nat] /\ \A e \in Envelopes \ {r} : work'[e] = work[e]
      /\ pipe' \in PipeStates /\ opener' = opener /\ (pipe' = "opening" <=> pipe = "opening")
  BY <1>1, <1>2, <1>3, HostSends
<1>5. /\ idOf \in [Requests -> Ids \cup {None}] /\ requestCallbacks \in [Ids -> Requests \cup {None}]
      /\ timeouts \in Seq(Tasks) /\ ran \in [Requests -> SUBSET Requests]
  BY <1>1 DEF TypeOK
<1>6. /\ idOf' \in [Requests -> Ids \cup {None}] /\ idOf'[r] = id
      /\ \A q \in Requests \ {r} : idOf'[q] = idOf[q]
  BY <1>2, <1>5
<1>7. /\ requestCallbacks' \in [Ids -> Requests \cup {None}] /\ requestCallbacks'[id] = r
      /\ \A i \in Ids \ {id} : requestCallbacks'[i] = requestCallbacks[i]
  BY <1>2, <1>5
<1>8. \A i \in Ids : requestCallbacks[i] # r
  BY <1>1, <1>2, <1>5, MessageBusAssumption DEF EntriesInv
<1>9. \A q \in Requests \ {r} : InTable(q)' => InTable(q) BY <1>7 DEF InTable
<1>10. /\ timeouts' \in Seq(Tasks)
       /\ \A i \in 1..Len(timeouts') :
            IsCallback(i)' => i \in 1..Len(timeouts) /\ timeouts'[i] = timeouts[i] /\ IsCallback(i)
  <2>1. CASE timeouts' = timeouts BY <2>1, <1>5 DEF IsCallback
  <2>2. CASE timeouts' = Append(timeouts, RequestError)
    <3>1. RequestError \in Tasks /\ RequestError.kind # "callback" BY DEF Tasks, RequestError
    <3> QED BY <1>1, <2>2, <3>1, TaskAdded DEF IsCallback
  <2> QED BY <1>2, <2>1, <2>2
<1>11. \A i \in 1..Len(timeouts) :
         IsCallback(i) =>
           /\ timeouts[i].callback \in Requests \ {r} /\ timeouts[i].reply \in Requests \ {r}
  <2> SUFFICES ASSUME NEW i \in 1..Len(timeouts), IsCallback(i)
               PROVE  /\ timeouts[i].callback \in Requests \ {r}
                      /\ timeouts[i].reply \in Requests \ {r}
    OBVIOUS
  <2>1. timeouts[i] \in Tasks BY <1>5, ElementOfSeq
  <2>2. timeouts[i].callback \in Requests /\ timeouts[i].reply \in Requests
    BY <2>1 DEF Tasks, CallbackTask, Reestablish, RequestError, IsCallback
  <2>3. idOf[timeouts[i].callback] # None /\ idOf[timeouts[i].reply] # None
    BY <1>1, MessageBusAssumption DEF TasksInv
  <2> QED BY <1>2, <2>2, <2>3
<1>12. TypeOK' BY <1>1, <1>2, <1>4, <1>6, <1>7, <1>10 DEF TypeOK
<1>13. EntriesInv'
  <2> SUFFICES ASSUME NEW i \in Ids, requestCallbacks'[i] # None
               PROVE  idOf'[requestCallbacks'[i]] = i
    BY DEF EntriesInv
  <2>1. CASE i = id BY <2>1, <1>6, <1>7
  <2>2. CASE i # id
    <3>1. requestCallbacks'[i] = requestCallbacks[i] /\ requestCallbacks[i] \in Requests \ {r}
      BY <2>2, <1>5, <1>7, <1>8
    <3> QED BY <3>1, <1>1, <1>6 DEF EntriesInv
  <2> QED BY <2>1, <2>2
<1>14. TasksInv'
  <2> SUFFICES ASSUME NEW i \in 1..Len(timeouts'), IsCallback(i)'
               PROVE  /\ idOf'[timeouts'[i].callback] \in Ids
                      /\ idOf'[timeouts'[i].reply] = idOf'[timeouts'[i].callback]
                      /\ ~InTable(timeouts[i].callback)'
                      /\ ran'[timeouts'[i].callback] = {}
    BY DEF TasksInv
  <2>1. i \in 1..Len(timeouts) /\ timeouts'[i] = timeouts[i] /\ IsCallback(i) BY <1>10
  <2>2. timeouts[i].callback \in Requests \ {r} /\ timeouts[i].reply \in Requests \ {r}
    BY <1>11, <2>1
  <2>3. /\ idOf[timeouts[i].callback] \in Ids
        /\ idOf[timeouts[i].reply] = idOf[timeouts[i].callback]
        /\ ~InTable(timeouts[i].callback)
        /\ ran[timeouts[i].callback] = {}
    BY <1>1, <2>1 DEF TasksInv
  <2>4. ~InTable(timeouts[i].callback)' BY <1>9, <2>1, <2>2, <2>3 DEF InTable
  <2> QED BY <1>2, <1>6, <2>1, <2>2, <2>3, <2>4
<1>15. OnceInv' BY <1>1, <1>10 DEF OnceInv
<1>16. RanInv'
  <2> SUFFICES ASSUME NEW q \in Requests, ran'[q] # {}
               PROVE  idOf'[q] # None /\ ~InTable(q)'
    BY DEF RanInv, InTable
  <2>1. idOf[q] # None /\ ~InTable(q) BY <1>1, <1>2 DEF RanInv
  <2>2. q # r BY <1>2, <2>1
  <2> QED BY <1>6, <1>9, <2>1, <2>2
<1>17. RequestedInv'
  <2> SUFFICES ASSUME NEW q \in Requests, idOf'[q] = None
               PROVE  work'[q] = 0 /\ toService'[q] = 0 /\ opener' # q /\ \A m \in toPage' : m.request # q
    BY DEF RequestedInv
  <2>1. q # r BY <1>6, MessageBusAssumption
  <2>2. idOf[q] = None BY <1>6, <2>1
  <2> QED BY <1>1, <1>2, <1>3, <1>4, <2>1, <2>2 DEF RequestedInv
<1> QED BY <1>12, <1>13, <1>14, <1>15, <1>16, <1>17 DEF Inv, PageInv

\* What a scheduled callback is about.
LEMMA CallbackTypes ==
  ASSUME TypeOK, NEW i \in 1..Len(timeouts), IsCallback(i)
  PROVE  timeouts[i].callback \in Requests /\ timeouts[i].reply \in Requests
<1>1. timeouts[i] \in Tasks BY ElementOfSeq DEF TypeOK
<1> QED BY <1>1 DEF Tasks, CallbackTask, Reestablish, RequestError, IsCallback

\* A task that is no callback is scheduled.
LEMMA OtherTaskAdded ==
  ASSUME TypeOK, PageInv, UNCHANGED <<requestCallbacks, idOf, ran>>,
         NEW t \in Tasks, t.kind # "callback", timeouts' = Append(timeouts, t)
  PROVE  PageInv' /\ timeouts' \in Seq(Tasks)
<1>1. \A i \in 1..Len(timeouts') :
        IsCallback(i)' => i \in 1..Len(timeouts) /\ timeouts'[i] = timeouts[i] /\ IsCallback(i)
  BY TaskAdded DEF IsCallback
<1>2. TasksInv' BY <1>1 DEF PageInv, TasksInv, InTable
<1>3. OnceInv' BY <1>1 DEF PageInv, OnceInv
<1>4. EntriesInv' /\ RanInv' BY DEF PageInv, EntriesInv, RanInv, InTable
<1> QED BY <1>2, <1>3, <1>4, TaskAdded DEF PageInv

\* The first task is done: if it was a callback, that callback is scheduled no more,
\* whatever has been made of ran.
LEMMA FirstTaskDone ==
  ASSUME TypeOK, PageInv, timeouts # <<>>, timeouts' = Tail(timeouts),
         UNCHANGED <<requestCallbacks, idOf>>,
         \A r \in Requests : ran'[r] # ran[r] => IsCallback(1) /\ r = timeouts[1].callback
  PROVE  TasksInv' /\ OnceInv' /\ EntriesInv' /\ timeouts' \in Seq(Tasks)
<1>1. \A i \in 1..Len(timeouts') : i + 1 \in 1..Len(timeouts) /\ timeouts'[i] = timeouts[i + 1]
  BY TaskGone
<1>2. 1 \in 1..Len(timeouts) /\ Len(timeouts') \in Nat BY TaskGone
<1>3. TasksInv'
  <2> SUFFICES ASSUME NEW i \in 1..Len(timeouts'), IsCallback(i)'
               PROVE  /\ idOf'[timeouts'[i].callback] \in Ids
                      /\ idOf'[timeouts'[i].reply] = idOf'[timeouts'[i].callback]
                      /\ ~InTable(timeouts[i].callback)'
                      /\ ran'[timeouts'[i].callback] = {}
    BY DEF TasksInv
  <2>1. /\ i + 1 \in 1..Len(timeouts) /\ timeouts'[i] = timeouts[i + 1]
        /\ IsCallback(i + 1) /\ i + 1 # 1
    BY <1>1, <1>2 DEF IsCallback
  <2>2. /\ idOf[timeouts[i + 1].callback] \in Ids
        /\ idOf[timeouts[i + 1].reply] = idOf[timeouts[i + 1].callback]
        /\ ~InTable(timeouts[i + 1].callback)
        /\ ran[timeouts[i + 1].callback] = {}
    BY <2>1 DEF PageInv, TasksInv
  <2>3. timeouts[i + 1].callback \in Requests BY <2>1, CallbackTypes
  <2>4. ~(IsCallback(1) /\ timeouts[i + 1].callback = timeouts[1].callback)
    BY <1>2, <2>1 DEF PageInv, OnceInv
  <2>5. ran'[timeouts[i + 1].callback] = {} BY <2>2, <2>3, <2>4
  <2> QED BY <2>1, <2>2, <2>5 DEF InTable
<1>4. OnceInv'
  <2> SUFFICES ASSUME NEW i \in 1..Len(timeouts'), NEW j \in 1..Len(timeouts'),
                      IsCallback(i)', IsCallback(j)', timeouts'[i].callback = timeouts'[j].callback
               PROVE  i = j
    BY DEF OnceInv
  <2>1. i + 1 = j + 1 BY <1>1 DEF PageInv, OnceInv, IsCallback
  <2> QED BY <1>2, <2>1
<1>5. EntriesInv' BY DEF PageInv, EntriesInv
<1> QED BY <1>3, <1>4, <1>5, TaskGone

\* External.onMessage with a reply: the callback moves from the table to the tasks, and
\* the id of the reply is its own. A reply with an id that is not in the table changes
\* nothing.
LEMMA OnReplyInv ==
  ASSUME Inv, NEW m \in toPage, OnReply(m)
  PROVE  Inv'
<1> DEFINE id == idOf[m.request]
           l == requestCallbacks[id]
           known == id # 0 /\ m.kind = "reply" /\ l # None
<1>1. TypeOK /\ EntriesInv /\ TasksInv /\ OnceInv /\ RanInv /\ RequestedInv /\ PageInv BY DEF Inv, PageInv
<1>2. /\ toPage' = toPage \ {m}
      /\ UNCHANGED <<callbacks, idOf, ran, work, pipe, opener, reestablished, toService, subscribed, running, startEvent, breaks>>
      /\ requestCallbacks' = IF known THEN [requestCallbacks EXCEPT ![id] = None] ELSE requestCallbacks
      /\ timeouts' =
           IF known THEN Append(timeouts, CallbackTask(l, m.request))
           ELSE IF id # 0 /\ m.kind = "broken" THEN Append(timeouts, RequestError)
           ELSE timeouts
  BY DEF OnReply, hostVars
<1>3. /\ idOf \in [Requests -> Ids \cup {None}] /\ requestCallbacks \in [Ids -> Requests \cup {None}]
      /\ timeouts \in Seq(Tasks) /\ ran \in [Requests -> SUBSET Requests]
  BY <1>1 DEF TypeOK
<1>4. m.request \in Requests BY <1>1 DEF TypeOK, Incoming
<1>5. id \in Ids BY <1>1, <1>3, <1>4 DEF RequestedInv
<1>6. RequestedInv' BY <1>1, <1>2 DEF RequestedInv
<1>7. CASE known
  <2> HIDE DEF id, l
  <2>1. l \in Requests /\ requestCallbacks[id] = l BY <1>3, <1>5, <1>7 DEF l
  <2>2. idOf[l] = id /\ idOf[m.request] = id BY <1>1, <1>5, <2>1, <1>7 DEF EntriesInv, id
  <2>3. /\ requestCallbacks' \in [Ids -> Requests \cup {None}] /\ requestCallbacks'[id] = None
        /\ \A i \in Ids \ {id} : requestCallbacks'[i] = requestCallbacks[i]
    BY <1>2, <1>3, <1>5, <1>7
  <2>4. \A q \in Requests : InTable(q)' => InTable(q) /\ q # l
    <3> SUFFICES ASSUME NEW q \in Requests, NEW i \in Ids, requestCallbacks'[i] = q
                 PROVE  InTable(q) /\ q # l
      BY DEF InTable
    <3>1. i # id /\ requestCallbacks[i] = q BY <2>3, MessageBusAssumption
    <3>2. idOf[q] = i BY <1>1, <3>1, MessageBusAssumption DEF EntriesInv
    <3> QED BY <2>2, <3>1, <3>2 DEF InTable
  <2>5. CallbackTask(l, m.request) \in Tasks BY <1>4, <2>1 DEF Tasks
  <2>6. timeouts' = Append(timeouts, CallbackTask(l, m.request)) BY <1>2, <1>7
  <2>7. /\ timeouts' \in Seq(Tasks) /\ Len(timeouts) \in Nat
        /\ Len(timeouts') = Len(timeouts) + 1
        /\ timeouts'[Len(timeouts')] = CallbackTask(l, m.request)
        /\ \A i \in 1..Len(timeouts) : timeouts'[i] = timeouts[i]
        /\ \A i \in 1..Len(timeouts') : i = Len(timeouts') \/ i \in 1..Len(timeouts)
    BY <1>1, <2>5, <2>6, TaskAdded
  <2>8. timeouts'[Len(timeouts')].callback = l /\ timeouts'[Len(timeouts')].reply = m.request
    BY <2>7 DEF CallbackTask
  <2>9. InTable(l) BY <1>5, <2>1 DEF InTable
  <2>10. ran[l] = {} BY <1>1, <2>1, <2>9 DEF RanInv
  <2>11. \A i \in 1..Len(timeouts) : IsCallback(i) => timeouts[i].callback # l
    BY <1>1, <2>9 DEF TasksInv
  <2>12. EntriesInv' BY <1>1, <1>2, <2>3 DEF EntriesInv
  <2>13. TasksInv'
    <3> SUFFICES ASSUME NEW i \in 1..Len(timeouts'), IsCallback(i)'
                 PROVE  /\ idOf'[timeouts'[i].callback] \in Ids
                        /\ idOf'[timeouts'[i].reply] = idOf'[timeouts'[i].callback]
                        /\ ~InTable(timeouts[i].callback)'
                        /\ ran'[timeouts'[i].callback] = {}
      BY DEF TasksInv
    <3>1. CASE i = Len(timeouts')
      <4>1. ~InTable(timeouts[i].callback)' BY <2>1, <2>4, <2>8, <3>1 DEF InTable
      <4> QED BY <1>2, <1>5, <2>2, <2>8, <2>10, <3>1, <4>1
    <3>2. CASE i \in 1..Len(timeouts)
      <4>1. timeouts'[i] = timeouts[i] /\ IsCallback(i) BY <2>7, <3>2 DEF IsCallback
      <4>2. timeouts[i].callback \in Requests BY <1>1, <3>2, <4>1, CallbackTypes
      <4>3. /\ idOf[timeouts[i].callback] \in Ids
            /\ idOf[timeouts[i].reply] = idOf[timeouts[i].callback]
            /\ ~InTable(timeouts[i].callback)
            /\ ran[timeouts[i].callback] = {}
        BY <1>1, <3>2, <4>1 DEF TasksInv
      <4>4. ~InTable(timeouts[i].callback)' BY <2>4, <4>1, <4>2, <4>3 DEF InTable
      <4> QED BY <1>2, <4>1, <4>3, <4>4
    <3> QED BY <2>7, <3>1, <3>2
  <2>14. OnceInv'
    <3> SUFFICES ASSUME NEW i \in 1..Len(timeouts'), NEW j \in 1..Len(timeouts'),
                        IsCallback(i)', IsCallback(j)', timeouts'[i].callback = timeouts'[j].callback
                 PROVE  i = j
      BY DEF OnceInv
    <3>1. \A k \in 1..Len(timeouts) : IsCallback(k)' => IsCallback(k) /\ timeouts'[k] = timeouts[k]
      BY <2>7 DEF IsCallback
    <3>2. CASE i \in 1..Len(timeouts) /\ j \in 1..Len(timeouts) BY <1>1, <3>1, <3>2 DEF OnceInv
    <3>3. CASE i = Len(timeouts') /\ j \in 1..Len(timeouts) BY <2>8, <2>11, <3>1, <3>3
    <3>4. CASE i \in 1..Len(timeouts) /\ j = Len(timeouts') BY <2>8, <2>11, <3>1, <3>4
    <3> QED BY <2>7, <3>2, <3>3, <3>4
  <2>15. RanInv'
    <3> SUFFICES ASSUME NEW q \in Requests, ran'[q] # {}
                 PROVE  idOf'[q] # None /\ ~InTable(q)'
      BY DEF RanInv
    <3> QED BY <1>1, <1>2, <2>4 DEF RanInv
  <2>16. TypeOK' BY <1>1, <1>2, <2>3, <2>7 DEF TypeOK
  <2> QED BY <1>6, <2>12, <2>13, <2>14, <2>15, <2>16 DEF Inv, PageInv
<1>8. CASE ~known
  <2>1. requestCallbacks' = requestCallbacks BY <1>2, <1>8
  <2>2. CASE id # 0 /\ m.kind = "broken"
    <3>1. timeouts' = Append(timeouts, RequestError) BY <1>2, <1>8, <2>2
    <3>2. RequestError \in Tasks /\ RequestError.kind # "callback" BY DEF Tasks, RequestError
    <3>3. PageInv' /\ timeouts' \in Seq(Tasks) BY <1>1, <1>2, <2>1, <3>1, <3>2, OtherTaskAdded
    <3>4. TypeOK' BY <1>1, <1>2, <2>1, <3>3 DEF TypeOK
    <3> QED BY <1>6, <3>3, <3>4 DEF Inv
  <2>3. CASE ~(id # 0 /\ m.kind = "broken")
    <3>1. timeouts' = timeouts BY <1>2, <1>8, <2>3
    <3>2. PageInv' BY <1>1, <1>2, <2>1, <3>1, PageStays DEF pageVars
    <3>3. TypeOK' BY <1>1, <1>2, <2>1, <3>1 DEF TypeOK
    <3> QED BY <1>6, <3>2, <3>3 DEF Inv
  <2> QED BY <2>2, <2>3
<1> QED BY <1>7, <1>8

\* Envelopes of subscriptions are about no request.
LEMMA SendsSubscriptions ==
  ASSUME Inv, NEW ts \in SUBSET Topics, HostSend(ts),
         UNCHANGED <<idOf, toService, toPage>>
  PROVE  /\ work' \in [Envelopes -> Nat] /\ pipe' \in PipeStates
         /\ opener' = opener /\ (pipe' = "opening" <=> pipe = "opening")
         /\ RequestedInv'
<1>1. TypeOK /\ RequestedInv BY DEF Inv
<1>2. ts \in SUBSET Envelopes /\ Requests \subseteq Envelopes \ ts BY MessageBusAssumption DEF Envelopes
<1>3. /\ work' \in [Envelopes -> Nat] /\ \A e \in Envelopes \ ts : work'[e] = work[e]
      /\ pipe' \in PipeStates /\ opener' = opener /\ (pipe' = "opening" <=> pipe = "opening")
  BY <1>1, <1>2, HostSends
<1>4. RequestedInv' BY <1>1, <1>2, <1>3 DEF RequestedInv
<1> QED BY <1>3, <1>4

\* MessageBus.subscribe
LEMMA SubscribeInv ==
  ASSUME Inv, NEW t \in Topics, Subscribe(t)
  PROVE  Inv'
<1>1. TypeOK /\ PageInv BY DEF Inv
<1>2. /\ callbacks' = callbacks \cup {t}
      /\ HostSend({t})
      /\ UNCHANGED <<requestCallbacks, idOf, ran, timeouts, reestablished,
                     toService, subscribed, toPage, running, startEvent, breaks>>
  BY DEF Subscribe, serviceVars
<1>3. /\ work' \in [Envelopes -> Nat] /\ pipe' \in PipeStates
      /\ opener' = opener /\ (pipe' = "opening" <=> pipe = "opening")
      /\ RequestedInv'
  BY <1>2, SendsSubscriptions
<1>4. TypeOK' BY <1>1, <1>2, <1>3 DEF TypeOK
<1>5. PageInv' BY <1>1, <1>2 DEF PageInv, EntriesInv, TasksInv, OnceInv, RanInv, InTable, IsCallback
<1> QED BY <1>3, <1>4, <1>5 DEF Inv

\* The tasks that run no callback of a request.
LEMMA OtherTaskInv ==
  ASSUME Inv, ReestablishConnection \/ ShowRequestError
  PROVE  Inv'
<1>1. TypeOK /\ PageInv /\ RequestedInv BY DEF Inv
<1>2. /\ timeouts # <<>> /\ timeouts' = Tail(timeouts)
      /\ UNCHANGED <<callbacks, requestCallbacks, idOf, ran, reestablished,
                     toService, subscribed, toPage, running, startEvent, breaks>>
  BY DEF ReestablishConnection, ShowRequestError, hostVars, serviceVars
<1>3. TasksInv' /\ OnceInv' /\ EntriesInv' /\ timeouts' \in Seq(Tasks)
  BY <1>1, <1>2, FirstTaskDone
<1>4. RanInv' BY <1>1, <1>2 DEF PageInv, RanInv, InTable
<1>5. /\ work' \in [Envelopes -> Nat] /\ pipe' \in PipeStates
      /\ opener' = opener /\ (pipe' = "opening" <=> pipe = "opening")
      /\ RequestedInv'
  <2>1. CASE ReestablishConnection
    <3>1. HostSend(callbacks) /\ callbacks \in SUBSET Topics
      BY <1>1, <2>1 DEF ReestablishConnection, TypeOK
    <3> QED BY <1>2, <3>1, SendsSubscriptions
  <2>2. CASE ShowRequestError
    <3>1. UNCHANGED <<work, pipe, opener>> BY <2>2 DEF ShowRequestError, hostVars
    <3> QED BY <1>1, <1>2, <3>1 DEF TypeOK, RequestedInv
  <2> QED BY <2>1, <2>2
<1>6. TypeOK' BY <1>1, <1>2, <1>3, <1>5 DEF TypeOK
<1> QED BY <1>3, <1>4, <1>5, <1>6 DEF Inv, PageInv

\* External.onMessage with connectionReestablished
LEMMA OnConnectionReestablishedInv ==
  ASSUME Inv, OnConnectionReestablished
  PROVE  Inv'
<1>1. TypeOK /\ PageInv /\ RequestedInv BY DEF Inv
<1>2. /\ reestablished > 0 /\ reestablished' = reestablished - 1
      /\ timeouts' = Append(timeouts, Reestablish)
      /\ UNCHANGED <<callbacks, requestCallbacks, idOf, ran, work, pipe, opener,
                     toService, subscribed, toPage, running, startEvent, breaks>>
  BY DEF OnConnectionReestablished, serviceVars
<1>3. Reestablish \in Tasks /\ Reestablish.kind # "callback" BY DEF Tasks, Reestablish
<1>4. PageInv' /\ timeouts' \in Seq(Tasks) BY <1>1, <1>2, <1>3, OtherTaskAdded
<1>5. reestablished' \in Nat BY <1>1, <1>2 DEF TypeOK
<1>6. TypeOK' BY <1>1, <1>2, <1>4, <1>5 DEF TypeOK
<1>7. RequestedInv' BY <1>1, <1>2 DEF RequestedInv
<1> QED BY <1>4, <1>6, <1>7 DEF Inv

\* A callback runs that has not run before, with a reply to a request with its id.
LEMMA CallbackRunsOnce ==
  ASSUME Inv, CallbackRuns
  PROVE  \E r, q \in Requests :
           /\ timeouts[1].callback = r /\ IsCallback(1)
           /\ idOf[r] \in Ids /\ idOf[q] = idOf[r] /\ ~InTable(r)
           /\ ran[r] = {} /\ ran' = [ran EXCEPT ![r] = {q}]
<1>1. TypeOK /\ PageInv BY DEF Inv
<1>2. /\ timeouts # <<>> /\ timeouts' = Tail(timeouts) /\ Head(timeouts).kind = "callback"
      /\ ran' = [ran EXCEPT ![Head(timeouts).callback] = @ \cup {Head(timeouts).reply}]
  BY DEF CallbackRuns
<1>3. Head(timeouts) = timeouts[1] /\ 1 \in 1..Len(timeouts) BY <1>1, <1>2, TaskGone
<1>4. IsCallback(1) BY <1>2, <1>3 DEF IsCallback
<1>5. timeouts[1].callback \in Requests /\ timeouts[1].reply \in Requests
  BY <1>1, <1>3, <1>4, CallbackTypes
<1>6. /\ idOf[timeouts[1].callback] \in Ids
      /\ idOf[timeouts[1].reply] = idOf[timeouts[1].callback]
      /\ ~InTable(timeouts[1].callback)
      /\ ran[timeouts[1].callback] = {}
  BY <1>1, <1>3, <1>4 DEF PageInv, TasksInv
<1>7. ran' = [ran EXCEPT ![timeouts[1].callback] = {timeouts[1].reply}] BY <1>2, <1>3, <1>6
<1> QED BY <1>4, <1>5, <1>6, <1>7

\* The callback that is due runs with its reply.
LEMMA CallbackRunsInv ==
  ASSUME Inv, CallbackRuns
  PROVE  Inv'
<1>1. TypeOK /\ PageInv /\ RequestedInv BY DEF Inv
<1>2. /\ timeouts # <<>> /\ timeouts' = Tail(timeouts)
      /\ UNCHANGED <<callbacks, requestCallbacks, idOf, work, pipe, opener, reestablished,
                     toService, subscribed, toPage, running, startEvent, breaks>>
  BY DEF CallbackRuns, hostVars, serviceVars
<1>3. PICK r \in Requests, q \in Requests :
        /\ timeouts[1].callback = r /\ IsCallback(1)
        /\ idOf[r] \in Ids /\ ~InTable(r)
        /\ ran' = [ran EXCEPT ![r] = {q}]
  BY CallbackRunsOnce
<1>4. ran \in [Requests -> SUBSET Requests] BY <1>1 DEF TypeOK
<1>5. ran' \in [Requests -> SUBSET Requests] /\ \A p \in Requests \ {r} : ran'[p] = ran[p]
  BY <1>3, <1>4
<1>6. TasksInv' /\ OnceInv' /\ EntriesInv' /\ timeouts' \in Seq(Tasks)
  BY <1>1, <1>2, <1>3, <1>5, FirstTaskDone
<1>7. RanInv'
  <2> SUFFICES ASSUME NEW p \in Requests, ran'[p] # {}
               PROVE  idOf'[p] # None /\ ~InTable(p)'
    BY DEF RanInv
  <2>1. CASE p = r BY <1>2, <1>3, <2>1, MessageBusAssumption DEF InTable
  <2>2. CASE p # r BY <1>1, <1>2, <1>5, <2>2 DEF PageInv, RanInv, InTable
  <2> QED BY <2>1, <2>2
<1>8. TypeOK' BY <1>1, <1>2, <1>5, <1>6 DEF TypeOK
<1>9. RequestedInv' BY <1>1, <1>2 DEF RequestedInv
<1> QED BY <1>6, <1>7, <1>8, <1>9 DEF Inv, PageInv

-----------------------------------------------------------------------------
\* Every step of the page, the host and the service preserves the invariant.
LEMMA NextInv == Inv /\ [Next]_vars => Inv'
<1> SUFFICES ASSUME Inv, [Next]_vars PROVE Inv'
  OBVIOUS
<1>1. ASSUME \/ \E e \in Envelopes : WorkSends(e) \/ WorkDrops(e) \/ WorkConnects(e) \/ ServiceHandles(e)
             \/ Opened \/ ConnectsBack \/ HostSeesBreak \/ PipeClosed \/ ReconnectToService
             \/ ServiceStops \/ ServiceStarts
      PROVE  Inv'
  <2>1. UNCHANGED pageVars
    BY <1>1 DEF WorkSends, WorkDrops, WorkConnects, ServiceHandles, Opened, ConnectsBack, HostSeesBreak, PipeClosed,
                ReconnectToService, ServiceStops, ServiceStarts
  <2> QED BY <1>1, <2>1, HostAndServiceInv
<1>2. ASSUME NEW t \in Topics, Subscribe(t) PROVE Inv' BY <1>2, SubscribeInv
<1>3. ASSUME NEW r \in Requests, NEW id \in Ids, Request(r, id) PROVE Inv' BY <1>3, RequestInv
<1>4. ASSUME NEW m \in toPage, OnReply(m) PROVE Inv' BY <1>4, OnReplyInv
<1>5. CASE OnConnectionReestablished BY <1>5, OnConnectionReestablishedInv
<1>6. CASE CallbackRuns BY <1>6, CallbackRunsInv
<1>7. CASE ReestablishConnection \/ ShowRequestError BY <1>7, OtherTaskInv
<1>8. CASE UNCHANGED vars
  <2>1. UNCHANGED pageVars /\ UNCHANGED hostVars /\ UNCHANGED serviceVars BY <1>8 DEF vars
  <2>2. UNCHANGED <<callbacks, requestCallbacks, idOf, ran, timeouts, work, pipe, opener, reestablished,
                    toService, subscribed, toPage, running, startEvent, breaks>>
    BY <2>1 DEF pageVars, hostVars, serviceVars
  <2>3. TypeOK' BY <2>2 DEF Inv, TypeOK
  <2>4. PageInv' BY <2>1, PageStays DEF Inv
  <2>5. RequestedInv' BY <2>2 DEF Inv, RequestedInv
  <2> QED BY <2>3, <2>4, <2>5 DEF Inv
<1> QED BY <1>1, <1>2, <1>3, <1>4, <1>5, <1>6, <1>7, <1>8 DEF Next

\* The invariant holds in every state.
THEOREM InvHolds == Spec => []Inv
BY InitInv, NextInv, PTL DEF Spec

\* The bus, the host and the service have the types of their variables, however many
\* envelopes are under way (MessageBus, HostRouter, PipeMessenger).
THEOREM TypeCorrect == Spec => []TypeOK
<1>1. Inv => TypeOK BY DEF Inv
<1> QED BY <1>1, InvHolds, PTL

\* A callback runs once, with the reply to its own request, unless another request drew
\* the same id, for any number of requests (MessageBus.request, External.onMessage).
THEOREM CallbacksRunOnce == Spec => RepliesReachTheirCallback
<1>1. ASSUME Inv, [Next]_vars, NEW r \in Requests, ran'[r] # ran[r]
      PROVE  ran[r] = {} /\ (ran'[r] = {r} \/ Unlucky(r)')
  <2>1. CallbackRuns /\ idOf' = idOf
    BY <1>1 DEF Next, WorkSends, WorkDrops, WorkConnects, ServiceHandles, Opened, ConnectsBack, HostSeesBreak, PipeClosed,
                ReconnectToService, ServiceStops, ServiceStarts, Subscribe, Request, OnReply,
                OnConnectionReestablished, CallbackRuns, ReestablishConnection, ShowRequestError,
                pageVars, vars
  <2>2. PICK s \in Requests, q \in Requests :
          /\ idOf[q] = idOf[s] /\ ran[s] = {}
          /\ ran' = [ran EXCEPT ![s] = {q}]
    BY <1>1, <2>1, CallbackRunsOnce
  <2>3. ran \in [Requests -> SUBSET Requests] BY <1>1 DEF Inv, TypeOK
  <2>4. s = r /\ ran'[r] = {q} BY <1>1, <2>2, <2>3
  <2>5. CASE q = r BY <2>2, <2>4, <2>5
  <2>6. CASE q # r BY <2>1, <2>2, <2>4, <2>6 DEF Unlucky
  <2> QED BY <2>5, <2>6
<1>2. Inv /\ [Next]_vars =>
        [\A r \in Requests : ran'[r] # ran[r] => ran[r] = {} /\ (ran'[r] = {r} \/ Unlucky(r)')]_vars
  BY <1>1
<1> QED BY <1>2, InvHolds, PTL DEF Spec, RepliesReachTheirCallback

-----------------------------------------------------------------------------
(* The views: the invariant.                                               *)

\* The views of the diagnosis, which the header leads to.
Diagnosis == {"startDiagnosticDataView", "collectDiagnosticDataView", "sentDiagnosticDataView",
              "progressDiagnosticDataView", "confirmSentDataView"}

\* The title is that of the view that is shown, and has been translated when the language
\* was there in time.
TitlesInv ==
  /\ currentView \in Pages!TitledViews => titled = currentView
  /\ ~late /\ titled # NoView => titleTranslated = translated

\* The views that a back button leads to.
Home == {"mainView", "settingsView"}

\* The way back that a task sets leads home; the header is enabled for a user who has clicked.
QueuedInv ==
  /\ back \in Home \cup {NoView}
  /\ \A i \in 1..Len(viewTimeouts) :
       /\ viewTimeouts[i].kind = "view" => viewTimeouts[i].view \in Pages!TitledViews /\ viewTimeouts[i].back \in Home
       /\ viewTimeouts[i].kind = "enableHeader" => viewClicks > 0

\* A titled view other than the settings is reached with the way back set.
Reaches(v) == v \in Pages!Views /\ (v \in Pages!TitledViews \ {"settingsView"} => back \in Home)

BackInv == ~late =>
  /\ Reaches(currentView)
  /\ \A i \in 1..Len(viewTimeouts) :
       /\ viewTimeouts[i].kind = "changeView" => Reaches(viewTimeouts[i].view)
       /\ viewTimeouts[i].kind = "viewBack" => back \in Home

\* The forms that the page's question about the theme takes, one after the other.
SandAsked == "sandboxed" \in asked
SandAnswered == Pages!Answer("sandboxed", FALSE) \in answers
ThemeAsked == "theme" \in asked
AnsweredTheme == \E b \in BOOLEAN : Pages!Answer("theme", b) \in answers
QueuedTheme == \E i \in 1..Len(viewTimeouts) : viewTimeouts[i].kind = "theme"
ThemePending == SandAsked \/ SandAnswered \/ ThemeAsked \/ AnsweredTheme \/ QueuedTheme

\* It is asked once, and before it is answered no theme is selected.
AskedOnceInv ==
  /\ SandAsked => ~SandAnswered /\ ~ThemeAsked /\ ~AnsweredTheme /\ ~QueuedTheme
  /\ SandAnswered => ~ThemeAsked /\ ~AnsweredTheme /\ ~QueuedTheme
  /\ ThemeAsked => ~AnsweredTheme /\ ~QueuedTheme
  /\ AnsweredTheme => ~QueuedTheme
  /\ ~(Pages!Answer("theme", TRUE) \in answers /\ Pages!Answer("theme", FALSE) \in answers)
  /\ \A i, j \in 1..Len(viewTimeouts) : viewTimeouts[i].kind = "theme" /\ viewTimeouts[j].kind = "theme" => i = j
  /\ ThemePending =>
      /\ currentView # "themeSelectionView" /\ "displayed" \notin asked
      /\ \A i \in 1..Len(viewTimeouts) :
           viewTimeouts[i].kind = "changeView" => viewTimeouts[i].view # "themeSelectionView"

\* No diagnosis has begun, and a task that leads to another view is the first.
NoDiagnosis ==
  /\ currentView \notin Diagnosis /\ "send" \notin asked
  /\ \A b \in BOOLEAN : Pages!Answer("diagnosticStatus", b) \notin answers
  /\ \A i \in 1..Len(viewTimeouts) :
      /\ viewTimeouts[i].kind # "diagnosticStatus"
      /\ viewTimeouts[i].kind \in {"view", "changeView"} => viewTimeouts[i].view \notin Diagnosis
      /\ viewTimeouts[i].kind \in {"view", "viewBack"} => i = 1

\* The header is switched off, or will be in time.
Disables == \/ headerDisabled
            \/ viewClicks = 0 /\ Pages!Answer("headerTheme", FALSE) \in answers
            \/ viewClicks = 0 /\ "headerTheme" \in asked /\ ~displayed

\* The theme selection is the view that is shown at last, or the header is to be enabled.
Selecting ==
  \/ \E i \in 1..Len(viewTimeouts) : viewTimeouts[i].kind = "enableHeader"
  \/ /\ \A i \in 1..Len(viewTimeouts) : viewTimeouts[i].kind \notin {"view", "viewBack"}
     /\ \/ \E i \in 1..Len(viewTimeouts) :
             /\ viewTimeouts[i] = Pages!ChangeView("themeSelectionView")
             /\ \A j \in 1..Len(viewTimeouts) : viewTimeouts[j].kind = "changeView" => j <= i
        \/ /\ currentView = "themeSelectionView"
           /\ \A j \in 1..Len(viewTimeouts) : viewTimeouts[j].kind # "changeView"

\* The answer about the theme will lead to the theme selection.
Awaited ==
  /\ ~displayed /\ Pages!Answer("theme", TRUE) \notin answers
  /\ \A i \in 1..Len(viewTimeouts) : viewTimeouts[i].kind = "theme" => ~viewTimeouts[i].value

\* Who is without the header is led to the theme selection, which enables it.
HeaderInv == ~late /\ Disables =>
  NoDiagnosis /\ (ThemePending => Awaited) /\ (~ThemePending => Selecting)

ViewsInv == Pages!TypeOK /\ TitlesInv /\ QueuedInv /\ BackInv /\ AskedOnceInv /\ HeaderInv

-----------------------------------------------------------------------------
(* The views: the tasks in the queue *)

\* The tasks that the page triggers are tasks.
LEMMA TasksTyped ==
  /\ \A v \in Pages!Views \cup {NoView} : Pages!ChangeView(v) \in Pages!Tasks
  /\ \A v \in Pages!Views, old \in Pages!Views : Pages!View(v, old) \in Pages!Tasks
  /\ Pages!ViewBack \in Pages!Tasks /\ Pages!EnableHeader \in Pages!Tasks
  /\ \A a \in Pages!Answers : a \in Pages!Tasks
BY DEF Pages!Tasks

\* What the parts of a task are.
LEMMA TaskParts ==
  /\ \A v : Pages!ChangeView(v).kind = "changeView" /\ Pages!ChangeView(v).view = v
  /\ \A v, old : Pages!View(v, old).kind = "view" /\ Pages!View(v, old).view = v /\ Pages!View(v, old).back = old
  /\ Pages!ViewBack.kind = "viewBack" /\ Pages!EnableHeader.kind = "enableHeader"
  /\ \A k, b : Pages!Answer(k, b).kind = k /\ Pages!Answer(k, b).value = b
BY DEF Pages!ChangeView, Pages!View, Pages!ViewBack, Pages!EnableHeader, Pages!Answer

\* The view of a task that changes it is one of the page's, or none.
LEMMA TaskViews ==
  ASSUME NEW x \in Pages!Tasks
  PROVE  /\ x.kind = "changeView" => x.view \in Pages!Views \cup {NoView} /\ x = Pages!ChangeView(x.view)
         /\ x.kind = "view" => x.view \in Pages!Views /\ x.back \in Pages!Views
         /\ x.kind \in {"startSettings", "theme", "diagnosticStatus"} =>
              x.value \in BOOLEAN /\ x = Pages!Answer(x.kind, x.value)
BY DEF Pages!Tasks, Pages!Answers, Pages!ChangeView, Pages!View, Pages!ViewBack, Pages!EnableHeader, Pages!Answer

\* The task that is due.
LEMMA FirstTask ==
  ASSUME Pages!TypeOK, viewTimeouts # <<>>
  PROVE  Head(viewTimeouts) = viewTimeouts[1] /\ viewTimeouts[1] \in Pages!Tasks
<1>q. PICK q \in Seq(Pages!Tasks) : q = viewTimeouts
  BY DEF Pages!TypeOK
<1>1. q # <<>>
  BY <1>q
<1>2. Head(q) = q[1] /\ q[1] \in Pages!Tasks
  BY <1>1, HeadTailProperties
<1> QED
  BY <1>q, <1>2

\* A task that has run makes way for the next one, which may bring one of its own.
LEMMA TaskDone ==
  ASSUME Pages!TypeOK, viewTimeouts # <<>>, viewTimeouts' = Tail(viewTimeouts) \o <<>>
  PROVE  /\ viewTimeouts' \in Seq(Pages!Tasks) /\ Len(viewTimeouts) \in Nat /\ Len(viewTimeouts) > 0
         /\ Len(viewTimeouts') = Len(viewTimeouts) - 1
         /\ \A i \in 1..Len(viewTimeouts) : i < Len(viewTimeouts) => viewTimeouts'[i] = viewTimeouts[i + 1]
         /\ \A i \in 2..Len(viewTimeouts) : viewTimeouts[i] = viewTimeouts'[i - 1]
         /\ Head(viewTimeouts) = viewTimeouts[1] /\ viewTimeouts[1] \in Pages!Tasks
<1> PICK q \in Seq(Pages!Tasks) : q = viewTimeouts
  BY DEF Pages!TypeOK
<1>1. /\ Tail(q) \in Seq(Pages!Tasks) /\ Len(Tail(q)) = Len(q) - 1 /\ Len(q) \in Nat /\ Len(q) > 0
      /\ \A i \in 1..Len(Tail(q)) : Tail(q)[i] = q[i + 1]
      /\ Head(q) = q[1] /\ q[1] \in Pages!Tasks
  BY HeadTailProperties
<1> PICK r \in Seq(Pages!Tasks) : r = Tail(q)
  BY <1>1
<1>2. viewTimeouts' = r
  OBVIOUS
<1>3. \A i \in 2..Len(q) : q[i] = r[i - 1]
  BY <1>1
<1> QED
  BY <1>1, <1>2, <1>3

\* The places in a queue of which the first task is gone and another one is last.
LEMMA Shifted ==
  ASSUME NEW q, NEW r, NEW p, NEW n \in Nat, n > 0, Len(q) = n, Len(r) = n - 1, Len(p) = Len(r) + 1,
         \A i \in 1..Len(r) : r[i] = q[i + 1],
         \A i \in 1..Len(r) : p[i] = r[i]
  PROVE  /\ Len(p) = n
         /\ \A i \in 1..n : i < n => p[i] = q[i + 1]
         /\ \A i \in 2..n : q[i] = p[i - 1]
<1>1. \A i \in 1..n : i < n => i \in 1..Len(r)
  OBVIOUS
<1>2. \A i \in 1..n : i < n => p[i] = q[i + 1]
  BY <1>1
<1>3. \A i \in 2..n : i - 1 \in 1..n /\ i - 1 < n /\ (i - 1) + 1 = i
  OBVIOUS
<1> QED
  BY <1>2, <1>3

\* The tasks after the first one is replaced by another at the end.
LEMMA TaskReplaced ==
  ASSUME Pages!TypeOK, viewTimeouts # <<>>, NEW x \in Pages!Tasks, viewTimeouts' = Tail(viewTimeouts) \o <<x>>
  PROVE  /\ viewTimeouts' \in Seq(Pages!Tasks) /\ Len(viewTimeouts) \in Nat /\ Len(viewTimeouts) > 0
         /\ Len(viewTimeouts') = Len(viewTimeouts)
         /\ \A i \in 1..Len(viewTimeouts) : i < Len(viewTimeouts) => viewTimeouts'[i] = viewTimeouts[i + 1]
         /\ \A i \in 2..Len(viewTimeouts) : viewTimeouts[i] = viewTimeouts'[i - 1]
         /\ viewTimeouts'[Len(viewTimeouts)] = x
         /\ Head(viewTimeouts) = viewTimeouts[1] /\ viewTimeouts[1] \in Pages!Tasks
<1>q. PICK q \in Seq(Pages!Tasks) : q = viewTimeouts
  BY DEF Pages!TypeOK
<1>0. q # <<>>
  BY <1>q
<1>1. /\ Tail(q) \in Seq(Pages!Tasks) /\ Len(Tail(q)) = Len(q) - 1 /\ Len(q) \in Nat /\ Len(q) > 0
      /\ \A i \in 1..Len(Tail(q)) : Tail(q)[i] = q[i + 1]
      /\ Head(q) = q[1] /\ q[1] \in Pages!Tasks
  BY <1>0, HeadTailProperties
<1>r. PICK r \in Seq(Pages!Tasks) : r = Tail(q)
  BY <1>1
<1>p. PICK p : p = r \o <<x>>
  OBVIOUS
<1>2. /\ p \in Seq(Pages!Tasks) /\ Len(p) = Len(r) + 1
      /\ \A i \in 1..Len(r) : p[i] = r[i]
      /\ p[Len(r) + 1] = x
  BY <1>p
<1>3. viewTimeouts' = p
  BY <1>q, <1>r, <1>p
<1>4. /\ Len(p) = Len(q)
      /\ \A i \in 1..Len(q) : i < Len(q) => p[i] = q[i + 1]
      /\ \A i \in 2..Len(q) : q[i] = p[i - 1]
  <2>1. Len(r) = Len(q) - 1 /\ \A i \in 1..Len(r) : r[i] = q[i + 1]
    BY <1>1, <1>r
  <2> QED
    BY <1>1, <1>2, <2>1, Shifted
<1>5. p[Len(q)] = x
  BY <1>1, <1>2, <1>r
<1> QED
  BY <1>1, <1>2, <1>3, <1>4, <1>5, <1>q

\* A task that is triggered comes after those that wait.
LEMMA TaskAppended ==
  ASSUME Pages!TypeOK, NEW x \in Pages!Tasks, viewTimeouts' = Append(viewTimeouts, x)
  PROVE  /\ viewTimeouts' \in Seq(Pages!Tasks) /\ Len(viewTimeouts) \in Nat
         /\ Len(viewTimeouts') = Len(viewTimeouts) + 1
         /\ \A i \in 1..Len(viewTimeouts) : viewTimeouts'[i] = viewTimeouts[i]
         /\ viewTimeouts'[Len(viewTimeouts')] = x
<1> PICK q \in Seq(Pages!Tasks) : q = viewTimeouts
  BY DEF Pages!TypeOK
<1> QED
  BY AppendProperties

\* While a task that does not bring the theme runs, the question of the theme stays where it is.
LEMMA ThemeStays ==
  ASSUME NEW x, x.kind # "theme",
         Len(viewTimeouts) \in Nat, Len(viewTimeouts) > 0, viewTimeouts[1].kind # "theme",
         \/ Len(viewTimeouts') = Len(viewTimeouts) - 1
         \/ Len(viewTimeouts') = Len(viewTimeouts) /\ viewTimeouts'[Len(viewTimeouts)] = x,
         \A i \in 1..Len(viewTimeouts) : i < Len(viewTimeouts) => viewTimeouts'[i] = viewTimeouts[i + 1],
         AskedOnceInv, asked' = asked, answers' = answers
  PROVE  /\ (SandAsked' <=> SandAsked) /\ (SandAnswered' <=> SandAnswered)
         /\ (ThemeAsked' <=> ThemeAsked) /\ (AnsweredTheme' <=> AnsweredTheme)
         /\ (QueuedTheme' <=> QueuedTheme) /\ (ThemePending' <=> ThemePending)
         /\ \A i, j \in 1..Len(viewTimeouts') :
                viewTimeouts'[i].kind = "theme" /\ viewTimeouts'[j].kind = "theme" => i = j
         /\ (\A i \in 1..Len(viewTimeouts) : viewTimeouts[i].kind = "theme" => ~viewTimeouts[i].value) =>
              (\A i \in 1..Len(viewTimeouts') : viewTimeouts'[i].kind = "theme" => ~viewTimeouts'[i].value)
<1>1. /\ (SandAsked' <=> SandAsked) /\ (SandAnswered' <=> SandAnswered)
      /\ (ThemeAsked' <=> ThemeAsked) /\ (AnsweredTheme' <=> AnsweredTheme)
  BY DEF SandAsked, SandAnswered, ThemeAsked, AnsweredTheme
<1>2. \A i \in 1..Len(viewTimeouts') :
        viewTimeouts'[i].kind = "theme" => i < Len(viewTimeouts) /\ i + 1 \in 1..Len(viewTimeouts) /\ viewTimeouts'[i] = viewTimeouts[i + 1]
  OBVIOUS
<1>3. ASSUME NEW i \in 1..Len(viewTimeouts), viewTimeouts[i].kind = "theme"
      PROVE  i - 1 \in 1..Len(viewTimeouts') /\ viewTimeouts'[i - 1] = viewTimeouts[i]
  <2>1. i # 1 /\ i - 1 \in 1..Len(viewTimeouts) /\ i - 1 < Len(viewTimeouts) /\ (i - 1) + 1 = i
    BY <1>3
  <2> QED
    BY <2>1
<1>4. QueuedTheme' <=> QueuedTheme
  BY <1>2, <1>3 DEF QueuedTheme
<1>5. \A i, j \in 1..Len(viewTimeouts) : viewTimeouts[i].kind = "theme" /\ viewTimeouts[j].kind = "theme" => i = j
  BY DEF AskedOnceInv
<1>6. \A i, j \in 1..Len(viewTimeouts') : viewTimeouts'[i].kind = "theme" /\ viewTimeouts'[j].kind = "theme" => i = j
  <2> SUFFICES ASSUME NEW i \in 1..Len(viewTimeouts'), NEW j \in 1..Len(viewTimeouts'),
                      viewTimeouts'[i].kind = "theme", viewTimeouts'[j].kind = "theme"
               PROVE  i = j
    OBVIOUS
  <2>1. i + 1 = j + 1
    BY <1>2, <1>5
  <2> QED
    BY <2>1
<1> QED
  BY <1>1, <1>2, <1>4, <1>6 DEF ThemePending

\* While a task runs that shows no view, the selection of the theme goes on.
LEMMA SelectingStays ==
  ASSUME Selecting, Len(viewTimeouts) \in Nat, Len(viewTimeouts) > 0, Len(viewTimeouts') = Len(viewTimeouts) - 1,
         \A i \in 1..Len(viewTimeouts) : i < Len(viewTimeouts) => viewTimeouts'[i] = viewTimeouts[i + 1],
         viewTimeouts[1].kind \notin {"changeView", "enableHeader"}, currentView' = currentView
  PROVE  Selecting'
<1>1. \A i \in 1..Len(viewTimeouts') : i + 1 \in 1..Len(viewTimeouts) /\ viewTimeouts'[i] = viewTimeouts[i + 1]
  OBVIOUS
<1>2. \A i \in 1..Len(viewTimeouts) :
          i # 1 => i - 1 \in 1..Len(viewTimeouts') /\ viewTimeouts'[i - 1] = viewTimeouts[i]
  OBVIOUS
<1>3. ASSUME NEW i \in 1..Len(viewTimeouts), viewTimeouts[i].kind = "enableHeader" PROVE Selecting'
  <2>1. i - 1 \in 1..Len(viewTimeouts') /\ viewTimeouts'[i - 1].kind = "enableHeader"
    BY <1>2, <1>3
  <2> QED
    BY <2>1 DEF Selecting
<1>4. ASSUME \A i \in 1..Len(viewTimeouts) : viewTimeouts[i].kind \notin {"view", "viewBack"}
      PROVE  \A i \in 1..Len(viewTimeouts') : viewTimeouts'[i].kind \notin {"view", "viewBack"}
  BY <1>1, <1>4
<1>5. ASSUME NEW i \in 1..Len(viewTimeouts), viewTimeouts[i] = Pages!ChangeView("themeSelectionView"),
             \A j \in 1..Len(viewTimeouts) : viewTimeouts[j].kind = "changeView" => j <= i,
             \A j \in 1..Len(viewTimeouts) : viewTimeouts[j].kind \notin {"view", "viewBack"}
      PROVE  Selecting'
  <2>1. i - 1 \in 1..Len(viewTimeouts') /\ viewTimeouts'[i - 1] = Pages!ChangeView("themeSelectionView")
    BY <1>2, <1>5, TaskParts
  <2>2. ASSUME NEW j \in 1..Len(viewTimeouts'), viewTimeouts'[j].kind = "changeView" PROVE j <= i - 1
    <3>1. j + 1 \in 1..Len(viewTimeouts) /\ viewTimeouts[j + 1].kind = "changeView"
      BY <1>1, <2>2
    <3>2. j + 1 <= i
      BY <1>5, <3>1
    <3> QED
      BY <3>2
  <2> QED
    BY <1>4, <1>5, <2>1, <2>2 DEF Selecting
<1>6. ASSUME currentView = "themeSelectionView",
             \A j \in 1..Len(viewTimeouts) : viewTimeouts[j].kind # "changeView",
             \A j \in 1..Len(viewTimeouts) : viewTimeouts[j].kind \notin {"view", "viewBack"}
      PROVE  Selecting'
  <2>1. \A j \in 1..Len(viewTimeouts') : viewTimeouts'[j].kind # "changeView"
    BY <1>1, <1>6
  <2> QED
    BY <1>4, <1>6, <2>1 DEF Selecting
<1> QED
  BY <1>3, <1>5, <1>6 DEF Selecting

\* So it does when the end of the selection is already due.
LEMMA SelectingEnds ==
  ASSUME NEW i \in 1..Len(viewTimeouts), viewTimeouts[i].kind = "enableHeader",
         Len(viewTimeouts) \in Nat, viewTimeouts[1].kind # "enableHeader", Len(viewTimeouts') >= Len(viewTimeouts) - 1,
         \A j \in 2..Len(viewTimeouts) : viewTimeouts[j] = viewTimeouts'[j - 1], Len(viewTimeouts') \in Nat
  PROVE  Selecting'
<1>1. i \in 2..Len(viewTimeouts)
  OBVIOUS
<1>2. i - 1 \in 1..Len(viewTimeouts') /\ viewTimeouts'[i - 1].kind = "enableHeader"
  BY <1>1
<1> QED
  BY <1>2 DEF Selecting

-----------------------------------------------------------------------------
(* The views: what each task does *)

\* VpnController shows a view, which the directive titles.
LEMMA ChangeViewKeeps ==
  ASSUME ViewsInv, Pages!ChangeViewRuns
  PROVE  ViewsInv'
<1>0. /\ Pages!TypeOK /\ viewTimeouts # <<>> /\ viewTimeouts' = Tail(viewTimeouts) \o <<>>
      /\ Head(viewTimeouts).kind = "changeView"
      /\ back' = back /\ translated' = translated /\ headerDisabled' = headerDisabled
      /\ displayed' = displayed /\ showSettingsView' = showSettingsView /\ asked' = asked
      /\ answers' = answers /\ viewClicks' = viewClicks /\ late' = late
      /\ currentView' = Head(viewTimeouts).view
      /\ Head(viewTimeouts).view \in Pages!TitledViews => titled' = Head(viewTimeouts).view /\ titleTranslated' = translated
      /\ Head(viewTimeouts).view \notin Pages!TitledViews => titled' = titled /\ titleTranslated' = titleTranslated
  BY DEF ViewsInv, Pages!ChangeViewRuns, Pages!Due, Pages!Task, Pages!RunsAndSchedules, Pages!serviceVars
<1>t. viewTimeouts' \in Seq(Pages!Tasks)
  BY <1>0, TaskDone
<1>1. /\ Len(viewTimeouts) \in Nat /\ Len(viewTimeouts) > 0
      /\ Len(viewTimeouts') = Len(viewTimeouts) - 1
      /\ \A i \in 1..Len(viewTimeouts) : i < Len(viewTimeouts) => viewTimeouts'[i] = viewTimeouts[i + 1]
      /\ \A i \in 2..Len(viewTimeouts) : viewTimeouts[i] = viewTimeouts'[i - 1]
      /\ Head(viewTimeouts) = viewTimeouts[1] /\ viewTimeouts[1] \in Pages!Tasks
  BY <1>0, TaskDone
<1> PICK v : v = viewTimeouts[1].view
  OBVIOUS
<1>2. /\ viewTimeouts[1].kind = "changeView" /\ currentView' = v /\ v \in Pages!Views \cup {NoView}
      /\ viewTimeouts[1] = Pages!ChangeView(v)
      /\ v \in Pages!TitledViews => titled' = v /\ titleTranslated' = translated
      /\ v \notin Pages!TitledViews => titled' = titled /\ titleTranslated' = titleTranslated
  BY <1>0, <1>1, TaskViews
<1>3. Pages!TypeOK'
  BY <1>0, <1>t, <1>2 DEF Pages!TypeOK
<1>4. TitlesInv'
  BY <1>0, <1>2 DEF ViewsInv, TitlesInv, Pages!TypeOK
<1>5. QueuedInv'
  BY <1>0, <1>1 DEF ViewsInv, QueuedInv
<1>6. BackInv'
  BY <1>0, <1>1, <1>2 DEF ViewsInv, BackInv, Reaches
<1>7. AskedOnceInv' /\ (ThemePending' <=> ThemePending)
  <2>1. /\ (SandAsked' <=> SandAsked) /\ (SandAnswered' <=> SandAnswered)
        /\ (ThemeAsked' <=> ThemeAsked) /\ (AnsweredTheme' <=> AnsweredTheme)
        /\ (QueuedTheme' <=> QueuedTheme) /\ (ThemePending' <=> ThemePending)
        /\ \A i, j \in 1..Len(viewTimeouts') :
               viewTimeouts'[i].kind = "theme" /\ viewTimeouts'[j].kind = "theme" => i = j
    BY <1>0, <1>1, <1>2, TaskParts, ThemeStays DEF ViewsInv
  <2>4. ThemePending => v # "themeSelectionView"
    BY <1>1, <1>2 DEF ViewsInv, AskedOnceInv
  <2>5. ThemePending =>
          \A i \in 1..Len(viewTimeouts') :
              viewTimeouts'[i].kind = "changeView" => viewTimeouts'[i].view # "themeSelectionView"
    <3>1. ThemePending =>
            \A i \in 1..Len(viewTimeouts) :
                viewTimeouts[i].kind = "changeView" => viewTimeouts[i].view # "themeSelectionView"
      BY DEF ViewsInv, AskedOnceInv
    <3>2. \A i \in 1..Len(viewTimeouts') : i + 1 \in 1..Len(viewTimeouts) /\ viewTimeouts'[i] = viewTimeouts[i + 1]
      BY <1>1
    <3> QED
      BY <3>1, <3>2
  <2> QED
    BY <1>0, <1>2, <2>1, <2>4, <2>5 DEF ViewsInv, AskedOnceInv
<1>8. HeaderInv'
  <2> SUFFICES ASSUME ~late, Disables
               PROVE  NoDiagnosis' /\ (ThemePending' => Awaited') /\ (~ThemePending' => Selecting')
    BY <1>0 DEF HeaderInv, Disables
  <2>1. NoDiagnosis'
    BY <1>0, <1>1, <1>2 DEF ViewsInv, HeaderInv, Awaited, NoDiagnosis
  <2>2. CASE ThemePending
    <3>1. /\ ~displayed /\ Pages!Answer("theme", TRUE) \notin answers
          /\ \A i \in 1..Len(viewTimeouts) : viewTimeouts[i].kind = "theme" => ~viewTimeouts[i].value
      BY <2>2 DEF ViewsInv, HeaderInv, Awaited
    <3>2. \A i \in 1..Len(viewTimeouts') : viewTimeouts'[i].kind = "theme" => ~viewTimeouts'[i].value
      BY <1>1, <3>1
    <3> QED
      BY <1>0, <1>7, <2>1, <2>2, <3>1, <3>2 DEF Awaited
  <2>3. CASE ~ThemePending
    <3>1. Selecting
      BY <2>3 DEF ViewsInv, HeaderInv, Awaited
    <3>2. Selecting'
      <4>1. CASE \E i \in 1..Len(viewTimeouts) : viewTimeouts[i].kind = "enableHeader"
        <5>1. \E i \in 1..Len(viewTimeouts') : viewTimeouts'[i].kind = "enableHeader"
          BY <1>1, <1>2, <4>1
        <5> QED
          BY <5>1 DEF Selecting
      <4>2. ASSUME NEW i \in 1..Len(viewTimeouts), viewTimeouts[i] = Pages!ChangeView("themeSelectionView"),
                   \A j \in 1..Len(viewTimeouts) : viewTimeouts[j].kind = "changeView" => j <= i,
                   \A j \in 1..Len(viewTimeouts) : viewTimeouts[j].kind \notin {"view", "viewBack"}
            PROVE  Selecting'
        <5>1. \A j \in 1..Len(viewTimeouts') :
                viewTimeouts'[j].kind \notin {"view", "viewBack"} /\ (viewTimeouts'[j].kind = "changeView" => j <= i - 1)
          <6>1. ASSUME NEW j \in 1..Len(viewTimeouts')
                PROVE  viewTimeouts'[j].kind \notin {"view", "viewBack"} /\ (viewTimeouts'[j].kind = "changeView" => j <= i - 1)
            <7>1. j + 1 \in 1..Len(viewTimeouts) /\ viewTimeouts'[j] = viewTimeouts[j + 1]
              BY <1>1
            <7>2. viewTimeouts[j + 1].kind = "changeView" => j + 1 <= i
              BY <4>2, <7>1
            <7> QED
              BY <4>2, <7>1, <7>2
          <6> QED
            BY <6>1
        <5>2. CASE i = 1
          <6>1. currentView' = "themeSelectionView"
            BY <1>2, <4>2, <5>2, TaskParts
          <6> QED
            BY <5>1, <5>2, <6>1 DEF Selecting
        <5>3. CASE i # 1
          <6>1. i - 1 \in 1..Len(viewTimeouts') /\ viewTimeouts'[i - 1] = Pages!ChangeView("themeSelectionView")
            BY <1>1, <4>2, <5>3
          <6> QED
            BY <5>1, <6>1 DEF Selecting
        <5> QED
          BY <5>2, <5>3
      <4> QED
        <5>1. 1 \in 1..Len(viewTimeouts) /\ viewTimeouts[1].kind = "changeView"
          BY <1>1, <1>2
        <5> QED
          BY <3>1, <4>1, <4>2, <5>1 DEF Selecting
    <3> QED
      BY <1>7, <2>1, <2>3, <3>2
  <2> QED
    BY <2>2, <2>3
<1> QED
  BY <1>3, <1>4, <1>5, <1>6, <1>7, <1>8 DEF ViewsInv

\* The way back is set, and the change of the view is triggered.
LEMMA ViewKeeps ==
  ASSUME ViewsInv, Pages!ViewRuns
  PROVE  ViewsInv'
<1> PICK v, old : v = viewTimeouts[1].view /\ old = viewTimeouts[1].back
  OBVIOUS
<1>0. /\ Pages!TypeOK /\ viewTimeouts # <<>> /\ Head(viewTimeouts).kind = "view" /\ Head(viewTimeouts) = viewTimeouts[1]
      /\ viewTimeouts[1] \in Pages!Tasks
      /\ currentView' = currentView /\ titled' = titled /\ titleTranslated' = titleTranslated
      /\ translated' = translated /\ headerDisabled' = headerDisabled
      /\ displayed' = displayed /\ showSettingsView' = showSettingsView /\ asked' = asked
      /\ answers' = answers /\ viewClicks' = viewClicks /\ late' = late
      /\ back' = old
  <2>1. Pages!TypeOK /\ viewTimeouts # <<>>
    BY DEF ViewsInv, Pages!ViewRuns, Pages!Due
  <2>2. Head(viewTimeouts) = viewTimeouts[1] /\ viewTimeouts[1] \in Pages!Tasks
    BY <2>1, FirstTask
  <2> QED
    BY <2>1, <2>2 DEF Pages!ViewRuns, Pages!Due, Pages!Task, Pages!RunsAndSchedules, Pages!serviceVars
<1>w. viewTimeouts' = Tail(viewTimeouts) \o <<Pages!ChangeView(v)>>
  BY <1>0 DEF Pages!ViewRuns, Pages!Task, Pages!RunsAndSchedules
<1>t. v \in Pages!Views /\ old \in Pages!Views /\ Pages!ChangeView(v) \in Pages!Tasks
  BY <1>0, TaskViews, TasksTyped
<1> PICK x \in Pages!Tasks : x = Pages!ChangeView(v)
  BY <1>t
<1>x. x.kind = "changeView" /\ x.view = v
  BY TaskParts
<1>q. viewTimeouts' \in Seq(Pages!Tasks)
  BY <1>0, <1>w, TaskReplaced
<1>1. /\ Len(viewTimeouts) \in Nat /\ Len(viewTimeouts) > 0 /\ Len(viewTimeouts') = Len(viewTimeouts)
      /\ \A i \in 1..Len(viewTimeouts) : i < Len(viewTimeouts) => viewTimeouts'[i] = viewTimeouts[i + 1]
      /\ \A i \in 2..Len(viewTimeouts) : viewTimeouts[i] = viewTimeouts'[i - 1]
      /\ viewTimeouts'[Len(viewTimeouts)] = x
  BY <1>0, <1>w, TaskReplaced
<1>c. \A i \in 1..Len(viewTimeouts') :
          (i + 1 \in 1..Len(viewTimeouts) /\ viewTimeouts'[i] = viewTimeouts[i + 1]) \/ viewTimeouts'[i] = x
  <2> SUFFICES ASSUME NEW i \in 1..Len(viewTimeouts')
               PROVE  (i + 1 \in 1..Len(viewTimeouts) /\ viewTimeouts'[i] = viewTimeouts[i + 1]) \/ viewTimeouts'[i] = x
    OBVIOUS
  <2>1. CASE i < Len(viewTimeouts)
    BY <1>1, <2>1
  <2>2. CASE i = Len(viewTimeouts)
    BY <1>1, <2>2
  <2> QED
    BY <1>1, <2>1, <2>2
<1>2. v \in Pages!TitledViews /\ old \in Home
  BY <1>0, <1>1 DEF ViewsInv, QueuedInv
<1>3. Pages!TypeOK'
  BY <1>0, <1>q, <1>t DEF Pages!TypeOK
<1>4. TitlesInv'
  BY <1>0 DEF ViewsInv, TitlesInv
<1>5. QueuedInv'
  <2>1. \A i \in 1..Len(viewTimeouts) :
          /\ viewTimeouts[i].kind = "view" => viewTimeouts[i].view \in Pages!TitledViews /\ viewTimeouts[i].back \in Home
          /\ viewTimeouts[i].kind = "enableHeader" => viewClicks > 0
    BY DEF ViewsInv, QueuedInv
  <2>2. \A i \in 1..Len(viewTimeouts') :
          /\ viewTimeouts'[i].kind = "view" => viewTimeouts'[i].view \in Pages!TitledViews /\ viewTimeouts'[i].back \in Home
          /\ viewTimeouts'[i].kind = "enableHeader" => viewClicks > 0
    BY <1>c, <1>x, <2>1
  <2> QED
    BY <1>0, <1>2, <2>2 DEF QueuedInv
<1>6. BackInv'
  <2> SUFFICES ASSUME ~late
               PROVE  /\ Reaches(currentView)'
                      /\ \A i \in 1..Len(viewTimeouts') :
                           /\ viewTimeouts'[i].kind = "changeView" => Reaches(viewTimeouts[i].view)'
                           /\ viewTimeouts'[i].kind = "viewBack" => back' \in Home
    BY <1>0 DEF BackInv
  <2>1. back' \in Home
    BY <1>0, <1>2
  <2>2. /\ currentView \in Pages!Views
        /\ \A i \in 1..Len(viewTimeouts) : viewTimeouts[i].kind = "changeView" => viewTimeouts[i].view \in Pages!Views
    BY DEF ViewsInv, BackInv, Reaches
  <2>3. \A i \in 1..Len(viewTimeouts') : viewTimeouts'[i].kind = "changeView" => viewTimeouts'[i].view \in Pages!Views
    BY <1>c, <1>t, <1>x, <2>2
  <2> QED
    BY <1>0, <2>1, <2>2, <2>3 DEF Reaches
<1>7. AskedOnceInv' /\ (ThemePending' <=> ThemePending)
  <2>1. /\ (SandAsked' <=> SandAsked) /\ (SandAnswered' <=> SandAnswered)
        /\ (ThemeAsked' <=> ThemeAsked) /\ (AnsweredTheme' <=> AnsweredTheme)
        /\ (QueuedTheme' <=> QueuedTheme) /\ (ThemePending' <=> ThemePending)
        /\ \A i, j \in 1..Len(viewTimeouts') :
               viewTimeouts'[i].kind = "theme" /\ viewTimeouts'[j].kind = "theme" => i = j
    BY <1>0, <1>1, <1>x, ThemeStays DEF ViewsInv
  <2>2. ThemePending =>
          \A i \in 1..Len(viewTimeouts') :
              viewTimeouts'[i].kind = "changeView" => viewTimeouts'[i].view # "themeSelectionView"
    <3>1. ThemePending =>
            \A i \in 1..Len(viewTimeouts) :
                viewTimeouts[i].kind = "changeView" => viewTimeouts[i].view # "themeSelectionView"
      BY DEF ViewsInv, AskedOnceInv
    <3> QED
      BY <1>c, <1>2, <1>x, <3>1 DEF Pages!TitledViews
  <2> QED
    BY <1>0, <2>1, <2>2 DEF ViewsInv, AskedOnceInv
<1>8. HeaderInv'
  <2> SUFFICES ASSUME ~late, Disables
               PROVE  NoDiagnosis' /\ (ThemePending' => Awaited') /\ (~ThemePending' => Selecting')
    BY <1>0 DEF HeaderInv, Disables
  <2>1. NoDiagnosis'
    <3>1. NoDiagnosis
      BY DEF ViewsInv, HeaderInv
    <3>2. /\ currentView' \notin Diagnosis /\ "send" \notin asked'
          /\ \A b \in BOOLEAN : Pages!Answer("diagnosticStatus", b) \notin answers'
      BY <1>0, <3>1 DEF NoDiagnosis
    <3>3. v \notin Diagnosis
      BY <1>0, <1>1, <3>1 DEF NoDiagnosis
    <3>4. \A i \in 1..Len(viewTimeouts') :
            /\ viewTimeouts'[i].kind # "diagnosticStatus"
            /\ viewTimeouts'[i].kind \in {"view", "changeView"} => viewTimeouts'[i].view \notin Diagnosis
            /\ viewTimeouts'[i].kind \in {"view", "viewBack"} => i = 1
      BY <1>1, <1>c, <1>x, <3>1, <3>3 DEF NoDiagnosis
    <3> QED
      BY <3>2, <3>4 DEF NoDiagnosis
  <2>2. CASE ThemePending
    <3>1. /\ ~displayed /\ Pages!Answer("theme", TRUE) \notin answers
          /\ \A i \in 1..Len(viewTimeouts) : viewTimeouts[i].kind = "theme" => ~viewTimeouts[i].value
      BY <2>2 DEF ViewsInv, HeaderInv, Awaited
    <3>2. \A i \in 1..Len(viewTimeouts') : viewTimeouts'[i].kind = "theme" => ~viewTimeouts'[i].value
      BY <1>c, <1>x, <3>1
    <3> QED
      BY <1>0, <1>7, <2>1, <2>2, <3>1, <3>2 DEF Awaited
  <2>3. CASE ~ThemePending
    <3>1. \E i \in 1..Len(viewTimeouts) : viewTimeouts[i].kind = "enableHeader"
      BY <1>0, <1>1, <2>3 DEF ViewsInv, HeaderInv, Awaited, Selecting
    <3>2. Selecting'
      BY <1>0, <1>1, <3>1, SelectingEnds
    <3> QED
      BY <1>7, <2>1, <2>3, <3>2
  <2> QED
    BY <2>2, <2>3
<1> QED
  BY <1>3, <1>4, <1>5, <1>6, <1>7, <1>8 DEF ViewsInv

\* The view that led here is on its way again.
LEMMA ViewBackKeeps ==
  ASSUME NoView \notin Pages!Views, ViewsInv, Pages!ViewBackRuns
  PROVE  ViewsInv'
<1>0. Pages!TypeOK /\ viewTimeouts # <<>> /\ Head(viewTimeouts).kind = "viewBack" /\ Head(viewTimeouts) = viewTimeouts[1]
  <2>1. Pages!TypeOK /\ viewTimeouts # <<>>
    BY DEF ViewsInv, Pages!ViewBackRuns, Pages!Due
  <2>2. Head(viewTimeouts) = viewTimeouts[1] /\ viewTimeouts[1] \in Pages!Tasks
    BY <2>1, FirstTask
  <2> QED
    BY <2>1, <2>2 DEF Pages!ViewBackRuns, Pages!Due
<1>w. viewTimeouts' = Tail(viewTimeouts) \o <<Pages!ChangeView(back)>>
  BY DEF Pages!ViewBackRuns, Pages!RunsAndSchedules
<1>u. /\ currentView' = currentView /\ titled' = titled /\ titleTranslated' = titleTranslated
      /\ translated' = translated /\ headerDisabled' = headerDisabled /\ back' = back
      /\ displayed' = displayed /\ showSettingsView' = showSettingsView /\ asked' = asked
      /\ answers' = answers /\ viewClicks' = viewClicks /\ late' = late
  BY DEF Pages!ViewBackRuns, Pages!pageVars, Pages!serviceVars
<1>t. back \in Home \cup {NoView} /\ Pages!ChangeView(back) \in Pages!Tasks
  BY <1>0, TasksTyped DEF ViewsInv, QueuedInv, Pages!TypeOK
<1> PICK x \in Pages!Tasks : x = Pages!ChangeView(back)
  BY <1>t
<1>x. x.kind = "changeView" /\ x.view = back
  BY TaskParts
<1>q. viewTimeouts' \in Seq(Pages!Tasks)
  BY <1>0, <1>w, TaskReplaced
<1>1. /\ Len(viewTimeouts) \in Nat /\ Len(viewTimeouts) > 0 /\ Len(viewTimeouts') = Len(viewTimeouts)
      /\ \A i \in 1..Len(viewTimeouts) : i < Len(viewTimeouts) => viewTimeouts'[i] = viewTimeouts[i + 1]
      /\ \A i \in 2..Len(viewTimeouts) : viewTimeouts[i] = viewTimeouts'[i - 1]
      /\ viewTimeouts'[Len(viewTimeouts)] = x
  BY <1>0, <1>w, TaskReplaced
<1>c. \A i \in 1..Len(viewTimeouts') :
          (i + 1 \in 1..Len(viewTimeouts) /\ viewTimeouts'[i] = viewTimeouts[i + 1]) \/ viewTimeouts'[i] = x
  <2> SUFFICES ASSUME NEW i \in 1..Len(viewTimeouts')
               PROVE  (i + 1 \in 1..Len(viewTimeouts) /\ viewTimeouts'[i] = viewTimeouts[i + 1]) \/ viewTimeouts'[i] = x
    OBVIOUS
  <2>1. CASE i < Len(viewTimeouts)
    BY <1>1, <2>1
  <2>2. CASE i = Len(viewTimeouts)
    BY <1>1, <2>2
  <2> QED
    BY <1>1, <2>1, <2>2
<1>2. ~late => back \in Home
  BY <1>0, <1>1 DEF ViewsInv, BackInv
<1>3. Pages!TypeOK'
  BY <1>0, <1>u, <1>q DEF Pages!TypeOK
<1>4. TitlesInv'
  BY <1>u DEF ViewsInv, TitlesInv
<1>5. QueuedInv'
  BY <1>u, <1>1, <1>x DEF ViewsInv, QueuedInv
<1>6. BackInv'
  BY <1>u, <1>1, <1>2, <1>x DEF ViewsInv, BackInv, Reaches, Home, Pages!TitledViews, Pages!Views
<1>7. AskedOnceInv' /\ (ThemePending' <=> ThemePending)
  <2>1. /\ (SandAsked' <=> SandAsked) /\ (SandAnswered' <=> SandAnswered)
        /\ (ThemeAsked' <=> ThemeAsked) /\ (AnsweredTheme' <=> AnsweredTheme)
        /\ (QueuedTheme' <=> QueuedTheme) /\ (ThemePending' <=> ThemePending)
        /\ \A i, j \in 1..Len(viewTimeouts') :
               viewTimeouts'[i].kind = "theme" /\ viewTimeouts'[j].kind = "theme" => i = j
    BY <1>0, <1>u, <1>1, <1>x, ThemeStays DEF ViewsInv
  <2>2. ThemePending =>
          \A i \in 1..Len(viewTimeouts') :
              viewTimeouts'[i].kind = "changeView" => viewTimeouts'[i].view # "themeSelectionView"
    <3>1. ThemePending =>
            \A i \in 1..Len(viewTimeouts) :
                viewTimeouts[i].kind = "changeView" => viewTimeouts[i].view # "themeSelectionView"
      BY DEF ViewsInv, AskedOnceInv
    <3>2. back # "themeSelectionView"
      BY <1>t DEF Home, Pages!Views
    <3> QED
      BY <1>1, <1>x, <3>1, <3>2
  <2> QED
    BY <1>u, <2>1, <2>2 DEF ViewsInv, AskedOnceInv
<1>8. HeaderInv'
  <2> SUFFICES ASSUME ~late, Disables
               PROVE  NoDiagnosis' /\ (ThemePending' => Awaited') /\ (~ThemePending' => Selecting')
    BY <1>u DEF HeaderInv, Disables
  <2>1. NoDiagnosis'
    BY <1>u, <1>1, <1>2, <1>x DEF ViewsInv, HeaderInv, Awaited, NoDiagnosis, Home, Diagnosis
  <2>2. CASE ThemePending
    <3>1. /\ ~displayed /\ Pages!Answer("theme", TRUE) \notin answers
          /\ \A i \in 1..Len(viewTimeouts) : viewTimeouts[i].kind = "theme" => ~viewTimeouts[i].value
      BY <2>2 DEF ViewsInv, HeaderInv, Awaited
    <3>2. \A i \in 1..Len(viewTimeouts') : viewTimeouts'[i].kind = "theme" => ~viewTimeouts'[i].value
      BY <1>c, <1>x, <3>1
    <3> QED
      BY <1>u, <1>7, <2>1, <2>2, <3>1, <3>2 DEF Awaited
  <2>3. CASE ~ThemePending
    <3>1. \E i \in 1..Len(viewTimeouts) : viewTimeouts[i].kind = "enableHeader"
      BY <1>0, <1>1, <2>3 DEF ViewsInv, HeaderInv, Awaited, Selecting
    <3>2. Selecting'
      BY <1>0, <1>1, <3>1, SelectingEnds
    <3> QED
      BY <1>7, <2>1, <2>3, <3>2
  <2> QED
    BY <2>2, <2>3
<1> QED
  BY <1>3, <1>4, <1>5, <1>6, <1>7, <1>8 DEF ViewsInv

\* The header works again.
LEMMA EnableHeaderKeeps ==
  ASSUME ViewsInv, Pages!EnableHeaderRuns
  PROVE  ViewsInv'
<1>0. /\ Pages!TypeOK /\ viewTimeouts # <<>> /\ Head(viewTimeouts).kind = "enableHeader" /\ Head(viewTimeouts) = viewTimeouts[1]
      /\ currentView' = currentView /\ titled' = titled /\ titleTranslated' = titleTranslated
      /\ translated' = translated /\ headerDisabled' = FALSE /\ back' = back
      /\ displayed' = displayed /\ showSettingsView' = showSettingsView /\ asked' = asked
      /\ answers' = answers /\ viewClicks' = viewClicks /\ late' = late
  <2>1. Pages!TypeOK /\ viewTimeouts # <<>>
    BY DEF ViewsInv, Pages!EnableHeaderRuns, Pages!Due
  <2>2. Head(viewTimeouts) = viewTimeouts[1] /\ viewTimeouts[1] \in Pages!Tasks
    BY <2>1, FirstTask
  <2> QED
    BY <2>1, <2>2 DEF Pages!EnableHeaderRuns, Pages!Due, Pages!serviceVars
<1>w. viewTimeouts' = Tail(viewTimeouts) \o <<>>
  BY DEF Pages!EnableHeaderRuns, Pages!RunsAndSchedules
<1>q. viewTimeouts' \in Seq(Pages!Tasks)
  BY <1>0, <1>w, TaskDone
<1>1. /\ Len(viewTimeouts) \in Nat /\ Len(viewTimeouts) > 0 /\ Len(viewTimeouts') = Len(viewTimeouts) - 1
      /\ \A i \in 1..Len(viewTimeouts) : i < Len(viewTimeouts) => viewTimeouts'[i] = viewTimeouts[i + 1]
  BY <1>0, <1>w, TaskDone
<1>2. viewClicks > 0
  BY <1>0, <1>1 DEF ViewsInv, QueuedInv
<1>3. Pages!TypeOK'
  BY <1>0, <1>q DEF Pages!TypeOK
<1>4. TitlesInv'
  BY <1>0 DEF ViewsInv, TitlesInv
<1>5. QueuedInv'
  BY <1>0, <1>1 DEF ViewsInv, QueuedInv
<1>6. BackInv'
  BY <1>0, <1>1 DEF ViewsInv, BackInv, Reaches
<1>7. AskedOnceInv'
  <2>1. /\ (SandAsked' <=> SandAsked) /\ (SandAnswered' <=> SandAnswered)
        /\ (ThemeAsked' <=> ThemeAsked) /\ (AnsweredTheme' <=> AnsweredTheme)
        /\ (QueuedTheme' <=> QueuedTheme) /\ (ThemePending' <=> ThemePending)
        /\ \A i, j \in 1..Len(viewTimeouts') :
               viewTimeouts'[i].kind = "theme" /\ viewTimeouts'[j].kind = "theme" => i = j
    BY <1>0, <1>1, TaskParts, ThemeStays DEF ViewsInv
  <2>2. ThemePending =>
          \A i \in 1..Len(viewTimeouts') :
              viewTimeouts'[i].kind = "changeView" => viewTimeouts'[i].view # "themeSelectionView"
    <3>1. ThemePending =>
            \A i \in 1..Len(viewTimeouts) :
                viewTimeouts[i].kind = "changeView" => viewTimeouts[i].view # "themeSelectionView"
      BY DEF ViewsInv, AskedOnceInv
    <3>2. \A i \in 1..Len(viewTimeouts') : i + 1 \in 1..Len(viewTimeouts) /\ viewTimeouts'[i] = viewTimeouts[i + 1]
      BY <1>1
    <3> QED
      BY <3>1, <3>2
  <2> QED
    BY <1>0, <2>1, <2>2 DEF ViewsInv, AskedOnceInv
<1>8. HeaderInv'
  <2>1. ~Disables'
    <3>1. viewClicks' # 0 /\ ~headerDisabled'
      BY <1>0, <1>2
    <3> QED
      BY <3>1 DEF Disables
  <2> QED
    BY <2>1 DEF HeaderInv
<1> QED
  BY <1>3, <1>4, <1>5, <1>6, <1>7, <1>8 DEF ViewsInv

\* A host that was started for the settings shows them, when nothing else is shown yet.
LEMMA StartSettingsKeeps ==
  ASSUME ViewsInv, Pages!StartSettingsArrives
  PROVE  ViewsInv'
<1>0. /\ Pages!TypeOK /\ viewTimeouts # <<>> /\ Head(viewTimeouts).kind = "startSettings" /\ Head(viewTimeouts) = viewTimeouts[1]
      /\ viewTimeouts[1].value \in BOOLEAN
  <2>1. Pages!TypeOK /\ viewTimeouts # <<>>
    BY DEF ViewsInv, Pages!StartSettingsArrives, Pages!Due
  <2>2. Head(viewTimeouts) = viewTimeouts[1] /\ viewTimeouts[1] \in Pages!Tasks
    BY <2>1, FirstTask
  <2> QED
    BY <2>1, <2>2, TaskViews DEF Pages!StartSettingsArrives, Pages!Due
<1>u. /\ currentView' = currentView /\ titled' = titled /\ titleTranslated' = titleTranslated
      /\ translated' = translated /\ headerDisabled' = headerDisabled /\ back' = back
      /\ displayed' = displayed /\ showSettingsView' = showSettingsView /\ asked' = asked
      /\ answers' = answers /\ viewClicks' = viewClicks
  BY DEF Pages!StartSettingsArrives, Pages!pageVars, Pages!serviceVars
<1>l. late' = (late \/ (viewTimeouts[1].value /\ (currentView # "mainView" \/ Pages!ViewUnderWay)))
  BY <1>0 DEF Pages!StartSettingsArrives, Pages!Task
<1>x. PICK x \in Pages!Tasks : x = Pages!ChangeView("settingsView") /\ x.kind = "changeView" /\ x.view = "settingsView"
  BY TasksTyped, TaskParts DEF Pages!Views, Pages!TitledViews
<1>1. /\ Len(viewTimeouts) \in Nat /\ Len(viewTimeouts) > 0 /\ viewTimeouts' \in Seq(Pages!Tasks)
      /\ \A i \in 1..Len(viewTimeouts) : i < Len(viewTimeouts) => viewTimeouts'[i] = viewTimeouts[i + 1]
      /\ \A i \in 2..Len(viewTimeouts) : viewTimeouts[i] = viewTimeouts'[i - 1]
      /\ ~viewTimeouts[1].value => Len(viewTimeouts') = Len(viewTimeouts) - 1
      /\ viewTimeouts[1].value => Len(viewTimeouts') = Len(viewTimeouts) /\ viewTimeouts'[Len(viewTimeouts)] = x
  <2>1. CASE viewTimeouts[1].value
    <3>1. viewTimeouts' = Tail(viewTimeouts) \o <<x>>
      BY <1>0, <1>x, <2>1 DEF Pages!StartSettingsArrives, Pages!RunsAndSchedules, Pages!Task
    <3> QED
      BY <1>0, <2>1, <3>1, TaskReplaced
  <2>2. CASE ~viewTimeouts[1].value
    <3>1. viewTimeouts' = Tail(viewTimeouts) \o <<>>
      BY <1>0, <2>2 DEF Pages!StartSettingsArrives, Pages!RunsAndSchedules, Pages!Task
    <3> QED
      BY <1>0, <2>2, <3>1, TaskDone
  <2> QED
    BY <1>0, <2>1, <2>2
<1>2. Len(viewTimeouts') = Len(viewTimeouts) - 1 \/ (Len(viewTimeouts') = Len(viewTimeouts) /\ viewTimeouts'[Len(viewTimeouts)] = x)
  BY <1>0, <1>1
<1>c. \A i \in 1..Len(viewTimeouts') :
        (i + 1 \in 1..Len(viewTimeouts) /\ viewTimeouts'[i] = viewTimeouts[i + 1]) \/ (viewTimeouts'[i] = x /\ viewTimeouts[1].value)
  <2> SUFFICES ASSUME NEW i \in 1..Len(viewTimeouts')
               PROVE  (i + 1 \in 1..Len(viewTimeouts) /\ viewTimeouts'[i] = viewTimeouts[i + 1]) \/ (viewTimeouts'[i] = x /\ viewTimeouts[1].value)
    OBVIOUS
  <2>1. CASE i < Len(viewTimeouts)
    BY <1>1, <2>1
  <2>2. CASE i >= Len(viewTimeouts)
    BY <1>0, <1>1, <2>2
  <2> QED
    BY <1>1, <1>2, <2>1, <2>2
<1>3. Pages!TypeOK'
  BY <1>0, <1>u, <1>l, <1>1 DEF Pages!TypeOK
<1>4. TitlesInv'
  BY <1>u, <1>l DEF ViewsInv, TitlesInv
<1>5. QueuedInv'
  BY <1>u, <1>c, <1>x DEF ViewsInv, QueuedInv
<1>6. BackInv'
  BY <1>u, <1>l, <1>c, <1>x DEF ViewsInv, BackInv, Reaches, Pages!Views, Pages!TitledViews
<1>7. AskedOnceInv' /\ (ThemePending' <=> ThemePending)
  <2>1. /\ (SandAsked' <=> SandAsked) /\ (SandAnswered' <=> SandAnswered)
        /\ (ThemeAsked' <=> ThemeAsked) /\ (AnsweredTheme' <=> AnsweredTheme)
        /\ (QueuedTheme' <=> QueuedTheme) /\ (ThemePending' <=> ThemePending)
        /\ \A i, j \in 1..Len(viewTimeouts') :
               viewTimeouts'[i].kind = "theme" /\ viewTimeouts'[j].kind = "theme" => i = j
    BY <1>0, <1>u, <1>1, <1>2, <1>x, ThemeStays DEF ViewsInv
  <2>2. ThemePending =>
          \A i \in 1..Len(viewTimeouts') :
              viewTimeouts'[i].kind = "changeView" => viewTimeouts'[i].view # "themeSelectionView"
    <3>1. ThemePending =>
            \A i \in 1..Len(viewTimeouts) :
                viewTimeouts[i].kind = "changeView" => viewTimeouts[i].view # "themeSelectionView"
      BY DEF ViewsInv, AskedOnceInv
    <3> QED
      BY <1>c, <1>x, <3>1
  <2> QED
    BY <1>u, <2>1, <2>2 DEF ViewsInv, AskedOnceInv
<1>8. HeaderInv'
  <2> SUFFICES ASSUME ~late', Disables
               PROVE  NoDiagnosis' /\ (ThemePending' => Awaited') /\ (~ThemePending' => Selecting')
    BY <1>u DEF HeaderInv, Disables
  <2>0. ~late /\ (viewTimeouts[1].value => currentView = "mainView" /\ ~Pages!ViewUnderWay)
    BY <1>l
  <2>1. NoDiagnosis'
    BY <1>u, <1>c, <1>x, <2>0 DEF ViewsInv, HeaderInv, Awaited, NoDiagnosis, Diagnosis
  <2>2. CASE ThemePending
    <3>1. /\ ~displayed /\ Pages!Answer("theme", TRUE) \notin answers
          /\ \A i \in 1..Len(viewTimeouts) : viewTimeouts[i].kind = "theme" => ~viewTimeouts[i].value
      BY <2>0, <2>2 DEF ViewsInv, HeaderInv, Awaited
    <3>2. \A i \in 1..Len(viewTimeouts') : viewTimeouts'[i].kind = "theme" => ~viewTimeouts'[i].value
      BY <1>c, <1>x, <3>1
    <3> QED
      BY <1>u, <1>7, <2>1, <2>2, <3>1, <3>2 DEF Awaited
  <2>3. CASE ~ThemePending
    <3>0. Selecting
      BY <2>0, <2>3 DEF ViewsInv, HeaderInv, Awaited
    <3>1. CASE \E i \in 1..Len(viewTimeouts) : viewTimeouts[i].kind = "enableHeader"
      <4>1. Len(viewTimeouts') \in Nat /\ Len(viewTimeouts') >= Len(viewTimeouts) - 1
        BY <1>1, <1>2
      <4>2. Selecting'
        BY <1>0, <1>1, <3>1, <4>1, SelectingEnds
      <4> QED
        BY <1>7, <2>1, <2>3, <4>2
    <3>2. CASE ~\E i \in 1..Len(viewTimeouts) : viewTimeouts[i].kind = "enableHeader"
      <4>1. ~viewTimeouts[1].value
        <5> SUFFICES ASSUME viewTimeouts[1].value PROVE FALSE
          OBVIOUS
        <5>1. PICK i \in 1..Len(viewTimeouts) : viewTimeouts[i] = Pages!ChangeView("themeSelectionView")
          BY <2>0, <3>0, <3>2 DEF Selecting
        <5>2. viewTimeouts[i].kind = "changeView"
          BY <5>1, TaskParts
        <5>3. i \in 2..Len(viewTimeouts)
          BY <1>0, <1>1, <5>2
        <5> QED
          BY <2>0, <5>2, <5>3 DEF Pages!ViewUnderWay
      <4>2. Selecting'
        BY <1>0, <1>u, <1>1, <3>0, <4>1, SelectingStays
      <4> QED
        BY <1>7, <2>1, <2>3, <4>2
    <3> QED
      BY <3>1, <3>2
  <2> QED
    BY <2>2, <2>3
<1> QED
  BY <1>3, <1>4, <1>5, <1>6, <1>7, <1>8 DEF ViewsInv

\* The service has said whether the theme has been chosen: the selection is shown after
\* everything that waits.
LEMMA ThemeKeeps ==
  ASSUME ViewsInv, Pages!ThemeArrives
  PROVE  ViewsInv'
<1> PICK v : v = IF viewTimeouts[1].value THEN currentView ELSE "themeSelectionView"
  OBVIOUS
<1>0. /\ Pages!TypeOK /\ viewTimeouts # <<>> /\ Head(viewTimeouts).kind = "theme" /\ Head(viewTimeouts) = viewTimeouts[1]
      /\ viewTimeouts[1].value \in BOOLEAN
  <2>1. Pages!TypeOK /\ viewTimeouts # <<>>
    BY DEF ViewsInv, Pages!ThemeArrives, Pages!Due
  <2>2. Head(viewTimeouts) = viewTimeouts[1] /\ viewTimeouts[1] \in Pages!Tasks
    BY <2>1, FirstTask
  <2> QED
    BY <2>1, <2>2, TaskViews DEF Pages!ThemeArrives, Pages!Due
<1>w. viewTimeouts' = Tail(viewTimeouts) \o <<Pages!ChangeView(v)>>
  BY <1>0 DEF Pages!ThemeArrives, Pages!RunsAndSchedules, Pages!Task
<1>u. /\ currentView' = currentView /\ titled' = titled /\ titleTranslated' = titleTranslated
      /\ translated' = translated /\ headerDisabled' = headerDisabled /\ back' = back
      /\ displayed' = displayed /\ showSettingsView' = showSettingsView /\ asked' = asked
      /\ answers' = answers /\ viewClicks' = viewClicks /\ late' = late
  BY DEF Pages!ThemeArrives, Pages!pageVars, Pages!serviceVars
<1>t. Pages!ChangeView(v) \in Pages!Tasks
  BY <1>0, TasksTyped DEF Pages!TypeOK, Pages!Views
<1> PICK x \in Pages!Tasks : x = Pages!ChangeView(v)
  BY <1>t
<1>x. x.kind = "changeView" /\ x.view = v
  BY TaskParts
<1>q. viewTimeouts' \in Seq(Pages!Tasks)
  BY <1>0, <1>w, TaskReplaced
<1>1. /\ Len(viewTimeouts) \in Nat /\ Len(viewTimeouts) > 0 /\ Len(viewTimeouts') = Len(viewTimeouts)
      /\ \A i \in 1..Len(viewTimeouts) : i < Len(viewTimeouts) => viewTimeouts'[i] = viewTimeouts[i + 1]
      /\ viewTimeouts'[Len(viewTimeouts)] = x
  BY <1>0, <1>w, TaskReplaced
<1>c. \A i \in 1..Len(viewTimeouts') :
        (i + 1 \in 1..Len(viewTimeouts) /\ viewTimeouts'[i] = viewTimeouts[i + 1]) \/ (i = Len(viewTimeouts') /\ viewTimeouts'[i] = x)
  <2> SUFFICES ASSUME NEW i \in 1..Len(viewTimeouts')
               PROVE  (i + 1 \in 1..Len(viewTimeouts) /\ viewTimeouts'[i] = viewTimeouts[i + 1])
                        \/ (i = Len(viewTimeouts') /\ viewTimeouts'[i] = x)
    OBVIOUS
  <2>1. CASE i < Len(viewTimeouts)
    BY <1>1, <2>1
  <2>2. CASE i = Len(viewTimeouts)
    BY <1>1, <2>2
  <2> QED
    BY <1>1, <2>1, <2>2
<1>2. /\ QueuedTheme /\ ThemePending /\ ~SandAsked /\ ~SandAnswered /\ ~ThemeAsked /\ ~AnsweredTheme
  <2>1. QueuedTheme
    BY <1>0, <1>1 DEF QueuedTheme
  <2> QED
    BY <2>1 DEF ViewsInv, AskedOnceInv, ThemePending
<1>3. Pages!TypeOK'
  BY <1>0, <1>u, <1>q DEF Pages!TypeOK
<1>4. TitlesInv'
  BY <1>u DEF ViewsInv, TitlesInv
<1>5. QueuedInv'
  BY <1>u, <1>c, <1>x DEF ViewsInv, QueuedInv
<1>6. BackInv'
  <2>1. ~late => Reaches(v)
    BY DEF ViewsInv, BackInv, Reaches, Pages!Views, Pages!TitledViews
  <2>2. ASSUME NEW i \in 1..Len(viewTimeouts'), ~late
        PROVE  /\ viewTimeouts'[i].kind = "changeView" => Reaches(viewTimeouts'[i].view)
               /\ viewTimeouts'[i].kind = "viewBack" => back \in Home
    BY <1>c, <1>x, <2>1, <2>2 DEF ViewsInv, BackInv
  <2> QED
    BY <1>u, <2>2 DEF ViewsInv, BackInv, Reaches
<1>7. AskedOnceInv' /\ ~ThemePending'
  <2>1. \A i \in 1..Len(viewTimeouts') : viewTimeouts'[i].kind # "theme"
    <3>1. \A i \in 1..Len(viewTimeouts) : viewTimeouts[i].kind = "theme" => i = 1
      BY <1>0, <1>1 DEF ViewsInv, AskedOnceInv
    <3> QED
      BY <1>c, <1>x, <3>1
  <2>2. ~QueuedTheme'
    BY <2>1 DEF QueuedTheme
  <2>3. ~SandAsked' /\ ~SandAnswered' /\ ~ThemeAsked' /\ ~AnsweredTheme'
    BY <1>u, <1>2 DEF SandAsked, SandAnswered, ThemeAsked, AnsweredTheme
  <2>4. ~ThemePending'
    BY <2>2, <2>3 DEF ThemePending
  <2>5. ~(Pages!Answer("theme", TRUE) \in answers' /\ Pages!Answer("theme", FALSE) \in answers')
    BY <2>3 DEF AnsweredTheme
  <2> QED
    BY <2>1, <2>2, <2>3, <2>4, <2>5 DEF AskedOnceInv
<1>8. HeaderInv'
  <2> SUFFICES ASSUME ~late, Disables PROVE NoDiagnosis' /\ Selecting'
    BY <1>u, <1>7 DEF HeaderInv, Disables
  <2>1. NoDiagnosis /\ ~viewTimeouts[1].value
    BY <1>0, <1>1, <1>2 DEF ViewsInv, HeaderInv, Awaited
  <2>2. NoDiagnosis'
    BY <1>u, <1>c, <1>x, <2>1 DEF NoDiagnosis, Diagnosis
  <2>3. \A i \in 1..Len(viewTimeouts') : viewTimeouts'[i].kind \notin {"view", "viewBack"}
    BY <1>c, <1>x, <2>1 DEF NoDiagnosis
  <2>4. Len(viewTimeouts') \in 1..Len(viewTimeouts') /\ viewTimeouts'[Len(viewTimeouts')] = Pages!ChangeView("themeSelectionView")
    BY <1>1, <2>1
  <2> QED
    BY <2>2, <2>3, <2>4 DEF Selecting
<1> QED
  BY <1>3, <1>4, <1>5, <1>6, <1>7, <1>8 DEF ViewsInv

\* The diagnostic data have been sent, or not; the header works then.
LEMMA DiagnosticKeeps ==
  ASSUME ViewsInv, Pages!DiagnosticStatusArrives
  PROVE  ViewsInv'
<1> PICK x : x = IF viewTimeouts[1].value THEN Pages!View("confirmSentDataView", "mainView") ELSE Pages!ChangeView("mainView")
  OBVIOUS
<1>0. /\ Pages!TypeOK /\ viewTimeouts # <<>> /\ Head(viewTimeouts).kind = "diagnosticStatus" /\ Head(viewTimeouts) = viewTimeouts[1]
      /\ viewTimeouts[1].value \in BOOLEAN
  <2>1. Pages!TypeOK /\ viewTimeouts # <<>>
    BY DEF ViewsInv, Pages!DiagnosticStatusArrives, Pages!Due
  <2>2. Head(viewTimeouts) = viewTimeouts[1] /\ viewTimeouts[1] \in Pages!Tasks
    BY <2>1, FirstTask
  <2> QED
    BY <2>1, <2>2, TaskViews DEF Pages!DiagnosticStatusArrives, Pages!Due
<1>w. viewTimeouts' = Tail(viewTimeouts) \o <<x>>
  BY <1>0 DEF Pages!DiagnosticStatusArrives, Pages!RunsAndSchedules, Pages!Task
<1>u. /\ currentView' = currentView /\ titled' = titled /\ titleTranslated' = titleTranslated
      /\ translated' = translated /\ headerDisabled' = headerDisabled /\ back' = back
      /\ displayed' = displayed /\ showSettingsView' = showSettingsView /\ asked' = asked
      /\ answers' = answers /\ viewClicks' = viewClicks /\ late' = late
  BY DEF Pages!DiagnosticStatusArrives, Pages!pageVars, Pages!serviceVars
<1>x. /\ x \in Pages!Tasks
      /\ \/ x.kind = "changeView" /\ x.view = "mainView"
         \/ x.kind = "view" /\ x.view = "confirmSentDataView" /\ x.back = "mainView"
  <2>1. /\ "mainView" \in Pages!Views /\ "confirmSentDataView" \in Pages!Views
    BY DEF Pages!Views, Pages!TitledViews
  <2>2. Pages!View("confirmSentDataView", "mainView") \in Pages!Tasks /\ Pages!ChangeView("mainView") \in Pages!Tasks
    BY <2>1, TasksTyped
  <2> QED
    BY <2>2, TaskParts
<1>q. viewTimeouts' \in Seq(Pages!Tasks)
  BY <1>0, <1>w, <1>x, TaskReplaced
<1>1. /\ Len(viewTimeouts) \in Nat /\ Len(viewTimeouts) > 0 /\ Len(viewTimeouts') = Len(viewTimeouts)
      /\ \A i \in 1..Len(viewTimeouts) : i < Len(viewTimeouts) => viewTimeouts'[i] = viewTimeouts[i + 1]
      /\ viewTimeouts'[Len(viewTimeouts)] = x
  BY <1>0, <1>w, <1>x, TaskReplaced
<1>c. \A i \in 1..Len(viewTimeouts') :
          (i + 1 \in 1..Len(viewTimeouts) /\ viewTimeouts'[i] = viewTimeouts[i + 1]) \/ viewTimeouts'[i] = x
  <2> SUFFICES ASSUME NEW i \in 1..Len(viewTimeouts')
               PROVE  (i + 1 \in 1..Len(viewTimeouts) /\ viewTimeouts'[i] = viewTimeouts[i + 1]) \/ viewTimeouts'[i] = x
    OBVIOUS
  <2>1. CASE i < Len(viewTimeouts)
    BY <1>1, <2>1
  <2>2. CASE i = Len(viewTimeouts)
    BY <1>1, <2>2
  <2> QED
    BY <1>1, <2>1, <2>2
<1>3. Pages!TypeOK'
  BY <1>0, <1>u, <1>q DEF Pages!TypeOK
<1>4. TitlesInv'
  BY <1>u DEF ViewsInv, TitlesInv
<1>5. QueuedInv'
  BY <1>u, <1>c, <1>x DEF ViewsInv, QueuedInv, Home, Pages!TitledViews
<1>6. BackInv'
  BY <1>u, <1>c, <1>x DEF ViewsInv, BackInv, Reaches, Pages!Views, Pages!TitledViews
<1>7. AskedOnceInv'
  <2>1. /\ (SandAsked' <=> SandAsked) /\ (SandAnswered' <=> SandAnswered)
        /\ (ThemeAsked' <=> ThemeAsked) /\ (AnsweredTheme' <=> AnsweredTheme)
        /\ (QueuedTheme' <=> QueuedTheme) /\ (ThemePending' <=> ThemePending)
        /\ \A i, j \in 1..Len(viewTimeouts') :
               viewTimeouts'[i].kind = "theme" /\ viewTimeouts'[j].kind = "theme" => i = j
    BY <1>0, <1>u, <1>1, <1>x, ThemeStays DEF ViewsInv
  <2>2. ThemePending =>
          \A i \in 1..Len(viewTimeouts') :
              viewTimeouts'[i].kind = "changeView" => viewTimeouts'[i].view # "themeSelectionView"
    <3>1. ThemePending =>
            \A i \in 1..Len(viewTimeouts) :
                viewTimeouts[i].kind = "changeView" => viewTimeouts[i].view # "themeSelectionView"
      BY DEF ViewsInv, AskedOnceInv
    <3> QED
      BY <1>c, <1>x, <3>1
  <2> QED
    BY <1>u, <2>1, <2>2 DEF ViewsInv, AskedOnceInv
<1>8. HeaderInv'
  <2>1. late \/ ~Disables
    <3>1. 1 \in 1..Len(viewTimeouts) /\ viewTimeouts[1].kind = "diagnosticStatus"
      BY <1>0, <1>1
    <3> QED
      BY <3>1 DEF ViewsInv, HeaderInv, Awaited, NoDiagnosis
  <2> QED
    BY <1>u, <2>1 DEF HeaderInv, Disables
<1> QED
  BY <1>3, <1>4, <1>5, <1>6, <1>7, <1>8 DEF ViewsInv

-----------------------------------------------------------------------------
(* The views: the service's answers and the user *)

\* Answers are told apart by what they are to and what they say.
LEMMA AnswersDiffer ==
  /\ \A k, l, b, c : Pages!Answer(k, b) = Pages!Answer(l, c) => k = l /\ b = c
  /\ \A b \in BOOLEAN :
         \A k \in {"language", "startSettings", "sandboxed", "theme", "headerTheme", "diagnosticStatus"} :
       Pages!Answer(k, b) \in Pages!Answers
<1>1. ASSUME NEW k, NEW l, NEW b, NEW c, Pages!Answer(k, b) = Pages!Answer(l, c) PROVE k = l /\ b = c
  <2>1. Pages!Answer(k, b).kind = Pages!Answer(l, c).kind /\ Pages!Answer(k, b).value = Pages!Answer(l, c).value
    BY <1>1
  <2> QED
    BY <2>1, TaskParts
<1>2. \A b \in BOOLEAN :
          \A k \in {"language", "startSettings", "sandboxed", "theme", "headerTheme", "diagnosticStatus"} :
        Pages!Answer(k, b) \in Pages!Answers
  BY DEF Pages!Answers
<1>3. \A k, l, b, c : Pages!Answer(k, b) = Pages!Answer(l, c) => k = l /\ b = c
  BY <1>1, Zenon
<1> QED
  BY <1>2, <1>3

\* Those that decide about the header and the theme.
LEMMA AnswersMeant ==
  ASSUME NEW k, NEW v \in BOOLEAN
  PROVE  /\ Pages!Answer("theme", TRUE) = Pages!Answer(k, v) => k = "theme" /\ v
         /\ Pages!Answer("theme", FALSE) = Pages!Answer(k, v) => k = "theme" /\ ~v
         /\ Pages!Answer("headerTheme", FALSE) = Pages!Answer(k, v) => k = "headerTheme" /\ ~v
         /\ Pages!Answer("sandboxed", FALSE) = Pages!Answer(k, v) => k = "sandboxed"
         /\ \A b \in BOOLEAN : Pages!Answer("diagnosticStatus", b) = Pages!Answer(k, v) => k = "diagnosticStatus"
<1>1. ASSUME NEW l, NEW c, Pages!Answer(l, c) = Pages!Answer(k, v) PROVE l = k /\ c = v
  BY <1>1, AnswersDiffer
<1>2. Pages!Answer("theme", TRUE) = Pages!Answer(k, v) => "theme" = k /\ TRUE = v
  BY <1>1, Zenon
<1>3. Pages!Answer("theme", FALSE) = Pages!Answer(k, v) => "theme" = k /\ FALSE = v
  BY <1>1, Zenon
<1>4. Pages!Answer("headerTheme", FALSE) = Pages!Answer(k, v) => "headerTheme" = k /\ FALSE = v
  BY <1>1, Zenon
<1>5. Pages!Answer("sandboxed", FALSE) = Pages!Answer(k, v) => "sandboxed" = k
  BY <1>1, Zenon
<1>6. \A b \in BOOLEAN : Pages!Answer("diagnosticStatus", b) = Pages!Answer(k, v) => "diagnosticStatus" = k
  BY <1>1, Zenon
<1> QED
  BY <1>2, <1>3, <1>4, <1>5, <1>6

\* The service answers.
LEMMA ServiceKeeps ==
  ASSUME ViewsInv, NEW r \in Pages!Questions, Pages!ServiceHandles(r)
  PROVE  ViewsInv'
<1>0. /\ Pages!TypeOK /\ r \in asked /\ asked' = asked \ {r} /\ displayed' = (displayed \/ r = "displayed")
      /\ currentView' = currentView /\ titled' = titled /\ titleTranslated' = titleTranslated
      /\ translated' = translated /\ headerDisabled' = headerDisabled /\ back' = back
      /\ showSettingsView' = showSettingsView /\ viewTimeouts' = viewTimeouts /\ viewClicks' = viewClicks /\ late' = late
  BY DEF ViewsInv, Pages!ServiceHandles, Pages!pageVars
<1>1. /\ answers \subseteq answers' /\ answers' \subseteq Pages!Answers
      /\ Pages!Answer("sandboxed", FALSE) \in answers' => Pages!Answer("sandboxed", FALSE) \in answers \/ r = "sandboxed"
      /\ Pages!Answer("theme", TRUE) \in answers' => Pages!Answer("theme", TRUE) \in answers \/ (r = "theme" /\ displayed)
      /\ Pages!Answer("theme", FALSE) \in answers' => Pages!Answer("theme", FALSE) \in answers \/ (r = "theme" /\ ~displayed)
      /\ Pages!Answer("headerTheme", FALSE) \in answers' =>
           Pages!Answer("headerTheme", FALSE) \in answers \/ (r = "headerTheme" /\ ~displayed)
      /\ \A b \in BOOLEAN : Pages!Answer("diagnosticStatus", b) \in answers' =>
           Pages!Answer("diagnosticStatus", b) \in answers \/ r = "send"
      /\ r = "sandboxed" => Pages!Answer("sandboxed", FALSE) \in answers'
      /\ r = "theme" => Pages!Answer("theme", displayed) \in answers'
  <2>0. answers \subseteq Pages!Answers /\ displayed \in BOOLEAN
    BY <1>0 DEF Pages!TypeOK
  <2>1. CASE r \in {"theme", "headerTheme"}
    <3>1. answers' = answers \cup {Pages!Answer(r, displayed)}
      BY <2>1 DEF Pages!ServiceHandles
    <3>2. Pages!Answer(r, displayed) \in Pages!Answers
      BY <2>0, <2>1, AnswersDiffer
    <3>3. /\ Pages!Answer("theme", TRUE) = Pages!Answer(r, displayed) => r = "theme" /\ displayed
          /\ Pages!Answer("theme", FALSE) = Pages!Answer(r, displayed) => r = "theme" /\ ~displayed
          /\ Pages!Answer("headerTheme", FALSE) = Pages!Answer(r, displayed) => r = "headerTheme" /\ ~displayed
          /\ Pages!Answer("sandboxed", FALSE) # Pages!Answer(r, displayed)
          /\ \A b \in BOOLEAN : Pages!Answer("diagnosticStatus", b) # Pages!Answer(r, displayed)
      BY <2>0, <2>1, AnswersMeant
    <3>4. r = "theme" => Pages!Answer("theme", displayed) \in answers'
      BY <3>1
    <3> QED
      BY <2>0, <2>1, <3>1, <3>2, <3>3, <3>4
  <2>2. CASE r = "sandboxed"
    <3>1. answers' = answers \cup {Pages!Answer(r, FALSE)}
      BY <2>2 DEF Pages!ServiceHandles
    <3>2. Pages!Answer(r, FALSE) \in Pages!Answers
      BY <2>2, AnswersDiffer
    <3>3. /\ Pages!Answer("theme", TRUE) # Pages!Answer(r, FALSE) /\ Pages!Answer("theme", FALSE) # Pages!Answer(r, FALSE)
          /\ Pages!Answer("headerTheme", FALSE) # Pages!Answer(r, FALSE)
          /\ \A b \in BOOLEAN : Pages!Answer("diagnosticStatus", b) # Pages!Answer(r, FALSE)
      BY <2>2, AnswersMeant
    <3> QED
      BY <2>0, <2>2, <3>1, <3>2, <3>3
  <2>3. CASE r = "send"
    <3>1. PICK b \in BOOLEAN : answers' = answers \cup {Pages!Answer("diagnosticStatus", b)}
      BY <2>3 DEF Pages!ServiceHandles
    <3>2. Pages!Answer("diagnosticStatus", b) \in Pages!Answers
      BY AnswersDiffer
    <3>3. /\ Pages!Answer("theme", TRUE) # Pages!Answer("diagnosticStatus", b)
          /\ Pages!Answer("theme", FALSE) # Pages!Answer("diagnosticStatus", b)
          /\ Pages!Answer("headerTheme", FALSE) # Pages!Answer("diagnosticStatus", b)
          /\ Pages!Answer("sandboxed", FALSE) # Pages!Answer("diagnosticStatus", b)
      BY AnswersMeant
    <3> QED
      BY <2>0, <2>3, <3>1, <3>2, <3>3
  <2>4. CASE r = "displayed"
    <3>1. answers' = answers
      BY <2>4 DEF Pages!ServiceHandles
    <3> QED
      BY <2>0, <2>4, <3>1
  <2> QED
    BY <2>1, <2>2, <2>3, <2>4 DEF Pages!Questions
<1>2. displayed \in BOOLEAN
  BY <1>0 DEF Pages!TypeOK
<1>3. Pages!TypeOK'
  BY <1>0, <1>1 DEF Pages!TypeOK
<1>4. TitlesInv'
  BY <1>0 DEF ViewsInv, TitlesInv
<1>5. QueuedInv'
  BY <1>0 DEF ViewsInv, QueuedInv
<1>6. BackInv'
  BY <1>0 DEF ViewsInv, BackInv, Reaches
<1>7. /\ QueuedTheme' <=> QueuedTheme
      /\ SandAsked' => SandAsked
      /\ SandAsked => SandAsked' \/ r = "sandboxed"
      /\ SandAnswered' <=> SandAnswered \/ r = "sandboxed"
      /\ ThemeAsked' => ThemeAsked
      /\ ThemeAsked => ThemeAsked' \/ r = "theme"
      /\ AnsweredTheme' <=> AnsweredTheme \/ r = "theme"
      /\ r = "sandboxed" => SandAsked /\ ~SandAsked'
      /\ r = "theme" => ThemeAsked /\ ~ThemeAsked'
  <2>1. QueuedTheme' <=> QueuedTheme
    BY <1>0 DEF QueuedTheme
  <2>2. /\ SandAsked' => SandAsked
        /\ SandAsked => SandAsked' \/ r = "sandboxed"
        /\ ThemeAsked' => ThemeAsked
        /\ ThemeAsked => ThemeAsked' \/ r = "theme"
        /\ r = "sandboxed" => SandAsked /\ ~SandAsked'
        /\ r = "theme" => ThemeAsked /\ ~ThemeAsked'
    BY <1>0 DEF SandAsked, ThemeAsked
  <2>3. SandAnswered' <=> SandAnswered \/ r = "sandboxed"
    BY <1>1 DEF SandAnswered
  <2>4. AnsweredTheme' <=> AnsweredTheme \/ r = "theme"
    BY <1>1, <1>2 DEF AnsweredTheme
  <2> QED
    BY <2>1, <2>2, <2>3, <2>4
<1>8. ThemePending' <=> ThemePending
  BY <1>7 DEF ThemePending
<1>9. AskedOnceInv'
  <2>1. /\ SandAsked' => ~SandAnswered' /\ ~ThemeAsked' /\ ~AnsweredTheme' /\ ~QueuedTheme'
        /\ SandAnswered' => ~ThemeAsked' /\ ~AnsweredTheme' /\ ~QueuedTheme'
        /\ ThemeAsked' => ~AnsweredTheme' /\ ~QueuedTheme'
        /\ AnsweredTheme' => ~QueuedTheme'
    BY <1>7 DEF ViewsInv, AskedOnceInv
  <2>2. ~(Pages!Answer("theme", TRUE) \in answers' /\ Pages!Answer("theme", FALSE) \in answers')
    <3>1. CASE r = "theme"
      <4>1. ~AnsweredTheme
        BY <1>7, <3>1 DEF ViewsInv, AskedOnceInv
      <4> QED
        BY <1>1, <1>2, <4>1 DEF AnsweredTheme
    <3>2. CASE r # "theme"
      BY <1>1, <3>2 DEF ViewsInv, AskedOnceInv
    <3> QED
      BY <3>1, <3>2
  <2> QED
    BY <1>0, <1>8, <2>1, <2>2 DEF ViewsInv, AskedOnceInv
<1>10. HeaderInv'
  <2> SUFFICES ASSUME ~late, Disables'
               PROVE  NoDiagnosis' /\ (ThemePending' => Awaited') /\ (~ThemePending' => Selecting')
    BY <1>0 DEF HeaderInv
  <2>1. Disables
    BY <1>0, <1>1, <1>2 DEF Disables
  <2>2. NoDiagnosis /\ r # "send"
    BY <1>0, <2>1 DEF ViewsInv, HeaderInv, Awaited, NoDiagnosis
  <2>3. NoDiagnosis'
    BY <1>0, <1>1, <2>2 DEF NoDiagnosis
  <2>4. CASE ThemePending
    <3>1. /\ ~displayed /\ Pages!Answer("theme", TRUE) \notin answers /\ "displayed" \notin asked
          /\ \A i \in 1..Len(viewTimeouts) : viewTimeouts[i].kind = "theme" => ~viewTimeouts[i].value
      BY <2>1, <2>4 DEF ViewsInv, HeaderInv, Awaited, AskedOnceInv
    <3>2. ~displayed' /\ Pages!Answer("theme", TRUE) \notin answers'
      BY <1>0, <1>1, <3>1
    <3> QED
      BY <1>0, <1>8, <2>3, <2>4, <3>1, <3>2 DEF Awaited
  <2>5. CASE ~ThemePending
    <3>1. Selecting
      BY <2>1, <2>5 DEF ViewsInv, HeaderInv, Awaited
    <3>2. Selecting'
      BY <1>0, <3>1 DEF Selecting
    <3> QED
      BY <1>8, <2>3, <2>5, <3>2
  <2> QED
    BY <2>4, <2>5
<1> QED
  BY <1>3, <1>4, <1>5, <1>6, <1>9, <1>10 DEF ViewsInv

\* An answer that triggers something reaches the page.
LEMMA DeliverKeeps ==
  ASSUME ViewsInv, NEW a \in Pages!Answers, Pages!Deliver(a)
  PROVE  ViewsInv'
<1>0. /\ Pages!TypeOK /\ a \in answers /\ a.kind \notin Pages!Silent /\ answers' = answers \ {a}
      /\ currentView' = currentView /\ titled' = titled /\ titleTranslated' = titleTranslated
      /\ translated' = translated /\ headerDisabled' = headerDisabled /\ back' = back
      /\ displayed' = displayed /\ showSettingsView' = showSettingsView /\ asked' = asked
      /\ viewClicks' = viewClicks /\ late' = late
  BY DEF ViewsInv, Pages!Deliver, Pages!pageVars
<1>w. viewTimeouts' = Append(viewTimeouts, a) /\ a \in Pages!Tasks
  BY TasksTyped DEF Pages!Deliver
<1>q. viewTimeouts' \in Seq(Pages!Tasks)
  BY <1>0, <1>w, TaskAppended
<1>1. /\ Len(viewTimeouts) \in Nat /\ Len(viewTimeouts') = Len(viewTimeouts) + 1
      /\ \A i \in 1..Len(viewTimeouts) : viewTimeouts'[i] = viewTimeouts[i]
      /\ viewTimeouts'[Len(viewTimeouts')] = a
  BY <1>0, <1>w, TaskAppended
<1>c. \A i \in 1..Len(viewTimeouts') :
          (i \in 1..Len(viewTimeouts) /\ viewTimeouts'[i] = viewTimeouts[i]) \/ viewTimeouts'[i] = a
  BY <1>1
<1>d. \A i \in 1..Len(viewTimeouts) : i \in 1..Len(viewTimeouts')
  BY <1>1
<1>x. a.kind \in {"startSettings", "theme", "diagnosticStatus"} /\ a.value \in BOOLEAN /\ a = Pages!Answer(a.kind, a.value)
  <2>1. PICK k \in {"language", "startSettings", "sandboxed", "theme", "headerTheme", "diagnosticStatus"},
             b \in BOOLEAN : a = Pages!Answer(k, b)
    BY DEF Pages!Answers
  <2>2. a.kind = k /\ a.value = b
    BY <2>1, TaskParts
  <2> QED
    BY <1>0, <2>1, <2>2 DEF Pages!Silent
<1>3. Pages!TypeOK'
  BY <1>0, <1>q DEF Pages!TypeOK
<1>4. TitlesInv'
  BY <1>0 DEF ViewsInv, TitlesInv
<1>5. QueuedInv'
  BY <1>0, <1>c, <1>x DEF ViewsInv, QueuedInv
<1>6. BackInv'
  BY <1>0, <1>c, <1>x DEF ViewsInv, BackInv, Reaches
<1>7. /\ (SandAsked' <=> SandAsked) /\ (ThemeAsked' <=> ThemeAsked)
      /\ SandAnswered' <=> SandAnswered
      /\ a.kind = "theme" => AnsweredTheme /\ ~AnsweredTheme' /\ QueuedTheme'
      /\ a.kind # "theme" => (AnsweredTheme' <=> AnsweredTheme) /\ (QueuedTheme' <=> QueuedTheme)
  <2>1. (SandAsked' <=> SandAsked) /\ (ThemeAsked' <=> ThemeAsked)
    BY <1>0 DEF SandAsked, ThemeAsked
  <2>2. SandAnswered' <=> SandAnswered
    <3>1. Pages!Answer("sandboxed", FALSE) # a
      BY <1>x, AnswersMeant
    <3> QED
      BY <1>0, <3>1 DEF SandAnswered
  <2>3. ASSUME a.kind = "theme" PROVE AnsweredTheme /\ ~AnsweredTheme' /\ QueuedTheme'
    <3>1. AnsweredTheme
      BY <1>0, <1>x, <2>3 DEF AnsweredTheme
    <3>2. a = Pages!Answer("theme", TRUE) \/ a = Pages!Answer("theme", FALSE)
      BY <1>x, <2>3
    <3>3. Pages!Answer("theme", TRUE) \notin answers' /\ Pages!Answer("theme", FALSE) \notin answers'
      BY <1>0, <3>2 DEF ViewsInv, AskedOnceInv
    <3>4. ~AnsweredTheme'
      BY <3>3 DEF AnsweredTheme
    <3>5. Len(viewTimeouts') \in 1..Len(viewTimeouts') /\ viewTimeouts'[Len(viewTimeouts')].kind = "theme"
      BY <1>1, <2>3
    <3> QED
      BY <3>1, <3>4, <3>5 DEF QueuedTheme
  <2>4. ASSUME a.kind # "theme" PROVE (AnsweredTheme' <=> AnsweredTheme) /\ (QueuedTheme' <=> QueuedTheme)
    <3>1. \A b \in BOOLEAN : Pages!Answer("theme", b) # a
      BY <2>4, TaskParts
    <3>2. AnsweredTheme' <=> AnsweredTheme
      BY <1>0, <3>1 DEF AnsweredTheme
    <3>3. ASSUME NEW i \in 1..Len(viewTimeouts), viewTimeouts[i].kind = "theme" PROVE QueuedTheme'
      <4>1. i \in 1..Len(viewTimeouts') /\ viewTimeouts'[i].kind = "theme"
        BY <1>1, <3>3
      <4> QED
        BY <4>1 DEF QueuedTheme
    <3>4. ASSUME NEW i \in 1..Len(viewTimeouts'), viewTimeouts'[i].kind = "theme" PROVE QueuedTheme
      BY <1>c, <2>4, <3>4 DEF QueuedTheme
    <3> QED
      BY <3>2, <3>3, <3>4 DEF QueuedTheme
  <2> QED
    BY <2>1, <2>2, <2>3, <2>4
<1>8. ThemePending' <=> ThemePending
  BY <1>7 DEF ThemePending
<1>9. AskedOnceInv'
  <2>1. /\ SandAsked' => ~SandAnswered' /\ ~ThemeAsked' /\ ~AnsweredTheme' /\ ~QueuedTheme'
        /\ SandAnswered' => ~ThemeAsked' /\ ~AnsweredTheme' /\ ~QueuedTheme'
        /\ ThemeAsked' => ~AnsweredTheme' /\ ~QueuedTheme'
        /\ AnsweredTheme' => ~QueuedTheme'
    BY <1>7 DEF ViewsInv, AskedOnceInv
  <2>2. ~(Pages!Answer("theme", TRUE) \in answers' /\ Pages!Answer("theme", FALSE) \in answers')
    BY <1>0 DEF ViewsInv, AskedOnceInv
  <2>3. ASSUME NEW i \in 1..Len(viewTimeouts'), NEW j \in 1..Len(viewTimeouts'),
               viewTimeouts'[i].kind = "theme", viewTimeouts'[j].kind = "theme"
        PROVE  i = j
    <3>1. CASE a.kind = "theme"
      <4>1. ~QueuedTheme
        BY <1>7, <3>1 DEF ViewsInv, AskedOnceInv
      <4>2. \A k \in 1..Len(viewTimeouts) : viewTimeouts[k].kind # "theme"
        BY <4>1 DEF QueuedTheme
      <4> QED
        BY <1>1, <2>3, <4>2
    <3>2. CASE a.kind # "theme"
      <4>1. \A k, l \in 1..Len(viewTimeouts) :
                viewTimeouts[k].kind = "theme" /\ viewTimeouts[l].kind = "theme" => k = l
        BY DEF ViewsInv, AskedOnceInv
      <4>2. /\ i \in 1..Len(viewTimeouts) /\ viewTimeouts'[i] = viewTimeouts[i]
            /\ j \in 1..Len(viewTimeouts) /\ viewTimeouts'[j] = viewTimeouts[j]
        BY <1>c, <2>3, <3>2
      <4> QED
        BY <2>3, <4>1, <4>2
    <3> QED
      BY <3>1, <3>2
  <2>4. ThemePending =>
          \A i \in 1..Len(viewTimeouts') :
              viewTimeouts'[i].kind = "changeView" => viewTimeouts'[i].view # "themeSelectionView"
    <3>1. ThemePending =>
            \A i \in 1..Len(viewTimeouts) :
                viewTimeouts[i].kind = "changeView" => viewTimeouts[i].view # "themeSelectionView"
      BY DEF ViewsInv, AskedOnceInv
    <3> QED
      BY <1>c, <1>x, <3>1
  <2> QED
    BY <1>0, <1>8, <2>1, <2>2, <2>3, <2>4 DEF ViewsInv, AskedOnceInv
<1>10. HeaderInv'
  <2> SUFFICES ASSUME ~late, Disables'
               PROVE  NoDiagnosis' /\ (ThemePending' => Awaited') /\ (~ThemePending' => Selecting')
    BY <1>0 DEF HeaderInv
  <2>1. Disables
    BY <1>0 DEF Disables
  <2>2. NoDiagnosis
    BY <2>1 DEF ViewsInv, HeaderInv, Awaited
  <2>3. a.kind # "diagnosticStatus"
    BY <1>0, <1>x, <2>2 DEF NoDiagnosis
  <2>4. NoDiagnosis'
    BY <1>0, <1>c, <1>x, <2>2, <2>3 DEF NoDiagnosis
  <2>5. CASE ThemePending
    <3>1. /\ ~displayed /\ Pages!Answer("theme", TRUE) \notin answers
          /\ \A i \in 1..Len(viewTimeouts) : viewTimeouts[i].kind = "theme" => ~viewTimeouts[i].value
      BY <2>1, <2>5 DEF ViewsInv, HeaderInv, Awaited
    <3>2. a.kind = "theme" => ~a.value
      BY <1>0, <1>x, <3>1
    <3>3. \A i \in 1..Len(viewTimeouts') : viewTimeouts'[i].kind = "theme" => ~viewTimeouts'[i].value
      BY <1>c, <3>1, <3>2
    <3> QED
      BY <1>0, <1>8, <2>4, <2>5, <3>1, <3>3 DEF Awaited
  <2>6. CASE ~ThemePending
    <3>1. Selecting
      BY <2>1, <2>6 DEF ViewsInv, HeaderInv, Awaited
    <3>2. \A i \in 1..Len(viewTimeouts') :
            viewTimeouts'[i].kind \in {"view", "viewBack", "changeView"} => i \in 1..Len(viewTimeouts) /\ viewTimeouts'[i] = viewTimeouts[i]
      BY <1>c, <1>x
    <3>3. CASE \E i \in 1..Len(viewTimeouts) : viewTimeouts[i].kind = "enableHeader"
      <4>1. \E i \in 1..Len(viewTimeouts') : viewTimeouts'[i].kind = "enableHeader"
        BY <1>1, <1>d, <3>3
      <4> QED
        BY <1>8, <2>4, <2>6, <4>1 DEF Selecting
    <3>4. CASE ~\E i \in 1..Len(viewTimeouts) : viewTimeouts[i].kind = "enableHeader"
      <4>1. \A i \in 1..Len(viewTimeouts') : viewTimeouts'[i].kind \notin {"view", "viewBack"}
        BY <3>1, <3>2, <3>4 DEF Selecting
      <4>2. ASSUME NEW i \in 1..Len(viewTimeouts), viewTimeouts[i] = Pages!ChangeView("themeSelectionView"),
                   \A j \in 1..Len(viewTimeouts) : viewTimeouts[j].kind = "changeView" => j <= i
            PROVE  Selecting'
        <5>1. i \in 1..Len(viewTimeouts') /\ viewTimeouts'[i] = Pages!ChangeView("themeSelectionView")
          BY <1>1, <1>d, <4>2
        <5>2. \A j \in 1..Len(viewTimeouts') : viewTimeouts'[j].kind = "changeView" => j <= i
          BY <3>2, <4>2
        <5> QED
          BY <4>1, <5>1, <5>2 DEF Selecting
      <4>3. ASSUME currentView = "themeSelectionView",
                   \A j \in 1..Len(viewTimeouts) : viewTimeouts[j].kind # "changeView"
            PROVE  Selecting'
        <5>1. \A j \in 1..Len(viewTimeouts') : viewTimeouts'[j].kind # "changeView"
          BY <3>2, <4>3
        <5> QED
          BY <1>0, <4>1, <4>3, <5>1 DEF Selecting
      <4>4. Selecting'
        BY <3>1, <3>4, <4>2, <4>3 DEF Selecting
      <4> QED
        BY <1>8, <2>4, <2>6, <4>4
    <3> QED
      BY <3>3, <3>4
  <2> QED
    BY <2>5, <2>6
<1> QED
  BY <1>3, <1>4, <1>5, <1>6, <1>9, <1>10 DEF ViewsInv

\* An answer that triggers nothing is gone, and the questions of the theme stay where they are.
LEMMA OthersStay ==
  ASSUME NEW a, answers' = answers \ {a}, viewTimeouts' = viewTimeouts,
         a # Pages!Answer("theme", TRUE), a # Pages!Answer("theme", FALSE), AskedOnceInv
  PROVE  (AnsweredTheme' <=> AnsweredTheme) /\ (QueuedTheme' <=> QueuedTheme)
<1>1. \A b \in BOOLEAN : Pages!Answer("theme", b) # a
  OBVIOUS
<1>2. AnsweredTheme' <=> AnsweredTheme
  BY <1>1 DEF AnsweredTheme
<1> QED
  BY <1>2 DEF QueuedTheme

\* The language of the user is set.
LEMMA LanguageKeeps ==
  ASSUME ViewsInv, Pages!LanguageArrives
  PROVE  ViewsInv'
<1> PICK v \in BOOLEAN : v = TRUE
  OBVIOUS
<1> PICK a : a = Pages!Answer("language", v)
  OBVIOUS
<1>0. /\ Pages!TypeOK /\ answers' = answers \ {a} /\ viewTimeouts' = viewTimeouts
      /\ translated' = TRUE /\ late' = (late \/ titled # NoView)
      /\ currentView' = currentView /\ titled' = titled /\ titleTranslated' = titleTranslated
      /\ headerDisabled' = headerDisabled /\ back' = back
      /\ displayed' = displayed /\ showSettingsView' = showSettingsView /\ asked' = asked
      /\ viewClicks' = viewClicks
  BY DEF ViewsInv, Pages!LanguageArrives, Pages!Arrives
<1>a. /\ a # Pages!Answer("theme", TRUE) /\ a # Pages!Answer("theme", FALSE) /\ a # Pages!Answer("sandboxed", FALSE)
      /\ a # Pages!Answer("headerTheme", FALSE)
  <2>1. a.kind = "language"
    BY TaskParts, Zenon
  <2>2. /\ Pages!Answer("theme", TRUE).kind = "theme" /\ Pages!Answer("theme", FALSE).kind = "theme"
        /\ Pages!Answer("sandboxed", FALSE).kind = "sandboxed" /\ Pages!Answer("headerTheme", FALSE).kind = "headerTheme"
    BY TaskParts, Zenon
  <2> QED
    BY <2>1, <2>2
<1>1. /\ (AnsweredTheme' <=> AnsweredTheme) /\ (QueuedTheme' <=> QueuedTheme)
      /\ (SandAsked' <=> SandAsked) /\ (SandAnswered' <=> SandAnswered) /\ (ThemeAsked' <=> ThemeAsked)
  <2>1. (AnsweredTheme' <=> AnsweredTheme) /\ (QueuedTheme' <=> QueuedTheme)
    BY <1>0, <1>a, OthersStay DEF ViewsInv
  <2> QED
    BY <1>0, <1>a, <2>1 DEF SandAsked, SandAnswered, ThemeAsked
<1>2. ThemePending' <=> ThemePending
  BY <1>1 DEF ThemePending
<1>3. Pages!TypeOK'
  BY <1>0 DEF Pages!TypeOK
<1>4. TitlesInv'
  BY <1>0 DEF ViewsInv, TitlesInv
<1>5. QueuedInv'
  BY <1>0 DEF ViewsInv, QueuedInv
<1>6. BackInv'
  BY <1>0 DEF ViewsInv, BackInv, Reaches
<1>7. AskedOnceInv'
  BY <1>0, <1>1, <1>2 DEF ViewsInv, AskedOnceInv
<1>8. HeaderInv'
  <2> SUFFICES ASSUME ~late, Disables
               PROVE  NoDiagnosis' /\ (ThemePending' => Awaited') /\ (~ThemePending' => Selecting')
    BY <1>0 DEF HeaderInv, Disables
  <2>1. NoDiagnosis'
    BY <1>0 DEF ViewsInv, HeaderInv, Awaited, NoDiagnosis
  <2>2. Selecting => Selecting'
    BY <1>0 DEF Selecting
  <2> QED
    BY <1>0, <1>2, <2>1, <2>2 DEF ViewsInv, HeaderInv, Awaited
<1> QED
  BY <1>3, <1>4, <1>5, <1>6, <1>7, <1>8 DEF ViewsInv

\* The header is switched off when the theme has not been chosen yet.
LEMMA HeaderThemeKeeps ==
  ASSUME MaxViewClicks \in Nat, ViewsInv, Pages!HeaderThemeArrives
  PROVE  ViewsInv'
<1>b. PICK b \in BOOLEAN :
        /\ Pages!Answer("headerTheme", b) \in answers /\ answers' = answers \ {Pages!Answer("headerTheme", b)}
        /\ viewTimeouts' = viewTimeouts /\ headerDisabled' = (headerDisabled \/ ~b)
  BY DEF Pages!HeaderThemeArrives, Pages!Arrives
<1>a. PICK a : a = Pages!Answer("headerTheme", b)
  OBVIOUS
<1>0. /\ Pages!TypeOK /\ a \in answers /\ answers' = answers \ {a} /\ viewTimeouts' = viewTimeouts
      /\ headerDisabled' = (headerDisabled \/ ~b) /\ late' = (late \/ viewClicks > 0)
      /\ currentView' = currentView /\ titled' = titled /\ titleTranslated' = titleTranslated
      /\ translated' = translated /\ back' = back
      /\ displayed' = displayed /\ showSettingsView' = showSettingsView /\ asked' = asked
      /\ viewClicks' = viewClicks
  BY <1>a, <1>b DEF ViewsInv, Pages!HeaderThemeArrives
<1>d. a # Pages!Answer("theme", TRUE) /\ a # Pages!Answer("theme", FALSE) /\ a # Pages!Answer("sandboxed", FALSE)
  BY <1>a, AnswersMeant
<1>1. /\ (AnsweredTheme' <=> AnsweredTheme) /\ (QueuedTheme' <=> QueuedTheme)
      /\ (SandAsked' <=> SandAsked) /\ (SandAnswered' <=> SandAnswered) /\ (ThemeAsked' <=> ThemeAsked)
  <2>1. (AnsweredTheme' <=> AnsweredTheme) /\ (QueuedTheme' <=> QueuedTheme)
    BY <1>0, <1>d, OthersStay DEF ViewsInv
  <2> QED
    BY <1>0, <1>d, <2>1 DEF SandAsked, SandAnswered, ThemeAsked
<1>2. ThemePending' <=> ThemePending
  BY <1>1 DEF ThemePending
<1>3. Pages!TypeOK'
  BY <1>0 DEF Pages!TypeOK
<1>4. TitlesInv'
  BY <1>0 DEF ViewsInv, TitlesInv
<1>5. QueuedInv'
  BY <1>0 DEF ViewsInv, QueuedInv
<1>6. BackInv'
  BY <1>0 DEF ViewsInv, BackInv, Reaches
<1>7. AskedOnceInv'
  BY <1>0, <1>1, <1>2 DEF ViewsInv, AskedOnceInv
<1>8. HeaderInv'
  <2> SUFFICES ASSUME ~late', Disables'
               PROVE  NoDiagnosis' /\ (ThemePending' => Awaited') /\ (~ThemePending' => Selecting')
    BY DEF HeaderInv
  <2>0. ~late /\ viewClicks = 0
    <3>1. ~late /\ ~(viewClicks > 0)
      BY <1>0, Zenon
    <3>2. viewClicks \in Nat
      BY <1>0 DEF Pages!TypeOK
    <3> QED
      BY <3>1, <3>2
  <2>1. Disables
    <3>1. CASE headerDisabled' /\ ~headerDisabled
      <4>1. ~b
        BY <1>0, <3>1
      <4>2. Pages!Answer("headerTheme", FALSE) \in answers
        BY <1>0, <1>a, <4>1
      <4> QED
        BY <2>0, <4>2 DEF Disables
    <3>2. CASE ~headerDisabled' \/ headerDisabled
      BY <1>0, <3>2 DEF Disables
    <3> QED
      BY <3>1, <3>2
  <2>2. NoDiagnosis'
    BY <1>0, <2>0, <2>1 DEF ViewsInv, HeaderInv, Awaited, NoDiagnosis
  <2>3. Selecting => Selecting'
    BY <1>0 DEF Selecting
  <2> QED
    BY <1>0, <1>2, <2>0, <2>1, <2>2, <2>3 DEF ViewsInv, HeaderInv, Awaited
<1> QED
  BY <1>3, <1>4, <1>5, <1>6, <1>7, <1>8 DEF ViewsInv

\* VpnController asks for the theme.
LEMMA SandboxedKeeps ==
  ASSUME ViewsInv, Pages!SandboxedArrives
  PROVE  ViewsInv'
<1> PICK a : a = Pages!Answer("sandboxed", FALSE)
  OBVIOUS
<1>0. /\ Pages!TypeOK /\ a \in answers /\ answers' = answers \ {a} /\ viewTimeouts' = viewTimeouts
      /\ asked' = asked \cup {"theme"} /\ late' = late /\ headerDisabled' = headerDisabled
      /\ currentView' = currentView /\ titled' = titled /\ titleTranslated' = titleTranslated
      /\ translated' = translated /\ back' = back
      /\ displayed' = displayed /\ showSettingsView' = showSettingsView /\ viewClicks' = viewClicks
  BY DEF ViewsInv, Pages!SandboxedArrives, Pages!Arrives, Pages!pageVars
<1>a. a # Pages!Answer("theme", TRUE) /\ a # Pages!Answer("theme", FALSE)
  BY AnswersMeant
<1>1. (AnsweredTheme' <=> AnsweredTheme) /\ (QueuedTheme' <=> QueuedTheme)
  BY <1>0, <1>a, OthersStay DEF ViewsInv
<1>2. SandAnswered /\ ~SandAsked /\ ~ThemeAsked /\ ~AnsweredTheme /\ ~QueuedTheme
  <2>1. SandAnswered
    BY <1>0 DEF SandAnswered
  <2> QED
    BY <2>1 DEF ViewsInv, AskedOnceInv
<1>b. ~SandAnswered' /\ ~SandAsked' /\ ThemeAsked' /\ ~AnsweredTheme' /\ ~QueuedTheme'
  <2>1. ~SandAnswered' /\ ~SandAsked' /\ ThemeAsked'
    BY <1>0, <1>2 DEF SandAnswered, SandAsked, ThemeAsked
  <2> QED
    BY <1>1, <1>2, <2>1
<1>c. ThemePending /\ ThemePending'
  BY <1>2, <1>b DEF ThemePending
<1>3. Pages!TypeOK'
  BY <1>0 DEF Pages!TypeOK, Pages!Questions
<1>4. TitlesInv'
  BY <1>0 DEF ViewsInv, TitlesInv
<1>5. QueuedInv'
  BY <1>0 DEF ViewsInv, QueuedInv
<1>6. BackInv'
  BY <1>0 DEF ViewsInv, BackInv, Reaches
<1>7. AskedOnceInv'
  <2>1. "displayed" \notin asked'
    BY <1>0, <1>c DEF ViewsInv, AskedOnceInv
  <2> QED
    BY <1>0, <1>b, <1>c, <2>1 DEF ViewsInv, AskedOnceInv
<1>8. HeaderInv'
  <2> SUFFICES ASSUME ~late, Disables' PROVE NoDiagnosis' /\ Awaited'
    BY <1>0, <1>c DEF HeaderInv
  <2>1. Disables
    BY <1>0 DEF Disables
  <2>2. NoDiagnosis'
    BY <1>0, <2>1 DEF ViewsInv, HeaderInv, Awaited, NoDiagnosis
  <2> QED
    BY <1>0, <1>c, <2>1, <2>2 DEF ViewsInv, HeaderInv, Awaited
<1> QED
  BY <1>3, <1>4, <1>5, <1>6, <1>7, <1>8 DEF ViewsInv

\* What a click does to a queue that was empty.
LEMMA Clicked ==
  ASSUME MaxViewClicks \in Nat, Pages!Acts, Pages!TypeOK
  PROVE  /\ Len(viewTimeouts) = 0 /\ viewClicks' = viewClicks + 1 /\ viewClicks' \in 0..MaxViewClicks /\ viewClicks' # 0 /\ viewClicks' > 0
         /\ \A x : viewTimeouts' = <<x>> => Len(viewTimeouts') = 1 /\ viewTimeouts'[1] = x
         /\ \A x \in Pages!Tasks : viewTimeouts' = <<x>> => viewTimeouts' \in Seq(Pages!Tasks)
<1>1. viewTimeouts = <<>> /\ viewClicks < MaxViewClicks /\ viewClicks' = viewClicks + 1
  BY DEF Pages!Acts
<1>2. viewClicks \in 0..MaxViewClicks
  BY DEF Pages!TypeOK
<1>3. viewClicks' \in 0..MaxViewClicks /\ viewClicks' # 0 /\ viewClicks' > 0
  BY <1>1, <1>2
<1>4. \A x : Len(<<x>>) = 1 /\ <<x>>[1] = x
  OBVIOUS
<1>5. \A x \in Pages!Tasks : <<x>> \in Seq(Pages!Tasks)
  OBVIOUS
<1>6. Len(viewTimeouts) = 0
  BY <1>1
<1> QED
  BY <1>1, <1>3, <1>4, <1>5, <1>6, Zenon

\* After a click one task is under way. What holds of the page is kept when the task is one that
\* the page may run, and when a page whose header is off and that shows the themes triggers none.
LEMMA ClickKeeps ==
  ASSUME ViewsInv, MaxViewClicks \in Nat, Pages!Acts, NEW x \in Pages!Tasks, viewTimeouts' = <<x>>,
         UNCHANGED <<Pages!pageVars, displayed, showSettingsView, answers, late>>,
         asked' = asked \/ asked' = asked \cup {"send"},
         \/ x.kind = "changeView" /\ x.view = "mainView"
         \/ x.kind = "changeView" /\ x.view = "trialView"
         \/ x.kind = "view" /\ x.view \in Pages!TitledViews /\ x.back \in Home
         \/ x.kind = "viewBack" /\ (~late => back \in Home),
         headerDisabled /\ ~late =>
           currentView # "themeSelectionView" /\ asked' = asked /\ (x.kind = "view" => x.view \notin Diagnosis)
  PROVE  ViewsInv'
<1>0. /\ Pages!TypeOK /\ currentView' = currentView /\ titled' = titled /\ titleTranslated' = titleTranslated
      /\ headerDisabled' = headerDisabled /\ translated' = translated /\ back' = back
      /\ displayed' = displayed /\ showSettingsView' = showSettingsView
      /\ answers' = answers /\ late' = late
  BY DEF ViewsInv, Pages!pageVars
<1>1. /\ Len(viewTimeouts) = 0 /\ viewClicks' \in 0..MaxViewClicks /\ viewClicks' # 0 /\ viewClicks' > 0
      /\ Len(viewTimeouts') = 1 /\ viewTimeouts'[1] = x /\ viewTimeouts' \in Seq(Pages!Tasks)
  BY <1>0, Clicked
<1>2. /\ asked' = asked \/ asked' = asked \cup {"send"}
      /\ "sandboxed" \in asked' <=> "sandboxed" \in asked
      /\ "theme" \in asked' <=> "theme" \in asked
      /\ "displayed" \in asked' <=> "displayed" \in asked
  OBVIOUS
<1>c. \A i \in 1..Len(viewTimeouts') : i = 1 /\ viewTimeouts'[i] = x
  BY <1>1
<1>k. x.kind \in {"changeView", "view", "viewBack"}
  OBVIOUS
<1>3. Pages!TypeOK'
  BY <1>0, <1>1, <1>2 DEF Pages!TypeOK, Pages!Questions
<1>4. TitlesInv'
  BY <1>0 DEF ViewsInv, TitlesInv
<1>5. QueuedInv'
  BY <1>0, <1>c DEF ViewsInv, QueuedInv
<1>6. BackInv'
  BY <1>0, <1>c DEF ViewsInv, BackInv, Reaches, Pages!Views, Pages!TitledViews
<1>7. /\ (AnsweredTheme' <=> AnsweredTheme) /\ ~QueuedTheme' /\ ~QueuedTheme
      /\ (SandAsked' <=> SandAsked) /\ (SandAnswered' <=> SandAnswered) /\ (ThemeAsked' <=> ThemeAsked)
  <2>1. ~QueuedTheme' /\ ~QueuedTheme
    BY <1>1, <1>c, <1>k DEF QueuedTheme
  <2> QED
    BY <1>0, <1>2, <2>1 DEF SandAsked, SandAnswered, ThemeAsked, AnsweredTheme
<1>8. ThemePending' <=> ThemePending
  BY <1>7 DEF ThemePending
<1>9. AskedOnceInv'
  <2>1. \A i \in 1..Len(viewTimeouts') :
            viewTimeouts'[i].kind = "changeView" => viewTimeouts'[i].view # "themeSelectionView"
    BY <1>c
  <2>2. \A i, j \in 1..Len(viewTimeouts') : i = j
    BY <1>c
  <2> QED
    BY <1>0, <1>2, <1>7, <1>8, <2>1, <2>2 DEF ViewsInv, AskedOnceInv
<1>10. HeaderInv'
  <2> SUFFICES ASSUME ~late, headerDisabled
               PROVE  NoDiagnosis' /\ (ThemePending' => Awaited') /\ (~ThemePending' => Selecting')
    <3>1. Disables' => headerDisabled
      BY <1>0, <1>1 DEF Disables
    <3> QED
      BY <1>0, <3>1 DEF HeaderInv
  <2>1. Disables /\ NoDiagnosis
    BY DEF ViewsInv, HeaderInv, Awaited, Disables
  <2>2. asked' = asked /\ currentView \notin Diagnosis
    BY <2>1 DEF NoDiagnosis
  <2>3. x.kind \in {"view", "changeView"} => x.view \notin Diagnosis
    BY <2>2 DEF Diagnosis
  <2>4. NoDiagnosis'
    BY <1>0, <1>c, <1>k, <2>1, <2>2, <2>3 DEF NoDiagnosis
  <2>5. ThemePending
    <3>1. ~Selecting
      BY <1>1 DEF Selecting
    <3> QED
      BY <2>1, <3>1 DEF ViewsInv, HeaderInv, Awaited
  <2>6. ~displayed /\ Pages!Answer("theme", TRUE) \notin answers
    BY <2>1, <2>5 DEF ViewsInv, HeaderInv, Awaited
  <2>7. \A i \in 1..Len(viewTimeouts') : viewTimeouts'[i].kind # "theme"
    BY <1>c, <1>k
  <2>8. Awaited'
    <3>1. displayed' = displayed /\ answers' = answers
      BY <1>0
    <3>2. ~displayed'
      BY <2>6, <3>1
    <3>3. Pages!Answer("theme", TRUE) \notin answers'
      BY <2>6, <3>1
    <3> QED
      BY <2>7, <3>2, <3>3 DEF Awaited
  <2> QED
    BY <1>8, <2>4, <2>5, <2>8
<1> QED
  BY <1>3, <1>4, <1>5, <1>6, <1>9, <1>10 DEF ViewsInv

\* The header's buttons lead to the settings and to the diagnosis.
LEMMA HeaderClickKeeps ==
  ASSUME ViewsInv, MaxViewClicks \in Nat, Pages!HeaderClicked
  PROVE  ViewsInv'
<1>1. PICK v \in {"settingsView", "startDiagnosticDataView"} : viewTimeouts' = <<Pages!View(v, "mainView")>>
  BY DEF Pages!HeaderClicked, Pages!Triggers
<1>2. PICK x \in Pages!Tasks : x = Pages!View(v, "mainView")
  BY TasksTyped DEF Pages!Views, Pages!TitledViews
<1>3. x.kind = "view" /\ x.view \in Pages!TitledViews /\ x.back \in Home
  BY <1>2, TaskParts DEF Pages!TitledViews, Home
<1>4. /\ Pages!Acts /\ viewTimeouts' = <<x>> /\ ~headerDisabled /\ asked' = asked
      /\ UNCHANGED <<Pages!pageVars, displayed, showSettingsView, answers, late>>
  BY <1>1, <1>2 DEF Pages!HeaderClicked, Pages!serviceVars
<1> QED
  BY <1>3, <1>4, ClickKeeps

\* So do the links of the views, which never leave the selection of the theme.
LEMMA LinkKeeps ==
  ASSUME ViewsInv, MaxViewClicks \in Nat, Pages!LinkClicked
  PROVE  ViewsInv'
<1>1. PICK x \in Pages!Links[currentView] : viewTimeouts' = <<x>>
  BY DEF Pages!LinkClicked, Pages!Triggers
<1>2. currentView \in Pages!Views
  BY DEF Pages!LinkClicked
<1>3. /\ x \in Pages!Tasks
      /\ \/ x.kind = "changeView" /\ x.view \in {"mainView", "trialView"}
         \/ x.kind = "view" /\ x.view \in Pages!TitledViews /\ x.back \in Home
      /\ currentView # "themeSelectionView"
      /\ x.kind = "view" => currentView \in Diagnosis \/ x.view \notin Diagnosis
  <2>1. CASE currentView = "mainView"
    <3>1. x = Pages!View("regionsView", "mainView") \/ x = Pages!ChangeView("trialView")
      BY <1>1, <1>2, <2>1 DEF Pages!Links
    <3> QED
      BY <2>1, <3>1, TasksTyped, TaskParts DEF Pages!Views, Pages!TitledViews, Home, Diagnosis
  <2>2. CASE currentView = "settingsView"
    <3>1. PICK w \in {"regionsView", "wifiView", "displaySettingsView"} : x = Pages!View(w, "settingsView")
      BY <1>1, <1>2, <2>2 DEF Pages!Links
    <3> QED
      BY <2>2, <3>1, TasksTyped, TaskParts DEF Pages!Views, Pages!TitledViews, Home, Diagnosis
  <2>3. CASE currentView = "startDiagnosticDataView"
    <3>1. x = Pages!View("collectDiagnosticDataView", "mainView")
      BY <1>1, <1>2, <2>3 DEF Pages!Links
    <3> QED
      BY <2>3, <3>1, TasksTyped, TaskParts DEF Pages!Views, Pages!TitledViews, Home, Diagnosis
  <2>4. CASE currentView = "collectDiagnosticDataView"
    <3>1. x = Pages!View("sentDiagnosticDataView", "mainView")
      BY <1>1, <1>2, <2>4 DEF Pages!Links
    <3> QED
      BY <2>4, <3>1, TasksTyped, TaskParts DEF Pages!Views, Pages!TitledViews, Home, Diagnosis
  <2>5. CASE currentView \in {"regionsView", "confirmSentDataView", "trialView"}
    <3>1. x = Pages!ChangeView("mainView")
      BY <1>1, <1>2, <2>5 DEF Pages!Links
    <3> QED
      BY <2>5, <3>1, TasksTyped, TaskParts DEF Pages!Views, Pages!TitledViews, Home, Diagnosis
  <2>6. CASE currentView \notin {"mainView", "settingsView", "startDiagnosticDataView", "collectDiagnosticDataView",
                                 "regionsView", "confirmSentDataView", "trialView"}
    <3>1. Pages!Links[currentView] = {}
      BY <1>2, <2>6 DEF Pages!Links
    <3> QED
      BY <1>1, <3>1
  <2> QED
    BY <2>1, <2>2, <2>3, <2>4, <2>5, <2>6
<1>4. Pages!Acts /\ UNCHANGED <<Pages!pageVars, displayed, showSettingsView, answers, late>> /\ asked' = asked
  BY DEF Pages!LinkClicked, Pages!serviceVars
<1>5. headerDisabled /\ ~late => currentView \notin Diagnosis
  BY DEF ViewsInv, HeaderInv, Awaited, Disables, NoDiagnosis
<1> QED
  BY <1>1, <1>3, <1>4, <1>5, ClickKeeps

\* The diagnostic data are sent from a view of the diagnosis.
LEMMA SendKeeps ==
  ASSUME ViewsInv, MaxViewClicks \in Nat, Pages!SendClicked
  PROVE  ViewsInv'
<1>1. PICK x \in Pages!Tasks : x = Pages!View("progressDiagnosticDataView", "mainView")
  BY TasksTyped DEF Pages!Views, Pages!TitledViews
<1>2. x.kind = "view" /\ x.view \in Pages!TitledViews /\ x.back \in Home
  BY <1>1, TaskParts DEF Pages!TitledViews, Home
<1>3. /\ Pages!Acts /\ viewTimeouts' = <<x>> /\ asked' = asked \cup {"send"}
      /\ UNCHANGED <<Pages!pageVars, displayed, showSettingsView, answers, late>>
  BY <1>1 DEF Pages!SendClicked, Pages!Triggers
<1>4. ~(headerDisabled /\ ~late)
  BY DEF Pages!SendClicked, ViewsInv, HeaderInv, Disables, NoDiagnosis, Diagnosis
<1> QED
  BY <1>2, <1>3, <1>4, ClickKeeps

\* The way back leads to the main view, or to where the view was opened.
LEMMA BackKeeps ==
  ASSUME ViewsInv, MaxViewClicks \in Nat, NoView \notin Pages!Views, Pages!BackClicked
  PROVE  ViewsInv'
<1>0. /\ Pages!Acts /\ currentView \in Pages!TitledViews /\ asked' = asked
      /\ UNCHANGED <<Pages!pageVars, displayed, showSettingsView, answers, late>>
  BY DEF Pages!BackClicked, Pages!serviceVars
<1>1. PICK x \in Pages!Tasks : x = IF Pages!isSettingsView THEN Pages!ChangeView("mainView") ELSE Pages!ViewBack
  BY TasksTyped DEF Pages!Views
<1>2. viewTimeouts' = <<x>>
  BY <1>1 DEF Pages!BackClicked, Pages!Triggers
<1>3. ~Pages!isSettingsView /\ ~late => back \in Home
  <2> SUFFICES ASSUME ~Pages!isSettingsView, ~late PROVE back \in Home
    OBVIOUS
  <2>1. titled = currentView /\ titled # NoView
    BY <1>0 DEF ViewsInv, TitlesInv, Pages!Views
  <2>2. titleTranslated = translated
    BY <2>1 DEF ViewsInv, TitlesInv
  <2>3. currentView # "settingsView"
    BY <2>1, <2>2 DEF Pages!isSettingsView
  <2> QED
    BY <1>0, <2>3 DEF ViewsInv, BackInv, Reaches
<1>4. \/ x.kind = "changeView" /\ x.view = "mainView"
      \/ x.kind = "viewBack" /\ (~late => back \in Home)
  BY <1>1, <1>3, TaskParts
<1>5. currentView # "themeSelectionView"
  BY <1>0 DEF Pages!TitledViews
<1> QED
  BY <1>0, <1>2, <1>4, <1>5, ClickKeeps

\* The selection of the theme ends: the main view is shown and the header switched on.
LEMMA GetStartedKeeps ==
  ASSUME ViewsInv, MaxViewClicks \in Nat, Pages!GetStarted
  PROVE  ViewsInv'
<1>1. PICK x \in Pages!Tasks, y \in Pages!Tasks :
        x = Pages!ChangeView("mainView") /\ x.kind = "changeView" /\ x.view = "mainView"
          /\ y = Pages!EnableHeader /\ y.kind = "enableHeader"
  BY TasksTyped, TaskParts DEF Pages!Views
<1>0. /\ Pages!TypeOK /\ currentView = "themeSelectionView" /\ asked' = asked \cup {"displayed"}
      /\ currentView' = currentView /\ titled' = titled /\ titleTranslated' = titleTranslated
      /\ headerDisabled' = headerDisabled /\ translated' = translated /\ back' = back
      /\ displayed' = displayed /\ showSettingsView' = showSettingsView
      /\ answers' = answers /\ late' = late
  BY DEF ViewsInv, Pages!GetStarted, Pages!pageVars
<1>2. Len(viewTimeouts) = 0 /\ viewClicks' \in 0..MaxViewClicks /\ viewClicks' # 0 /\ viewClicks' > 0
  <2>1. Pages!Acts
    BY DEF Pages!GetStarted
  <2> QED
    BY <1>0, <2>1, Clicked
<1>3. viewTimeouts' = <<x, y>>
  BY <1>1 DEF Pages!GetStarted, Pages!Triggers
<1>4. viewTimeouts' \in Seq(Pages!Tasks) /\ Len(viewTimeouts') = 2 /\ viewTimeouts'[1] = x /\ viewTimeouts'[2] = y
  BY <1>3
<1>c. \A i \in 1..Len(viewTimeouts') : viewTimeouts'[i] = x \/ viewTimeouts'[i] = y
  BY <1>4
<1>5. Pages!TypeOK'
  BY <1>0, <1>2, <1>4 DEF Pages!TypeOK, Pages!Questions
<1>6. TitlesInv'
  BY <1>0 DEF ViewsInv, TitlesInv
<1>7. QueuedInv'
  BY <1>0, <1>1, <1>2, <1>c DEF ViewsInv, QueuedInv
<1>8. BackInv'
  BY <1>0, <1>1, <1>c DEF ViewsInv, BackInv, Reaches, Pages!Views, Pages!TitledViews
<1>9. AskedOnceInv' /\ ~ThemePending'
  <2>1. ~ThemePending
    BY <1>0 DEF ViewsInv, AskedOnceInv
  <2>2. \A i \in 1..Len(viewTimeouts') : viewTimeouts'[i].kind # "theme"
    BY <1>1, <1>c
  <2>3. ~SandAsked' /\ ~SandAnswered' /\ ~ThemeAsked' /\ ~AnsweredTheme' /\ ~QueuedTheme'
    BY <1>0, <2>1, <2>2 DEF ThemePending, SandAsked, SandAnswered, ThemeAsked, AnsweredTheme, QueuedTheme
  <2>4. ~ThemePending'
    BY <2>3 DEF ThemePending
  <2>5. ~(Pages!Answer("theme", TRUE) \in answers' /\ Pages!Answer("theme", FALSE) \in answers')
    BY <1>0 DEF ViewsInv, AskedOnceInv
  <2> QED
    BY <2>2, <2>3, <2>4, <2>5 DEF AskedOnceInv
<1>10. HeaderInv'
  <2> SUFFICES ASSUME ~late, headerDisabled PROVE NoDiagnosis' /\ Selecting'
    <3>1. Disables' => headerDisabled
      BY <1>0, <1>2 DEF Disables
    <3> QED
      BY <1>0, <1>9, <3>1 DEF HeaderInv
  <2>1. NoDiagnosis
    BY DEF ViewsInv, HeaderInv, Disables
  <2>2. NoDiagnosis'
    BY <1>0, <1>1, <1>c, <2>1 DEF NoDiagnosis, Diagnosis
  <2>3. 2 \in 1..Len(viewTimeouts') /\ viewTimeouts'[2].kind = "enableHeader"
    BY <1>1, <1>4
  <2>4. Selecting'
    BY <2>3 DEF Selecting
  <2> QED
    BY <2>2, <2>4
<1> QED
  BY <1>5, <1>6, <1>7, <1>8, <1>9, <1>10 DEF ViewsInv

-----------------------------------------------------------------------------
(* The views: the invariant *)

\* The page starts with the invariant: what decides about the theme is still to come.
LEMMA ViewsInit == MaxViewClicks \in Nat /\ Pages!Init => ViewsInv
<1> SUFFICES ASSUME MaxViewClicks \in Nat, Pages!Init PROVE ViewsInv
  OBVIOUS
<1>0. /\ currentView = "mainView" /\ back = NoView /\ titled = NoView /\ titleTranslated = FALSE
      /\ translated = FALSE /\ headerDisabled = FALSE /\ displayed \in BOOLEAN /\ showSettingsView \in BOOLEAN
      /\ viewClicks = 0 /\ late = FALSE
  BY DEF Pages!Init
<1>1. viewTimeouts = <<>>
  BY DEF Pages!Init
<1>2. Len(viewTimeouts) = 0 /\ viewTimeouts \in Seq(Pages!Tasks)
  BY <1>1
<1>a. asked = {"sandboxed", "headerTheme"}
  BY DEF Pages!Init
<1>b. /\ asked \subseteq Pages!Questions /\ "sandboxed" \in asked /\ "theme" \notin asked
      /\ "displayed" \notin asked /\ "send" \notin asked
  BY <1>a DEF Pages!Questions
<1>c. answers = {Pages!Answer("language", TRUE), Pages!Answer("startSettings", showSettingsView)}
  BY DEF Pages!Init
<1>d. answers \subseteq Pages!Answers
  <2>1. Pages!Answer("language", TRUE) \in Pages!Answers
    BY AnswersDiffer
  <2>2. Pages!Answer("startSettings", showSettingsView) \in Pages!Answers
    BY <1>0, AnswersDiffer
  <2> QED
    BY <1>c, <2>1, <2>2
<1>e. ASSUME NEW a \in answers PROVE a.kind \in {"language", "startSettings"}
  <2>1. a = Pages!Answer("language", TRUE) \/ a = Pages!Answer("startSettings", showSettingsView)
    BY <1>c
  <2>2. Pages!Answer("language", TRUE).kind = "language"
    BY TaskParts, Zenon
  <2>3. Pages!Answer("startSettings", showSettingsView).kind = "startSettings"
    BY TaskParts, Zenon
  <2> QED
    BY <2>1, <2>2, <2>3
<1>f. ASSUME NEW k, NEW b, k \notin {"language", "startSettings"} PROVE Pages!Answer(k, b) \notin answers
  <2>1. Pages!Answer(k, b).kind = k
    BY TaskParts, Zenon
  <2>2. Pages!Answer(k, b) \in answers => Pages!Answer(k, b).kind \in {"language", "startSettings"}
    BY <1>e, Zenon
  <2> QED
    BY <1>f, <2>1, <2>2, Zenon
<1>g. /\ Pages!Answer("theme", TRUE) \notin answers
      /\ Pages!Answer("sandboxed", FALSE) \notin answers
      /\ Pages!Answer("headerTheme", FALSE) \notin answers
  <2>1. "theme" \notin {"language", "startSettings"} /\ "sandboxed" \notin {"language", "startSettings"}
        /\ "headerTheme" \notin {"language", "startSettings"}
    OBVIOUS
  <2> QED
    BY <1>f, <2>1, Zenon
<1>h. \A b \in BOOLEAN : Pages!Answer("theme", b) \notin answers /\ Pages!Answer("diagnosticStatus", b) \notin answers
  <2>1. "theme" \notin {"language", "startSettings"} /\ "diagnosticStatus" \notin {"language", "startSettings"}
    OBVIOUS
  <2> QED
    BY <1>f, <2>1, Zenon
<1>3. Pages!TypeOK
  <2>1. currentView \in Pages!Views
    BY <1>0 DEF Pages!Views
  <2>2. viewClicks \in 0..MaxViewClicks
    BY <1>0
  <2> QED
    BY <1>0, <1>2, <1>b, <1>d, <2>1, <2>2 DEF Pages!TypeOK
<1>4. TitlesInv
  BY <1>0 DEF TitlesInv, Pages!TitledViews
<1>5. QueuedInv
  BY <1>0, <1>2 DEF QueuedInv
<1>6. BackInv
  <2>1. Reaches(currentView)
    BY <1>0 DEF Reaches, Pages!Views, Pages!TitledViews
  <2> QED
    BY <1>2, <2>1 DEF BackInv
<1>7. SandAsked /\ ~SandAnswered /\ ~ThemeAsked /\ ~AnsweredTheme /\ ~QueuedTheme
  <2>1. SandAsked /\ ~ThemeAsked
    BY <1>b DEF SandAsked, ThemeAsked
  <2>2. ~SandAnswered
    BY <1>g DEF SandAnswered
  <2>3. ~AnsweredTheme
    BY <1>h DEF AnsweredTheme
  <2>4. ~QueuedTheme
    BY <1>2 DEF QueuedTheme
  <2> QED
    BY <2>1, <2>2, <2>3, <2>4
<1>8. ThemePending
  BY <1>7 DEF ThemePending
<1>9. AskedOnceInv
  <2>1. \A i, j \in 1..Len(viewTimeouts) : viewTimeouts[i].kind = "theme" /\ viewTimeouts[j].kind = "theme" => i = j
    BY <1>2
  <2>2. \A i \in 1..Len(viewTimeouts) :
            viewTimeouts[i].kind = "changeView" => viewTimeouts[i].view # "themeSelectionView"
    BY <1>2
  <2>3. currentView # "themeSelectionView"
    BY <1>0
  <2> QED
    BY <1>7, <1>b, <1>g, <2>1, <2>2, <2>3 DEF AskedOnceInv
<1>10. HeaderInv
  <2>1. NoDiagnosis
    <3>1. currentView \notin Diagnosis
      BY <1>0 DEF Diagnosis
    <3>2. \A b \in BOOLEAN : Pages!Answer("diagnosticStatus", b) \notin answers
      BY <1>h
    <3> QED
      BY <1>2, <1>b, <3>1, <3>2 DEF NoDiagnosis
  <2>2. Disables => ~displayed
    BY <1>0, <1>g DEF Disables
  <2>3. Disables => Awaited
    <3>1. \A i \in 1..Len(viewTimeouts) : viewTimeouts[i].kind = "theme" => ~viewTimeouts[i].value
      BY <1>2
    <3>2. Pages!Answer("theme", TRUE) \notin answers
      BY <1>g, Zenon
    <3> QED
      BY <2>2, <3>1, <3>2, Zenon DEF Awaited
  <2> QED
    BY <1>8, <2>1, <2>3 DEF HeaderInv
<1> QED
  BY <1>3, <1>4, <1>5, <1>6, <1>9, <1>10 DEF ViewsInv

\* Every step of the page, the service and the user keeps it.
LEMMA ViewsStep ==
  ASSUME MaxViewClicks \in Nat, NoView \notin Pages!Views, ViewsInv, Pages!Next
  PROVE  ViewsInv'
<1>1. ASSUME NEW r \in Pages!Questions, Pages!ServiceHandles(r) PROVE ViewsInv'
  BY <1>1, ServiceKeeps
<1>2. ASSUME NEW a \in Pages!Answers, Pages!Deliver(a) PROVE ViewsInv'
  BY <1>2, DeliverKeeps
<1>3. ASSUME Pages!RunTimeout PROVE ViewsInv'
  BY <1>3, LanguageKeeps, SandboxedKeeps, HeaderThemeKeeps, StartSettingsKeeps, ThemeKeeps, DiagnosticKeeps,
     ChangeViewKeeps, ViewKeeps, ViewBackKeeps, EnableHeaderKeeps DEF Pages!RunTimeout
<1>4. ASSUME Pages!HeaderClicked \/ Pages!LinkClicked \/ Pages!SendClicked \/ Pages!BackClicked \/ Pages!GetStarted
               PROVE  ViewsInv'
  BY <1>4, HeaderClickKeeps, LinkKeeps, SendKeeps, BackKeeps, GetStartedKeeps
<1> QED
  BY <1>1, <1>2, <1>3, <1>4 DEF Pages!Next

\* A step of somebody else does too.
LEMMA ViewsStutter == ViewsInv /\ UNCHANGED Pages!vars => ViewsInv'
<1> SUFFICES ASSUME ViewsInv, UNCHANGED Pages!vars PROVE ViewsInv'
  OBVIOUS
<1>1. /\ currentView' = currentView /\ titled' = titled /\ titleTranslated' = titleTranslated
      /\ headerDisabled' = headerDisabled /\ translated' = translated /\ back' = back
      /\ displayed' = displayed /\ showSettingsView' = showSettingsView /\ asked' = asked
      /\ answers' = answers /\ viewTimeouts' = viewTimeouts /\ viewClicks' = viewClicks /\ late' = late
  BY DEF Pages!vars, Pages!pageVars, Pages!serviceVars
<1>2. Pages!TypeOK' /\ TitlesInv' /\ QueuedInv' /\ BackInv'
  BY <1>1 DEF ViewsInv, Pages!TypeOK, TitlesInv, QueuedInv, BackInv, Reaches
<1>3. AskedOnceInv' /\ (ThemePending' <=> ThemePending)
  BY <1>1 DEF ViewsInv, AskedOnceInv, ThemePending, SandAsked, SandAnswered, ThemeAsked, AnsweredTheme, QueuedTheme
<1>4. /\ NoDiagnosis' <=> NoDiagnosis
      /\ Disables' <=> Disables
      /\ Awaited' <=> Awaited
      /\ Selecting' <=> Selecting
  BY <1>1 DEF NoDiagnosis, Disables, Awaited, Selecting
<1>5. HeaderInv'
  BY <1>1, <1>3, <1>4 DEF ViewsInv, HeaderInv
<1> QED
  BY <1>2, <1>3, <1>5 DEF ViewsInv

\* The invariant keeps the user from being stranded.
LEMMA ViewsLead == NoView \notin Pages!Views /\ ViewsInv => Pages!NeverStranded
<1> SUFFICES ASSUME NoView \notin Pages!Views, ViewsInv, Pages!Quiet, ~late
             PROVE  /\ currentView \in Pages!Views
                    /\ currentView \in Pages!TitledViews => Pages!LeadsBack
                    /\ currentView = "mainView" => ~headerDisabled
  BY DEF Pages!NeverStranded
<1>1. currentView \in Pages!Views /\ (currentView \in Pages!TitledViews \ {"settingsView"} => back \in Home)
  BY DEF ViewsInv, BackInv, Reaches
<1>2. currentView = "settingsView" => Pages!isSettingsView
  <2> SUFFICES ASSUME currentView = "settingsView" PROVE Pages!isSettingsView
    OBVIOUS
  <2>1. titled = "settingsView" /\ titled # NoView
    BY DEF ViewsInv, TitlesInv, Pages!TitledViews, Pages!Views
  <2> QED
    BY <2>1 DEF ViewsInv, TitlesInv, Pages!isSettingsView
<1>3. currentView \in Pages!TitledViews => Pages!LeadsBack
  BY <1>1, <1>2 DEF Pages!LeadsBack, Home
<1>4. currentView = "mainView" => ~headerDisabled
  <2> SUFFICES ASSUME headerDisabled PROVE currentView # "mainView"
    OBVIOUS
  <2>1. asked = {} /\ answers = {} /\ viewTimeouts = <<>> /\ Len(viewTimeouts) = 0
    BY DEF Pages!Quiet
  <2>2. ~ThemePending
    BY <2>1 DEF ThemePending, SandAsked, SandAnswered, ThemeAsked, AnsweredTheme, QueuedTheme
  <2>3. Selecting
    BY <2>2 DEF ViewsInv, HeaderInv, Disables
  <2> QED
    BY <2>1, <2>3 DEF Selecting
<1> QED
  BY <1>1, <1>3, <1>4

\* The invariant of the views.
LEMMA ViewsHold == Pages!Spec => []ViewsInv
<1>1. ViewsInv /\ [Pages!Next]_(Pages!vars) => ViewsInv'
  BY ViewsStep, ViewsStutter, WebUiAssumption
<1>2. Pages!Init => ViewsInv
  BY ViewsInit, WebUiAssumption
<1> QED
  BY <1>1, <1>2, PTL DEF Pages!Spec

-----------------------------------------------------------------------------
(* The whole user interface: what is proved of a part holds of a page that has it. *)

\* GuiConnection with its proofs, over the same variables as Gui.
GuiProof == INSTANCE GuiConnection_proofs
              WITH toService <- guiToService, toPage <- guiToPage, timeouts <- guiTimeouts

\* Both instances start alike ...
LEMMA GuiStarts == Gui!Init => GuiProof!Init
BY DEF Gui!Init, GuiProof!Init, Gui!Unknown, GuiProof!Unknown, Gui!ToService, GuiProof!ToService, Gui!FromService,
       GuiProof!FromService, Gui!Simple, GuiProof!Simple, Gui!ConnectTo, GuiProof!ConnectTo, Gui!Disconnect,
       GuiProof!Disconnect, Gui!InitialStatus, GuiProof!InitialStatus, Gui!StatusReply, GuiProof!StatusReply,
       Gui!StatusIs, GuiProof!StatusIs, Gui!Statuses, GuiProof!Statuses

\* ... have the same types ...
LEMMA GuiTypes == GuiProof!TypeOK => Gui!TypeOK
BY DEF Gui!TypeOK, GuiProof!TypeOK, Gui!Unknown, GuiProof!Unknown, Gui!Tasks, GuiProof!Tasks, Gui!StatusChanged,
       GuiProof!StatusChanged, Gui!RegionChanged, GuiProof!RegionChanged, Gui!NoCallback, GuiProof!NoCallback,
       Gui!ToService, GuiProof!ToService, Gui!FromService, GuiProof!FromService, Gui!Simple, GuiProof!Simple,
       Gui!ConnectTo, GuiProof!ConnectTo, Gui!Disconnect, GuiProof!Disconnect, Gui!InitialStatus,
       GuiProof!InitialStatus, Gui!StatusReply, GuiProof!StatusReply, Gui!StatusIs, GuiProof!StatusIs,
       Gui!Statuses, GuiProof!Statuses

\* ... and take the same steps.
LEMMA GuiSteps == Gui!Next => GuiProof!Next
BY DEF Gui!Next, GuiProof!Next, Gui!ConnectionChanges, GuiProof!ConnectionChanges, Gui!Moves, GuiProof!Moves,
       Gui!Becomes, GuiProof!Becomes, Gui!Disconnected, GuiProof!Disconnected, Gui!ServiceAnswers,
       GuiProof!ServiceAnswers, Gui!ServiceHandles, GuiProof!ServiceHandles, Gui!Replies, GuiProof!Replies,
       Gui!Ignores, GuiProof!Ignores, Gui!StartsSession, GuiProof!StartsSession, Gui!RefusesTraffic,
       GuiProof!RefusesTraffic, Gui!MessageArrives, GuiProof!MessageArrives, Gui!Deliver, GuiProof!Deliver,
       Gui!NewestAfter, GuiProof!NewestAfter, Gui!RunTimeout, GuiProof!RunTimeout, Gui!InitialStatusArrives,
       GuiProof!InitialStatusArrives, Gui!StatusReplyArrives, GuiProof!StatusReplyArrives, Gui!updateStatus,
       GuiProof!updateStatus, Gui!StatusArrives, GuiProof!StatusArrives, Gui!StatusChangedRuns,
       GuiProof!StatusChangedRuns, Gui!statusChanged, GuiProof!statusChanged, Gui!connectToRegion,
       GuiProof!connectToRegion, Gui!RegionChangedRuns, GuiProof!RegionChangedRuns, Gui!LimitReachedArrives,
       GuiProof!LimitReachedArrives, Gui!ShowLimit, GuiProof!ShowLimit, Gui!UserRegistered,
       GuiProof!UserRegistered, Gui!RemoveLimit, GuiProof!RemoveLimit, Gui!ToggleFromTray,
       GuiProof!ToggleFromTray, Gui!toggleConnect, GuiProof!toggleConnect, Gui!disconnect, GuiProof!disconnect,
       Gui!connectVpn, GuiProof!connectVpn, Gui!cancel, GuiProof!cancel, Gui!ResumeConnect,
       GuiProof!ResumeConnect, Gui!ButtonClicked, GuiProof!ButtonClicked, Gui!Acts, GuiProof!Acts,
       Gui!HostNotifies, GuiProof!HostNotifies, Gui!RegionSelectionClicked, GuiProof!RegionSelectionClicked,
       Gui!SameHost, GuiProof!SameHost, Gui!ClosureUnderWay, GuiProof!ClosureUnderWay, Gui!Due, GuiProof!Due,
       Gui!Task, GuiProof!Task, Gui!Rest, GuiProof!Rest, Gui!Schedules, GuiProof!Schedules, Gui!Sends,
       GuiProof!Sends, Gui!With, GuiProof!With, Gui!Without, GuiProof!Without, Gui!StatusChanged,
       GuiProof!StatusChanged, Gui!RegionChanged, GuiProof!RegionChanged, Gui!Unknown, GuiProof!Unknown,
       Gui!serviceVars, GuiProof!serviceVars, Gui!channelVars, GuiProof!channelVars, Gui!pageVars,
       GuiProof!pageVars, Gui!historyVars, GuiProof!historyVars, Gui!ToService, GuiProof!ToService,
       Gui!FromService, GuiProof!FromService, Gui!Simple, GuiProof!Simple, Gui!ConnectTo, GuiProof!ConnectTo,
       Gui!Disconnect, GuiProof!Disconnect, Gui!InitialStatus, GuiProof!InitialStatus, Gui!StatusReply,
       GuiProof!StatusReply, Gui!StatusIs, GuiProof!StatusIs, Gui!Statuses, GuiProof!Statuses

\* A step of the page is one of the part it has, and none of the others.
LEMMA StepsOfTheParts ==
  ASSUME [MCNext]_<<part, vars, guiVars, viewVars>>
  PROVE  [Next]_vars /\ [GuiProof!Next]_(GuiProof!vars) /\ [Pages!Next]_(Pages!vars)
<1>1. UNCHANGED guiVars => UNCHANGED GuiProof!vars
  BY DEF guiVars, GuiProof!vars, GuiProof!serviceVars, GuiProof!channelVars, GuiProof!pageVars, GuiProof!historyVars
<1>2. UNCHANGED viewVars => UNCHANGED Pages!vars
  BY DEF viewVars, Pages!vars, Pages!pageVars, Pages!serviceVars
<1>3. CASE part = "bus" /\ Next /\ UNCHANGED <<part, guiVars, viewVars>>
  BY <1>1, <1>2, <1>3
<1>4. CASE part = "connection" /\ Gui!Next /\ UNCHANGED <<part, vars, viewVars>>
  BY <1>2, <1>4, GuiSteps
<1>5. CASE part = "views" /\ Pages!Next /\ UNCHANGED <<part, vars, guiVars>>
  BY <1>1, <1>5
<1>6. CASE UNCHANGED <<part, vars, guiVars, viewVars>>
  BY <1>1, <1>2, <1>6
<1> QED
  BY <1>3, <1>4, <1>5, <1>6 DEF MCNext

\* Every behaviour of the page is one of each part.
LEMMA BehavioursOfTheParts == MCSpec => Spec /\ GuiProof!Spec /\ Pages!Spec
<1>1. MCInit => Init /\ GuiProof!Init /\ Pages!Init
  BY GuiStarts DEF MCInit
<1>2. [MCNext]_<<part, vars, guiVars, viewVars>> =>
        [Next]_vars /\ [GuiProof!Next]_(GuiProof!vars) /\ [Pages!Next]_(Pages!vars)
  BY StepsOfTheParts
<1> QED
  BY <1>1, <1>2, PTL DEF MCSpec, Spec, GuiProof!Spec, Pages!Spec

\* What GuiConnection's proofs assume of the constants.
LEMMA ConnectionSensible == GuiProof!Sensible
BY WebUiAssumption DEF GuiProof!Sensible, GuiProof!NoCallback, Gui!NoCallback

\* All variables of the page have their types, for any number of requests, regions,
\* clicks and failures (vpn-1.0.0.js: MessageBus, VpnService, VpnController and their directives).
THEOREM PageTypesHold == MCSpec => []TypesOK
<1>1. Inv => TypeOK
  BY DEF Inv
<1>2. ViewsInv => Pages!TypeOK
  BY DEF ViewsInv
<1>3. GuiProof!Spec => []GuiProof!TypeOK
  BY ConnectionSensible, GuiProof!TypeCorrect
<1>4. TypeOK /\ GuiProof!TypeOK /\ Pages!TypeOK => TypesOK
  BY GuiTypes DEF TypesOK
<1> QED
  BY <1>1, <1>2, <1>3, <1>4, InvHolds, ViewsHold, BehavioursOfTheParts, PTL

\* The parts of the connection page agree once nothing is under way (VpnService, the status
\* directive and the list of regions, each with a copy of its own).
THEOREM PageAgrees == MCSpec => []PartsAgree
<1>1. GuiProof!Spec => []GuiProof!PartsAgree
  BY ConnectionSensible, GuiProof!PartsOfThePageAgree
<1>2. GuiProof!PartsAgree => PartsAgree
  BY DEF PartsAgree, Gui!PartsAgree, GuiProof!PartsAgree, Gui!Empty, GuiProof!Empty
<1> QED
  BY <1>1, <1>2, BehavioursOfTheParts, PTL

\* The page does not connect between the user's stop and the next request for a connection
\* (VpnService.disconnect, cancel and statusChanged).
THEOREM PageStaysStopped == MCSpec => StoppedStaysStopped
<1>1. GuiProof!Spec => GuiProof!StoppedStaysStopped
  BY ConnectionSensible, GuiProof!StoppedPageStaysStopped
<1>2. [wish = "stop" /\ wish' = "stop"
         => \A r \in Regions : guiToService'[GuiProof!ConnectTo(r)] <= guiToService[GuiProof!ConnectTo(r)]]_(GuiProof!vars)
      => [wish = "stop" /\ wish' = "stop"
            => \A r \in Regions : guiToService'[Gui!ConnectTo(r)] <= guiToService[Gui!ConnectTo(r)]]_(Gui!vars)
  BY DEF Gui!ConnectTo, GuiProof!ConnectTo, Gui!vars, GuiProof!vars, Gui!serviceVars, GuiProof!serviceVars,
         Gui!channelVars, GuiProof!channelVars, Gui!pageVars, GuiProof!pageVars, Gui!historyVars, GuiProof!historyVars
<1>3. GuiProof!StoppedStaysStopped => Gui!StoppedStaysStopped
  BY <1>2, PTL DEF GuiProof!StoppedStaysStopped, Gui!StoppedStaysStopped
<1> QED
  BY <1>1, <1>3, BehavioursOfTheParts, PTL DEF StoppedStaysStopped

\* The page never strands the user: when all is quiet it shows a view, the back button of a
\* titled view leads to the main view, and on the main view the header works, for any number of
\* clicks (VpnController, the header, the settings and the theme selection directives).
THEOREM UsersFindBack == MCSpec => []NeverStranded
<1>1. ViewsInv => NeverStranded
  BY ViewsLead, WebUiAssumption DEF NeverStranded
<1> QED
  BY <1>1, ViewsHold, BehavioursOfTheParts, PTL
=============================================================================
