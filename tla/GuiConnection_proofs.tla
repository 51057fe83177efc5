-------------------------- MODULE GuiConnection_proofs -------------------------
(***************************************************************************)
(* The page stays disconnected once it has carried out what the user asked *)
(* for, and its parts agree once nothing is under way, for any number of   *)
(* regions, clicks and changes of the connection, in whichever order the   *)
(* messages arrive.                                                        *)
(*                                                                         *)
(* The only connection nobody asks for at the moment it is made is that of *)
(* disconnectCallback. So the first invariant is that no region is left in *)
(* it after a stop; the rest is which requests a step sends.               *)
(*                                                                         *)
(* That the parts agree needs an account of what is under way at every     *)
(* moment. The tasks of the page run in order: whenever two copies differ, *)
(* the last task of some kind will make them equal. The messages have no   *)
(* order: all that is known of them is whether the newest notification is  *)
(* among them, has become the last task of its kind, or was overtaken, and *)
(* that no message is about another status before the first notification.  *)
(***************************************************************************)
EXTENDS GuiConnection, SequenceTheorems, TLAPS

\* After a stop no switch to another region is pending.
NoSwitchPending == wish = "stop" => disconnectCallback \notin Regions

Inv == TypeOK /\ NoSwitchPending

\* A step sends no connection.
NoConnectSent == \A r \in Regions : toService'[ConnectTo(r)] <= toService[ConnectTo(r)]

\* The constants: a region has a name of its own, and the bounds are numbers.
Sensible == Regions \cap NoCallback = {} /\ MaxClicks \in Nat /\ MaxChanges \in Nat

-----------------------------------------------------------------------------
(* Messages and tasks.                                                     *)

\* A bag with one more message, and with one less.
LEMMA Bags ==
  ASSUME NEW S, NEW b \in [S -> Nat], NEW m \in S
  PROVE  /\ With(b, m) \in [S -> Nat] /\ With(b, m)[m] > 0
         /\ \A n \in S : n # m => With(b, m)[n] = b[n] /\ Without(b, m)[n] = b[n]
         /\ \A n \in S : With(b, m)[n] >= b[n]
         /\ b[m] > 0 => Without(b, m) \in [S -> Nat] /\ Without(b, m)[m] <= b[m]
<1>1. b[m] \in Nat /\ b[m] + 1 \in Nat /\ (b[m] > 0 => b[m] - 1 \in Nat) OBVIOUS
<1>2. With(b, m) = [b EXCEPT ![m] = b[m] + 1] /\ Without(b, m) = [b EXCEPT ![m] = b[m] - 1] BY DEF With, Without
<1> QED BY <1>1, <1>2

\* The kinds of the messages and tasks.
LEMMA Kinds ==
  /\ \A s : InitialStatus(s).kind = "initialStatus" /\ StatusIs(s).kind = "status"
            /\ StatusChanged(s).kind = "statusChanged"
  /\ \A r : RegionChanged(r).kind = "regionChanged" /\ ConnectTo(r).kind = "connect"
  /\ \A k : Simple(k).kind = k
  /\ StatusReply.kind = "statusReply" /\ Disconnect.kind = "disconnect"
  /\ \A m \in FromService : m.kind \in {"initialStatus", "statusReply", "status", "limitReached"}
  /\ \A m \in ToService : m.kind \in {"initialStatus", "statusReply", "connect", "disconnect"}
BY DEF InitialStatus, StatusIs, StatusChanged, RegionChanged, ConnectTo, Simple, StatusReply, Disconnect,
       FromService, ToService

\* What they carry.
LEMMA Contents ==
  /\ \A s : InitialStatus(s).status = s /\ StatusIs(s).status = s /\ StatusChanged(s).status = s
  /\ \A r : RegionChanged(r).region = r
BY DEF InitialStatus, StatusIs, StatusChanged, RegionChanged

\* What the requests, the messages and the tasks are made of.
LEMMA MessageTypes ==
  /\ Disconnect \in ToService /\ \A r \in Regions : ConnectTo(r) \in ToService
  /\ Simple("initialStatus") \in ToService /\ Simple("statusReply") \in ToService
  /\ \A s \in Statuses : StatusIs(s) \in FromService /\ InitialStatus(s) \in FromService
  /\ StatusReply \in FromService /\ Simple("limitReached") \in FromService
  /\ FromService \subseteq Tasks
  /\ \A s \in Statuses \cup {Unknown} : StatusChanged(s) \in Tasks
  /\ \A r \in Regions : RegionChanged(r) \in Tasks
  /\ \A k \in {"toggleConnect", "resume", "showLimit", "registered", "removeLimit"} : Simple(k) \in Tasks
BY DEF ToService, FromService, Tasks

\* A message of a kind is one of those that there are.
LEMMA MessagesOfAKind ==
  /\ \A m \in FromService :
       /\ m.kind = "status" => m = StatusIs(m.status) /\ m.status \in Statuses
       /\ m.kind = "initialStatus" => m = InitialStatus(m.status) /\ m.status \in Statuses
       /\ m.kind = "statusReply" => m = StatusReply
  /\ \A m \in ToService : m.kind = "statusReply" => m = Simple("statusReply")
<1>1. ASSUME NEW m \in FromService
      PROVE  /\ m.kind = "status" => m = StatusIs(m.status) /\ m.status \in Statuses
             /\ m.kind = "initialStatus" => m = InitialStatus(m.status) /\ m.status \in Statuses
             /\ m.kind = "statusReply" => m = StatusReply
  <2>1. \/ \E s \in Statuses : m = InitialStatus(s) \/ m = StatusIs(s)
        \/ m = StatusReply \/ m = Simple("limitReached")
    BY DEF FromService
  <2> QED BY <2>1, Kinds, Contents
<1>2. ASSUME NEW m \in ToService, m.kind = "statusReply" PROVE m = Simple("statusReply")
  <2>1. m = Disconnect \/ m = Simple("initialStatus") \/ m = Simple("statusReply") \/ \E r \in Regions : m = ConnectTo(r)
    BY DEF ToService
  <2> QED BY <1>2, <2>1, Kinds
<1> QED BY <1>1, <1>2

\* A task or none is scheduled behind the rest.
LEMMA TasksScheduled ==
  ASSUME NEW rest \in Seq(Tasks), NEW t \in Tasks
  PROVE  rest \o <<t>> \in Seq(Tasks) /\ rest \o <<>> \in Seq(Tasks) /\ Append(rest, t) \in Seq(Tasks)
<1>1. <<t>> \in Seq(Tasks) /\ <<>> \in Seq(Tasks) OBVIOUS
<1> QED BY <1>1, ConcatProperties, ConcatEmptySeq, AppendProperties

\* The task that is due, and what is left.
LEMMA TaskDue ==
  ASSUME TypeOK, NEW k, Due(k)
  PROVE  /\ Task \in Tasks /\ Task.kind = k /\ Rest \in Seq(Tasks)
         /\ k \in {"initialStatus", "status"} => Task.status \in Statuses
         /\ k = "statusChanged" => Task.status \in Statuses \cup {Unknown}
         /\ k = "regionChanged" => Task.region \in Regions
<1>1. timeouts \in Seq(Tasks) /\ timeouts # <<>> BY DEF TypeOK, Due
<1>2. Task \in Tasks /\ Rest \in Seq(Tasks) BY <1>1, HeadTailProperties DEF Task, Rest
<1>3. Task.kind = k BY DEF Due, Task
<1>4. /\ k \in {"initialStatus", "status"} => Task.status \in Statuses
      /\ k = "statusChanged" => Task.status \in Statuses \cup {Unknown}
      /\ k = "regionChanged" => Task.region \in Regions
  BY <1>2, <1>3 DEF Tasks, FromService, InitialStatus, StatusReply, StatusIs, StatusChanged, RegionChanged, Simple
<1> QED BY <1>2, <1>3, <1>4

\* The parts of the type invariant that most steps need.
LEMMA QueueTypes ==
  ASSUME TypeOK
  PROVE  /\ toService \in [ToService -> Nat] /\ toPage \in [FromService -> Nat] /\ timeouts \in Seq(Tasks)
         /\ status \in Statuses /\ newest \in {"none", "underway", "last", "overtaken"}
BY DEF TypeOK

-----------------------------------------------------------------------------
(* Steps that send no request and leave the plan of the page alone.        *)

\* What the service does to the messages when it answers or changes its status: it
\* publishes a new status, or it says nothing of it that is new.
Publishes ==
  \/ newest' = "underway" /\ toPage'[StatusIs(status')] > 0
  \/ /\ UNCHANGED <<status, newest>>
     /\ \A s \in Statuses : /\ toPage'[StatusIs(s)] = toPage[StatusIs(s)]
                            /\ s # status => toPage'[InitialStatus(s)] = toPage[InitialStatus(s)]

\* The status is a new one, or the same, and the messages are as they should be.
Answered ==
  /\ status' \in Statuses /\ toPage' \in [FromService -> Nat] /\ newest' \in {"none", "underway", "last", "overtaken"}
  /\ Publishes /\ toPage'[StatusReply] >= toPage[StatusReply]

LEMMA BecomesAnswers == ASSUME TypeOK, NEW s \in Statuses, Becomes(s) PROVE Answered
<1> PICK m \in FromService : m = StatusIs(s) BY MessageTypes
<1>1. status' = s /\ newest' = "underway" /\ toPage' = With(toPage, m) BY DEF Becomes
<1>2. /\ toPage' \in [FromService -> Nat] /\ toPage'[m] > 0
      /\ \A n \in FromService : toPage'[n] >= toPage[n]
  BY <1>1, QueueTypes, Bags
<1> QED BY <1>1, <1>2, MessageTypes DEF Answered, Publishes

LEMMA ReplyAnswers ==
  ASSUME TypeOK, NEW m \in FromService, Replies(m), m.kind # "status", m.kind = "initialStatus" => m = InitialStatus(status)
  PROVE  Answered /\ toPage'[m] > 0
<1>1. UNCHANGED <<status, newest>> /\ toPage' = With(toPage, m) BY DEF Replies
<1>2. /\ toPage' \in [FromService -> Nat] /\ toPage'[m] > 0
      /\ \A n \in FromService : n # m => toPage'[n] = toPage[n]
      /\ \A n \in FromService : toPage'[n] >= toPage[n]
  BY <1>1, QueueTypes, Bags
<1>3. ASSUME NEW s \in Statuses
      PROVE  /\ toPage'[StatusIs(s)] = toPage[StatusIs(s)]
             /\ s # status => toPage'[InitialStatus(s)] = toPage[InitialStatus(s)]
  <2>1. StatusIs(s) \in FromService /\ InitialStatus(s) \in FromService BY MessageTypes
  <2>2. StatusIs(s) # m BY Kinds
  <2>3. s # status => InitialStatus(s) # m BY Kinds, Contents
  <2> QED BY <1>2, <2>1, <2>2, <2>3
<1> QED BY <1>1, <1>2, <1>3, MessageTypes, QueueTypes DEF Answered, Publishes

LEMMA SilenceAnswers == ASSUME TypeOK, Ignores PROVE Answered
<1>1. UNCHANGED <<status, toPage, newest>> BY DEF Ignores
<1>2. toPage[StatusReply] \in Nat BY QueueTypes, MessageTypes
<1> QED BY <1>1, <1>2, QueueTypes DEF Answered, Publishes

LEMMA RefusalAnswers == ASSUME TypeOK, RefusesTraffic PROVE Answered
<1> PICK l \in FromService : l = Simple("limitReached") BY MessageTypes
<1>1. l.kind = "limitReached" BY Kinds
<1>2. CASE Replies(l) BY <1>1, <1>2, ReplyAnswers
<1>3. CASE /\ status' = "Disconnecting" /\ newest' = "underway"
           /\ toPage' = With(With(toPage, StatusIs("Disconnecting")), l)
  <2> PICK m \in FromService : m = StatusIs("Disconnecting") BY MessageTypes DEF Statuses
  <2> PICK b : b = With(toPage, m) OBVIOUS
  <2>1. /\ b \in [FromService -> Nat] /\ b[m] > 0
        /\ \A n \in FromService : b[n] >= toPage[n]
    BY QueueTypes, Bags
  <2>2. toPage' = With(b, l) BY <1>3
  <2>5. /\ With(b, l) \in [FromService -> Nat]
        /\ \A n \in FromService : With(b, l)[n] >= b[n]
    BY <2>1, Bags
  <2>3. \A n \in FromService : toPage[n] \in Nat /\ b[n] \in Nat /\ toPage'[n] \in Nat BY <2>1, <2>2, <2>5, QueueTypes
  <2>4. toPage'[m] > 0 /\ toPage'[StatusReply] >= toPage[StatusReply] BY <2>1, <2>2, <2>3, <2>5, MessageTypes
  <2> QED BY <1>3, <2>2, <2>4, <2>5 DEF Answered, Publishes, Statuses
<1> QED BY <1>2, <1>3, Zenon DEF RefusesTraffic

\* Every step of the service.
LEMMA ServiceStep ==
  ASSUME Sensible, TypeOK, ConnectionChanges \/ Disconnected \/ ServiceAnswers
  PROVE  /\ Answered /\ NoConnectSent /\ toService' \in [ToService -> Nat] /\ changes' \in 0..MaxChanges
         /\ UNCHANGED <<pageVars, clicks, wish, overwritten, misled>>
         /\ toService[Simple("statusReply")] > 0 => toService'[Simple("statusReply")] > 0 \/ toPage'[StatusReply] > 0
<1>0. \A n \in ToService : toService[n] \in Nat BY QueueTypes
<1>1. CASE ConnectionChanges
  <2>1. PICK s \in Moves(status) : Becomes(s) BY <1>1 DEF ConnectionChanges
  <2>2. /\ status \in {"Connecting", "Connected"} /\ changes < MaxChanges /\ changes' = changes + 1
        /\ UNCHANGED <<toService, pageVars, clicks, wish, overwritten, misled>>
    BY <1>1 DEF ConnectionChanges
  <2>3. s \in Statuses BY <2>1, <2>2 DEF Moves, Statuses
  <2>4. changes' \in 0..MaxChanges BY <2>2 DEF Sensible, TypeOK
  <2> QED BY <1>0, <2>1, <2>2, <2>3, <2>4, BecomesAnswers, MessageTypes, QueueTypes DEF NoConnectSent
<1>2. CASE Disconnected
  <2>1. Becomes("Disconnected") /\ UNCHANGED <<changes, toService, pageVars, clicks, wish, overwritten, misled>>
    BY <1>2 DEF Disconnected
  <2>2. "Disconnected" \in Statuses /\ changes \in 0..MaxChanges BY DEF Statuses, TypeOK
  <2> QED BY <1>0, <2>1, <2>2, BecomesAnswers, MessageTypes, QueueTypes DEF NoConnectSent
<1>3. ASSUME NEW m \in ToService, ServiceHandles(m)
      PROVE  /\ Answered /\ NoConnectSent /\ toService' \in [ToService -> Nat] /\ changes' \in 0..MaxChanges
             /\ UNCHANGED <<pageVars, clicks, wish, overwritten, misled>>
             /\ toService[Simple("statusReply")] > 0 => toService'[Simple("statusReply")] > 0 \/ toPage'[StatusReply] > 0
  <2>1. /\ toService[m] > 0 /\ toService' = Without(toService, m)
        /\ UNCHANGED <<changes, pageVars, clicks, wish, overwritten, misled>>
    BY <1>3 DEF ServiceHandles
  <2>a. toService \in [ToService -> Nat] BY QueueTypes
  <2>b. /\ Without(toService, m) \in [ToService -> Nat] /\ Without(toService, m)[m] <= toService[m]
        /\ \A n \in ToService : n # m => Without(toService, m)[n] = toService[n]
    BY <2>a, <2>1, Bags
  <2>2. /\ toService' \in [ToService -> Nat] /\ toService'[m] <= toService[m]
        /\ \A n \in ToService : n # m => toService'[n] = toService[n]
    BY <2>1, <2>b
  <2>3. NoConnectSent /\ changes' \in 0..MaxChanges
    <3>1. \A n \in ToService : toService'[n] <= toService[n] BY <1>0, <2>2
    <3> QED BY <2>1, <3>1, MessageTypes DEF NoConnectSent, TypeOK
  <2>4. \/ m.kind = "initialStatus" /\ Replies(InitialStatus(status))
        \/ m.kind = "statusReply" /\ Replies(StatusReply)
        \/ m.kind \in {"connect", "disconnect"} /\ (Becomes("Connecting") \/ Becomes("Disconnecting") \/ Ignores \/ RefusesTraffic)
    BY <1>3, Kinds DEF ServiceHandles, StartsSession
  <2>5. CASE m.kind = "initialStatus" /\ Replies(InitialStatus(status))
    <3> PICK n \in FromService : n = InitialStatus(status) BY QueueTypes, MessageTypes
    <3>1. Answered BY <2>5, ReplyAnswers, Kinds
    <3>2. m # Simple("statusReply") BY <2>5, Kinds
    <3> QED BY <2>1, <2>2, <2>3, <3>1, <3>2, MessageTypes
  <2>6. CASE m.kind = "statusReply" /\ Replies(StatusReply)
    <3>1. Answered /\ toPage'[StatusReply] > 0 BY <2>6, ReplyAnswers, Kinds, MessageTypes
    <3> QED BY <2>1, <2>2, <2>3, <3>1
  <2>7. CASE m.kind \in {"connect", "disconnect"} /\ (Becomes("Connecting") \/ Becomes("Disconnecting") \/ Ignores \/ RefusesTraffic)
    <3>1. Answered BY <2>7, BecomesAnswers, SilenceAnswers, RefusalAnswers DEF Statuses
    <3>2. m # Simple("statusReply") BY <2>7, Kinds
    <3> QED BY <2>1, <2>2, <2>3, <3>1, <3>2, MessageTypes
  <2> QED BY <2>4, <2>5, <2>6, <2>7
<1> QED BY <1>1, <1>2, <1>3 DEF ServiceAnswers

LEMMA ServiceKeepsInv ==
  ASSUME Sensible, Inv, ConnectionChanges \/ Disconnected \/ ServiceAnswers
  PROVE  Inv' /\ NoConnectSent
<1>1. TypeOK BY DEF Inv
<1>2. /\ Answered /\ NoConnectSent /\ toService' \in [ToService -> Nat] /\ changes' \in 0..MaxChanges
      /\ UNCHANGED <<pageVars, clicks, wish, overwritten, misled>>
  BY <1>1, ServiceStep
<1>3. TypeOK' BY <1>1, <1>2 DEF TypeOK, Answered, pageVars
<1>4. NoSwitchPending' BY <1>2 DEF Inv, NoSwitchPending, pageVars
<1> QED BY <1>2, <1>3, <1>4 DEF Inv

\* A message arrives.
LEMMA MessageStep ==
  ASSUME TypeOK, NEW m \in FromService, Deliver(m)
  PROVE  /\ toPage' \in [FromService -> Nat] /\ timeouts' = Append(timeouts, m) /\ timeouts' \in Seq(Tasks)
         /\ newest' = NewestAfter(m) /\ newest' \in {"none", "underway", "last", "overtaken"}
         /\ \A n \in FromService : (n # m => toPage'[n] = toPage[n]) /\ toPage'[n] <= toPage[n]
         /\ toPage[m] > 0
<1>1. /\ toPage[m] > 0 /\ toPage' = Without(toPage, m) /\ timeouts' = Append(timeouts, m) /\ newest' = NewestAfter(m)
  BY DEF Deliver
<1>2. \A n \in FromService : toPage[n] \in Nat BY QueueTypes
<1>3. /\ toPage' \in [FromService -> Nat] /\ toPage'[m] <= toPage[m]
      /\ \A n \in FromService : n # m => toPage'[n] = toPage[n]
  BY <1>1, QueueTypes, Bags
<1>4. timeouts' \in Seq(Tasks) BY <1>1, QueueTypes, MessageTypes, TasksScheduled
<1>5. newest' \in {"none", "underway", "last", "overtaken"} BY <1>1, QueueTypes DEF NewestAfter
<1> QED BY <1>1, <1>2, <1>3, <1>4, <1>5

\* A message arrives, or a task runs that only changes what the page shows.
LEMMA PageStep ==
  ASSUME Inv,
         \/ MessageArrives \/ InitialStatusArrives \/ StatusReplyArrives \/ StatusArrives \/ RegionChangedRuns
         \/ LimitReachedArrives \/ ShowLimit \/ UserRegistered \/ RemoveLimit
  PROVE  Inv' /\ NoConnectSent
<1>1. TypeOK /\ toService \in [ToService -> Nat] /\ toPage \in [FromService -> Nat] /\ timeouts \in Seq(Tasks)
      /\ newest \in {"none", "underway", "last", "overtaken"}
  BY QueueTypes DEF Inv
<1>2. UNCHANGED <<status, changes, toService, disconnectCallback, selected, clicks, wish, misled>>
  BY DEF MessageArrives, Deliver, InitialStatusArrives, StatusReplyArrives, StatusArrives, RegionChangedRuns,
         LimitReachedArrives, ShowLimit, UserRegistered, RemoveLimit, updateStatus, serviceVars, channelVars, historyVars
<1>3. NoSwitchPending' BY <1>2 DEF Inv, NoSwitchPending
<1>4. NoConnectSent
  <2>1. \A n \in ToService : toService[n] \in Nat BY <1>1
  <2> QED BY <1>2, <2>1, MessageTypes DEF NoConnectSent
<1>5. /\ toPage' \in [FromService -> Nat] /\ timeouts' \in Seq(Tasks)
      /\ vpnStatus' \in Statuses \cup {Unknown} /\ shown' \in Statuses \cup {Unknown}
      /\ region' \in Regions
      /\ disconnected' \in BOOLEAN /\ limitShown' \in BOOLEAN /\ limitListed' \in BOOLEAN
      /\ overwritten' \in BOOLEAN /\ newest' \in {"none", "underway", "last", "overtaken"}
  <2>1. CASE MessageArrives
    <3>1. PICK m \in FromService : Deliver(m) BY <2>1 DEF MessageArrives
    <3>2. UNCHANGED <<vpnStatus, shown, region, disconnected, limitShown, limitListed, overwritten>>
      BY <3>1 DEF Deliver
    <3>3. /\ toPage' \in [FromService -> Nat] /\ timeouts' \in Seq(Tasks)
          /\ newest' \in {"none", "underway", "last", "overtaken"}
      BY <1>1, <3>1, MessageStep
    <3> QED BY <1>1, <3>2, <3>3 DEF TypeOK
  <2>2. CASE InitialStatusArrives
    <3>1. /\ Due("initialStatus") /\ vpnStatus' = Task.status
          /\ timeouts' = Rest \o <<StatusChanged(Task.status)>>
          /\ UNCHANGED <<toPage, shown, region, disconnected, limitShown, limitListed, newest>>
      BY <2>2 DEF InitialStatusArrives, Schedules, channelVars, historyVars
    <3>2. Task.status \in Statuses /\ Rest \in Seq(Tasks) BY <1>1, <3>1, TaskDue
    <3>3. StatusChanged(Task.status) \in Tasks BY <3>2, MessageTypes
    <3>4. overwritten' \in BOOLEAN BY <2>2, Zenon DEF InitialStatusArrives
    <3> QED BY <1>1, <3>1, <3>2, <3>3, <3>4, TasksScheduled DEF TypeOK
  <2>3. CASE StatusReplyArrives
    <3>1. /\ Due("statusReply") /\ shown' = vpnStatus
          /\ timeouts' = Rest \o <<StatusChanged(vpnStatus)>>
          /\ UNCHANGED <<toPage, vpnStatus, region, disconnected, limitShown, limitListed, newest>>
      BY <2>3 DEF StatusReplyArrives, updateStatus, Schedules, channelVars, historyVars
    <3>2. overwritten' \in BOOLEAN BY <2>3, Zenon DEF StatusReplyArrives
    <3>3. vpnStatus \in Statuses \cup {Unknown} /\ Rest \in Seq(Tasks) BY <1>1, <3>1, TaskDue DEF TypeOK
    <3>4. StatusChanged(vpnStatus) \in Tasks BY <3>3, MessageTypes
    <3> QED BY <1>1, <3>1, <3>2, <3>3, <3>4, TasksScheduled DEF TypeOK
  <2>4. CASE StatusArrives
    <3>1. /\ Due("status") /\ shown' = Task.status
          /\ timeouts' = Rest \o <<StatusChanged(Task.status)>>
          /\ UNCHANGED <<toPage, vpnStatus, region, disconnected, limitShown, limitListed, newest>> /\ overwritten' = FALSE
      BY <2>4 DEF StatusArrives, updateStatus, Schedules, channelVars, historyVars
    <3>2. Task.status \in Statuses /\ Rest \in Seq(Tasks) BY <1>1, <3>1, TaskDue
    <3>3. StatusChanged(Task.status) \in Tasks BY <3>2, MessageTypes
    <3> QED BY <1>1, <3>1, <3>2, <3>3, TasksScheduled DEF TypeOK
  <2>5. CASE RegionChangedRuns
    <3>1. /\ Due("regionChanged") /\ region' = Task.region /\ timeouts' = Rest \o <<>>
          /\ UNCHANGED <<toPage, vpnStatus, shown, disconnected, limitShown, limitListed, overwritten, newest>>
      BY <2>5 DEF RegionChangedRuns, Schedules, channelVars, historyVars
    <3>2. Task.region \in Regions /\ Rest \in Seq(Tasks) BY <1>1, <3>1, TaskDue
    <3> QED BY <1>1, <3>1, <3>2, ConcatEmptySeq DEF TypeOK
  <2>6. CASE LimitReachedArrives
    <3>1. /\ Due("limitReached") /\ timeouts' = Rest \o <<Simple("showLimit")>>
          /\ UNCHANGED <<toPage, vpnStatus, shown, region, disconnected, limitShown, limitListed, overwritten, newest>>
      BY <2>6 DEF LimitReachedArrives, Schedules, channelVars, historyVars
    <3>2. Rest \in Seq(Tasks) BY <1>1, <3>1, TaskDue
    <3> QED BY <1>1, <3>1, <3>2, MessageTypes, TasksScheduled DEF TypeOK
  <2>7. CASE ShowLimit
    <3>1. /\ Due("showLimit") /\ timeouts' = Rest \o <<>>
          /\ UNCHANGED <<toPage, vpnStatus, shown, region, disconnected, overwritten, newest>>
      BY <2>7 DEF ShowLimit, Schedules, channelVars, historyVars
    <3>2. Rest \in Seq(Tasks) BY <1>1, <3>1, TaskDue
    <3>3. limitShown' \in BOOLEAN /\ limitListed' \in BOOLEAN BY <2>7, Zenon DEF ShowLimit
    <3> QED BY <1>1, <3>1, <3>2, <3>3, ConcatEmptySeq DEF TypeOK
  <2>8. CASE UserRegistered
    <3>1. /\ Due("registered") /\ timeouts' \in {Rest \o <<Simple("removeLimit")>>, Rest \o <<>>}
          /\ UNCHANGED <<toPage, vpnStatus, shown, region, disconnected, limitListed, overwritten, newest>>
      BY <2>8 DEF UserRegistered, Schedules, channelVars, historyVars
    <3>2. Rest \in Seq(Tasks) BY <1>1, <3>1, TaskDue
    <3>3. limitShown' \in BOOLEAN BY <2>8, Zenon DEF UserRegistered
    <3>4. timeouts' \in Seq(Tasks) BY <3>1, <3>2, MessageTypes, TasksScheduled
    <3> QED BY <1>1, <3>1, <3>3, <3>4 DEF TypeOK
  <2>9. CASE RemoveLimit
    <3>1. /\ Due("removeLimit") /\ timeouts' = Rest \o <<>>
          /\ UNCHANGED <<toPage, vpnStatus, shown, region, disconnected, limitShown, overwritten, newest>>
      BY <2>9 DEF RemoveLimit, Schedules, channelVars, historyVars
    <3>2. Rest \in Seq(Tasks) BY <1>1, <3>1, TaskDue
    <3>3. limitListed' \in BOOLEAN BY <2>9, Zenon DEF RemoveLimit
    <3> QED BY <1>1, <3>1, <3>2, <3>3, ConcatEmptySeq DEF TypeOK
  <2> QED BY <2>1, <2>2, <2>3, <2>4, <2>5, <2>6, <2>7, <2>8, <2>9
<1>6. TypeOK' BY <1>1, <1>2, <1>5 DEF TypeOK
<1> QED BY <1>3, <1>4, <1>6 DEF Inv

-----------------------------------------------------------------------------
(* Steps that may send a request.                                          *)

\* One more request is sent.
LEMMA Sent ==
  ASSUME TypeOK, NEW m \in ToService, Sends(m)
  PROVE  toService' \in [ToService -> Nat] /\ (m.kind # "connect" => NoConnectSent)
<1>1. toService \in [ToService -> Nat] /\ toService' = With(toService, m) BY QueueTypes DEF Sends
<1>2. /\ With(toService, m) \in [ToService -> Nat]
      /\ \A n \in ToService : n # m => With(toService, m)[n] = toService[n]
  BY <1>1, Bags
<1>3. m.kind # "connect" => \A r \in Regions : ConnectTo(r) # m BY Kinds
<1>4. \A n \in ToService : toService[n] \in Nat BY <1>1
<1> QED BY <1>1, <1>2, <1>3, <1>4, MessageTypes DEF NoConnectSent

LEMMA NotSent == ASSUME TypeOK, toService' = toService PROVE NoConnectSent
<1>1. \A n \in ToService : toService[n] \in Nat BY QueueTypes
<1> QED BY <1>1, MessageTypes DEF NoConnectSent

\* connectToRegion sends its region unless the traffic limit is reached.
LEMMA RegionConnected ==
  ASSUME TypeOK, NEW r \in Regions, NEW rest \in Seq(Tasks), connectToRegion(r, rest)
  PROVE  selected' = r /\ timeouts' \in Seq(Tasks) /\ toService' \in [ToService -> Nat]
<1>1. /\ selected' = r /\ timeouts' = rest \o <<RegionChanged(r)>>
      /\ toService' = toService \/ Sends(ConnectTo(r))
  BY DEF connectToRegion, Schedules
<1>2. RegionChanged(r) \in Tasks BY MessageTypes
<1>3. toService' \in [ToService -> Nat]
  <2>1. ConnectTo(r) \in ToService BY MessageTypes
  <2>2. Sends(ConnectTo(r)) => toService' \in [ToService -> Nat] BY <2>1, Sent
  <2> QED BY <1>1, <2>2, QueueTypes
<1> QED BY <1>1, <1>2, <1>3, TasksScheduled

\* VPN_STATUS_CHANGED: a switch that is pending connects, but none is after a stop.
LEMMA StatusChangedStep ==
  ASSUME Sensible, Inv, StatusChangedRuns
  PROVE  Inv' /\ (wish = "stop" => NoConnectSent)
<1>1. TypeOK /\ NoSwitchPending BY DEF Inv
<1>2. /\ Due("statusChanged")
      /\ statusChanged(Task.status, Rest)
      /\ disconnected' = (Task.status = "Disconnected")
      /\ UNCHANGED <<status, changes, toPage, shown, region, limitShown, limitListed, clicks, wish,
                     overwritten, newest, misled>>
  BY DEF StatusChangedRuns, serviceVars, historyVars
<1>3. Task.status \in Statuses \cup {Unknown} /\ Rest \in Seq(Tasks) BY <1>1, <1>2, TaskDue
<1>4. disconnected' \in BOOLEAN BY <1>2, Zenon
<1>5. vpnStatus' = Task.status BY <1>2 DEF statusChanged
<1>6. CASE disconnectCallback \in Regions /\ disconnectCallback' = "null"
            /\ connectToRegion(disconnectCallback, Rest)
  <2>1. selected' = disconnectCallback /\ timeouts' \in Seq(Tasks) /\ toService' \in [ToService -> Nat]
    BY <1>1, <1>3, <1>6, RegionConnected
  <2>2. wish # "stop" BY <1>1, <1>6 DEF NoSwitchPending
  <2>3. NoSwitchPending' BY <1>2, <2>2 DEF NoSwitchPending
  <2>4. TypeOK' BY <1>1, <1>2, <1>3, <1>4, <1>5, <1>6, <2>1 DEF TypeOK, NoCallback
  <2> QED BY <2>2, <2>3, <2>4 DEF Inv
<1>7. CASE disconnectCallback' \in {"null", disconnectCallback} /\ timeouts' = Rest \o <<>>
            /\ UNCHANGED <<selected, toService>>
  <2>1. timeouts' \in Seq(Tasks) BY <1>3, <1>7, ConcatEmptySeq
  <2>2. "null" \notin Regions BY DEF Sensible, NoCallback
  <2>3. NoSwitchPending' BY <1>1, <1>2, <1>7, <2>2 DEF NoSwitchPending
  <2>4. disconnectCallback' \in Regions \cup NoCallback BY <1>1, <1>7 DEF TypeOK, NoCallback
  <2>5. TypeOK' BY <1>1, <1>2, <1>3, <1>4, <1>5, <1>7, <2>1, <2>4 DEF TypeOK
  <2>6. NoConnectSent BY <1>1, <1>7, NotSent
  <2> QED BY <2>3, <2>5, <2>6 DEF Inv
<1>8. \/ disconnectCallback \in Regions /\ disconnectCallback' = "null"
           /\ connectToRegion(disconnectCallback, Rest)
      \/ disconnectCallback' \in {"null", disconnectCallback} /\ timeouts' = Rest \o <<>>
           /\ UNCHANGED <<selected, toService>>
  BY <1>2 DEF statusChanged, Schedules
<1> QED BY <1>6, <1>7, <1>8

\* toggleConnect: it disconnects, and leaves no switch behind, or it connects and then
\* the user wants to.
LEMMA Toggled ==
  ASSUME Sensible, Inv, toggleConnect
  PROVE  /\ toService' \in [ToService -> Nat] /\ wish' \in {"stop", "go"}
         /\ disconnectCallback' \in Regions \cup NoCallback /\ NoSwitchPending'
         /\ wish = "stop" /\ wish' = "stop" => NoConnectSent
<1>1. TypeOK /\ NoSwitchPending BY DEF Inv
<1>2. region \in Regions /\ wish \in {"stop", "go"} /\ disconnectCallback \in Regions \cup NoCallback
  BY <1>1 DEF TypeOK
<1>3. ConnectTo(region) \in ToService /\ Disconnect \in ToService BY <1>2, MessageTypes
<1>4. NoCallback \cap Regions = {} /\ "nothing" \in NoCallback /\ "null" \in NoCallback
  BY DEF Sensible, NoCallback
<1>5. CASE disconnectCallback' \in {"nothing", "null"} /\ Sends(Disconnect) /\ wish' = "stop"
  <2>1. toService' \in [ToService -> Nat] /\ NoConnectSent BY <1>1, <1>3, <1>5, Sent, Kinds
  <2> QED BY <1>4, <1>5, <2>1 DEF NoSwitchPending
<1>6. CASE Sends(ConnectTo(region)) /\ wish' = "go" /\ UNCHANGED disconnectCallback
  <2>1. toService' \in [ToService -> Nat] BY <1>1, <1>3, <1>6, Sent
  <2> QED BY <1>2, <1>6, <2>1 DEF NoSwitchPending
<1>7. CASE UNCHANGED <<toService, disconnectCallback, wish>>
  <2>1. NoConnectSent BY <1>1, <1>7, NotSent
  <2> QED BY <1>1, <1>2, <1>7, <2>1, QueueTypes DEF NoSwitchPending
<1> QED BY <1>5, <1>6, <1>7 DEF toggleConnect, disconnect, connectVpn, cancel

\* A choice in the list: of a region with the same host, of one to switch to, or of one
\* to connect to.
LEMMA RegionClicked ==
  ASSUME Sensible, Inv, NEW r \in Regions, RegionSelectionClicked(r)
  PROVE  Inv' /\ (wish = "stop" /\ wish' = "stop" => NoConnectSent)
<1>1. TypeOK /\ timeouts \in Seq(Tasks) /\ NoSwitchPending BY QueueTypes DEF Inv
<1>2. Acts => clicks' \in 0..MaxClicks BY <1>1 DEF Acts, TypeOK, Sensible
<1>3. /\ Acts
      /\ UNCHANGED <<status, changes, toPage, vpnStatus, shown, region, disconnected,
                     limitShown, limitListed, overwritten, newest>>
  BY DEF RegionSelectionClicked, serviceVars
<1>4. misled' \in BOOLEAN
  <2>1. misled \in BOOLEAN BY <1>1 DEF TypeOK
  <2>2. misled' = misled \/ misled' = (status = "Disconnected" /\ ~ClosureUnderWay)
    BY Zenon DEF RegionSelectionClicked, SameHost
  <2> QED BY <2>1, <2>2, Zenon
<1>5. CASE SameHost(r)
  <2>1. /\ selected' = r /\ UNCHANGED <<toService, disconnectCallback, wish>>
        /\ timeouts' \in {timeouts \o <<>>, timeouts \o <<RegionChanged(r)>>}
    BY <1>5 DEF SameHost, Schedules
  <2>2. RegionChanged(r) \in Tasks BY MessageTypes
  <2>3. timeouts' \in Seq(Tasks) BY <1>1, <2>1, <2>2, TasksScheduled
  <2>4. TypeOK' BY <1>1, <1>2, <1>3, <1>4, <2>1, <2>3 DEF TypeOK
  <2>5. NoSwitchPending' BY <1>1, <2>1 DEF NoSwitchPending
  <2>6. NoConnectSent BY <1>1, <2>1, NotSent
  <2> QED BY <2>4, <2>5, <2>6 DEF Inv
<1>6. CASE wish' = "go" /\ connectToRegion(r, timeouts) /\ UNCHANGED disconnectCallback
  <2>1. selected' = r /\ timeouts' \in Seq(Tasks) /\ toService' \in [ToService -> Nat]
    BY <1>1, <1>6, RegionConnected
  <2>2. TypeOK' BY <1>1, <1>2, <1>3, <1>4, <1>6, <2>1 DEF TypeOK
  <2> QED BY <1>6, <2>2 DEF Inv, NoSwitchPending
<1>7. CASE wish' = "go" /\ disconnect(r) /\ UNCHANGED <<timeouts, selected>>
  <2>1. disconnectCallback' = r /\ Sends(Disconnect) BY <1>7 DEF disconnect
  <2>2. toService' \in [ToService -> Nat] BY <1>1, <2>1, MessageTypes, Sent
  <2>3. TypeOK' BY <1>1, <1>2, <1>3, <1>4, <1>7, <2>1, <2>2 DEF TypeOK
  <2> QED BY <1>7, <2>3 DEF Inv, NoSwitchPending
<1> QED BY <1>5, <1>6, <1>7 DEF RegionSelectionClicked

\* The user and the host.
LEMMA UserStep ==
  ASSUME Sensible, Inv,
         ButtonClicked \/ HostNotifies \/ ToggleFromTray \/ ResumeConnect
           \/ \E r \in Regions : RegionSelectionClicked(r)
  PROVE  Inv' /\ (wish = "stop" /\ wish' = "stop" => NoConnectSent)
<1>1. TypeOK /\ timeouts \in Seq(Tasks) /\ NoSwitchPending BY QueueTypes DEF Inv
<1>2. Acts => clicks' \in 0..MaxClicks BY <1>1 DEF Acts, TypeOK, Sensible
<1>3. CASE ButtonClicked
  <2>1. /\ toggleConnect /\ Acts
        /\ UNCHANGED <<status, changes, toPage, timeouts, vpnStatus, shown, region, disconnected,
                       selected, limitShown, limitListed, overwritten, newest, misled>>
    BY <1>3 DEF ButtonClicked, serviceVars
  <2>2. /\ toService' \in [ToService -> Nat] /\ wish' \in {"stop", "go"}
        /\ disconnectCallback' \in Regions \cup NoCallback /\ NoSwitchPending'
        /\ wish = "stop" /\ wish' = "stop" => NoConnectSent
    BY <2>1, Toggled
  <2>3. TypeOK' BY <1>1, <1>2, <2>1, <2>2 DEF TypeOK
  <2> QED BY <2>2, <2>3 DEF Inv
<1>4. CASE HostNotifies
  <2>1. /\ Acts
        /\ \E k \in {"toggleConnect", "resume", "registered"} : timeouts' = Append(timeouts, Simple(k))
        /\ UNCHANGED <<status, changes, toService, toPage, vpnStatus, disconnectCallback, shown, region,
                       disconnected, selected, limitShown, limitListed, wish, overwritten, newest, misled>>
    BY <1>4 DEF HostNotifies, serviceVars, channelVars, historyVars
  <2>2. timeouts' \in Seq(Tasks) BY <1>1, <2>1, MessageTypes, TasksScheduled
  <2>3. TypeOK' BY <1>1, <1>2, <2>1, <2>2 DEF TypeOK
  <2>4. NoSwitchPending' BY <1>1, <2>1 DEF NoSwitchPending
  <2>5. NoConnectSent BY <1>1, <2>1, NotSent
  <2> QED BY <2>3, <2>4, <2>5 DEF Inv
<1>5. CASE ToggleFromTray
  <2>1. /\ toggleConnect /\ Due("toggleConnect") /\ timeouts' = Rest \o <<>>
        /\ UNCHANGED <<status, changes, toPage, vpnStatus, shown, region, disconnected,
                       selected, limitShown, limitListed, clicks, overwritten, newest, misled>>
    BY <1>5 DEF ToggleFromTray, Schedules, serviceVars
  <2>2. /\ toService' \in [ToService -> Nat] /\ wish' \in {"stop", "go"}
        /\ disconnectCallback' \in Regions \cup NoCallback /\ NoSwitchPending'
        /\ wish = "stop" /\ wish' = "stop" => NoConnectSent
    BY <2>1, Toggled
  <2>3. Rest \in Seq(Tasks) BY <1>1, <2>1, TaskDue
  <2>4. timeouts' \in Seq(Tasks) BY <2>1, <2>3, ConcatEmptySeq
  <2>5. TypeOK' BY <1>1, <2>1, <2>2, <2>4 DEF TypeOK
  <2> QED BY <2>2, <2>5 DEF Inv
<1>6. CASE ResumeConnect
  <2>1. /\ Due("resume") /\ timeouts' = Rest \o <<>>
        /\ Sends(ConnectTo(region)) /\ wish' = "go" /\ UNCHANGED disconnectCallback
        /\ UNCHANGED <<status, changes, toPage, vpnStatus, shown, region, disconnected,
                       selected, limitShown, limitListed, clicks, overwritten, newest, misled>>
    BY <1>6 DEF ResumeConnect, connectVpn, Schedules, serviceVars
  <2>2. ConnectTo(region) \in ToService BY <1>1, MessageTypes DEF TypeOK
  <2>3. toService' \in [ToService -> Nat] BY <1>1, <2>1, <2>2, Sent
  <2>4. Rest \in Seq(Tasks) BY <1>1, <2>1, TaskDue
  <2>5. timeouts' \in Seq(Tasks) BY <2>1, <2>4, ConcatEmptySeq
  <2>6. TypeOK' BY <1>1, <2>1, <2>3, <2>5 DEF TypeOK
  <2>7. NoSwitchPending' BY <2>1 DEF NoSwitchPending
  <2> QED BY <2>1, <2>6, <2>7 DEF Inv
<1> QED BY <1>3, <1>4, <1>5, <1>6, RegionClicked

-----------------------------------------------------------------------------
LEMMA InitInv == Sensible /\ Init => Inv
<1> SUFFICES ASSUME Sensible, Init PROVE Inv OBVIOUS
<1>1. toService \in [ToService -> Nat] /\ toPage \in [FromService -> Nat] /\ timeouts \in Seq(Tasks)
  BY EmptySeq DEF Init
<1>2. /\ disconnectCallback \in NoCallback /\ wish \in {"stop", "go"}
  BY DEF Init, NoCallback
<1>3. status \in Statuses /\ vpnStatus \in Statuses \cup {Unknown} /\ shown \in Statuses \cup {Unknown}
  BY DEF Init, Statuses
<1>4. changes \in 0..MaxChanges /\ clicks \in 0..MaxClicks BY DEF Init, Sensible
<1>5. disconnectCallback \in Regions \cup NoCallback /\ region \in Regions /\ selected \in Regions
  BY <1>2 DEF Init
<1>6. /\ disconnected \in BOOLEAN /\ limitShown \in BOOLEAN /\ limitListed \in BOOLEAN
      /\ overwritten \in BOOLEAN /\ misled \in BOOLEAN /\ newest \in {"none", "underway", "last", "overtaken"}
  BY DEF Init
<1>7. TypeOK BY <1>1, <1>2, <1>3, <1>4, <1>5, <1>6 DEF TypeOK
<1> QED BY <1>2, <1>7 DEF Inv, NoSwitchPending, Sensible

\* What every step does.
LEMMA StepOfThePage ==
  ASSUME Sensible, Inv, [Next]_vars
  PROVE  Inv' /\ (wish = "stop" /\ wish' = "stop" => NoConnectSent)
<1>1. CASE ConnectionChanges \/ Disconnected \/ ServiceAnswers BY <1>1, ServiceKeepsInv
<1>2. CASE \/ MessageArrives \/ InitialStatusArrives \/ StatusReplyArrives \/ StatusArrives \/ RegionChangedRuns
           \/ LimitReachedArrives \/ ShowLimit \/ UserRegistered \/ RemoveLimit
  BY <1>2, PageStep
<1>3. CASE StatusChangedRuns BY <1>3, StatusChangedStep
<1>4. CASE ButtonClicked \/ HostNotifies \/ ToggleFromTray \/ ResumeConnect
            \/ \E r \in Regions : RegionSelectionClicked(r)
  BY <1>4, UserStep
<1>5. CASE UNCHANGED vars
  <2>1. UNCHANGED <<status, changes, toService, toPage, timeouts, vpnStatus, disconnectCallback, shown, region,
                    disconnected, selected, limitShown, limitListed, clicks, wish, overwritten, newest, misled>>
    BY <1>5 DEF vars, serviceVars, channelVars, pageVars, historyVars
  <2>2. TypeOK' /\ NoSwitchPending' BY <2>1 DEF Inv, TypeOK, NoSwitchPending
  <2>3. NoConnectSent BY <2>1, NotSent DEF Inv
  <2> QED BY <2>2, <2>3 DEF Inv
<1> QED BY <1>1, <1>2, <1>3, <1>4, <1>5 DEF Next, RunTimeout

LEMMA InvHolds == Sensible /\ Spec => []Inv
<1>1. Sensible /\ Inv /\ [Next]_vars => Inv' BY StepOfThePage
<1>2. Sensible => []Sensible
  <2>1. Sensible => Sensible' BY DEF Sensible, NoCallback
  <2> QED BY <2>1, PTL
<1> QED BY <1>1, <1>2, InitInv, PTL DEF Spec

\* The copies that the parts of the page keep have their types, however many messages
\* are under way (VpnService, status, regions and traffic of vpn-1.0.0.js).
THEOREM TypeCorrect == Sensible /\ Spec => []TypeOK
<1>1. Inv => TypeOK BY DEF Inv
<1> QED BY <1>1, InvHolds, PTL

\* After a disconnect or a cancel the page does not connect by itself, for any number of
\* regions, clicks and changes (VpnService.disconnect, cancel and statusChanged).
THEOREM StoppedPageStaysStopped == Sensible /\ Spec => StoppedStaysStopped
<1>1. Sensible /\ Inv /\ [Next]_vars =>
        [wish = "stop" /\ wish' = "stop"
           => \A r \in Regions : toService'[ConnectTo(r)] <= toService[ConnectTo(r)]]_vars
  BY StepOfThePage DEF NoConnectSent
<1>2. Sensible => []Sensible
  <2>1. Sensible => Sensible' BY DEF Sensible, NoCallback
  <2> QED BY <2>1, PTL
<1> QED BY <1>1, <1>2, InvHolds, PTL DEF Spec, StoppedStaysStopped

-----------------------------------------------------------------------------
(* Tasks by their kinds.                                                   *)

\* Some task of q is of one of these kinds.
Has(q, kinds) == \E i \in 1..Len(q) : q[i].kind \in kinds

\* The last task of these kinds, if there is one, is good.
LastIs(q, kinds, good) == \A i \in 1..Len(q) :
  q[i].kind \in kinds /\ (\A j \in 1..Len(q) : j > i => q[j].kind \notin kinds) => q[i] = good

\* A queue with one more task.
LEMMA Appended ==
  ASSUME NEW S, NEW q \in Seq(S), NEW x \in S
  PROVE  /\ Append(q, x) \in Seq(S)
         /\ \A kinds : Has(Append(q, x), kinds) <=> Has(q, kinds) \/ x.kind \in kinds
         /\ \A kinds : x.kind \in kinds => LastIs(Append(q, x), kinds, x)
         /\ \A kinds, good : x.kind \notin kinds /\ LastIs(q, kinds, good) => LastIs(Append(q, x), kinds, good)
<1> PICK r : r = Append(q, x) OBVIOUS
<1> PICK n : n = Len(q) OBVIOUS
<1>1. /\ n \in Nat /\ r \in Seq(S) /\ Len(r) = n + 1
      /\ \A i \in 1..n : r[i] = q[i]
      /\ r[n + 1] = x
  BY AppendProperties, LenProperties
<1>2. \A i \in 1..Len(r) : (i \in 1..n /\ r[i] = q[i]) \/ (i = n + 1 /\ r[i] = x) BY <1>1
<1>3. 1..n \subseteq 1..Len(r) /\ n + 1 \in 1..Len(r) BY <1>1
<1>4. ASSUME NEW kinds PROVE Has(r, kinds) <=> Has(q, kinds) \/ x.kind \in kinds
  BY <1>1, <1>2, <1>3 DEF Has
<1>5. ASSUME NEW kinds, x.kind \in kinds PROVE LastIs(r, kinds, x)
  <2> SUFFICES ASSUME NEW i \in 1..Len(r), \A j \in 1..Len(r) : j > i => r[j].kind \notin kinds
               PROVE  r[i] = x
    BY DEF LastIs
  <2>1. CASE i \in 1..n BY <1>1, <1>3, <1>5, <2>1
  <2> QED BY <1>2, <2>1
<1>6. ASSUME NEW kinds, NEW good, x.kind \notin kinds, LastIs(q, kinds, good) PROVE LastIs(r, kinds, good)
  <2> SUFFICES ASSUME NEW i \in 1..Len(r), r[i].kind \in kinds,
                      \A j \in 1..Len(r) : j > i => r[j].kind \notin kinds
               PROVE  r[i] = good
    BY DEF LastIs
  <2>1. i \in 1..n /\ r[i] = q[i] BY <1>2, <1>6
  <2>2. \A j \in 1..n : j > i => q[j].kind \notin kinds BY <1>1, <1>3
  <2> QED BY <1>6, <2>1, <2>2 DEF LastIs
<1> QED BY <1>1, <1>4, <1>5, <1>6

\* A queue whose first task is taken.
LEMMA Taken ==
  ASSUME NEW S, NEW q \in Seq(S), q # <<>>
  PROVE  /\ Tail(q) \in Seq(S) /\ Head(q) \in S
         /\ \A kinds : Has(q, kinds) <=> Has(Tail(q), kinds) \/ Head(q).kind \in kinds
         /\ \A kinds, good : LastIs(q, kinds, good) =>
              /\ LastIs(Tail(q), kinds, good)
              /\ Head(q).kind \in kinds /\ ~Has(Tail(q), kinds) => Head(q) = good
<1> PICK r : r = Tail(q) OBVIOUS
<1> PICK x : x = Head(q) OBVIOUS
<1>1. /\ r \in Seq(S) /\ x \in S /\ Len(r) = Len(q) - 1 /\ x = q[1]
      /\ \A i \in 1..Len(r) : r[i] = q[i + 1]
      /\ Len(q) \in Nat /\ Len(r) \in Nat
  BY HeadTailProperties, LenProperties
<1>2. 1 \in 1..Len(q) /\ \A i \in 1..Len(r) : i + 1 \in 1..Len(q) /\ i + 1 # 1 BY <1>1
<1>3. \A i \in 1..Len(q) : (i = 1 /\ q[i] = x) \/ (i - 1 \in 1..Len(r) /\ q[i] = r[i - 1] /\ i > 1)
  <2> SUFFICES ASSUME NEW i \in 1..Len(q), i # 1 PROVE i - 1 \in 1..Len(r) /\ q[i] = r[i - 1] /\ i > 1
    BY <1>1
  <2>1. i - 1 \in 1..Len(r) /\ i > 1 /\ (i - 1) + 1 = i BY <1>1
  <2> QED BY <1>1, <2>1
<1>4. ASSUME NEW kinds PROVE Has(q, kinds) <=> Has(r, kinds) \/ x.kind \in kinds
  <2>1. Has(r, kinds) => Has(q, kinds) BY <1>1, <1>2 DEF Has
  <2>2. x.kind \in kinds => Has(q, kinds) BY <1>1, <1>2 DEF Has
  <2>3. Has(q, kinds) => Has(r, kinds) \/ x.kind \in kinds BY <1>3 DEF Has
  <2> QED BY <2>1, <2>2, <2>3
<1>5. ASSUME NEW kinds, NEW good, LastIs(q, kinds, good)
      PROVE  LastIs(r, kinds, good) /\ (x.kind \in kinds /\ ~Has(r, kinds) => x = good)
  <2>1. ASSUME NEW i \in 1..Len(r), r[i].kind \in kinds,
               \A j \in 1..Len(r) : j > i => r[j].kind \notin kinds
        PROVE  r[i] = good
    <3>1. ASSUME NEW j \in 1..Len(q), j > i + 1 PROVE q[j].kind \notin kinds
      <4>1. j - 1 \in 1..Len(r) /\ q[j] = r[j - 1] /\ j - 1 > i BY <1>3, <3>1
      <4> QED BY <2>1, <4>1
    <3> QED BY <1>1, <1>2, <1>5, <2>1, <3>1 DEF LastIs
  <2>2. ASSUME x.kind \in kinds, ~Has(r, kinds) PROVE x = good
    <3>1. ASSUME NEW j \in 1..Len(q), j > 1 PROVE q[j].kind \notin kinds
      <4>1. j - 1 \in 1..Len(r) /\ q[j] = r[j - 1] BY <1>3, <3>1
      <4> QED BY <2>2, <4>1 DEF Has
    <3> QED BY <1>1, <1>2, <1>5, <2>2, <3>1 DEF LastIs
  <2> QED BY <2>1, <2>2 DEF LastIs
<1> QED BY <1>1, <1>4, <1>5

\* At most the first task is taken, and it is of the kinds taken; at most one is scheduled,
\* of the kinds added.
Moved(taken, added) ==
  \E rest \in Seq(Tasks) :
    /\ rest = timeouts \/ (timeouts # <<>> /\ Head(timeouts).kind \in taken /\ rest = Tail(timeouts))
    /\ timeouts' = rest \/ \E x \in Tasks : x.kind \in added /\ timeouts' = Append(rest, x)

\* Tasks of other kinds are as they were.
LEMMA MovedKeeps ==
  ASSUME TypeOK, NEW taken, NEW added, Moved(taken, added), NEW kinds, kinds \cap (taken \cup added) = {}
  PROVE  /\ Has(timeouts', kinds) <=> Has(timeouts, kinds)
         /\ \A good : LastIs(timeouts, kinds, good) => LastIs(timeouts', kinds, good)
<1>1. timeouts \in Seq(Tasks) BY DEF TypeOK
<1>2. PICK rest \in Seq(Tasks) :
        /\ rest = timeouts \/ (timeouts # <<>> /\ Head(timeouts).kind \in taken /\ rest = Tail(timeouts))
        /\ timeouts' = rest \/ \E x \in Tasks : x.kind \in added /\ timeouts' = Append(rest, x)
  BY DEF Moved
<1>3. /\ Has(rest, kinds) <=> Has(timeouts, kinds)
      /\ \A good : LastIs(timeouts, kinds, good) => LastIs(rest, kinds, good)
  <2>1. CASE timeouts # <<>> /\ Head(timeouts).kind \in taken /\ rest = Tail(timeouts)
    <3>1. Head(timeouts).kind \notin kinds BY <2>1
    <3> QED BY <1>1, <2>1, <3>1, Taken
  <2> QED BY <1>2, <2>1
<1>4. CASE timeouts' = rest BY <1>3, <1>4
<1>5. ASSUME NEW x \in Tasks, x.kind \in added, timeouts' = Append(rest, x)
      PROVE  /\ Has(timeouts', kinds) <=> Has(timeouts, kinds)
             /\ \A good : LastIs(timeouts, kinds, good) => LastIs(timeouts', kinds, good)
  <2>1. x.kind \notin kinds BY <1>5
  <2> QED BY <1>3, <1>5, <2>1, Appended
<1> QED BY <1>2, <1>4, <1>5

\* A task that runs and schedules one other, or none.
LEMMA MovedByRun ==
  ASSUME TypeOK, NEW k, Due(k), NEW added,
         timeouts' = Rest \o <<>> \/ \E x \in Tasks : x.kind \in added /\ timeouts' = Rest \o <<x>>
  PROVE  Moved({k}, added)
<1>1. timeouts \in Seq(Tasks) /\ timeouts # <<>> /\ Head(timeouts).kind = k /\ Rest = Tail(timeouts)
  BY DEF TypeOK, Due, Rest
<1>2. Rest \in Seq(Tasks) BY <1>1, HeadTailProperties
<1>3. Rest \o <<>> = Rest /\ \A x \in Tasks : Rest \o <<x>> = Append(Rest, x)
  BY <1>2, ConcatEmptySeq, AppendIsConcat
<1> QED BY <1>1, <1>2, <1>3 DEF Moved

\* What a task that runs schedules is the last of its kind.
LEMMA ScheduledLast ==
  ASSUME TypeOK, NEW k, Due(k), NEW x \in Tasks, timeouts' = Rest \o <<x>>
  PROVE  Has(timeouts', {x.kind}) /\ LastIs(timeouts', {x.kind}, x)
<1>1. timeouts \in Seq(Tasks) /\ timeouts # <<>> /\ Rest = Tail(timeouts) BY DEF TypeOK, Due, Rest
<1>2. Rest \in Seq(Tasks) BY <1>1, HeadTailProperties
<1>3. timeouts' = Append(Rest, x) BY <1>2, AppendIsConcat
<1>4. x.kind \in {x.kind} OBVIOUS
<1> QED BY <1>2, <1>3, <1>4, Appended

\* The last task of a kind is the one that runs, or is still to run.
LEMMA LastRuns ==
  ASSUME TypeOK, NEW k, Due(k), NEW good, LastIs(timeouts, {k}, good),
         timeouts' = Rest \o <<>> \/ \E x \in Tasks : x.kind # k /\ timeouts' = Rest \o <<x>>
  PROVE  LastIs(timeouts', {k}, good) /\ (~Has(timeouts', {k}) => Task = good)
<1>1. timeouts \in Seq(Tasks) /\ timeouts # <<>> /\ Head(timeouts).kind = k /\ Rest = Tail(timeouts) /\ Task = Head(timeouts)
  BY DEF TypeOK, Due, Rest, Task
<1>2. Rest \in Seq(Tasks) BY <1>1, HeadTailProperties
<1>3. LastIs(Rest, {k}, good) /\ (~Has(Rest, {k}) => Task = good) BY <1>1, Taken
<1>4. Rest \o <<>> = Rest /\ \A x \in Tasks : Rest \o <<x>> = Append(Rest, x)
  BY <1>2, ConcatEmptySeq, AppendIsConcat
<1>5. ASSUME NEW x \in Tasks, x.kind # k, timeouts' = Append(Rest, x)
      PROVE  LastIs(timeouts', {k}, good) /\ (~Has(timeouts', {k}) => Task = good)
  <2>1. x.kind \notin {k} BY <1>5
  <2> QED BY <1>2, <1>3, <1>5, <2>1, Appended
<1> QED BY <1>3, <1>4, <1>5

-----------------------------------------------------------------------------
(* The invariant: what is under way accounts for every difference between  *)
(* the parts of the page.                                                  *)

\* The status directive has yet to be answered.
ReplyPending == toService[Simple("statusReply")] > 0 \/ toPage[StatusReply] > 0 \/ Has(timeouts, {"statusReply"})

\* The directive shows a status once its request is answered.
FirstShown == shown = Unknown => ReplyPending \/ overwritten

\* What is shown has been passed on to VpnService, or is about to be.
StatusPassedOn ==
  shown # Unknown /\ ~overwritten =>
    /\ LastIs(timeouts, {"statusChanged"}, StatusChanged(shown))
    /\ ~Has(timeouts, {"statusChanged"}) => vpnStatus = shown

\* The region list knows whether VpnService takes the connection for closed.
ListKnown == ~Has(timeouts, {"statusChanged"}) => disconnected = (vpnStatus = "Disconnected")

\* The newest notification is under way, or will be shown, or is shown.
StatusShown ==
  /\ newest = "underway" => toPage[StatusIs(status)] > 0
  /\ newest = "last" =>
       /\ LastIs(timeouts, {"status"}, StatusIs(status))
       /\ ~Has(timeouts, {"status"}) => shown = status \/ overwritten

\* A task of which the service's first status is true, or no status at all.
Early(s) ==
  {t \in Tasks : /\ t.kind # "status"
                 /\ t.kind = "initialStatus" => t.status = s
                 /\ t.kind = "statusChanged" => t.status \in {s, Unknown}}

\* Before the first notification nobody has heard of another status.
FirstStatus ==
  newest = "none" =>
    /\ \A s \in Statuses : toPage[StatusIs(s)] = 0 /\ (toPage[InitialStatus(s)] > 0 => s = status)
    /\ timeouts \in Seq(Early(status))
    /\ vpnStatus \in {status, Unknown} /\ shown \in {status, Unknown}

StatusKnown == FirstShown /\ StatusPassedOn /\ ListKnown /\ StatusShown /\ FirstStatus

\* The directive connects to the selected region, or is about to learn of it.
RegionKnown ==
  /\ LastIs(timeouts, {"regionChanged"}, RegionChanged(selected))
  /\ ~Has(timeouts, {"regionChanged"}) => region = selected

\* A limit that the button no longer shows is about to be removed from the list.
LimitKnown == limitListed /\ ~limitShown => Has(timeouts, {"removeLimit"})

Agreement == TypeOK /\ StatusKnown /\ RegionKnown /\ LimitKnown

-----------------------------------------------------------------------------
(* The invariant is kept: what is known of the status.                     *)

LEMMA UnknownIsNoStatus == Unknown \notin Statuses
BY DEF Unknown, Statuses

\* The service changes its status, or answers.
LEMMA KnownAfterService ==
  ASSUME Sensible, TypeOK, StatusKnown, ConnectionChanges \/ Disconnected \/ ServiceAnswers
  PROVE  StatusKnown'
<1>1. /\ Answered /\ UNCHANGED <<pageVars, overwritten>>
      /\ toService[Simple("statusReply")] > 0 => toService'[Simple("statusReply")] > 0 \/ toPage'[StatusReply] > 0
  BY ServiceStep
<1>2. UNCHANGED <<timeouts, vpnStatus, shown, disconnected>> BY <1>1 DEF pageVars
<1>3. toPage[StatusReply] \in Nat /\ toPage'[StatusReply] \in Nat /\ toPage'[StatusReply] >= toPage[StatusReply]
  BY <1>1, QueueTypes, MessageTypes DEF Answered
<1>4. FirstShown'
  <2>1. ReplyPending => ReplyPending' BY <1>1, <1>2, <1>3 DEF ReplyPending
  <2> QED BY <1>1, <1>2, <2>1 DEF StatusKnown, FirstShown
<1>5. StatusPassedOn' /\ ListKnown' BY <1>1, <1>2 DEF StatusKnown, StatusPassedOn, ListKnown
<1>6. StatusShown' /\ FirstStatus'
  <2>1. CASE newest' = "underway" /\ toPage'[StatusIs(status')] > 0 BY <2>1 DEF StatusShown, FirstStatus
  <2>2. CASE /\ UNCHANGED <<status, newest>>
             /\ \A s \in Statuses : /\ toPage'[StatusIs(s)] = toPage[StatusIs(s)]
                                    /\ s # status => toPage'[InitialStatus(s)] = toPage[InitialStatus(s)]
    <3>1. StatusShown' BY <1>1, <1>2, <2>2, QueueTypes DEF StatusKnown, StatusShown
    <3>2. FirstStatus' BY <1>2, <2>2 DEF StatusKnown, FirstStatus
    <3> QED BY <3>1, <3>2
  <2> QED BY <1>1, <2>1, <2>2 DEF Answered, Publishes
<1> QED BY <1>4, <1>5, <1>6 DEF StatusKnown

\* A message arrives, one that changes what is known of the newest or not.
LEMMA KnownAfterMessage ==
  ASSUME TypeOK, StatusKnown, NEW m \in FromService, Deliver(m)
  PROVE  StatusKnown'
<1>1. UNCHANGED <<status, toService, vpnStatus, shown, disconnected, overwritten>> BY DEF Deliver, serviceVars
<1>2. /\ toPage' \in [FromService -> Nat] /\ timeouts' = Append(timeouts, m) /\ newest' = NewestAfter(m)
      /\ \A n \in FromService : (n # m => toPage'[n] = toPage[n]) /\ toPage'[n] <= toPage[n]
      /\ toPage[m] > 0
  BY MessageStep
<1>3. timeouts \in Seq(Tasks) /\ m \in Tasks BY QueueTypes, MessageTypes
<1>4. m.kind \in {"initialStatus", "statusReply", "status", "limitReached"} BY Kinds
<1>5. /\ \A kinds : Has(timeouts', kinds) <=> Has(timeouts, kinds) \/ m.kind \in kinds
      /\ \A kinds : m.kind \in kinds => LastIs(timeouts', kinds, m)
      /\ \A kinds, good : m.kind \notin kinds /\ LastIs(timeouts, kinds, good) => LastIs(timeouts', kinds, good)
  BY <1>2, <1>3, Appended
<1>6. FirstShown'
  <2>1. ASSUME ReplyPending PROVE ReplyPending'
    <3>1. CASE m = StatusReply
      <4>1. m.kind \in {"statusReply"} BY <3>1, Kinds
      <4> QED BY <1>5, <4>1 DEF ReplyPending
    <3>2. CASE m # StatusReply
      <4>1. toPage'[StatusReply] = toPage[StatusReply] BY <1>2, <3>2, MessageTypes
      <4> QED BY <1>1, <1>5, <2>1, <4>1 DEF ReplyPending
    <3> QED BY <3>1, <3>2
  <2> QED BY <1>1, <2>1 DEF StatusKnown, FirstShown
<1>7. StatusPassedOn' /\ ListKnown'
  <2>1. m.kind \notin {"statusChanged"} BY <1>4
  <2> QED BY <1>1, <1>5, <2>1 DEF StatusKnown, StatusPassedOn, ListKnown
<1>8. StatusShown'
  <2>1. status \in Statuses /\ StatusIs(status) \in FromService BY QueueTypes, MessageTypes
  <2>2. CASE m.kind # "status"
    <3>1. newest' = newest BY <1>2, <2>2 DEF NewestAfter
    <3>2. StatusIs(status) # m BY <2>2, Kinds
    <3>3. toPage'[StatusIs(status)] = toPage[StatusIs(status)] BY <1>2, <2>1, <3>2
    <3>4. m.kind \notin {"status"} BY <2>2
    <3> QED BY <1>1, <1>5, <3>1, <3>3, <3>4 DEF StatusKnown, StatusShown
  <2>3. CASE m.kind = "status" /\ m.status = status
    <3>1. newest' = "last" BY <1>2, <2>3 DEF NewestAfter
    <3>2. m = StatusIs(status) BY <2>3, MessagesOfAKind
    <3>3. m.kind \in {"status"} BY <2>3
    <3>4. LastIs(timeouts', {"status"}, m) /\ Has(timeouts', {"status"}) BY <1>5, <3>3
    <3> QED BY <1>1, <3>1, <3>2, <3>4 DEF StatusShown
  <2>4. CASE m.kind = "status" /\ m.status # status
    <3>1. newest' = IF newest = "underway" THEN "underway" ELSE "overtaken" BY <1>2, <2>4 DEF NewestAfter
    <3>2. StatusIs(status) # m BY <2>4, Contents
    <3>3. toPage'[StatusIs(status)] = toPage[StatusIs(status)] BY <1>2, <2>1, <3>2
    <3> QED BY <1>1, <3>1, <3>3 DEF StatusKnown, StatusShown
  <2> QED BY <2>2, <2>3, <2>4
<1>9. FirstStatus'
  <2> SUFFICES ASSUME newest' = "none"
               PROVE  /\ \A s \in Statuses : /\ toPage'[StatusIs(s)] = 0
                                             /\ toPage'[InitialStatus(s)] > 0 => s = status
                      /\ timeouts' \in Seq(Early(status))
                      /\ vpnStatus \in {status, Unknown} /\ shown \in {status, Unknown}
    BY <1>1 DEF FirstStatus
  <2>1. newest = "none" BY <1>2 DEF NewestAfter
  <2>2. /\ \A s \in Statuses : toPage[StatusIs(s)] = 0 /\ (toPage[InitialStatus(s)] > 0 => s = status)
        /\ timeouts \in Seq(Early(status))
        /\ vpnStatus \in {status, Unknown} /\ shown \in {status, Unknown}
    BY <2>1 DEF StatusKnown, FirstStatus
  <2>3. m.kind # "status" BY <1>2, <2>2, MessagesOfAKind
  <2>4. m.kind = "initialStatus" => m.status = status BY <1>2, <2>2, MessagesOfAKind
  <2>5. m \in Early(status) BY <1>3, <1>4, <2>3, <2>4 DEF Early
  <2>6. timeouts' \in Seq(Early(status)) BY <1>2, <2>2, <2>5, Appended
  <2>7. ASSUME NEW s \in Statuses PROVE toPage'[StatusIs(s)] = 0 /\ (toPage'[InitialStatus(s)] > 0 => s = status)
    <3>1. StatusIs(s) \in FromService /\ InitialStatus(s) \in FromService BY MessageTypes
    <3>2. \A n \in FromService : toPage[n] \in Nat /\ toPage'[n] \in Nat BY <1>2, QueueTypes
    <3> QED BY <1>2, <2>2, <3>1, <3>2
  <2> QED BY <2>2, <2>6, <2>7
<1> QED BY <1>6, <1>7, <1>8, <1>9 DEF StatusKnown

\* An early task is left, and another one scheduled.
LEMMA StaysEarly ==
  ASSUME TypeOK, NEW s, timeouts \in Seq(Early(s)), NEW k, Due(k), NEW x \in Tasks, x \in Early(s), timeouts' = Rest \o <<x>>
  PROVE  timeouts' \in Seq(Early(s)) /\ Task \in Early(s)
<1>1. timeouts # <<>> /\ Task = Head(timeouts) /\ Rest = Tail(timeouts) BY DEF Due, Task, Rest
<1>2. Task \in Early(s) /\ Rest \in Seq(Early(s)) BY <1>1, HeadTailProperties
<1>3. <<x>> \in Seq(Early(s)) OBVIOUS
<1> QED BY <1>2, <1>3, ConcatProperties

\* The reply to VpnService: it shows nothing.
LEMMA KnownAfterInitial ==
  ASSUME TypeOK, StatusKnown, InitialStatusArrives
  PROVE  StatusKnown'
<1>1. /\ Due("initialStatus") /\ vpnStatus' = Task.status
      /\ timeouts' = Rest \o <<StatusChanged(Task.status)>>
      /\ UNCHANGED <<status, toService, toPage, shown, disconnected, newest>>
      /\ overwritten' = (overwritten \/ shown \notin {Unknown, Task.status})
  BY Zenon DEF InitialStatusArrives, Schedules, channelVars, serviceVars
<1>2. Task.status \in Statuses /\ Task.kind = "initialStatus" BY <1>1, TaskDue
<1> PICK x \in Tasks : x = StatusChanged(Task.status) BY <1>2, MessageTypes
<1>3. timeouts' = Rest \o <<x>> /\ x.kind = "statusChanged" /\ x.status = Task.status BY <1>1, Kinds, Contents
<1>4. Moved({"initialStatus"}, {"statusChanged"}) BY <1>1, <1>3, MovedByRun
<1>5. {"statusReply"} \cap ({"initialStatus"} \cup {"statusChanged"}) = {}
      /\ {"status"} \cap ({"initialStatus"} \cup {"statusChanged"}) = {}
  OBVIOUS
<1>6. /\ Has(timeouts', {"statusReply"}) <=> Has(timeouts, {"statusReply"})
      /\ Has(timeouts', {"status"}) <=> Has(timeouts, {"status"})
      /\ \A good : LastIs(timeouts, {"status"}, good) => LastIs(timeouts', {"status"}, good)
  BY <1>4, <1>5, MovedKeeps
<1>7. Has(timeouts', {"statusChanged"}) /\ LastIs(timeouts', {"statusChanged"}, x) BY <1>1, <1>3, ScheduledLast
<1>8. FirstShown' BY <1>1, <1>6 DEF StatusKnown, FirstShown, ReplyPending
<1>9. StatusPassedOn'
  <2>1. shown # Unknown /\ ~overwritten' => x = StatusChanged(shown) BY <1>1
  <2> QED BY <1>1, <1>7, <2>1 DEF StatusPassedOn
<1>10. ListKnown' BY <1>7 DEF ListKnown
<1>11. StatusShown' BY <1>1, <1>6 DEF StatusKnown, StatusShown
<1>12. FirstStatus'
  <2>1. CASE newest = "none"
    <3>1. /\ \A s \in Statuses : toPage[StatusIs(s)] = 0 /\ (toPage[InitialStatus(s)] > 0 => s = status)
          /\ timeouts \in Seq(Early(status)) /\ shown \in {status, Unknown}
      BY <2>1 DEF StatusKnown, FirstStatus
    <3>2. Task \in Early(status) BY <1>1, <3>1, HeadTailProperties DEF Due, Task
    <3>3. Task.status = status BY <1>2, <3>2 DEF Early
    <3>4. x \in Early(status) BY <1>3, <3>3 DEF Early
    <3>5. timeouts' \in Seq(Early(status)) BY <1>1, <1>3, <3>1, <3>4, StaysEarly
    <3> QED BY <1>1, <3>1, <3>3, <3>5 DEF FirstStatus
  <2> QED BY <1>1, <2>1 DEF FirstStatus
<1> QED BY <1>8, <1>9, <1>10, <1>11, <1>12 DEF StatusKnown

\* The reply to the status directive: it shows what VpnService knows.
LEMMA KnownAfterReply ==
  ASSUME TypeOK, StatusKnown, StatusReplyArrives
  PROVE  StatusKnown'
<1>1. /\ Due("statusReply") /\ shown' = vpnStatus
      /\ timeouts' = Rest \o <<StatusChanged(vpnStatus)>>
      /\ UNCHANGED <<status, toService, toPage, vpnStatus, disconnected, newest>>
      /\ overwritten' = (overwritten \/ vpnStatus = Unknown \/ shown \notin {Unknown, vpnStatus})
  BY Zenon DEF StatusReplyArrives, updateStatus, Schedules, channelVars, serviceVars
<1>2. vpnStatus \in Statuses \cup {Unknown} /\ status \in Statuses BY DEF TypeOK
<1> PICK x \in Tasks : x = StatusChanged(vpnStatus) BY <1>2, MessageTypes
<1>3. timeouts' = Rest \o <<x>> /\ x.kind = "statusChanged" /\ x.status = vpnStatus BY <1>1, Kinds, Contents
<1>4. Moved({"statusReply"}, {"statusChanged"}) BY <1>1, <1>3, MovedByRun
<1>5. {"status"} \cap ({"statusReply"} \cup {"statusChanged"}) = {} OBVIOUS
<1>6. /\ Has(timeouts', {"status"}) <=> Has(timeouts, {"status"})
      /\ \A good : LastIs(timeouts, {"status"}, good) => LastIs(timeouts', {"status"}, good)
  BY <1>4, <1>5, MovedKeeps
<1>7. Has(timeouts', {"statusChanged"}) /\ LastIs(timeouts', {"statusChanged"}, x) BY <1>1, <1>3, ScheduledLast
<1>8. FirstShown' BY <1>1 DEF FirstShown
<1>9. StatusPassedOn' BY <1>1, <1>7 DEF StatusPassedOn
<1>10. ListKnown' BY <1>7 DEF ListKnown
<1>11. StatusShown'
  <2>1. ASSUME newest = "last", ~Has(timeouts, {"status"}), ~overwritten' PROVE vpnStatus = status
    <3>1. shown = status \/ overwritten BY <2>1 DEF StatusKnown, StatusShown
    <3>2. ~overwritten /\ shown \in {Unknown, vpnStatus} BY <1>1, <2>1
    <3> QED BY <1>2, <3>1, <3>2, UnknownIsNoStatus
  <2>2. newest = "underway" => toPage[StatusIs(status)] > 0 BY DEF StatusKnown, StatusShown
  <2>3. newest = "last" => LastIs(timeouts', {"status"}, StatusIs(status)) BY <1>6 DEF StatusKnown, StatusShown
  <2> QED BY <1>1, <1>6, <2>1, <2>2, <2>3 DEF StatusShown
<1>12. FirstStatus'
  <2>1. CASE newest = "none"
    <3>1. /\ \A s \in Statuses : toPage[StatusIs(s)] = 0 /\ (toPage[InitialStatus(s)] > 0 => s = status)
          /\ timeouts \in Seq(Early(status)) /\ vpnStatus \in {status, Unknown}
      BY <2>1 DEF StatusKnown, FirstStatus
    <3>2. x \in Early(status) BY <1>3, <3>1 DEF Early
    <3>3. timeouts' \in Seq(Early(status)) BY <1>1, <1>3, <3>1, <3>2, StaysEarly
    <3> QED BY <1>1, <3>1, <3>3 DEF FirstStatus
  <2> QED BY <1>1, <2>1 DEF FirstStatus
<1> QED BY <1>8, <1>9, <1>10, <1>11, <1>12 DEF StatusKnown

\* A notification: it is shown.
LEMMA KnownAfterStatus ==
  ASSUME TypeOK, StatusKnown, StatusArrives
  PROVE  StatusKnown'
<1>1. /\ Due("status") /\ shown' = Task.status
      /\ timeouts' = Rest \o <<StatusChanged(Task.status)>>
      /\ UNCHANGED <<status, toService, toPage, vpnStatus, disconnected, newest>> /\ overwritten' = FALSE
  BY DEF StatusArrives, updateStatus, Schedules, channelVars, serviceVars
<1>2. Task.status \in Statuses /\ Task.kind = "status" BY <1>1, TaskDue
<1> PICK x \in Tasks : x = StatusChanged(Task.status) BY <1>2, MessageTypes
<1>3. timeouts' = Rest \o <<x>> /\ x.kind = "statusChanged" /\ x.status = Task.status BY <1>1, Kinds, Contents
<1>4. Has(timeouts', {"statusChanged"}) /\ LastIs(timeouts', {"statusChanged"}, x) BY <1>1, <1>3, ScheduledLast
<1>5. FirstShown' BY <1>1, <1>2, UnknownIsNoStatus DEF FirstShown
<1>6. StatusPassedOn' BY <1>1, <1>4 DEF StatusPassedOn
<1>7. ListKnown' BY <1>4 DEF ListKnown
<1>8. StatusShown'
  <2>1. ASSUME newest = "last"
        PROVE  LastIs(timeouts', {"status"}, StatusIs(status)) /\ (~Has(timeouts', {"status"}) => Task = StatusIs(status))
    <3>1. LastIs(timeouts, {"status"}, StatusIs(status)) BY <2>1 DEF StatusKnown, StatusShown
    <3>2. x.kind # "status" BY <1>3
    <3> QED BY <1>1, <1>3, <3>1, <3>2, LastRuns
  <2>2. newest = "underway" => toPage[StatusIs(status)] > 0 BY DEF StatusKnown, StatusShown
  <2> QED BY <1>1, <2>1, <2>2, Contents DEF StatusShown
<1>9. FirstStatus'
  <2>1. ASSUME newest = "none" PROVE FALSE
    <3>1. timeouts \in Seq(Early(status)) BY <2>1 DEF StatusKnown, FirstStatus
    <3>2. Task \in Early(status) BY <1>1, <3>1, HeadTailProperties DEF Due, Task
    <3> QED BY <1>2, <3>2 DEF Early
  <2> QED BY <1>1, <2>1 DEF FirstStatus
<1> QED BY <1>5, <1>6, <1>7, <1>8, <1>9 DEF StatusKnown

\* The other parts learn what is shown.
LEMMA KnownAfterChanged ==
  ASSUME TypeOK, StatusKnown, StatusChangedRuns
  PROVE  StatusKnown'
<1>1. /\ Due("statusChanged") /\ vpnStatus' = Task.status /\ disconnected' = (Task.status = "Disconnected")
      /\ UNCHANGED <<status, toPage, shown, overwritten, newest>>
      /\ \/ timeouts' = Rest \o <<>> /\ UNCHANGED toService
         \/ disconnectCallback \in Regions /\ connectToRegion(disconnectCallback, Rest)
  BY DEF StatusChangedRuns, statusChanged, serviceVars, historyVars, Schedules
<1>2. Task.kind = "statusChanged" BY <1>1, TaskDue
<1>3. timeouts' = Rest \o <<>> \/ \E x \in Tasks : x.kind = "regionChanged" /\ timeouts' = Rest \o <<x>>
  <2>1. CASE disconnectCallback \in Regions /\ connectToRegion(disconnectCallback, Rest)
    <3>1. timeouts' = Rest \o <<RegionChanged(disconnectCallback)>> BY <2>1 DEF connectToRegion, Schedules
    <3>2. RegionChanged(disconnectCallback) \in Tasks BY <2>1, MessageTypes
    <3> QED BY <3>1, <3>2, Kinds
  <2> QED BY <1>1, <2>1
<1>4. Moved({"statusChanged"}, {"regionChanged"})
  <2>1. timeouts' = Rest \o <<>> \/ \E x \in Tasks : x.kind \in {"regionChanged"} /\ timeouts' = Rest \o <<x>> BY <1>3
  <2> QED BY <1>1, <2>1, MovedByRun
<1>5. {"statusReply"} \cap ({"statusChanged"} \cup {"regionChanged"}) = {}
      /\ {"status"} \cap ({"statusChanged"} \cup {"regionChanged"}) = {}
  OBVIOUS
<1>6. /\ Has(timeouts', {"statusReply"}) <=> Has(timeouts, {"statusReply"})
      /\ Has(timeouts', {"status"}) <=> Has(timeouts, {"status"})
      /\ \A good : LastIs(timeouts, {"status"}, good) => LastIs(timeouts', {"status"}, good)
  BY <1>4, <1>5, MovedKeeps
<1>7. toService'[Simple("statusReply")] = toService[Simple("statusReply")]
  <2>1. CASE disconnectCallback \in Regions /\ connectToRegion(disconnectCallback, Rest)
    <3> PICK m \in ToService : m = ConnectTo(disconnectCallback) BY <2>1, MessageTypes
    <3>1. toService' = toService \/ toService' = With(toService, m) BY <2>1 DEF connectToRegion, Sends
    <3>2. Simple("statusReply") # m BY Kinds
    <3>3. With(toService, m)[Simple("statusReply")] = toService[Simple("statusReply")]
      <4>1. toService \in [ToService -> Nat] /\ Simple("statusReply") \in ToService BY QueueTypes, MessageTypes
      <4>2. \A n \in ToService : n # m => With(toService, m)[n] = toService[n] BY <4>1, Bags
      <4> QED BY <3>2, <4>1, <4>2
    <3> QED BY <3>1, <3>3
  <2> QED BY <1>1, <2>1
<1>8. FirstShown' BY <1>1, <1>6, <1>7 DEF StatusKnown, FirstShown, ReplyPending
<1>9. StatusPassedOn'
  <2>1. ASSUME shown # Unknown, ~overwritten
        PROVE  /\ LastIs(timeouts', {"statusChanged"}, StatusChanged(shown))
               /\ ~Has(timeouts', {"statusChanged"}) => Task = StatusChanged(shown)
    <3>1. LastIs(timeouts, {"statusChanged"}, StatusChanged(shown)) BY <2>1 DEF StatusKnown, StatusPassedOn
    <3>2. timeouts' = Rest \o <<>> \/ \E x \in Tasks : x.kind # "statusChanged" /\ timeouts' = Rest \o <<x>> BY <1>3
    <3> QED BY <1>1, <3>1, <3>2, LastRuns
  <2> QED BY <1>1, <2>1, Contents DEF StatusPassedOn
<1>10. ListKnown' BY <1>1, Zenon DEF ListKnown
<1>11. StatusShown' BY <1>1, <1>6 DEF StatusKnown, StatusShown
<1>12. FirstStatus'
  <2>1. CASE newest = "none"
    <3>1. /\ \A s \in Statuses : toPage[StatusIs(s)] = 0 /\ (toPage[InitialStatus(s)] > 0 => s = status)
          /\ timeouts \in Seq(Early(status)) /\ shown \in {status, Unknown}
      BY <2>1 DEF StatusKnown, FirstStatus
    <3>2. Task \in Early(status) /\ Rest \in Seq(Early(status)) BY <1>1, <3>1, HeadTailProperties DEF Due, Task, Rest
    <3>3. Task.status \in {status, Unknown} BY <1>2, <3>2 DEF Early
    <3>4. timeouts' \in Seq(Early(status))
      <4>1. CASE timeouts' = Rest \o <<>> BY <3>2, <4>1, ConcatEmptySeq
      <4>2. ASSUME NEW x \in Tasks, x.kind = "regionChanged", timeouts' = Rest \o <<x>>
            PROVE  timeouts' \in Seq(Early(status))
        <5>1. x \in Early(status) BY <4>2 DEF Early
        <5> QED BY <1>1, <3>1, <4>2, <5>1, StaysEarly
      <4> QED BY <1>3, <4>1, <4>2
    <3> QED BY <1>1, <3>1, <3>3, <3>4 DEF FirstStatus
  <2> QED BY <1>1, <2>1 DEF FirstStatus
<1> QED BY <1>8, <1>9, <1>10, <1>11, <1>12 DEF StatusKnown

\* The kinds of the messages and tasks that tell of the status.
StatusKinds == {"initialStatus", "statusReply", "status", "statusChanged"}

\* Steps that have nothing to do with the status.
Aside ==
  \/ RegionChangedRuns \/ LimitReachedArrives \/ ShowLimit \/ UserRegistered \/ RemoveLimit
  \/ ButtonClicked \/ HostNotifies \/ ToggleFromTray \/ ResumeConnect
  \/ \E r \in Regions : RegionSelectionClicked(r)

\* Which tasks these steps take, and which they schedule.
LEMMA AsideMoves ==
  ASSUME TypeOK
  PROVE  /\ timeouts' = timeouts => Moved({}, {})
         /\ RegionChangedRuns => Moved({"regionChanged"}, {})
         /\ LimitReachedArrives => Moved({"limitReached"}, {"showLimit"})
         /\ ShowLimit => Moved({"showLimit"}, {})
         /\ UserRegistered => Moved({"registered"}, {"removeLimit"})
         /\ RemoveLimit => Moved({"removeLimit"}, {})
         /\ ToggleFromTray => Moved({"toggleConnect"}, {})
         /\ ResumeConnect => Moved({"resume"}, {})
         /\ HostNotifies => Moved({}, {"toggleConnect", "resume", "registered"})
         /\ \A r \in Regions : RegionSelectionClicked(r) => Moved({}, {"regionChanged"})
<1>1. timeouts \in Seq(Tasks) BY DEF TypeOK
<1>2. ASSUME timeouts' = timeouts PROVE Moved({}, {}) BY <1>1, <1>2 DEF Moved
<1>3. ASSUME LimitReachedArrives PROVE Moved({"limitReached"}, {"showLimit"})
  <2>1. Due("limitReached") /\ timeouts' = Rest \o <<Simple("showLimit")>>
    BY <1>3 DEF LimitReachedArrives, Schedules
  <2>2. Simple("showLimit") \in Tasks BY MessageTypes
  <2> QED BY <2>1, <2>2, MovedByRun, Kinds
<1>4. ASSUME UserRegistered PROVE Moved({"registered"}, {"removeLimit"})
  <2>1. Due("registered") /\ (timeouts' = Rest \o <<>> \/ timeouts' = Rest \o <<Simple("removeLimit")>>)
    BY <1>4 DEF UserRegistered, Schedules
  <2>2. Simple("removeLimit") \in Tasks BY MessageTypes
  <2> QED BY <2>1, <2>2, MovedByRun, Kinds
<1>5. ASSUME NEW k, Due(k), timeouts' = Rest \o <<>> PROVE Moved({k}, {}) BY <1>5, MovedByRun
<1>6. ASSUME HostNotifies PROVE Moved({}, {"toggleConnect", "resume", "registered"})
  <2>1. PICK k \in {"toggleConnect", "resume", "registered"} : timeouts' = Append(timeouts, Simple(k))
    BY <1>6 DEF HostNotifies
  <2>2. Simple(k) \in Tasks BY MessageTypes
  <2> QED BY <1>1, <2>1, <2>2, Kinds DEF Moved
<1>7. ASSUME NEW r \in Regions, RegionSelectionClicked(r) PROVE Moved({}, {"regionChanged"})
  <2>1. timeouts' = timeouts \/ timeouts' = timeouts \o <<>> \/ timeouts' = timeouts \o <<RegionChanged(r)>>
    BY <1>7 DEF RegionSelectionClicked, SameHost, connectToRegion, Schedules
  <2>2. RegionChanged(r) \in Tasks BY MessageTypes
  <2>3. timeouts \o <<RegionChanged(r)>> = Append(timeouts, RegionChanged(r)) BY <1>1, <2>2, AppendIsConcat
  <2>4. timeouts \o <<>> = timeouts BY <1>1, ConcatEmptySeq
  <2> QED BY <1>1, <2>1, <2>2, <2>3, <2>4, Kinds DEF Moved
<1> QED
  BY <1>2, <1>3, <1>4, <1>5, <1>6, <1>7
     DEF RegionChangedRuns, ShowLimit, RemoveLimit, ToggleFromTray, ResumeConnect, Schedules

\* They take and schedule no task that tells of the status.
LEMMA AsideMoved ==
  ASSUME TypeOK, Aside
  PROVE  \E taken, added : Moved(taken, added) /\ StatusKinds \cap (taken \cup added) = {}
<1>1. ASSUME NEW taken, NEW added, Moved(taken, added), StatusKinds \cap (taken \cup added) = {}
      PROVE  \E t, a : Moved(t, a) /\ StatusKinds \cap (t \cup a) = {}
  BY <1>1
<1>2. CASE RegionChangedRuns
  <2>1. StatusKinds \cap ({"regionChanged"} \cup {}) = {} BY DEF StatusKinds
  <2> QED BY <1>1, <1>2, <2>1, AsideMoves
<1>3. CASE LimitReachedArrives
  <2>1. StatusKinds \cap ({"limitReached"} \cup {"showLimit"}) = {} BY DEF StatusKinds
  <2> QED BY <1>1, <1>3, <2>1, AsideMoves
<1>4. CASE ShowLimit
  <2>1. StatusKinds \cap ({"showLimit"} \cup {}) = {} BY DEF StatusKinds
  <2> QED BY <1>1, <1>4, <2>1, AsideMoves
<1>5. CASE UserRegistered
  <2>1. StatusKinds \cap ({"registered"} \cup {"removeLimit"}) = {} BY DEF StatusKinds
  <2> QED BY <1>1, <1>5, <2>1, AsideMoves
<1>6. CASE RemoveLimit
  <2>1. StatusKinds \cap ({"removeLimit"} \cup {}) = {} BY DEF StatusKinds
  <2> QED BY <1>1, <1>6, <2>1, AsideMoves
<1>7. CASE ToggleFromTray
  <2>1. StatusKinds \cap ({"toggleConnect"} \cup {}) = {} BY DEF StatusKinds
  <2> QED BY <1>1, <1>7, <2>1, AsideMoves
<1>8. CASE ResumeConnect
  <2>1. StatusKinds \cap ({"resume"} \cup {}) = {} BY DEF StatusKinds
  <2> QED BY <1>1, <1>8, <2>1, AsideMoves
<1>9. CASE HostNotifies
  <2>1. StatusKinds \cap ({} \cup {"toggleConnect", "resume", "registered"}) = {} BY DEF StatusKinds
  <2> QED BY <1>1, <1>9, <2>1, AsideMoves
<1>10. CASE ButtonClicked
  <2>1. StatusKinds \cap ({} \cup {}) = {} OBVIOUS
  <2>2. timeouts' = timeouts BY <1>10 DEF ButtonClicked
  <2> QED BY <1>1, <2>1, <2>2, AsideMoves
<1>11. ASSUME NEW r \in Regions, RegionSelectionClicked(r)
       PROVE  \E t, a : Moved(t, a) /\ StatusKinds \cap (t \cup a) = {}
  <2>1. StatusKinds \cap ({} \cup {"regionChanged"}) = {} BY DEF StatusKinds
  <2> QED BY <1>1, <1>11, <2>1, AsideMoves
<1> QED BY <1>2, <1>3, <1>4, <1>5, <1>6, <1>7, <1>8, <1>9, <1>10, <1>11 DEF Aside

\* They ask for no status.
LEMMA AsideSends ==
  ASSUME TypeOK, Aside
  PROVE  toService'[Simple("statusReply")] = toService[Simple("statusReply")]
<1>1. ASSUME NEW m \in ToService, m.kind # "statusReply", Sends(m)
      PROVE  toService'[Simple("statusReply")] = toService[Simple("statusReply")]
  <2>1. toService \in [ToService -> Nat] /\ Simple("statusReply") \in ToService BY QueueTypes, MessageTypes
  <2>2. \A n \in ToService : n # m => With(toService, m)[n] = toService[n] BY <2>1, Bags
  <2>3. Simple("statusReply") # m BY <1>1, Kinds
  <2> QED BY <1>1, <2>1, <2>2, <2>3 DEF Sends
<1>2. \A r \in Regions : ConnectTo(r) \in ToService /\ ConnectTo(r).kind = "connect" BY Kinds, MessageTypes
<1>3. Disconnect \in ToService /\ Disconnect.kind = "disconnect" BY Kinds, MessageTypes
<1>4. region \in Regions BY DEF TypeOK
<1>5. \/ toService' = toService \/ Sends(Disconnect) \/ \E r \in Regions : Sends(ConnectTo(r))
  BY <1>4 DEF Aside, RegionChangedRuns, LimitReachedArrives, ShowLimit, UserRegistered, RemoveLimit, ButtonClicked,
              HostNotifies, ToggleFromTray, ResumeConnect, RegionSelectionClicked, SameHost, connectToRegion,
              toggleConnect, connectVpn, disconnect, cancel, channelVars
<1> QED BY <1>1, <1>2, <1>3, <1>5

LEMMA KnownAfterAside ==
  ASSUME TypeOK, StatusKnown, Aside
  PROVE  StatusKnown'
<1>1. UNCHANGED <<status, toPage, vpnStatus, shown, disconnected, overwritten, newest>>
  BY DEF Aside, RegionChangedRuns, LimitReachedArrives, ShowLimit, UserRegistered, RemoveLimit, ButtonClicked,
         HostNotifies, ToggleFromTray, ResumeConnect, RegionSelectionClicked, serviceVars, channelVars, historyVars
<1>2. toService'[Simple("statusReply")] = toService[Simple("statusReply")] BY AsideSends
<1>3. PICK taken, added : Moved(taken, added) /\ StatusKinds \cap (taken \cup added) = {} BY AsideMoved
<1>4. ASSUME NEW k \in StatusKinds
      PROVE  /\ Has(timeouts', {k}) <=> Has(timeouts, {k})
             /\ \A good : LastIs(timeouts, {k}, good) => LastIs(timeouts', {k}, good)
  <2>1. {k} \cap (taken \cup added) = {} BY <1>3
  <2> QED BY <1>3, <2>1, MovedKeeps
<1>5. {"statusReply", "status", "statusChanged"} \subseteq StatusKinds BY DEF StatusKinds
<1>6. FirstShown' BY <1>1, <1>2, <1>4, <1>5 DEF StatusKnown, FirstShown, ReplyPending
<1>7. StatusPassedOn' /\ ListKnown' BY <1>1, <1>4, <1>5 DEF StatusKnown, StatusPassedOn, ListKnown
<1>8. StatusShown' BY <1>1, <1>4, <1>5 DEF StatusKnown, StatusShown
<1>9. FirstStatus'
  <2>1. CASE newest = "none"
    <3>1. /\ \A s \in Statuses : toPage[StatusIs(s)] = 0 /\ (toPage[InitialStatus(s)] > 0 => s = status)
          /\ timeouts \in Seq(Early(status)) /\ vpnStatus \in {status, Unknown} /\ shown \in {status, Unknown}
      BY <2>1 DEF StatusKnown, FirstStatus
    <3>2. PICK rest \in Seq(Tasks) :
            /\ rest = timeouts \/ (timeouts # <<>> /\ Head(timeouts).kind \in taken /\ rest = Tail(timeouts))
            /\ timeouts' = rest \/ \E x \in Tasks : x.kind \in added /\ timeouts' = Append(rest, x)
      BY <1>3 DEF Moved
    <3>3. rest \in Seq(Early(status))
      <4>1. timeouts # <<>> => Tail(timeouts) \in Seq(Early(status)) BY <3>1, HeadTailProperties
      <4> QED BY <3>1, <3>2, <4>1
    <3>4. ASSUME NEW x \in Tasks, x.kind \in added PROVE x \in Early(status)
      <4>1. x.kind \notin StatusKinds BY <1>3, <3>4
      <4> QED BY <4>1 DEF StatusKinds, Early
    <3>5. timeouts' \in Seq(Early(status)) BY <3>2, <3>3, <3>4, AppendProperties
    <3> QED BY <1>1, <3>1, <3>5 DEF FirstStatus
  <2> QED BY <1>1, <2>1 DEF FirstStatus
<1> QED BY <1>6, <1>7, <1>8, <1>9 DEF StatusKnown

-----------------------------------------------------------------------------
(* The invariant is kept: the selected region and the traffic limit.       *)

\* Steps that neither select a region nor tell of one, and leave the limit alone.
Elsewhere ==
  \/ ConnectionChanges \/ Disconnected \/ ServiceAnswers \/ MessageArrives
  \/ InitialStatusArrives \/ StatusReplyArrives \/ StatusArrives \/ LimitReachedArrives
  \/ ButtonClicked \/ HostNotifies \/ ToggleFromTray \/ ResumeConnect

LEMMA ElsewhereMoves ==
  ASSUME Sensible, TypeOK, Elsewhere
  PROVE  /\ UNCHANGED <<region, selected, limitShown, limitListed>>
         /\ \E taken, added : Moved(taken, added) /\ {"regionChanged", "removeLimit"} \cap (taken \cup added) = {}
<1>1. UNCHANGED <<region, selected, limitShown, limitListed>>
  <2>1. CASE ConnectionChanges \/ Disconnected \/ ServiceAnswers BY <2>1, ServiceStep DEF pageVars
  <2>2. CASE \/ MessageArrives \/ InitialStatusArrives \/ StatusReplyArrives \/ StatusArrives \/ LimitReachedArrives
             \/ ButtonClicked \/ HostNotifies \/ ToggleFromTray \/ ResumeConnect
    BY <2>2 DEF MessageArrives, Deliver, InitialStatusArrives, StatusReplyArrives, StatusArrives, LimitReachedArrives,
                ButtonClicked, HostNotifies, ToggleFromTray, ResumeConnect
  <2> QED BY <2>1, <2>2 DEF Elsewhere
<1>2. ASSUME NEW taken, NEW added, Moved(taken, added), "regionChanged" \notin taken \cup added, "removeLimit" \notin taken \cup added
      PROVE  \E t, a : Moved(t, a) /\ {"regionChanged", "removeLimit"} \cap (t \cup a) = {}
  BY <1>2
<1>3. CASE ConnectionChanges \/ Disconnected \/ ServiceAnswers \/ ButtonClicked
  <2>1. timeouts' = timeouts
    <3>1. CASE ButtonClicked BY <3>1 DEF ButtonClicked
    <3> QED BY <1>3, <3>1, ServiceStep DEF pageVars
  <2> QED BY <1>1, <1>2, <2>1, AsideMoves
<1>4. CASE MessageArrives
  <2>1. PICK m \in FromService : Deliver(m) BY <1>4 DEF MessageArrives
  <2>2. /\ timeouts' = Append(timeouts, m) /\ m \in Tasks /\ timeouts \in Seq(Tasks)
        /\ m.kind \in {"initialStatus", "statusReply", "status", "limitReached"}
    BY <2>1, MessageStep, MessageTypes, QueueTypes, Kinds
  <2>3. Moved({}, {"initialStatus", "statusReply", "status", "limitReached"}) BY <2>2 DEF Moved
  <2> QED BY <1>1, <1>2, <2>3
<1>5. ASSUME NEW k \in {"initialStatus", "statusReply", "status"}, Due(k),
             NEW s \in Statuses \cup {Unknown}, timeouts' = Rest \o <<StatusChanged(s)>>
      PROVE  \E t, a : Moved(t, a) /\ {"regionChanged", "removeLimit"} \cap (t \cup a) = {}
  <2>1. StatusChanged(s) \in Tasks /\ StatusChanged(s).kind \in {"statusChanged"} BY MessageTypes, Kinds
  <2>2. Moved({k}, {"statusChanged"}) BY <1>5, <2>1, MovedByRun
  <2> QED BY <1>2, <2>2
<1>6. CASE InitialStatusArrives
  <2>1. Due("initialStatus") /\ timeouts' = Rest \o <<StatusChanged(Task.status)>>
    BY <1>6 DEF InitialStatusArrives, Schedules
  <2>2. Task.status \in Statuses BY <2>1, TaskDue
  <2> QED BY <1>1, <1>5, <2>1, <2>2
<1>7. CASE StatusReplyArrives
  <2>1. Due("statusReply") /\ timeouts' = Rest \o <<StatusChanged(vpnStatus)>>
    BY <1>7 DEF StatusReplyArrives, updateStatus, Schedules
  <2>2. vpnStatus \in Statuses \cup {Unknown} BY DEF TypeOK
  <2> QED BY <1>1, <1>5, <2>1, <2>2
<1>8. CASE StatusArrives
  <2>1. Due("status") /\ timeouts' = Rest \o <<StatusChanged(Task.status)>>
    BY <1>8 DEF StatusArrives, updateStatus, Schedules
  <2>2. Task.status \in Statuses BY <2>1, TaskDue
  <2> QED BY <1>1, <1>5, <2>1, <2>2
<1>9. CASE LimitReachedArrives \/ HostNotifies \/ ToggleFromTray \/ ResumeConnect
  <2>1. \/ Moved({"limitReached"}, {"showLimit"}) \/ Moved({}, {"toggleConnect", "resume", "registered"})
        \/ Moved({"toggleConnect"}, {}) \/ Moved({"resume"}, {})
    BY <1>9, AsideMoves
  <2> QED BY <1>1, <1>2, <2>1
<1> QED BY <1>1, <1>3, <1>4, <1>6, <1>7, <1>8, <1>9 DEF Elsewhere

\* The region list tells the directive of the region that it selects.
LEMMA RegionTold ==
  ASSUME NEW rest \in Seq(Tasks), NEW r \in Regions, timeouts' = rest \o <<RegionChanged(r)>>, selected' = r
  PROVE  RegionKnown'
<1> PICK x \in Tasks : x = RegionChanged(r) BY MessageTypes
<1>1. selected' = r /\ timeouts' = Append(rest, x) BY AppendIsConcat
<1>2. x.kind \in {"regionChanged"} /\ x = RegionChanged(selected') BY <1>1, Kinds
<1>3. LastIs(timeouts', {"regionChanged"}, RegionChanged(selected')) /\ Has(timeouts', {"regionChanged"})
  BY <1>1, <1>2, Appended
<1> QED BY <1>3 DEF RegionKnown

\* No other step changes the selected region or takes what tells of it.
LEMMA RegionKept ==
  ASSUME Sensible, TypeOK, RegionKnown, Next
  PROVE  RegionKnown'
<1>1. timeouts \in Seq(Tasks) /\ selected \in Regions /\ disconnectCallback \in Regions \cup NoCallback BY DEF TypeOK
<1>2. ASSUME NEW taken, NEW added, Moved(taken, added), "regionChanged" \notin taken \cup added,
             UNCHANGED <<region, selected>>
      PROVE  RegionKnown'
  <2>1. {"regionChanged"} \cap (taken \cup added) = {} BY <1>2
  <2>2. /\ Has(timeouts', {"regionChanged"}) <=> Has(timeouts, {"regionChanged"})
        /\ \A good : LastIs(timeouts, {"regionChanged"}, good) => LastIs(timeouts', {"regionChanged"}, good)
    BY <1>2, <2>1, MovedKeeps
  <2> QED BY <1>2, <2>2 DEF RegionKnown
<1>3. CASE RegionChangedRuns
  <2>1. /\ Due("regionChanged") /\ timeouts' = Rest \o <<>> /\ region' = Task.region /\ selected' = selected
    BY <1>3 DEF RegionChangedRuns, Schedules
  <2>2. /\ LastIs(timeouts', {"regionChanged"}, RegionChanged(selected))
        /\ ~Has(timeouts', {"regionChanged"}) => Task = RegionChanged(selected)
    BY <2>1, LastRuns DEF RegionKnown
  <2> QED BY <2>1, <2>2, Contents DEF RegionKnown
<1>4. CASE StatusChangedRuns
  <2>1. /\ Due("statusChanged") /\ region' = region
        /\ \/ /\ disconnectCallback \in Regions /\ timeouts' = Rest \o <<RegionChanged(disconnectCallback)>>
              /\ selected' = disconnectCallback
           \/ timeouts' = Rest \o <<>> /\ selected' = selected
    BY <1>4 DEF StatusChangedRuns, statusChanged, connectToRegion, Schedules
  <2>2. Rest \in Seq(Tasks) BY <2>1, TaskDue
  <2>3. CASE timeouts' = Rest \o <<>> /\ selected' = selected
    <3>1. Moved({"statusChanged"}, {}) BY <2>1, <2>3, MovedByRun
    <3> QED BY <1>2, <2>1, <2>3, <3>1
  <2> QED BY <2>1, <2>2, <2>3, RegionTold
<1>5. ASSUME NEW r \in Regions, RegionSelectionClicked(r) PROVE RegionKnown'
  <2>1. /\ region' = region
        /\ \/ timeouts' = timeouts /\ selected' = selected
           \/ timeouts' = timeouts \o <<>> /\ selected' = r /\ r = selected
           \/ timeouts' = timeouts \o <<RegionChanged(r)>> /\ selected' = r
    BY <1>5 DEF RegionSelectionClicked, SameHost, connectToRegion, Schedules
  <2>2. CASE UNCHANGED <<timeouts, selected>>
    <3>1. Moved({}, {}) BY <2>2, AsideMoves
    <3> QED BY <1>2, <2>1, <2>2, <3>1
  <2>3. timeouts \o <<>> = timeouts BY <1>1, ConcatEmptySeq
  <2> QED BY <1>1, <2>1, <2>2, <2>3, RegionTold
<1>6. CASE Elsewhere
  <2>1. UNCHANGED <<region, selected>> BY <1>6, ElsewhereMoves
  <2>2. PICK taken, added : Moved(taken, added) /\ {"regionChanged", "removeLimit"} \cap (taken \cup added) = {}
    BY <1>6, ElsewhereMoves
  <2> QED BY <1>2, <2>1, <2>2
<1>7. CASE ShowLimit \/ UserRegistered \/ RemoveLimit
  <2>1. UNCHANGED <<region, selected>> BY <1>7 DEF ShowLimit, UserRegistered, RemoveLimit
  <2>2. Moved({"showLimit"}, {}) \/ Moved({"registered"}, {"removeLimit"}) \/ Moved({"removeLimit"}, {})
    BY <1>7, AsideMoves
  <2> QED BY <1>2, <2>1, <2>2
<1> QED BY <1>3, <1>4, <1>5, <1>6, <1>7 DEF Next, RunTimeout, Elsewhere

\* The button forgets the limit and has the list forget it in the same step.
LEMMA LimitKept ==
  ASSUME Sensible, TypeOK, LimitKnown, Next
  PROVE  LimitKnown'
<1>1. timeouts \in Seq(Tasks) BY DEF TypeOK
<1>2. ASSUME NEW taken, NEW added, Moved(taken, added), "removeLimit" \notin taken \cup added,
             UNCHANGED <<limitShown, limitListed>>
      PROVE  LimitKnown'
  <2>1. {"removeLimit"} \cap (taken \cup added) = {} BY <1>2
  <2>2. Has(timeouts', {"removeLimit"}) <=> Has(timeouts, {"removeLimit"}) BY <1>2, <2>1, MovedKeeps
  <2> QED BY <1>2, <2>2 DEF LimitKnown
<1>3. CASE ShowLimit BY <1>3 DEF ShowLimit, LimitKnown
<1>4. CASE RemoveLimit BY <1>4 DEF RemoveLimit, LimitKnown
<1>5. CASE UserRegistered
  <2>1. /\ Due("registered") /\ limitListed' = limitListed /\ limitShown \in BOOLEAN
        /\ timeouts' = Rest \o (IF limitShown THEN <<Simple("removeLimit")>> ELSE <<>>)
    BY <1>5 DEF UserRegistered, Schedules, TypeOK
  <2>2. CASE limitShown
    <3> PICK x \in Tasks : x = Simple("removeLimit") BY MessageTypes
    <3>1. Has(timeouts', {x.kind}) BY <2>1, <2>2, ScheduledLast
    <3> QED BY <3>1, Kinds DEF LimitKnown
  <2>3. CASE ~limitShown
    <3>1. Moved({"registered"}, {}) BY <2>1, <2>3, MovedByRun
    <3>2. {"removeLimit"} \cap ({"registered"} \cup {}) = {} OBVIOUS
    <3>3. Has(timeouts, {"removeLimit"}) => Has(timeouts', {"removeLimit"}) BY <3>1, <3>2, MovedKeeps
    <3> QED BY <2>1, <2>3, <3>3 DEF LimitKnown
  <2> QED BY <2>1, <2>2, <2>3
<1>6. CASE Elsewhere
  <2>1. UNCHANGED <<limitShown, limitListed>> BY <1>6, ElsewhereMoves
  <2>2. PICK taken, added : Moved(taken, added) /\ {"regionChanged", "removeLimit"} \cap (taken \cup added) = {}
    BY <1>6, ElsewhereMoves
  <2> QED BY <1>2, <2>1, <2>2
<1>7. CASE RegionChangedRuns
  <2>1. UNCHANGED <<limitShown, limitListed>> BY <1>7 DEF RegionChangedRuns
  <2>2. Moved({"regionChanged"}, {}) BY <1>7, AsideMoves
  <2> QED BY <1>2, <2>1, <2>2
<1>8. CASE StatusChangedRuns
  <2>1. /\ Due("statusChanged") /\ UNCHANGED <<limitShown, limitListed>>
        /\ \/ timeouts' = Rest \o <<>>
           \/ disconnectCallback \in Regions /\ timeouts' = Rest \o <<RegionChanged(disconnectCallback)>>
    BY <1>8 DEF StatusChangedRuns, statusChanged, connectToRegion, Schedules
  <2>2. \A r \in Regions : RegionChanged(r) \in Tasks /\ RegionChanged(r).kind \in {"regionChanged"}
    BY MessageTypes, Kinds
  <2>3. Moved({"statusChanged"}, {"regionChanged"}) BY <2>1, <2>2, MovedByRun
  <2> QED BY <1>2, <2>1, <2>3
<1>9. ASSUME NEW r \in Regions, RegionSelectionClicked(r) PROVE LimitKnown'
  <2>1. UNCHANGED <<limitShown, limitListed>> BY <1>9 DEF RegionSelectionClicked
  <2>2. Moved({}, {"regionChanged"}) BY <1>9, AsideMoves
  <2> QED BY <1>2, <2>1, <2>2
<1> QED BY <1>3, <1>4, <1>5, <1>6, <1>7, <1>8, <1>9 DEF Next, RunTimeout, Elsewhere

-----------------------------------------------------------------------------
(* The parts of the page agree.                                            *)

\* Both requests for the status are under way, and nothing else.
LEMMA InitAgreement == Sensible /\ Init => Agreement
<1> SUFFICES ASSUME Sensible, Init PROVE Agreement OBVIOUS
<1>1. TypeOK BY InitInv DEF Inv
<1>2. /\ toPage = [m \in FromService |-> 0] /\ timeouts = <<>> /\ Len(<<>>) = 0
      /\ toService = [m \in ToService |-> IF m.kind \in {"initialStatus", "statusReply"} THEN 1 ELSE 0]
      /\ vpnStatus = Unknown /\ shown = Unknown /\ disconnected = FALSE /\ newest = "none"
      /\ region = selected /\ ~limitListed
  BY DEF Init
<1>3. \A kinds, good : ~Has(timeouts, kinds) /\ LastIs(timeouts, kinds, good) BY <1>2 DEF Has, LastIs
<1>4. toService[Simple("statusReply")] = 1 BY <1>2, MessageTypes, Kinds
<1>5. FirstShown BY <1>4 DEF FirstShown, ReplyPending
<1>6. StatusPassedOn /\ ListKnown /\ StatusShown
  BY <1>2 DEF StatusPassedOn, ListKnown, StatusShown, Unknown
<1>7. FirstStatus
  <2>1. \A s \in Statuses : toPage[StatusIs(s)] = 0 /\ toPage[InitialStatus(s)] = 0 BY <1>2, MessageTypes
  <2>2. timeouts \in Seq(Early(status)) BY <1>2
  <2> QED BY <1>2, <2>1, <2>2 DEF FirstStatus
<1>8. RegionKnown /\ LimitKnown BY <1>2, <1>3 DEF RegionKnown, LimitKnown
<1> QED BY <1>1, <1>5, <1>6, <1>7, <1>8 DEF Agreement, StatusKnown

\* Every step keeps what the parts of the page owe each other.
LEMMA AgreementKept == Sensible /\ Agreement /\ [Next]_vars /\ TypeOK' => Agreement'
<1> SUFFICES ASSUME Sensible, Agreement, [Next]_vars, TypeOK' PROVE Agreement' OBVIOUS
<1>1. TypeOK /\ StatusKnown /\ RegionKnown /\ LimitKnown BY DEF Agreement
<1>2. CASE Next
  <2>1. StatusKnown'
    <3>1. CASE ConnectionChanges \/ Disconnected \/ ServiceAnswers BY <1>1, <3>1, KnownAfterService
    <3>2. CASE MessageArrives BY <1>1, <3>2, KnownAfterMessage DEF MessageArrives
    <3>3. CASE InitialStatusArrives BY <1>1, <3>3, KnownAfterInitial
    <3>4. CASE StatusReplyArrives BY <1>1, <3>4, KnownAfterReply
    <3>5. CASE StatusArrives BY <1>1, <3>5, KnownAfterStatus
    <3>6. CASE StatusChangedRuns BY <1>1, <3>6, KnownAfterChanged
    <3>7. CASE Aside BY <1>1, <3>7, KnownAfterAside
    <3> QED BY <1>2, <3>1, <3>2, <3>3, <3>4, <3>5, <3>6, <3>7 DEF Next, RunTimeout, Aside
  <2>2. RegionKnown' /\ LimitKnown' BY <1>1, <1>2, RegionKept, LimitKept
  <2> QED BY <2>1, <2>2 DEF Agreement
<1>3. CASE UNCHANGED vars
  <2>1. UNCHANGED <<status, toService, toPage, timeouts, vpnStatus, shown, region, disconnected, selected,
                    limitShown, limitListed, overwritten, newest>>
    BY <1>3 DEF vars, serviceVars, channelVars, pageVars, historyVars
  <2>2. FirstShown' /\ StatusPassedOn' /\ ListKnown' /\ StatusShown' /\ FirstStatus'
    BY <1>1, <2>1 DEF StatusKnown, FirstShown, ReplyPending, StatusPassedOn, ListKnown, StatusShown, FirstStatus
  <2>3. RegionKnown' /\ LimitKnown' BY <1>1, <2>1 DEF RegionKnown, LimitKnown
  <2> QED BY <2>2, <2>3 DEF Agreement, StatusKnown
<1> QED BY <1>2, <1>3

\* Once nothing is under way the parts of the page agree, for any number of regions,
\* clicks and changes of the connection, in whichever order the messages arrive:
\* VpnService, the status directive and the region list each keep a copy of the status,
\* and two of them one of the region and of the limit.
THEOREM PartsOfThePageAgree == Sensible /\ Spec => []PartsAgree
<1>1. Agreement => PartsAgree
  <2> SUFFICES ASSUME Agreement, Empty(toService), Empty(toPage), timeouts = <<>>
               PROVE  /\ vpnStatus = shown \/ overwritten
                      /\ shown = status \/ overwritten \/ newest = "overtaken"
                      /\ disconnected = (vpnStatus = "Disconnected")
                      /\ limitListed => limitShown
                      /\ region = selected
    BY DEF PartsAgree
  <2>1. TypeOK /\ StatusKnown /\ RegionKnown /\ LimitKnown BY DEF Agreement
  <2>2. Len(<<>>) = 0 OBVIOUS
  <2>3. \A kinds : ~Has(timeouts, kinds) BY <2>2 DEF Has
  <2>4. \A m \in ToService : toService[m] = 0 BY <2>1, QueueTypes DEF Empty
  <2>5. \A m \in FromService : toPage[m] = 0 BY <2>1, QueueTypes DEF Empty
  <2>6. ~ReplyPending BY <2>3, <2>4, <2>5, MessageTypes DEF ReplyPending
  <2>7. shown # Unknown \/ overwritten BY <2>1, <2>6 DEF StatusKnown, FirstShown
  <2>8. vpnStatus = shown \/ overwritten BY <2>1, <2>3, <2>7 DEF StatusKnown, StatusPassedOn
  <2>9. newest # "underway" BY <2>1, <2>5, QueueTypes, MessageTypes DEF StatusKnown, StatusShown
  <2>10. shown = status \/ overwritten \/ newest = "overtaken"
    <3>1. newest \in {"none", "last", "overtaken"} BY <2>1, <2>9, QueueTypes
    <3>2. newest = "last" => shown = status \/ overwritten BY <2>1, <2>3 DEF StatusKnown, StatusShown
    <3>3. newest = "none" => shown \in {status, Unknown} BY <2>1 DEF StatusKnown, FirstStatus
    <3> QED BY <2>7, <3>1, <3>2, <3>3
  <2>11. disconnected = (vpnStatus = "Disconnected") BY <2>1, <2>3, Zenon DEF StatusKnown, ListKnown
  <2>12. (limitListed => limitShown) /\ region = selected BY <2>1, <2>3 DEF LimitKnown, RegionKnown
  <2> QED BY <2>8, <2>10, <2>11, <2>12
<1>2. Sensible /\ Inv' /\ Agreement /\ [Next]_vars => Agreement' BY AgreementKept DEF Inv
<1>3. Sensible => []Sensible
  <2>1. Sensible => Sensible' BY DEF Sensible, NoCallback
  <2> QED BY <2>1, PTL
<1> QED BY <1>1, <1>2, <1>3, InitAgreement, InvHolds, PTL DEF Spec
=============================================================================
