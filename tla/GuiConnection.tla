---------------------------- MODULE GuiConnection ---------------------------
(***************************************************************************)
(* Connecting from the web user interface (vpn-1.0.0.js): VpnService, the  *)
(* status directive with the big button, the list of regions and the flags *)
(* for the traffic limit, each with a copy of its own of what the service  *)
(* last reported. The parts talk through MessageBus.trigger, that is, by   *)
(* tasks that $timeout runs one at a time in the order they were scheduled.*)
(*                                                                         *)
(* A message is a task of a thread pool at every hop, so messages arrive   *)
(* in any order: what is under way is a bag (MessageBus.tla is about the   *)
(* path that they take). The state of a region is its name, and two        *)
(* regions may have one host; a view has no state, so changing it is left  *)
(* out.                                                                    *)
(***************************************************************************)
EXTENDS Naturals, Sequences

CONSTANTS
  Regions,       \* the regions of the list
  MaxClicks,     \* bound: what the user does
  MaxChanges     \* bound: what happens to the connection by itself

Statuses == {"Disconnected", "Connecting", "Connected", "Disconnecting"}

VARIABLES
  status,              \* the service's status
  changes,             \* how often it has changed by itself
  toService,           \* how many of each request are under way to the service
  toPage,              \* how many of each reply and notification are under way to the page
  timeouts,            \* the tasks given to $timeout
  vpnStatus,           \* VpnService.status
  disconnectCallback,  \* VpnService.disconnectCallback: the region to connect to, or why there is none
  shown,               \* the status directive's $scope.status
  region,              \* the status directive's $scope.region
  disconnected,        \* the region list's $scope.disconnected
  selected,            \* RegionList.selected, and the region list's $scope.region
  limitShown,          \* the status directive's $scope.trafficLimitReached
  limitListed,         \* the same of the region list and of VpnController
  clicks,              \* what the user has done
  wish,                \* history: what the user last asked for, "stop" or "go"
  overwritten,         \* history: a reply to the page came too early or too late to show the status
  newest,              \* history: what has become of the newest notification of the status
  misled               \* history: the last switch closes a connection that is closed and not reported

serviceVars == <<status, changes>>
historyVars == <<wish, overwritten, newest, misled>>
channelVars == <<toService, toPage>>
pageVars == <<timeouts, vpnStatus, disconnectCallback, shown, region, disconnected, selected, limitShown, limitListed>>
vars == <<serviceVars, channelVars, pageVars, clicks, historyVars>>

\* The page does not know the status before the first message about it.
Unknown == "unknown"

\* A disconnectCallback that does nothing, and none at all.
NoCallback == {"nothing", "null"}

\* A bag with one more message, with one less, and with none.
With(bag, m) == [bag EXCEPT ![m] = @ + 1]
Without(bag, m) == [bag EXCEPT ![m] = @ - 1]
Empty(bag) == \A m \in DOMAIN bag : bag[m] = 0

ConnectTo(r) == [kind |-> "connect", region |-> r]
Disconnect == [kind |-> "disconnect"]

\* The reply to VpnService's request, the reply to the status directive's, and a
\* notification.
InitialStatus(s) == [kind |-> "initialStatus", status |-> s]
StatusReply == [kind |-> "statusReply"]
StatusIs(s) == [kind |-> "status", status |-> s]

\* Tasks that MessageBus.trigger schedules.
StatusChanged(s) == [kind |-> "statusChanged", status |-> s]
RegionChanged(r) == [kind |-> "regionChanged", region |-> r]
Simple(k) == [kind |-> k]

ToService == {ConnectTo(r) : r \in Regions} \cup {Disconnect, Simple("initialStatus"), Simple("statusReply")}
FromService == {InitialStatus(s) : s \in Statuses} \cup {StatusReply}
                 \cup {StatusIs(s) : s \in Statuses} \cup {Simple("limitReached")}
Tasks == FromService
           \cup {StatusChanged(s) : s \in Statuses \cup {Unknown}} \cup {RegionChanged(r) : r \in Regions}
           \cup {Simple(k) : k \in {"toggleConnect", "resume", "showLimit", "registered", "removeLimit"}}

TypeOK ==
  /\ status \in Statuses
  /\ changes \in 0..MaxChanges /\ clicks \in 0..MaxClicks
  /\ toService \in [ToService -> Nat] /\ toPage \in [FromService -> Nat]
  /\ timeouts \in Seq(Tasks)
  /\ vpnStatus \in Statuses \cup {Unknown} /\ shown \in Statuses \cup {Unknown}
  /\ disconnectCallback \in Regions \cup NoCallback
  /\ region \in Regions /\ selected \in Regions
  /\ disconnected \in BOOLEAN /\ limitShown \in BOOLEAN /\ limitListed \in BOOLEAN
  /\ wish \in {"stop", "go"} /\ overwritten \in BOOLEAN /\ misled \in BOOLEAN
  /\ newest \in {"none", "underway", "last", "overtaken"}

\* VpnService and then the status directive have asked for the status; the region
\* list is loaded.
Init ==
  /\ status \in {"Disconnected", "Connected"}
  /\ changes = 0
  /\ toService = [m \in ToService |-> IF m.kind \in {"initialStatus", "statusReply"} THEN 1 ELSE 0]
  /\ toPage = [m \in FromService |-> 0]
  /\ timeouts = <<>>
  /\ vpnStatus = Unknown /\ shown = Unknown
  /\ disconnectCallback = "null"
  /\ region \in Regions /\ selected = region
  /\ disconnected = FALSE \* undefined, which is as good as false
  /\ limitShown = FALSE /\ limitListed = FALSE
  /\ clicks = 0
  /\ wish = IF status = "Connected" THEN "go" ELSE "stop"
  /\ overwritten = FALSE /\ newest = "none" /\ misled = FALSE

-----------------------------------------------------------------------------
(* The service.                                                            *)

\* What the connection may do next without being asked.
Moves(s) ==
  CASE s = "Disconnected" -> {}
    [] s = "Connecting" -> {"Connected", "Disconnected"}
    [] s = "Connected" -> {"Connecting", "Disconnected"}
    [] s = "Disconnecting" -> {"Disconnected"}

\* Every change is published.
Becomes(s) ==
  /\ status' = s
  /\ toPage' = With(toPage, StatusIs(s))
  /\ newest' = "underway"

\* A step of the connection that nobody asked for: it drops, it reconnects.
ConnectionChanges ==
  /\ status \in {"Connecting", "Connected"} /\ changes < MaxChanges
  /\ \E s \in Moves(status) : Becomes(s)
  /\ changes' = changes + 1
  /\ UNCHANGED <<toService, pageVars, clicks, wish, overwritten, misled>>

\* A disconnect that was asked for completes.
Disconnected ==
  /\ status = "Disconnecting"
  /\ Becomes("Disconnected")
  /\ UNCHANGED <<changes, toService, pageVars, clicks, wish, overwritten, misled>>

\* The service answers without a change of its status, or not at all.
Replies(m) == toPage' = With(toPage, m) /\ UNCHANGED <<status, newest>>
Ignores == UNCHANGED <<status, toPage, newest>>

\* A session is started only when there is none ...
StartsSession == IF status = "Disconnected" THEN Becomes("Connecting") ELSE Ignores

\* ... and a connection is closed instead when the traffic limit is reached.
RefusesTraffic ==
  IF status \in {"Disconnected", "Disconnecting"}
  THEN Replies(Simple("limitReached"))
  ELSE /\ status' = "Disconnecting"
       /\ toPage' = With(With(toPage, StatusIs("Disconnecting")), Simple("limitReached"))
       /\ newest' = "underway"

\* The service handles a request; a disconnect of a session that is not there says nothing.
ServiceHandles(m) ==
  /\ toService[m] > 0 /\ toService' = Without(toService, m)
  /\ CASE m.kind = "initialStatus" -> Replies(InitialStatus(status))
       [] m.kind = "statusReply" -> Replies(StatusReply)
       [] m.kind = "connect" -> StartsSession \/ RefusesTraffic
       [] m.kind = "disconnect" -> IF status = "Disconnected" THEN Ignores ELSE Becomes("Disconnecting")
  /\ UNCHANGED <<changes, pageVars, clicks, wish, overwritten, misled>>

\* What becomes of the newest notification when m arrives: one of the same status is as
\* good, one of another status is older.
NewestAfter(m) ==
  CASE m.kind # "status" -> newest
    [] m.kind = "status" /\ m.status = status -> "last"
    [] m.kind = "status" /\ m.status # status -> IF newest = "underway" THEN "underway" ELSE "overtaken"

\* External.onMessage: whatever arrives runs from $timeout.
Deliver(m) ==
  /\ toPage[m] > 0 /\ toPage' = Without(toPage, m)
  /\ timeouts' = Append(timeouts, m)
  /\ newest' = NewestAfter(m)
  /\ UNCHANGED <<serviceVars, toService, vpnStatus, disconnectCallback, shown, region, disconnected, selected,
                 limitShown, limitListed, clicks, wish, overwritten, misled>>

-----------------------------------------------------------------------------
(* VpnService.                                                             *)

\* The request that a handler makes, and the tasks it schedules after the rest.
Sends(request) == toService' = With(toService, request)
Schedules(rest, tasks) == timeouts' = rest \o tasks

\* Mutant: cancel leaves the callback of a switch in place.
CancelKeepsCallback ==
  IF vpnStatus # "Connecting"
  THEN UNCHANGED <<toService, disconnectCallback, wish>>
  ELSE /\ Sends(Disconnect)
       /\ wish' = "stop"
       /\ UNCHANGED disconnectCallback

\* VpnService.cancel
cancel ==
  IF vpnStatus # "Connecting"
  THEN UNCHANGED <<toService, disconnectCallback, wish>>
  ELSE /\ disconnectCallback' = "null"
       /\ Sends(Disconnect)
       /\ wish' = "stop"

\* VpnService.disconnect with a callback that connects to a region or does nothing.
disconnect(callback) ==
  /\ disconnectCallback' = callback
  /\ Sends(Disconnect)

\* The region list's connectToRegion: the region becomes the selected one, and is
\* connected unless the traffic limit is reached. rest is what is left of the tasks.
connectToRegion(r, rest) ==
  /\ selected' = r
  /\ Schedules(rest, <<RegionChanged(r)>>)
  /\ (IF limitListed THEN UNCHANGED toService ELSE Sends(ConnectTo(r)))

\* Mutant: the callback is forgotten when the connection drops instead of being closed.
StatusChangedKeepsCallback(s, rest) ==
  /\ vpnStatus' = s
  /\ IF s = "Disconnected" /\ vpnStatus = "Disconnecting" /\ disconnectCallback # "null"
     THEN /\ disconnectCallback' = "null"
          /\ IF disconnectCallback \in Regions
             THEN connectToRegion(disconnectCallback, rest)
             ELSE Schedules(rest, <<>>) /\ UNCHANGED <<selected, toService>>
     ELSE Schedules(rest, <<>>) /\ UNCHANGED <<disconnectCallback, selected, toService>>

\* VpnService.statusChanged: the callback runs once the page learns that the
\* connection is closed.
statusChanged(s, rest) ==
  /\ vpnStatus' = s
  /\ IF s = "Disconnected" /\ disconnectCallback # "null"
     THEN /\ disconnectCallback' = "null"
          /\ IF disconnectCallback \in Regions
             THEN connectToRegion(disconnectCallback, rest)
             ELSE Schedules(rest, <<>>) /\ UNCHANGED <<selected, toService>>
     ELSE Schedules(rest, <<>>) /\ UNCHANGED <<disconnectCallback, selected, toService>>

-----------------------------------------------------------------------------
(* The tasks of the page, first in first out.                              *)

Due(kind) == timeouts # <<>> /\ Head(timeouts).kind = kind
Task == Head(timeouts)
Rest == Tail(timeouts)

\* The reply to VpnService's own request for the status.
InitialStatusArrives ==
  /\ Due("initialStatus")
  /\ vpnStatus' = Task.status
  /\ Schedules(Rest, <<StatusChanged(Task.status)>>)
  /\ overwritten' = (overwritten \/ shown \notin {Unknown, Task.status})
  /\ UNCHANGED <<serviceVars, channelVars, disconnectCallback, shown, region, disconnected, selected,
                 limitShown, limitListed, clicks, wish, newest, misled>>

\* Mutant: the new status is shown but not passed on.
UpdateShownOnly(s) == shown' = s /\ Schedules(Rest, <<>>)

\* The status directive's updateStatus: shows the status and tells the other parts.
updateStatus(s) == shown' = s /\ Schedules(Rest, <<StatusChanged(s)>>)

\* The reply to the status directive's request. What is shown is not the status of
\* the reply but the one VpnService knows.
StatusReplyArrives ==
  /\ Due("statusReply")
  /\ updateStatus(vpnStatus)
  /\ overwritten' = (overwritten \/ vpnStatus = Unknown \/ shown \notin {Unknown, vpnStatus})
  /\ UNCHANGED <<serviceVars, channelVars, vpnStatus, disconnectCallback, region, disconnected, selected,
                 limitShown, limitListed, clicks, wish, newest, misled>>

\* A notification of the service.
StatusArrives ==
  /\ Due("status")
  /\ updateStatus(Task.status)
  /\ overwritten' = FALSE
  /\ UNCHANGED <<serviceVars, channelVars, vpnStatus, disconnectCallback, region, disconnected, selected,
                 limitShown, limitListed, clicks, wish, newest, misled>>

\* VPN_STATUS_CHANGED: the callback of VpnService runs before the region list learns
\* the status.
StatusChangedRuns ==
  /\ Due("statusChanged")
  /\ statusChanged(Task.status, Rest)
  /\ disconnected' = (Task.status = "Disconnected")
  /\ UNCHANGED <<serviceVars, toPage, shown, region, limitShown, limitListed, clicks, historyVars>>

\* SELECTED_REGION_CHANGED
RegionChangedRuns ==
  /\ Due("regionChanged")
  /\ region' = Task.region
  /\ Schedules(Rest, <<>>)
  /\ UNCHANGED <<serviceVars, channelVars, vpnStatus, disconnectCallback, shown, disconnected, selected,
                 limitShown, limitListed, clicks, historyVars>>

\* The traffic directive passes the service's notification of the limit on.
LimitReachedArrives ==
  /\ Due("limitReached")
  /\ Schedules(Rest, <<Simple("showLimit")>>)
  /\ UNCHANGED <<serviceVars, channelVars, vpnStatus, disconnectCallback, shown, region, disconnected, selected,
                 limitShown, limitListed, clicks, historyVars>>

\* VPN_TRAFFIC_LIMIT_REACHED
ShowLimit ==
  /\ Due("showLimit")
  /\ limitShown' = TRUE /\ limitListed' = TRUE
  /\ Schedules(Rest, <<>>)
  /\ UNCHANGED <<serviceVars, channelVars, vpnStatus, disconnectCallback, shown, region, disconnected, selected,
                 clicks, historyVars>>

\* VPN_USER_REGISTERED: the status directive removes the limit and tells the others.
UserRegistered ==
  /\ Due("registered")
  /\ limitShown' = FALSE
  /\ Schedules(Rest, IF limitShown THEN <<Simple("removeLimit")>> ELSE <<>>)
  /\ UNCHANGED <<serviceVars, channelVars, vpnStatus, disconnectCallback, shown, region, disconnected, selected,
                 limitListed, clicks, historyVars>>

\* VPN_REMOVE_TRAFFIC_LIMIT
RemoveLimit ==
  /\ Due("removeLimit")
  /\ limitListed' = FALSE
  /\ Schedules(Rest, <<>>)
  /\ UNCHANGED <<serviceVars, channelVars, vpnStatus, disconnectCallback, shown, region, disconnected, selected,
                 limitShown, clicks, historyVars>>

-----------------------------------------------------------------------------
(* The user, at the page and at the tray icon.                             *)

Acts == clicks < MaxClicks /\ clicks' = clicks + 1

\* The status directive's connectVpn, for a page that is not the sandboxed one of macOS.
connectVpn == Sends(ConnectTo(region)) /\ wish' = "go" /\ UNCHANGED disconnectCallback

\* The status directive's toggleConnect
toggleConnect ==
  CASE shown = "Connected" -> disconnect("nothing") /\ wish' = "stop"
    [] shown = "Disconnected" -> connectVpn
    [] shown = "Connecting" -> cancel
    [] OTHER -> UNCHANGED <<toService, disconnectCallback, wish>>

\* The button is hidden while the connection closes, and sells traffic when there is
\* none left.
ButtonClicked ==
  /\ Acts
  /\ shown # "Disconnecting" /\ ~limitShown
  /\ toggleConnect
  /\ UNCHANGED <<serviceVars, toPage, timeouts, vpnStatus, shown, region, disconnected, selected, limitShown, limitListed,
                 overwritten, newest, misled>>

\* The tray icon and the power events of the host are messages to the page.
HostNotifies ==
  /\ Acts
  /\ \E k \in {"toggleConnect", "resume", "registered"} : timeouts' = Append(timeouts, Simple(k))
  /\ UNCHANGED <<serviceVars, channelVars, vpnStatus, disconnectCallback, shown, region, disconnected, selected,
                 limitShown, limitListed, historyVars>>

ToggleFromTray ==
  /\ Due("toggleConnect")
  /\ toggleConnect
  /\ Schedules(Rest, <<>>)
  /\ UNCHANGED <<serviceVars, toPage, vpnStatus, shown, region, disconnected, selected, limitShown, limitListed, clicks,
                 overwritten, newest, misled>>

ResumeConnect ==
  /\ Due("resume")
  /\ connectVpn
  /\ Schedules(Rest, <<>>)
  /\ UNCHANGED <<serviceVars, toPage, vpnStatus, shown, region, disconnected, selected, limitShown, limitListed, clicks,
                 overwritten, newest, misled>>

\* The page is about to learn that the connection is closed.
ClosureUnderWay == \E m \in {InitialStatus("Disconnected"), StatusIs("Disconnected"), StatusChanged("Disconnected")} :
  \/ m \in FromService /\ toPage[m] > 0
  \/ \E i \in 1..Len(timeouts) : timeouts[i] = m

\* The region list's regionSelectionClicked: nothing happens to a connection to the
\* same host, which may be that of another region; another connection is closed first.
SameHost(r) ==
  /\ selected' = r
  /\ Schedules(timeouts, IF r = selected THEN <<>> ELSE <<RegionChanged(r)>>)
  /\ UNCHANGED <<toService, disconnectCallback, wish, misled>>

RegionSelectionClicked(r) ==
  /\ Acts
  /\ \/ ~disconnected /\ SameHost(r)
     \/ /\ ~disconnected /\ r # selected
        /\ disconnect(r)
        /\ wish' = "go" /\ misled' = (status = "Disconnected" /\ ~ClosureUnderWay)
        /\ UNCHANGED <<timeouts, selected>>
     \/ /\ disconnected
        /\ connectToRegion(r, timeouts)
        /\ wish' = "go" /\ UNCHANGED <<disconnectCallback, misled>>
  /\ UNCHANGED <<serviceVars, toPage, vpnStatus, shown, region, disconnected, limitShown, limitListed,
                 overwritten, newest>>

-----------------------------------------------------------------------------
RunTimeout ==
  \/ InitialStatusArrives \/ StatusReplyArrives \/ StatusArrives \/ StatusChangedRuns \/ RegionChangedRuns
  \/ LimitReachedArrives \/ ShowLimit \/ UserRegistered \/ RemoveLimit
  \/ ToggleFromTray \/ ResumeConnect

ServiceAnswers == \E m \in ToService : ServiceHandles(m)
MessageArrives == \E m \in FromService : Deliver(m)

Next ==
  \/ ConnectionChanges \/ Disconnected \/ ServiceAnswers \/ MessageArrives
  \/ RunTimeout
  \/ ButtonClicked \/ HostNotifies
  \/ \E r \in Regions : RegionSelectionClicked(r)

Spec == Init /\ [][Next]_vars

\* The service answers and closes connections, messages arrive and $timeout fires.
Fairness == WF_vars(ServiceAnswers) /\ WF_vars(Disconnected) /\ WF_vars(MessageArrives) /\ WF_vars(RunTimeout)

FairSpec == Spec /\ Fairness

-----------------------------------------------------------------------------
\* After a disconnect or a cancel that the page has carried out it does not connect
\* by itself: the switch to another region that was under way is forgotten.
StoppedStaysStopped ==
  [][wish = "stop" /\ wish' = "stop"
       => \A r \in Regions : toService'[ConnectTo(r)] <= toService[ConnectTo(r)]]_vars

\* Once nothing is under way, all parts of the page have the same status, the button
\* connects to the selected region, and the list does not refuse to connect while the
\* button offers to. (The button may show a limit that the list has forgotten: a second
\* notification of the limit runs between a registration and the removal that it
\* triggered.) The status is that of the service, unless its newest notification was
\* overtaken by an older one. And it has to be a notification that the page learnt the
\* status from: the reply that is to "trigger new status" (vpn-1.0.0.js:5465) triggers an
\* old one or none if the other reply, to VpnService, is late.
PartsAgree ==
  Empty(toService) /\ Empty(toPage) /\ timeouts = <<>> =>
    /\ vpnStatus = shown \/ overwritten
    /\ shown = status \/ overwritten \/ newest = "overtaken"
    /\ disconnected = (vpnStatus = "Disconnected")
    /\ limitListed => limitShown
    /\ region = selected

\* A switch to another region does not hang, in whichever order its messages arrive: the
\* callback that connects runs, or the user changes the plan. Except on a page that takes
\* a closed connection for an open one and has nothing coming that says otherwise: the
\* service ignores the disconnect, and nothing runs the callback.
SwitchesSettle ==
  disconnectCallback \in Regions ~> (disconnectCallback \notin Regions \/ misled)
=============================================================================
