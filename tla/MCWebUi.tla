------------------------------- MODULE MCWebUi -------------------------------
(***************************************************************************)
(* The parts of the web user interface for TLC: the message bus, the       *)
(* connection and the views, of which a behaviour has one. The others stay *)
(* as they start, so that the states of the parts add up.                  *)
(***************************************************************************)
EXTENDS MessageBus

CONSTANTS Regions, MaxClicks, MaxChanges, MaxUnderWay, MaxTasks, NoView, MaxViewClicks

VARIABLES
  part,
  status, changes, guiToService, guiToPage, guiTimeouts, vpnStatus, disconnectCallback, shown, region,
  disconnected, selected, limitShown, limitListed, clicks, wish, overwritten,
  newest, misled,
  currentView, back, titled, titleTranslated, translated, headerDisabled, displayed, showSettingsView,
  asked, answers, viewTimeouts, viewClicks, late

Gui == INSTANCE GuiConnection WITH toService <- guiToService, toPage <- guiToPage, timeouts <- guiTimeouts
Pages == INSTANCE GuiViews WITH timeouts <- viewTimeouts, clicks <- viewClicks, MaxClicks <- MaxViewClicks

\* A region is none of the callbacks that connect to no region, and no view is undefined.
ASSUME WebUiAssumption ==
  /\ Regions \cap Gui!NoCallback = {} /\ NoView \notin Pages!Views
  /\ MaxClicks \in Nat /\ MaxChanges \in Nat /\ MaxViewClicks \in Nat

guiVars == <<status, changes, guiToService, guiToPage, guiTimeouts, vpnStatus, disconnectCallback, shown, region,
             disconnected, selected, limitShown, limitListed, clicks, wish, overwritten,
             newest, misled>>
viewVars == <<currentView, back, titled, titleTranslated, translated, headerDisabled, displayed, showSettingsView,
              asked, answers, viewTimeouts, viewClicks, late>>

MCInit ==
  /\ part \in {"bus", "connection", "views"}
  /\ Init /\ Gui!Init /\ Pages!Init
  /\ part # "bus" => running
  /\ part # "connection" => status = "Disconnected"
  /\ region = CHOOSE r \in Regions : TRUE \* the regions are alike
  /\ part # "views" => ~displayed /\ ~showSettingsView

\* Bound: the service stops for the last time only on a page that leaves out a request.
LastBreakIsQuiet == breaks = MaxBreaks => \E r \in Requests : idOf[r] = None

\* Bounds: how many different messages and tasks there are under way in all, and how many
\* tasks. A message arrives once there is room, before or after any other.
FewUnderWay ==
  /\ Cardinality({m \in Gui!ToService : guiToService[m] > 0})
       + Cardinality({m \in Gui!FromService : guiToPage[m] > 0}) + Len(guiTimeouts) <= MaxUnderWay
  /\ Len(guiTimeouts) <= MaxTasks

\* Bound: a page with a late answer, of which NeverStranded says nothing, goes no further.
MCNext ==
  \/ part = "bus" /\ Next /\ LastBreakIsQuiet' /\ UNCHANGED <<part, guiVars, viewVars>>
  \/ part = "connection" /\ Gui!Next /\ FewUnderWay' /\ UNCHANGED <<part, vars, viewVars>>
  \/ part = "views" /\ ~late /\ Pages!Next /\ UNCHANGED <<part, vars, guiVars>>

\* The fairness of a part binds the behaviours that have it.
Bus(A) == part = "bus" /\ A
Connection(A) == part = "connection" /\ A

MCFairness ==
  /\ \A e \in Envelopes :
       WF_vars(Bus(WorkSends(e) \/ WorkDrops(e) \/ WorkConnects(e))) /\ WF_vars(Bus(ServiceHandles(e)))
  /\ WF_vars(Bus(Opened)) /\ WF_vars(Bus(ConnectsBack)) /\ WF_vars(Bus(HostSeesBreak)) /\ WF_vars(Bus(PipeClosed))
  /\ WF_vars(Bus(ReconnectToService)) /\ WF_vars(Bus(ServiceStarts))
  /\ \A m \in Incoming : WF_vars(Bus(OnReply(m)))
  /\ WF_vars(Bus(OnConnectionReestablished))
  /\ WF_vars(Bus(CallbackRuns \/ ReestablishConnection \/ ShowRequestError))
  /\ WF_guiVars(Connection(Gui!ServiceAnswers)) /\ WF_guiVars(Connection(Gui!Disconnected))
  /\ WF_guiVars(Connection(Gui!MessageArrives)) /\ WF_guiVars(Connection(Gui!RunTimeout))

MCSpec == MCInit /\ [][MCNext]_<<part, vars, guiVars, viewVars>> /\ MCFairness

\* Every variable of the three parts has its type.
TypesOK == TypeOK /\ Gui!TypeOK /\ Pages!TypeOK

\* The properties of GuiConnection and GuiViews, which say what they are about.
StoppedStaysStopped == Gui!StoppedStaysStopped
PartsAgree == Gui!PartsAgree
SwitchesSettle == Gui!SwitchesSettle
NeverStranded == Pages!NeverStranded
=============================================================================
