------------------------------- MODULE GuiViews ------------------------------
(***************************************************************************)
(* The views of the web user interface (vpn-1.0.0.js): VpnController shows *)
(* one at a time, the header leads to some and is switched off while a     *)
(* newly installed application asks for a theme, and the settings          *)
(* directive, which is part of most views, titles them and goes back. For  *)
(* that it compares the title with the translation of "Settings".          *)
(*                                                                         *)
(* These are the views of the build "phantom" on Windows: there is no      *)
(* forced login and no sandbox, and the licence counts as "Pro".           *)
(*                                                                         *)
(* The service and the host answer in any order, each from a thread pool;  *)
(* the page runs what arrives and what its parts trigger from $timeout, in *)
(* order.                                                                  *)
(***************************************************************************)
EXTENDS Naturals, Sequences

CONSTANTS
  NoView,        \* undefined
  MaxClicks      \* bound: how often the user clicks

\* The views with the settings directive, which have a title and a way back.
TitledViews == {"settingsView", "wifiView", "regionsView", "displaySettingsView",
                "startDiagnosticDataView", "collectDiagnosticDataView", "sentDiagnosticDataView",
                "progressDiagnosticDataView", "confirmSentDataView"}
Views == TitledViews \cup {"mainView", "themeSelectionView", "trialView"}

VARIABLES
  currentView,       \* VpnController's $scope.currentView
  back,              \* VpnController's $scope.back
  titled,            \* the view that the title is about
  titleTranslated,   \* the title is in the user's language
  translated,        \* gettextCatalog has the user's language
  headerDisabled,    \* the header's $scope.headerDisabled
  displayed,         \* the service's themeSelection.displayed
  showSettingsView,  \* the host was started to show the settings
  asked,             \* requests under way to the service
  answers,           \* replies and notifications under way to the page
  timeouts,          \* the tasks given to $timeout
  clicks,            \* how often the user has clicked
  late               \* history: an answer to a first request came after what it is for

pageVars == <<currentView, back, titled, titleTranslated, translated, headerDisabled>>
serviceVars == <<displayed, showSettingsView, asked, answers>>
vars == <<pageVars, serviceVars, timeouts, clicks, late>>

ChangeView(v) == [kind |-> "changeView", view |-> v]
View(v, old) == [kind |-> "view", view |-> v, back |-> old]
ViewBack == [kind |-> "viewBack"]
EnableHeader == [kind |-> "enableHeader"]
Answer(to, value) == [kind |-> to, value |-> value]

Questions == {"sandboxed", "theme", "headerTheme", "displayed", "send"}
Answers == {Answer(to, b) : to \in {"language", "startSettings", "sandboxed", "theme", "headerTheme", "diagnosticStatus"}, b \in BOOLEAN}
Tasks == Answers \cup {ChangeView(v) : v \in Views \cup {NoView}}
           \cup {View(v, old) : v \in Views, old \in Views} \cup {ViewBack, EnableHeader}

TypeOK ==
  /\ currentView \in Views \cup {NoView} /\ back \in Views \cup {NoView}
  /\ titled \in TitledViews \cup {NoView}
  /\ titleTranslated \in BOOLEAN /\ translated \in BOOLEAN /\ headerDisabled \in BOOLEAN
  /\ displayed \in BOOLEAN /\ showSettingsView \in BOOLEAN
  /\ asked \subseteq Questions /\ answers \subseteq Answers
  /\ timeouts \in Seq(Tasks)
  /\ clicks \in 0..MaxClicks /\ late \in BOOLEAN

\* The page is loaded and has sent its first requests; the host has answered its own.
Init ==
  /\ currentView = "mainView" /\ back = NoView
  /\ titled = NoView /\ titleTranslated = FALSE /\ translated = FALSE
  /\ headerDisabled = FALSE
  /\ displayed \in BOOLEAN /\ showSettingsView \in BOOLEAN
  /\ asked = {"sandboxed", "headerTheme"}
  /\ answers = {Answer("language", TRUE), Answer("startSettings", showSettingsView)}
  /\ timeouts = <<>>
  /\ clicks = 0 /\ late = FALSE

-----------------------------------------------------------------------------
(* The service and the way to the page.                                    *)

\* The service answers, remembers that the theme has been asked for, or sends the
\* diagnostic data and reports later whether that worked.
ServiceHandles(r) ==
  /\ r \in asked
  /\ asked' = asked \ {r}
  /\ displayed' = (displayed \/ r = "displayed")
  /\ \E b \in BOOLEAN :
       answers' = answers \cup (CASE r \in {"theme", "headerTheme"} -> {Answer(r, displayed)}
                                  [] r = "sandboxed" -> {Answer(r, FALSE)}
                                  [] r = "send" -> {Answer("diagnosticStatus", b)}
                                  [] r = "displayed" -> {})
  /\ UNCHANGED <<pageVars, showSettingsView, timeouts, clicks, late>>

\* Answers whose callbacks trigger nothing. They arrive here when they are run, which is
\* as good as having arrived just before the tasks they would have to wait for.
Silent == {"language", "sandboxed", "headerTheme"}

\* External.onMessage
Deliver(a) ==
  /\ a \in answers /\ a.kind \notin Silent
  /\ answers' = answers \ {a}
  /\ timeouts' = Append(timeouts, a)
  /\ UNCHANGED <<pageVars, displayed, showSettingsView, asked, clicks, late>>

-----------------------------------------------------------------------------
(* The tasks of the page, first in first out.                              *)

Due(kind) == timeouts # <<>> /\ Head(timeouts).kind = kind
Task == Head(timeouts)
RunsAndSchedules(tasks) == timeouts' = Tail(timeouts) \o tasks

Arrives(a) == a \in answers /\ answers' = answers \ {a} /\ UNCHANGED timeouts

\* A part of the page has already asked for another view.
ViewUnderWay == \E i \in 2..Len(timeouts) : timeouts[i].kind \in {"view", "viewBack", "changeView"}

\* The language of the user is set; titles that are shown keep theirs.
LanguageArrives ==
  /\ Arrives(Answer("language", TRUE))
  /\ translated' = TRUE
  /\ late' = (late \/ titled # NoView)
  /\ UNCHANGED <<currentView, back, titled, titleTranslated, headerDisabled, displayed, showSettingsView, asked, clicks>>

\* A host that was started for the settings shows them.
StartSettingsArrives ==
  /\ Due("startSettings")
  /\ RunsAndSchedules(IF Task.value THEN <<ChangeView("settingsView")>> ELSE <<>>)
  /\ late' = (late \/ (Task.value /\ (currentView # "mainView" \/ ViewUnderWay)))
  /\ UNCHANGED <<pageVars, serviceVars, clicks>>

\* The page is not sandboxed; VpnController asks whether to show the themes.
SandboxedArrives ==
  /\ Arrives(Answer("sandboxed", FALSE))
  /\ asked' = asked \cup {"theme"}
  /\ UNCHANGED <<pageVars, displayed, showSettingsView, clicks, late>>

\* VpnController's showThemeSelectionIfNeeded. The view it repeats may no longer be
\* the one that will be shown by then.
ThemeArrives ==
  /\ Due("theme")
  /\ RunsAndSchedules(<<ChangeView(IF Task.value THEN currentView ELSE "themeSelectionView")>>)
  /\ UNCHANGED <<pageVars, serviceVars, clicks, late>>

\* The header's disableHeaderIfInThemeSelection.
HeaderThemeArrives ==
  \E b \in BOOLEAN :
    /\ Arrives(Answer("headerTheme", b))
    /\ headerDisabled' = (headerDisabled \/ ~b)
    /\ late' = (late \/ clicks > 0)
    /\ UNCHANGED <<currentView, back, titled, titleTranslated, translated, displayed, showSettingsView, asked, clicks>>

\* The service has sent the diagnostic data, or has failed to.
DiagnosticStatusArrives ==
  /\ Due("diagnosticStatus")
  /\ RunsAndSchedules(IF Task.value THEN <<View("confirmSentDataView", "mainView")>> ELSE <<ChangeView("mainView")>>)
  /\ UNCHANGED <<pageVars, serviceVars, clicks, late>>

\* VPN_CHANGEVIEW: VpnController shows the view and the settings directive titles it.
ChangeViewRuns ==
  /\ Due("changeView")
  /\ currentView' = Task.view
  /\ IF Task.view \in TitledViews
     THEN titled' = Task.view /\ titleTranslated' = translated
     ELSE UNCHANGED <<titled, titleTranslated>>
  /\ RunsAndSchedules(<<>>)
  /\ UNCHANGED <<back, translated, headerDisabled, serviceVars, clicks, late>>

\* VPN_VIEW: the way back is set before the view changes.
ViewRuns ==
  /\ Due("view")
  /\ back' = Task.back
  /\ RunsAndSchedules(<<ChangeView(Task.view)>>)
  /\ UNCHANGED <<currentView, titled, titleTranslated, translated, headerDisabled, serviceVars, clicks, late>>

\* VPN_VIEW_BACK
ViewBackRuns ==
  /\ Due("viewBack")
  /\ RunsAndSchedules(<<ChangeView(back)>>)
  /\ UNCHANGED <<pageVars, serviceVars, clicks, late>>

\* VPN_ENABLE_HEADER
EnableHeaderRuns ==
  /\ Due("enableHeader")
  /\ headerDisabled' = FALSE
  /\ RunsAndSchedules(<<>>)
  /\ UNCHANGED <<currentView, back, titled, titleTranslated, translated, serviceVars, clicks, late>>

-----------------------------------------------------------------------------
(* The user. A click falls between two bursts of tasks, which last as long as the page *)
(* needs to run what is due at once.                                       *)

Acts == timeouts = <<>> /\ clicks < MaxClicks /\ clicks' = clicks + 1
Triggers(tasks) == timeouts' = tasks

\* The header's buttons, on every view.
HeaderClicked ==
  /\ Acts /\ ~headerDisabled
  /\ \E v \in {"settingsView", "startDiagnosticDataView"} : Triggers(<<View(v, "mainView")>>)
  /\ UNCHANGED <<pageVars, serviceVars, late>>

\* What leads from one view to another: the location and the trial banner, the entries
\* of the settings, the steps of the diagnosis.
Links ==
  [v \in Views |->
     CASE v = "mainView" -> {View("regionsView", "mainView"), ChangeView("trialView")}
       [] v = "settingsView" -> {View(w, "settingsView") : w \in {"regionsView", "wifiView", "displaySettingsView"}}
       [] v = "startDiagnosticDataView" -> {View("collectDiagnosticDataView", "mainView")}
       [] v = "collectDiagnosticDataView" -> {View("sentDiagnosticDataView", "mainView")}
       [] v \in {"regionsView", "confirmSentDataView", "trialView"} -> {ChangeView("mainView")}
       [] OTHER -> {}]

LinkClicked ==
  /\ Acts /\ currentView \in Views
  /\ \E task \in Links[currentView] : Triggers(<<task>>)
  /\ UNCHANGED <<pageVars, serviceVars, late>>

\* The diagnostic data are sent.
SendClicked ==
  /\ Acts /\ currentView = "sentDiagnosticDataView"
  /\ Triggers(<<View("progressDiagnosticDataView", "mainView")>>)
  /\ asked' = asked \cup {"send"}
  /\ UNCHANGED <<pageVars, displayed, showSettingsView, answers, late>>

\* The settings directive's isSettingsView compares the title with a translation.
isSettingsView == titled = "settingsView" /\ titleTranslated = translated

\* The settings directive's backButtonClicked.
BackClicked ==
  /\ Acts /\ currentView \in TitledViews
  /\ Triggers(IF isSettingsView THEN <<ChangeView("mainView")>> ELSE <<ViewBack>>)
  /\ UNCHANGED <<pageVars, serviceVars, late>>

\* Mutant: the header is left as it is.
GetStartedOnly ==
  /\ Acts /\ currentView = "themeSelectionView"
  /\ asked' = asked \cup {"displayed"}
  /\ Triggers(<<ChangeView("mainView")>>)
  /\ UNCHANGED <<pageVars, displayed, showSettingsView, answers, late>>

\* The theme selection's getStarted and showMainView.
GetStarted ==
  /\ Acts /\ currentView = "themeSelectionView"
  /\ asked' = asked \cup {"displayed"}
  /\ Triggers(<<ChangeView("mainView"), EnableHeader>>)
  /\ UNCHANGED <<pageVars, displayed, showSettingsView, answers, late>>

-----------------------------------------------------------------------------
RunTimeout ==
  \/ LanguageArrives \/ SandboxedArrives \/ HeaderThemeArrives
  \/ StartSettingsArrives \/ ThemeArrives \/ DiagnosticStatusArrives
  \/ ChangeViewRuns \/ ViewRuns \/ ViewBackRuns \/ EnableHeaderRuns

Next ==
  \/ \E r \in Questions : ServiceHandles(r)
  \/ \E a \in Answers : Deliver(a)
  \/ RunTimeout
  \/ HeaderClicked \/ LinkClicked \/ SendClicked \/ BackClicked \/ GetStarted

Spec == Init /\ [][Next]_vars

-----------------------------------------------------------------------------
Quiet == asked = {} /\ answers = {} /\ timeouts = <<>>

\* The back button of the view leads to the main view, perhaps through the settings.
LeadsBack == isSettingsView \/ back \in {"mainView", "settingsView"}

\* The page never strands the user: it shows a view, the back button of a titled view
\* leads to the main view, and on the main view the header works. That needs answers
\* that come in time: the language before the first title, the host's view before that
\* of the theme selection, the header's before the user has chosen a theme.
NeverStranded ==
  Quiet /\ ~late =>
    /\ currentView \in Views
    /\ currentView \in TitledViews => LeadsBack
    /\ currentView = "mainView" => ~headerDisabled
=============================================================================
