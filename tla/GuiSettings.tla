----------------------------- MODULE GuiSettings -----------------------------
(***************************************************************************)
(* The application settings in the web user interface (vpn-1.0.0.js). The  *)
(* service keeps them as one object, and the page has three copies of it:  *)
(* that of the switches in the settings (the features directive), that of  *)
(* VpnController and that of the question about diagnostic data. Each part *)
(* changes a field of its own copy and sends the whole copy.               *)
(*                                                                         *)
(* The service on Windows never tells the page of a change: it has the     *)
(* member "appSettings", but no event "appSettingsSubscription". A copy is *)
(* refreshed only by what its part requests.                               *)
(***************************************************************************)
EXTENDS Naturals, Sequences

CONSTANTS
  MaxClicks,     \* bound: what the user does
  MaxLicenses    \* bound: how often the licence changes

Parts == {"features", "controller", "consent"}

\* The fields that some part of the page changes.
Settings == [killSwitch : BOOLEAN, appImprovement : BOOLEAN, showFastFeedback : BOOLEAN]

VARIABLES
  settings,      \* the service's settings
  appSettings,   \* for each part of the page its copy
  toService,     \* requests under way to the service
  toPage,        \* replies under way to the page
  consented,     \* the question about diagnostic data has been answered
  clicks,        \* what the user has done
  licenses       \* how often the licence has changed

vars == <<settings, appSettings, toService, toPage, consented, clicks, licenses>>

Get(part) == [kind |-> "get", part |-> part]
Set(value) == [kind |-> "set", value |-> value]
Reply(part, value) == [part |-> part, value |-> value]

TypeOK ==
  /\ settings \in Settings /\ appSettings \in [Parts -> Settings]
  /\ toService \in Seq({Get(p) : p \in Parts} \cup {Set(s) : s \in Settings})
  /\ toPage \in Seq({Reply(p, s) : p \in Parts, s \in Settings})
  /\ consented \in BOOLEAN
  /\ clicks \in 0..MaxClicks /\ licenses \in 0..MaxLicenses

\* Every part has received the settings it requested when the page was loaded.
Init ==
  /\ settings \in Settings
  /\ appSettings = [p \in Parts |-> settings]
  /\ toService = <<>> /\ toPage = <<>>
  /\ consented \in BOOLEAN
  /\ clicks = 0 /\ licenses = 0

-----------------------------------------------------------------------------
\* The service's AppSettings.Get and Set: every field is replaced.
ServiceHandles ==
  /\ toService # <<>>
  /\ LET request == Head(toService) IN
       IF request.kind = "set"
       THEN settings' = request.value /\ UNCHANGED toPage
       ELSE toPage' = Append(toPage, Reply(request.part, settings)) /\ UNCHANGED settings
  /\ toService' = Tail(toService)
  /\ UNCHANGED <<appSettings, consented, clicks, licenses>>

\* The callback of a part's request replaces its copy.
ReplyArrives ==
  /\ toPage # <<>>
  /\ appSettings' = [appSettings EXCEPT ![Head(toPage).part] = Head(toPage).value]
  /\ toPage' = Tail(toPage)
  /\ UNCHANGED <<settings, toService, consented, clicks, licenses>>

\* A part sets a field of its copy and sends all of it.
Pushes(part, field, value) ==
  /\ appSettings' = [appSettings EXCEPT ![part][field] = value]
  /\ toService' = Append(toService, Set(appSettings'[part]))

Acts == clicks < MaxClicks /\ clicks' = clicks + 1

\* A switch of the settings: updateProFeature and updateSettings. The header leads to
\* the settings once the question about diagnostic data is answered.
Toggle(field) ==
  /\ Acts /\ consented
  /\ Pushes("features", field, ~appSettings["features"][field])
  /\ UNCHANGED <<settings, toPage, consented, licenses>>

\* VpnController's setDontDisplayFastFeedback, for "Don't show again" in the dialog.
DontShowAgain ==
  /\ Acts /\ consented
  /\ Pushes("controller", "showFastFeedback", FALSE)
  /\ UNCHANGED <<settings, toPage, consented, licenses>>

\* The answer to the question about diagnostic data.
Send(accepted) ==
  /\ Acts /\ ~consented
  /\ Pushes("consent", "appImprovement", accepted)
  /\ consented' = TRUE
  /\ UNCHANGED <<settings, toPage, licenses>>

\* VPN_LICENSE_CHANGED: only the features directive requests the settings again.
LicenseChanged ==
  /\ licenses < MaxLicenses
  /\ licenses' = licenses + 1
  /\ toService' = Append(toService, Get("features"))
  /\ UNCHANGED <<settings, appSettings, toPage, consented, clicks>>

Next ==
  \/ ServiceHandles \/ ReplyArrives
  \/ \E f \in {"killSwitch", "appImprovement"} : Toggle(f)
  \/ DontShowAgain
  \/ \E a \in BOOLEAN : Send(a)
  \/ LicenseChanged

Spec == Init /\ [][Next]_vars

-----------------------------------------------------------------------------
\* The switch "Block all internet traffic if VPN connection drops" (features.html:88)
\* is on only when the service blocks the traffic, once nothing is under way.
ShownKillSwitchWorks ==
  toService = <<>> /\ toPage = <<>> /\ appSettings["features"].killSwitch => settings.killSwitch
=============================================================================
