----------------------------- MODULE KillSwitch -----------------------------
(***************************************************************************)
(* The part of VpnService that reacts to the status of the connection: the *)
(* flag that tells a requested disconnect from a dropped connection, and   *)
(* the NetworkBlocker that cuts all traffic outside the tunnel.  The       *)
(* handler runs on whichever thread changed the status and takes no lock,  *)
(* so each of its blocking points ends an operator: it decides, then runs  *)
(* the blocker, which is a process it waits for, then goes on.             *)
(***************************************************************************)
EXTENDS ConnectionStatus

CONSTANTS
  BlockOnConnect,       \* setting EnableNetworkBlockerOnConnect
  KillSwitchSettings    \* what the user may have set the kill switch to

ASSUME SettingsAssumption ==
  BlockOnConnect \in BOOLEAN /\ KillSwitchSettings \subseteq BOOLEAN

VARIABLES
  killSwitch,               \* ProductSettings.KillSwitchUserSetting
  disconnectWasRequested,
  networkBlocked,           \* the filters of NetworkBlocker, which outlive the service
  openVpnConnectionState,   \* the last status this handler finished with
  reblocked,  \* history: a block was back before the kill switch was stored as off, and is still there
  late        \* history: threads whose decision to unblock is older than the last switching on

historyVars == <<reblocked, late>>
ksVars == <<killSwitch, disconnectWasRequested, networkBlocked, openVpnConnectionState, reblocked, late>>

KillSwitchTypeOK ==
  /\ killSwitch \in BOOLEAN
  /\ disconnectWasRequested \in BOOLEAN
  /\ networkBlocked \in BOOLEAN
  /\ openVpnConnectionState \in ConnectionStates \cup {"Unknown"}
  /\ reblocked \in BOOLEAN

KillSwitchInit ==
  /\ killSwitch \in KillSwitchSettings
  /\ disconnectWasRequested = FALSE
  /\ networkBlocked = FALSE
  /\ openVpnConnectionState = "Unknown"
  /\ reblocked = FALSE
  /\ late = {}

-----------------------------------------------------------------------------
\* DisconnectOpenVpn, up to its call of OpenVpn.Disconnect.
RequestDisconnect ==
  /\ disconnectWasRequested' = TRUE
  /\ UNCHANGED <<killSwitch, networkBlocked, openVpnConnectionState, historyVars>>

\* Every status ends with StatusChanged and is remembered.
PublishStatus(newState) ==
  /\ openVpnConnectionState' = newState
  /\ UNCHANGED <<killSwitch, disconnectWasRequested, networkBlocked, historyVars>>

\* Connected: the handler decides to block, sleeps 500 ms, then blocks.
BlocksOnConnected == killSwitch \/ BlockOnConnect

EnableBlocker ==
  /\ networkBlocked' = TRUE
  /\ openVpnConnectionState' = "Connected"
  /\ UNCHANGED <<killSwitch, disconnectWasRequested, historyVars>>

\* Mutant: the setting is not looked at.
UnblocksOnRequestOnly == disconnectWasRequested

\* Disconnected: the handler decides whether anybody still wants the block.
UnblocksOnDisconnected == disconnectWasRequested \/ ~killSwitch

DecideToUnblock(t) ==
  /\ late' = late \ {t}
  /\ UNCHANGED <<killSwitch, disconnectWasRequested, networkBlocked, openVpnConnectionState, reblocked>>

\* NetworkBlocker.Disable; all that the "UnblockTraffic" button of the kill switch notification does.
DisableBlocker ==
  /\ networkBlocked' = FALSE
  /\ reblocked' = FALSE
  /\ UNCHANGED <<killSwitch, disconnectWasRequested, openVpnConnectionState, late>>

\* Disconnected, once the blocker process has run: the request is forgotten.
ForgetRequest ==
  /\ disconnectWasRequested' = FALSE
  /\ openVpnConnectionState' = "Disconnected"
  /\ UNCHANGED <<killSwitch, networkBlocked, historyVars>>

-----------------------------------------------------------------------------
\* Mutant: a new service lifts every block.
CleanupAlways ==
  /\ disconnectWasRequested' = FALSE
  /\ networkBlocked' = FALSE
  /\ openVpnConnectionState' = "Unknown"
  /\ reblocked' = FALSE /\ late' = {}
  /\ UNCHANGED killSwitch

\* CleanupEnvironment, in a new service: the setting is what it was, and a block stays
\* only when the kill switch is on.
CleanupEnvironment ==
  /\ disconnectWasRequested' = FALSE
  /\ networkBlocked' = (networkBlocked /\ killSwitch)
  /\ openVpnConnectionState' = "Unknown"
  /\ reblocked' = FALSE /\ late' = {}
  /\ UNCHANGED killSwitch

\* AppSettings.Set, as far as it concerns the kill switch: switching it on stores it at once.
\* What the threads in unblocking have decided is then out of date.
StoreOn(unblocking) ==
  /\ killSwitch' = TRUE
  /\ reblocked' = FALSE
  /\ late' = late \cup unblocking
  /\ UNCHANGED <<disconnectWasRequested, networkBlocked, openVpnConnectionState>>

\* Switching it off lifts the block first (DisableBlocker), and stores the setting after that.
StoreOff ==
  /\ killSwitch' = FALSE
  /\ reblocked' = networkBlocked
  /\ UNCHANGED <<disconnectWasRequested, networkBlocked, openVpnConnectionState, late>>
=============================================================================
