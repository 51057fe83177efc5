-------------------------- MODULE ConnectionStatus --------------------------
(***************************************************************************)
(* The vocabulary of the Windows connection engine: the states a Session   *)
(* reports, the errors it can carry, and the pure decisions OpenVpn takes  *)
(* on a reported error.                                                    *)
(***************************************************************************)
EXTENDS Naturals

\* ConnectionState (Unknown is the initial value VpnService shows to the GUI).
ConnectionStates == {"Disconnected", "Connecting", "Connected", "Disconnecting"}

\* The soft-SIGTERM reasons after which a new attempt is worth making.
RetryErrors == {"PingReset", "DecryptionError", "ServerError", "AuthError", "TlsError"}

\* ErrorType, without the two members nothing in this component raises
\* (TrafficLimitReached, TapAdapterRestartRequired is the same kind as TapAdapterError).
ErrorTypes == RetryErrors \cup
  {"NoError", "DnsError", "NetworkError", "GeneralError", "Fatal", "ConnectedError",
   "TapAdapterError", "UdpErrorReconnecting"}

\* Protocol of RemoteConnectionSettings; "none" stands for a null region.
Protocols == {"udp", "tcp"}

Status(newState, error, reconnect) ==
  [newState |-> newState, error |-> error, reconnect |-> reconnect]

-----------------------------------------------------------------------------
\* Mutant: attempts are not counted.
RetriesForEver(error, attempts, region) ==
  error \in RetryErrors /\ region # "none"

TryReconnectDueToOpenVpnError(error, attempts, region) ==
  error \in RetryErrors /\ attempts < 1 /\ region # "none"

\* DecideConnectionProtocol gives every udp region a tcp fallback and no other.
RetryWithFallbackProtocol(error, region) ==
  error = "GeneralError" /\ region = "udp"

\* The session carries an error that makes TryReconnecting return true.
\* attempts is reconnectAttempts, region the protocol of latestSelectedRegion.
TryReconnecting(status, suppressed, attempts, region) ==
  /\ status.newState = "Disconnected"
  /\ ~suppressed
  /\ \/ TryReconnectDueToOpenVpnError(status.error, attempts, region)
     \/ RetryWithFallbackProtocol(status.error, region)
=============================================================================
