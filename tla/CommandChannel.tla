--------------------------- MODULE CommandChannel ---------------------------
(***************************************************************************)
(* What ManagementEndpoint promises the Session that uses it: the commands *)
(* it is given reach OpenVPN in the order they were given, each at most    *)
(* once, and none before the one in front of it has been answered.         *)
(* Commands are numbered in the order they are given.                      *)
(***************************************************************************)
EXTENDS Naturals

VARIABLES
  requested,   \* commands given
  executed,    \* commands OpenVPN has executed
  answered     \* commands whose answer has been taken

channel == <<requested, executed, answered>>

ChannelInit == requested = 0 /\ executed = 0 /\ answered = 0

Request == requested' = requested + 1 /\ UNCHANGED <<executed, answered>>

Execute ==
  /\ executed = answered /\ executed < requested
  /\ executed' = executed + 1
  /\ UNCHANGED <<requested, answered>>

Answer ==
  /\ answered < executed
  /\ answered' = answered + 1
  /\ UNCHANGED <<requested, executed>>

ChannelSpec == ChannelInit /\ [][Request \/ Execute \/ Answer]_channel
=============================================================================
