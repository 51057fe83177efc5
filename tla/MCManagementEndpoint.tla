------------------------ MODULE MCManagementEndpoint ------------------------
(* ManagementEndpoint for TLC. *)
EXTENDS ManagementEndpoint
=============================================================================
