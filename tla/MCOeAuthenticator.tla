------------------------- MODULE MCOeAuthenticator -------------------------
(* OeAuthenticator for TLC: two updates, whose names the configuration gives. *)
EXTENDS OeAuthenticator

CONSTANTS t1, t2
=============================================================================
