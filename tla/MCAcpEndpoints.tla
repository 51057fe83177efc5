--------------------------- MODULE MCAcpEndpoints ---------------------------
(* AcpEndpoints for TLC: peers are interchangeable. *)
EXTENDS AcpEndpoints, TLC

Symmetry == Permutations(Peers)
=============================================================================
