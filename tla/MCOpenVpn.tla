----------------------------- MODULE MCOpenVpn -----------------------------
(* OpenVpn for TLC: workers are interchangeable. *)
EXTENDS OpenVpn, TLC

Symmetry == Permutations(Workers)
=============================================================================
