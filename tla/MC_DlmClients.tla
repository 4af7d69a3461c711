---------------------------- MODULE MC_DlmClients ----------------------------
(* DlmClients for TLC: the nodes are interchangeable, except the master. *)
EXTENDS DlmClients, TLC
Symmetry == Permutations(Node \ {Master})
=============================================================================
