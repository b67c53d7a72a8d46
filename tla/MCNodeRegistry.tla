--------------------------- MODULE MCNodeRegistry ---------------------------
(* Instance of NodeRegistry for TLC. *)
EXTENDS NodeRegistry

CONSTANTS a1, a2, a3

MCAddresses == {a1, a2, a3}

=============================================================================
