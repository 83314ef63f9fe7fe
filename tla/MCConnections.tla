--------------------------- MODULE MCConnections ---------------------------
(***************************************************************************)
(* Three connections for one handler place and two slots of the registry:  *)
(* the two listeners race for the place, and what one of them rejects or   *)
(* cannot start, another connection may follow.  Liveness is checked too,  *)
(* so there is no symmetry.                                                *)
(***************************************************************************)
EXTENDS Connections

CONSTANTS c1, c2, c3

ThreeConns == {c1, c2, c3}
=============================================================================
