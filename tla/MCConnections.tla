--------------------------- MODULE MCConnections ---------------------------
(***************************************************************************)
(* Two connections, of one peer or of two.                                 *)
(***************************************************************************)
EXTENDS Connections

CONSTANTS c1, c2

MCRemotes == {(c1 :> "A") @@ (c2 :> "A"), (c1 :> "A") @@ (c2 :> "B")}
=============================================================================
