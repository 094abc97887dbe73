--------------------------- MODULE MCProvisioning ---------------------------
(* Two accounts of one service: a base account and one derived from it.      *)
EXTENDS Provisioning, TLC

CONSTANTS base, derived

MCBaseOf == (base :> base) @@ (derived :> base)

\* The names an earlier partial operation may have left behind.
MCLeftoverNames == {Name("user", derived), Name("schema", base)}
=============================================================================
