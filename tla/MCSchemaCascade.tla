--------------------------- MODULE MCSchemaCascade ---------------------------
(* SchemaCascade with three names, two of which can refer to the third and to *)
(* each other.                                                               *)
EXTENDS SchemaCascade

CONSTANTS x1, x2, x3

MCNames == {x1, x2, x3}

=============================================================================
