--------------------------- MODULE MCNameResolution ---------------------------
(* The words a_b and axb, which need no quotes, and a-b, which does; as LIKE  *)
(* patterns the names of the last two match only themselves.                 *)
EXTENDS NameResolution

MCWords == {"a_b", "axb", "a-b"}
MCPlain == {"a_b", "axb"}
MCLike == [w \in MCWords |-> IF w = "a_b" THEN MCWords ELSE {w}]

=============================================================================
