---------------------------- MODULE MCSqlGrants ----------------------------
(* Two tables; the grants of one type or the other, on one table or on all. *)
EXTENDS SqlGrants

CONSTANTS t1, t2

G(type, target) == [type |-> type, target |-> target]

MCGrants == {G("read", All), G("full", All), G("create", All),
             G("read", t1), G("full", t1), G("create", t1)}

\* Grants that overlap in every way: a rule and a table, read and full, create and
\* full, and one that applyPerms refuses after another one. Those without create are
\* what Oracle supports.
MCRequests == { {},
                {G("read", t1)},
                {G("read", All), G("full", t1)},
                {G("full", All), G("read", t1)},
                {G("create", All), G("full", All)},
                {G("full", t1), G("create", t1)} }

\* A rule and a grant on one table, of which the rule is given up again.
MCNarrowing == { {G("full", All), G("read", t1)}, {G("read", t1)} }
=============================================================================
