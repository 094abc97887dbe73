--------------------------- MODULE MCMongoGrants ---------------------------
(* Two collections and a system collection; grants on one or on all. *)
EXTENDS MongoGrants

CONSTANTS c1, c2, sys

G(type, target) == [type |-> type, target |-> target]

MCGrants == {G("read", All), G("full", All), G("create", All),
             G("read", c1), G("full", c1), G("read", sys)}

\* Grants that share a target, a rule and a collection, and grants that are refused.
MCRequests == { {},
                {G("read", c1)},
                {G("full", c1), G("read", c1)},
                {G("read", All), G("full", c1)},
                {G("full", All), G("read", All)},
                {G("full", All), G("read", sys)},
                {G("read", c1), G("create", All)} }
=============================================================================
