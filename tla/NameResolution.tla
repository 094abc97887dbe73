---------------------------- MODULE NameResolution ----------------------------
(***************************************************************************)
(* How a grant on one table finds its table.  The target of a grant is a   *)
(* name somebody wrote; the provider looks it up in the service's catalog, *)
(* in some spellings and some order, and then names what it found in the   *)
(* GRANT or REVOKE statement.  In between, and between the grant and its   *)
(* revocation, the application creates, drops and renames tables and views.*)
(*                                                                         *)
(* The other statements of a grant, and what happens to a batch of grants  *)
(* when one fails, are in SqlGrants.                                       *)
(***************************************************************************)
EXTENDS Naturals, Sequences, FiniteSets

CONSTANTS
    NameProviders,  \* the providers under check
    Words,          \* what is written in a name, apart from the case of its letters
    Plain,          \* the words that need no quotes
    Like,           \* for each word, those its name matches as a LIKE pattern
    MaxObjects, MaxChanges, MaxFaults  \* bounds on tables and views, their changes, failures

ASSUME NameProvidersAssumption ==
    NameProviders \subseteq {"clickhouse", "databricks", "sqlserver", "oracle", "snowflake"}
ASSUME WordsAssumption ==
    /\ Plain \subseteq Words
    /\ Like \in [Words -> SUBSET Words] /\ \A w \in Words : w \in Like[w]
ASSUME BoundsAssumption == MaxObjects \in Nat /\ MaxChanges \in Nat /\ MaxFaults \in Nat

VARIABLES
    provider,
    target,    \* the name in the grant
    catalog,   \* the tables and views of the schema
    held,      \* the tables and views the account has the privilege on
    status,    \* the grant: "none", "applied" or, off the record, "revoking"
    op,        \* the pass of applyPerms that runs: "none", "grant", "revoke"
    left,      \* the catalog queries left of it
    found,     \* what they found, at most one
    renamed,   \* history: those held that were renamed since they were granted
    shadowed,  \* history: those held while the lookup preferred another spelling
    lapsed,    \* history: one that was held was dropped, or lost its name
    serial, changes, faults

call == << op, left, found >>
past == << renamed, shadowed, lapsed >>
vars == << provider, target, catalog, held, status, call, past, serial, changes, faults >>

Names == [word : Words, case : {"lower", "upper"}]
Upper(n) == [n EXCEPT !.case = "upper"]
Lower(n) == [n EXCEPT !.case = "lower"]

Kinds == {"table", "view"}
Objects == [id : 1 .. MaxObjects, name : Names, kind : Kinds]

\* The spellings of the target.
Spellings == {target, Upper(target), Lower(target)}

\* ClickHouse keeps privileges by name, whatever it denotes.
ByName == provider = "clickhouse"
Key(o) == IF ByName THEN o.name ELSE o.id

TypeOK ==
    /\ provider \in NameProviders /\ target \in Names
    /\ catalog \subseteq Objects /\ found \subseteq Objects
    /\ \A o, p \in catalog : o.name = p.name => o = p
    /\ held \subseteq IF ByName THEN Names ELSE {o.id : o \in catalog}
    /\ renamed \subseteq 1 .. MaxObjects /\ shadowed \subseteq 1 .. MaxObjects
    /\ status \in {"none", "applied", "revoking"} /\ op \in {"none", "grant", "revoke"}
    /\ Cardinality(found) <= 1 /\ (op = "none" => found = {} /\ left = << >>)
    /\ lapsed \in BOOLEAN
    /\ serial \in 0 .. MaxObjects /\ changes \in 0 .. MaxChanges /\ faults \in 0 .. MaxFaults

Init ==
    /\ provider \in NameProviders /\ target \in Names
    /\ catalog = {} /\ held = {} /\ status = "none"
    /\ op = "none" /\ left = << >> /\ found = {}
    /\ renamed = {} /\ shadowed = {} /\ lapsed = FALSE
    /\ serial = 0 /\ changes = 0 /\ faults = 0

-----------------------------------------------------------------------------
(* The lookup: catalog queries in turn, each for some names in turn          *)

For(kinds, name) == [kinds |-> kinds, name |-> name]

\* Mutant: everything SHOW ... LIKE returns is taken for the target.
AnyShown(o, want) == o.name.word \in Like[want.name.word] /\ o.kind \in want.kinds

\* An object is found under its stored name.
Answers(o, want) == o.name = want.name /\ o.kind \in want.kinds

\* resolveTableOrView, applyObjectPerm, resolveTable and the two tableExists.
Queries ==
    CASE provider = "snowflake" ->
            << << For({"table"}, target), For({"table"}, Upper(target)) >>,
               << For({"view"}, target), For({"view"}, Upper(target)) >> >>
      [] provider = "oracle" ->
            << << For(Kinds, target) >> >>
              \o (IF target = Upper(target) THEN << >> ELSE << << For(Kinds, Upper(target)) >> >>)
      [] provider = "databricks" -> << << For(Kinds, Lower(target)) >> >>
      [] provider \in {"sqlserver", "clickhouse"} -> << << For(Kinds, target) >> >>

\* The objects of cat that the first of the wanted names to be there denotes.
FirstOf(cat, wants) ==
    {o \in cat : \E i \in 1 .. Len(wants) :
        /\ Answers(o, wants[i])
        /\ \A j \in 1 .. i - 1, p \in cat : ~Answers(p, wants[j])}

\* Snowflake's quoting uppercases plain names, the ones from the catalog too.
Quoted(n) == IF provider = "snowflake" /\ n.word \in Plain THEN Upper(n) ELSE n

\* Mutant: a statement goes for the object that was found, whatever it is called by then.
Itself(o, cat) == {p \in cat : p.id = o.id}

\* What a statement that names o refers to; Snowflake's says whether it is a view.
NamedBy(o, cat) ==
    {p \in cat : p.name = Quoted(o.name) /\ (provider = "snowflake" => p.kind = o.kind)}

\* What a whole pass would reach if nothing changed.
Reached(cat) ==
    UNION {NamedBy(o, cat) : o \in
        UNION {FirstOf(cat, Queries[i]) : i \in
            {k \in DOMAIN Queries : \A j \in 1 .. k - 1 : FirstOf(cat, Queries[j]) = {}}}}

Keys(objects) == {Key(o) : o \in objects}

\* The spellings among them that a lookup passes over for another one; names never are.
Shadows(keys, cat) ==
    IF ByName THEN {}
    ELSE keys \cap Keys({o \in cat : o.name \in Spellings} \ Reached(cat))

-----------------------------------------------------------------------------
(* The application                                                          *)

\* Unity Catalog stores names in lower case.
Storable(n) == provider = "databricks" => n = Lower(n)

AppChanges(moved) ==
    /\ changes < MaxChanges /\ changes' = changes + 1
    /\ renamed' = renamed \cup (IF ByName THEN {} ELSE held \cap Keys(moved))
    /\ shadowed' = shadowed \cup Shadows(held', catalog')
    /\ UNCHANGED << provider, target, status, call, faults >>

Free(n) == Storable(n) /\ \A o \in catalog : o.name # n

CreateObject(n, kind) ==
    /\ Free(n) /\ serial < MaxObjects
    /\ serial' = serial + 1
    /\ catalog' = catalog \cup {[id |-> serial + 1, name |-> n, kind |-> kind]}
    /\ UNCHANGED << held, lapsed >>
    /\ AppChanges({})

\* Its privileges go with it, but for those kept by name.
DropObject(o) ==
    /\ catalog' = catalog \ {o}
    /\ held' = IF ByName THEN held ELSE held \ {o.id}
    /\ lapsed' = (lapsed \/ Key(o) \in held)
    /\ UNCHANGED serial
    /\ AppChanges({})

\* Its privileges stay with it, but for those kept by name.
RenameObject(o, n) ==
    /\ Free(n)
    /\ catalog' = (catalog \ {o}) \cup {[o EXCEPT !.name = n]}
    /\ lapsed' = (lapsed \/ (ByName /\ Key(o) \in held))
    /\ UNCHANGED << held, serial >>
    /\ AppChanges({o})

Application ==
    \/ \E n \in Names, kind \in Kinds : CreateObject(n, kind)
    \/ \E o \in catalog : DropObject(o)
    \/ \E o \in catalog, n \in Names : RenameObject(o, n)

-----------------------------------------------------------------------------
(* The server                                                               *)

\* An update, or the reconciliation of a deferred grant.
StartGrant ==
    /\ op = "none" /\ status = "none"
    /\ op' = "grant" /\ left' = Queries
    /\ UNCHANGED << provider, target, catalog, held, status, found, past,
                    serial, changes, faults >>

\* An update no longer asks for the grant.
CommitRevoke ==
    /\ op = "none" /\ status = "applied"
    /\ status' = "revoking"
    /\ UNCHANGED << provider, target, catalog, held, call, past,
                    serial, changes, faults >>

\* Mutant: ClickHouse revokes like the others.
AlwaysQueries == Queries

\* ClickHouse revokes by name without a lookup.
RevokeQueries == IF ByName THEN << >> ELSE Queries

StartRevoke ==
    /\ op = "none" /\ status = "revoking"
    /\ op' = "revoke" /\ left' = RevokeQueries
    /\ UNCHANGED << provider, target, catalog, held, status, found, past,
                    serial, changes, faults >>

-----------------------------------------------------------------------------
(* The pass of applyPerms over the grant                                    *)

\* Mutant: the name found is kept for the next pass.
EndsWithName == op' = "none" /\ left' = << >> /\ UNCHANGED found

Ends == op' = "none" /\ left' = << >> /\ found' = {}

\* Mutant: a skipped revocation is left pending.
KeepsPending == status' = IF op = "revoke" THEN "revoking" ELSE "none"

\* Not there: the grant is deferred, the revocation skipped.
Passed == status' = "none"

Query ==
    /\ op # "none" /\ left # << >> /\ found = {}
    /\ LET hits == FirstOf(catalog, Head(left)) IN
         \/ \E o \in hits : found' = {o} /\ left' = << >> /\ UNCHANGED << op, status >>
         \/ hits = {} /\ Len(left) > 1 /\ left' = Tail(left)
              /\ UNCHANGED << op, found, status >>
         \/ hits = {} /\ Len(left) = 1 /\ Ends /\ Passed
    /\ UNCHANGED << provider, target, catalog, held, past, serial, changes, faults >>

Ready == op # "none" /\ left = << >>

\* The keys of what the statement refers to.
Addressed ==
    IF ByName THEN {target} ELSE Keys(UNION {NamedBy(o, catalog) : o \in found})

\* Mutant: a statement that finds nothing left to grant on is fine.
RunsAnyway == TRUE

\* It runs if that is still there.
Runs == Addressed # {}

Statement ==
    /\ Ready /\ Runs
    /\ IF op = "grant"
       THEN /\ held' = held \cup Addressed /\ status' = "applied" /\ lapsed' = FALSE
            /\ renamed' = renamed \ Addressed
            /\ shadowed' = (shadowed \ Addressed) \cup Shadows(Addressed, catalog)
       ELSE /\ held' = held \ Addressed /\ status' = "none"
            /\ UNCHANGED past
    /\ Ends
    /\ UNCHANGED << provider, target, catalog, serial, changes, faults >>

\* It was dropped or renamed since the lookup. Oracle takes that for deferred or
\* skipped; elsewhere the call fails, and is made again.
TargetVanished ==
    /\ Ready /\ ~Runs
    /\ IF provider = "oracle" THEN Passed ELSE UNCHANGED status
    /\ Ends
    /\ UNCHANGED << provider, target, catalog, held, past, serial, changes, faults >>

CallFails ==
    /\ op # "none" /\ faults < MaxFaults /\ faults' = faults + 1
    /\ Ends
    /\ UNCHANGED << provider, target, catalog, held, status, past, serial, changes >>

CallStep == Query \/ Statement \/ TargetVanished

Next == Application \/ StartGrant \/ CommitRevoke \/ StartRevoke \/ CallStep \/ CallFails

Spec == Init /\ [][Next]_vars

\* A call goes on, and the server revokes what it has committed to revoke.
FairSpec == Spec /\ WF_vars(CallStep) /\ WF_vars(StartRevoke)

-----------------------------------------------------------------------------
(* Properties                                                               *)

\* Whatever is created, dropped or renamed between a lookup and its statement, what a
\* grant reaches goes by a spelling of its target at that moment: never the others that a
\* wildcard in the target matches, and never the table the lookup found if it has got a
\* new name since. Only a table that was renamed after its grant is held by another name.
NeverAnotherTable ==
    \A o \in catalog : Key(o) \in held => o.name \in Spellings \/ Key(o) \in renamed

\* A grant that is reported as applied has reached a table or a view: one that is not
\* there, or not there any more when the statement runs, is deferred and tried again.
AppliedIsHeld == status = "applied" => held # {} \/ lapsed

\* Once a grant is revoked the account keeps its privilege nowhere, except on what was
\* renamed since the grant, even if only from one spelling of the target to another
\* during the revocation, and on a spelling the lookup passed over for another one.
RevokedIsGone == status = "none" => held \subseteq renamed \cup shadowed

\* A revocation comes to an end, unless Snowflake has a table whose name it cannot
\* write: the lookup finds a plain name in lower case, and quoting uppercases it.
Unwritable == \E o \in catalog : Quoted(o.name) # o.name

RevocationCompletes == status = "revoking" ~> (status = "none" \/ Unwritable)

\* "matching the target exactly first (covering quoted mixed-case names)": a grant that
\* is applied is a grant on what the lookup found, if that is still there.
AppliedToFound ==
    [][status = "none" /\ status' = "applied" /\ found \subseteq catalog
         => Keys(found) \subseteq held']_vars

=============================================================================
