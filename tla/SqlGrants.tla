------------------------------ MODULE SqlGrants ------------------------------
(***************************************************************************)
(* The grants of one derived account on the tables of its base, for the    *)
(* five SQL providers.  ApplyGrants runs the desired grants that are not   *)
(* recorded as applied, one GRANT statement at a time, and a failed call   *)
(* is undone with REVOKE statements; RevokeGrants revokes what is no       *)
(* longer desired and then re-grants what is kept, since the privileges of *)
(* grants overlap.  Meanwhile the application of the base account creates  *)
(* and drops tables.                                                       *)
(*                                                                         *)
(* applyPerms is the program's; the incremental bookkeeping around it is   *)
(* the SDK's, modelled from how the providers use it.                      *)
(***************************************************************************)
EXTENDS Integers, FiniteSets, Sequences, SequencesExt

CONSTANTS
    Tables,              \* table names of the base account
    Grants,              \* the grants somebody may ask for
    Requests,            \* the sets of grants a binding update may desire
    SqlProviders,        \* the providers under check
    ChangingMidCall,     \* those on which tables come and go while a call runs
    LostReplies,         \* whether a statement may take effect and still return an error
    MaxFaults, MaxChanges  \* bounds on injected failures and on table changes

All == "*"

ASSUME TablesAssumption ==
    IsFiniteSet(Tables) /\ Tables \cap {All, "database", "current", "future"} = {}
ASSUME GrantsAssumption ==
    Grants \subseteq [type : {"read", "create", "full"}, target : Tables \cup {All}]
ASSUME RequestsAssumption == Requests \subseteq SUBSET Grants
ASSUME SqlProvidersAssumption ==
    SqlProviders \subseteq {"clickhouse", "databricks", "sqlserver", "oracle", "snowflake"}
ASSUME ChangingAssumption == ChangingMidCall \subseteq SqlProviders
ASSUME LostRepliesAssumption == LostReplies \in BOOLEAN
ASSUME BoundsAssumption == MaxFaults \in Nat /\ MaxChanges \in Nat

VARIABLES
    provider,
    tables,     \* the tables that exist
    privs,      \* the account's privileges on the service, as [priv, on]
    recorded,   \* the server's metadata: grants it was told are applied
    pending,    \* grants no longer desired whose revocation has not succeeded yet
    phase,      \* what the running call does: "grant", "undo", "revoke", "regrant"
    desired,    \* the grants the last update asked for
    reapply,    \* whether the running update re-applies recorded grants
    todo,       \* grants the running pass of applyPerms has not come to
    done,       \* grantsDone of that pass
    stmts,      \* statements left of the grant the pass is at
    lapsed,     \* history: grants on one table that was dropped since the grant ran
    late,       \* history: <<grant, table>> where the table came after the grant looked
    suspect,    \* history: a failed call may have revoked what is recorded
    leaked,     \* history: grants of updates whose undo failed
    refused,    \* history: grants whose REVOKE was refused, and passed over, with
                \* some of its privileges held
    faults, changes

service == << provider, tables, privs >>
ledger == << recorded, pending, suspect, leaked, refused >>
call == << phase, desired, reapply, todo, done, stmts >>
history == << lapsed, late >>
vars == << service, ledger, call, history, faults, changes >>

Privs == {"select", "write", "create", "alter", "usage"}
Scopes == Tables \cup {All, "database", "current", "future"}
Statements == [for : Grants, privs : SUBSET Privs, on : Scopes]

TypeOK ==
    /\ provider \in SqlProviders
    /\ tables \subseteq Tables
    /\ privs \subseteq [priv : Privs, on : Scopes]
    /\ recorded \subseteq Grants /\ pending \subseteq Grants
    /\ leaked \subseteq Grants /\ refused \subseteq Grants
    /\ phase \in {"idle", "grant", "undo", "revoke", "regrant"}
    /\ desired \subseteq Grants /\ todo \subseteq Grants /\ done \subseteq Grants
    /\ reapply \in BOOLEAN /\ suspect \in BOOLEAN
    /\ stmts \in Seq(Statements)
    /\ lapsed \subseteq Grants /\ late \subseteq Grants \X Tables
    /\ faults \in 0 .. MaxFaults /\ changes \in 0 .. MaxChanges

Init ==
    /\ provider \in SqlProviders
    /\ tables \in SUBSET Tables
    /\ privs = {} /\ recorded = {} /\ pending = {} /\ leaked = {} /\ refused = {}
    /\ phase = "idle" /\ desired = {} /\ todo = {} /\ done = {} /\ stmts = << >>
    /\ reapply = FALSE /\ suspect = FALSE
    /\ lapsed = {} /\ late = {} /\ faults = 0 /\ changes = 0

-----------------------------------------------------------------------------
(* The statements of one grant, the same for GRANT and for REVOKE.  A scope  *)
(* is a table, the whole schema as a rule (All), the database, or Snowflake's*)
(* ALL and FUTURE TABLES.                                                    *)

Stmt(g, what, on) == [for |-> g, privs |-> what, on |-> on]

DataPrivs(g) == IF g.type = "read" THEN {"select"} ELSE {"select", "write"}

\* ClickHouse and Databricks: one statement per grant.
RuleStatements(g) ==
    IF g.type = "create" THEN << Stmt(g, {"create"}, All) >>
    ELSE IF g = [type |-> "full", target |-> All]
    THEN << Stmt(g, {"select", "write", "create"}, All) >>
    ELSE << Stmt(g, DataPrivs(g), g.target) >>

SqlServerStatements(g) ==
    LET creating == << Stmt(g, {"create"}, "database"), Stmt(g, {"alter"}, All) >>
        data == << Stmt(g, DataPrivs(g), g.target) >>
    IN  IF g.type = "create" THEN creating
        ELSE IF g.type = "full" /\ g.target = All THEN data \o creating
        ELSE data

\* Oracle has no schema-wide privilege: * stands for the tables listed now.
OracleStatements(g) ==
    LET listed == IF g.target = All THEN tables ELSE {g.target}
    IN  SetToSeq({Stmt(g, DataPrivs(g), t) : t \in listed})

SnowflakeStatements(g) ==
    LET usage == << Stmt(g, {"usage"}, All) >>
        allAndFuture == << Stmt(g, DataPrivs(g), "current"),
                           Stmt(g, DataPrivs(g), "future") >>
    IN  IF g.type = "create" THEN << Stmt(g, {"usage", "create"}, All) >>
        ELSE IF g.target # All THEN usage \o << Stmt(g, DataPrivs(g), g.target) >>
        ELSE IF g.type = "read" THEN usage \o allAndFuture
        ELSE usage \o allAndFuture \o << Stmt(g, {"create"}, All) >>

StatementsOf(g) ==
    CASE provider \in {"clickhouse", "databricks"} -> RuleStatements(g)
      [] provider = "sqlserver" -> SqlServerStatements(g)
      [] provider = "oracle" -> OracleStatements(g)
      [] provider = "snowflake" -> SnowflakeStatements(g)

\* ClickHouse keeps privileges by name, of absent tables too, and its db.* is
\* every name; Snowflake's ALL TABLES is whatever exists when the statement runs.
ScopesOf(s) ==
    IF s.on = "current" THEN tables
    ELSE IF s.on = All /\ provider = "clickhouse" THEN Tables \cup {All}
    ELSE {s.on}

PrivilegesOf(s) == [priv : s.privs, on : ScopesOf(s)]

-----------------------------------------------------------------------------
(* The application of the base account *)

InPlay == recorded \cup desired

\* The statements of a grant name the table; a rule covers it without.
Names(g, t) == g.target = t \/ (g.target = All /\ provider = "oracle")

TablesMayChange ==
    /\ phase = "idle" \/ provider \in ChangingMidCall
    /\ changes < MaxChanges
    /\ changes' = changes + 1

CreateTable(t) ==
    /\ TablesMayChange
    /\ t \notin tables
    /\ tables' = tables \cup {t}
    /\ privs' = privs \cup {[priv |-> x.priv, on |-> t] :
                              x \in {y \in privs : y.on = "future"}}
    /\ late' = late \cup {<< g, t >> : g \in {h \in InPlay : Names(h, t)}}
    /\ UNCHANGED << provider, ledger, call, lapsed, faults >>

\* The privileges on a table go with it, except on ClickHouse.
DropTable(t) ==
    /\ TablesMayChange
    /\ t \in tables
    /\ tables' = tables \ {t}
    /\ privs' = IF provider = "clickhouse" THEN privs ELSE {x \in privs : x.on # t}
    /\ lapsed' = lapsed \cup {g \in InPlay : g.target = t}
    /\ UNCHANGED << provider, ledger, call, late, faults >>

-----------------------------------------------------------------------------
(* applyPerms *)

Granting == phase \in {"grant", "regrant"}
Busy == phase # "idle"
InjectFault == faults < MaxFaults /\ faults' = faults + 1

SupportedTypes == IF provider = "oracle" THEN {"read", "full"}
                                         ELSE {"read", "create", "full"}

\* create:<table>, refused when it is granted and after what came before it ran.
Rejected(g) == Granting /\ g.type = "create" /\ g.target # All

\* Mutant: ClickHouse skips the revoke of an absent table as the others do.
LooksUpAlways(g) == IF g.target = All THEN provider = "oracle" ELSE g.type # "create"

\* Whether applyPerms looks the table up, or lists the tables, before it runs a
\* statement. ClickHouse revokes by name all the same.
LooksUp(g) == IF g.type = "create" THEN FALSE
              ELSE IF g.target = All THEN provider = "oracle"
              ELSE Granting \/ provider # "clickhouse"

\* Mutant: the * of a rule is looked up like the name of a table.
DeferredRules(g) == g.type # "create" /\ Granting /\ g.target \notin tables

\* The table is not there (yet).
Deferred(g) == LooksUp(g) /\ g.target # All /\ g.target \notin tables

\* Oracle's * is done at once in an empty schema.
DoneAtOnce(g) == IF Deferred(g) \/ StatementsOf(g) # << >> THEN done ELSE done \cup {g}

\* The pass comes to grant g: it looks the table up and then has statements to run.
BeginGrant(g) ==
    /\ Busy /\ stmts = << >> /\ g \in todo /\ ~Rejected(g)
    /\ todo' = todo \ {g}
    /\ stmts' = IF Deferred(g) THEN << >> ELSE StatementsOf(g)
    /\ done' = DoneAtOnce(g)
    /\ lapsed' = IF Granting /\ ~Deferred(g) THEN lapsed \ {g} ELSE lapsed
    /\ late' = IF Granting THEN {x \in late : x[1] # g} ELSE late
    /\ UNCHANGED << service, ledger, phase, desired, reapply, faults, changes >>

\* The statement names a table that is gone since it was looked up.
Missing(s) == s.on \in Tables \ tables /\ provider # "clickhouse"

\* ORA-01927: a REVOKE that names a privilege that is not held does nothing.
CannotRevoke(s) == provider = "oracle" /\ ~Granting /\ ~(PrivilegesOf(s) \subseteq privs)

\* Oracle goes on after ORA-00942 and ORA-01927 as if there had been nothing to do.
Tolerated(s) == provider = "oracle" /\ (Missing(s) \/ CannotRevoke(s))

Execute(s) == privs' = IF Granting THEN privs \cup PrivilegesOf(s)
                                   ELSE privs \ PrivilegesOf(s)

\* Mutant: the statement is noted for its grant.
NotesStatement(s) == IF Len(stmts) > 1 THEN done ELSE done \cup {s}

\* The grant of a statement is done with its last one; a grant on one object whose
\* statement was tolerated counts as deferred.
DoneAfter(s) == IF Len(stmts) > 1 \/ (s.for.target # All /\ Tolerated(s))
                THEN done ELSE done \cup {s.for}

RunStatement ==
    /\ Busy /\ stmts # << >>
    /\ LET s == Head(stmts)
       IN  /\ \/ ~Missing(s) /\ ~CannotRevoke(s) /\ Execute(s)
              \/ Tolerated(s) /\ UNCHANGED privs
           /\ done' = DoneAfter(s)
           /\ refused' = IF CannotRevoke(s) /\ PrivilegesOf(s) \cap privs # {}
                         THEN refused \cup {s.for} ELSE refused
    /\ stmts' = Tail(stmts)
    /\ UNCHANGED << provider, tables, recorded, pending, suspect, leaked, phase, desired,
                    reapply, todo, history, faults, changes >>

-----------------------------------------------------------------------------
(* The calls *)

\* applyPerms returned an error. A failed ApplyGrants is undone by revoking its new
\* grants, all of them, since the failed one may have taken effect.
CallFails ==
    /\ phase' = IF phase = "grant" THEN "undo" ELSE "idle"
    /\ todo' = IF phase = "grant" THEN desired \ recorded ELSE {}
    /\ stmts' = << >> /\ done' = {}
    /\ suspect' = TRUE
    /\ leaked' = IF phase = "undo" THEN leaked \cup (desired \ recorded) ELSE leaked
    /\ desired' = IF phase = "undo" THEN recorded ELSE desired
    /\ reapply' = FALSE
    /\ UNCHANGED << provider, tables, recorded, pending, refused, history, changes >>

RejectGrant(g) ==
    /\ Busy /\ stmts = << >> /\ g \in todo /\ Rejected(g)
    /\ CallFails
    /\ UNCHANGED << privs, faults >>

\* The lookup of the table (or Oracle's listing) fails.
LookupFails(g) ==
    /\ Busy /\ stmts = << >> /\ g \in todo /\ LooksUp(g)
    /\ InjectFault
    /\ CallFails
    /\ UNCHANGED privs

\* The statement fails: its table is gone, or the service or the connection failed,
\* before or after it took effect.
StatementFails ==
    /\ Busy /\ stmts # << >>
    /\ LET s == Head(stmts)
       IN  \/ Missing(s) /\ ~Tolerated(s) /\ UNCHANGED << privs, faults >>
           \/ InjectFault /\ UNCHANGED privs
           \/ InjectFault /\ LostReplies /\ ~Missing(s) /\ ~CannotRevoke(s) /\ Execute(s)
    /\ CallFails

PassEnds(p) == phase = p /\ todo = {} /\ stmts = << >>

\* A binding update: ApplyGrants is called when the last update's revocations are done.
ApplyGrants(request, all) ==
    /\ phase = "idle" /\ pending = {}
    /\ \A g \in request : g.type \in SupportedTypes
    /\ phase' = "grant" /\ desired' = request /\ reapply' = all
    /\ todo' = (IF all THEN request ELSE request \ recorded)
    /\ done' = {}
    /\ UNCHANGED << service, ledger, stmts, history, faults, changes >>

\* ApplyGrants returns; the server commits the result.
CommitGrants ==
    /\ PassEnds("grant")
    /\ phase' = "idle" /\ done' = {}
    /\ recorded' = (recorded \cap desired) \cup done
    /\ pending' = recorded \ desired
    /\ suspect' = (suspect /\ ~reapply) /\ reapply' = FALSE
    /\ UNCHANGED << service, leaked, refused, desired, todo, stmts, history, faults, changes >>

\* ApplyGrants returns its error after the undo; nothing new is recorded.
ReturnError ==
    /\ PassEnds("undo")
    /\ phase' = "idle" /\ done' = {} /\ desired' = recorded
    /\ UNCHANGED << service, ledger, reapply, todo, stmts, history, faults, changes >>

\* After the commit, or again after a failure.
RevokeGrants ==
    /\ phase = "idle" /\ pending # {}
    /\ phase' = "revoke" /\ todo' = pending
    /\ UNCHANGED << service, ledger, desired, reapply, done, stmts, history, faults, changes >>

\* Mutant: the kept grants are not granted again.
RegrantNothing ==
    /\ PassEnds("revoke")
    /\ phase' = "regrant" /\ todo' = {} /\ done' = {}
    /\ UNCHANGED << service, ledger, desired, reapply, stmts, history, faults, changes >>

\* RevokeThenRegrant goes on to the kept grants.
Regrant ==
    /\ PassEnds("revoke")
    /\ phase' = "regrant" /\ todo' = recorded /\ done' = {}
    /\ UNCHANGED << service, ledger, desired, reapply, stmts, history, faults, changes >>

FinishRevoke ==
    /\ PassEnds("regrant")
    /\ phase' = "idle" /\ pending' = {} /\ done' = {} /\ suspect' = FALSE
    /\ UNCHANGED << service, recorded, leaked, refused, desired, reapply, todo, stmts,
                    history, faults, changes >>

Next ==
    \/ \E t \in Tables : CreateTable(t) \/ DropTable(t)
    \/ \E g \in Grants : BeginGrant(g) \/ RejectGrant(g) \/ LookupFails(g)
    \/ RunStatement
    \/ StatementFails
    \/ \E request \in Requests, all \in BOOLEAN : ApplyGrants(request, all)
    \/ CommitGrants
    \/ ReturnError
    \/ RevokeGrants
    \/ Regrant
    \/ FinishRevoke

Spec == Init /\ [][Next]_vars

-----------------------------------------------------------------------------
(* Properties *)

Holds(priv, on) == [priv |-> priv, on |-> on] \in privs

\* What the account can do: read or write a table, create one.
MayUse(priv, t) ==
    /\ t \in tables
    /\ Holds(priv, t) \/ (provider \in {"databricks", "sqlserver"} /\ Holds(priv, All))
    /\ provider = "snowflake" => Holds("usage", All)

MayCreate ==
    IF provider = "sqlserver" THEN Holds("create", "database") /\ Holds("alter", All)
    ELSE Holds("create", All) /\ (provider = "snowflake" => Holds("usage", All))

Access == {a \in {"select", "write"} \X Tables : MayUse(a[1], a[2])}
            \cup {a \in {<< "create", All >>} : MayCreate}

\* What a grant stands for on the tables there are.
Promise(g) ==
    LET covered == IF g.target = All THEN tables ELSE {g.target} \cap tables
        creates == g.target = All /\ (g.type = "create"
                                        \/ (g.type = "full" /\ provider # "oracle"))
    IN  (IF g.type = "create" THEN {} ELSE DataPrivs(g) \X covered)
          \cup {a \in {<< "create", All >>} : creates}

PromiseOf(gs) == UNION {Promise(g) : g \in gs}

\* The grants that may be in effect.
Owed == recorded \cup pending \cup leaked
          \cup (IF phase \in {"grant", "undo"} THEN desired ELSE {})

\* The account can never do more than what its grants stand for: those on record,
\* those being applied or undone, and those whose revocation is still pending or
\* whose undo failed; besides them only what a refused REVOKE left. Above all, what
\* was revoked or undone does not come back when a table is created again.
NoExcess == Access \subseteq PromiseOf(Owed \cup refused)

\* The same without the exception: to take the refusal of a REVOKE for a no-op is
\* harmless ("revokes of deferred/partially applied grants are harmless").
RefusalIsHarmless == Access \subseteq PromiseOf(Owed)

\* The pass is running the statements of g.
AtWork(g) == stmts # << >> /\ Head(stmts).for = g

\* RevokeThenRegrant takes from the kept grants what they share with the revoked ones,
\* until they are granted again; on Snowflake it takes USAGE and so everything.
Suspended(a) == /\ phase \in {"revoke", "regrant"}
                /\ a \in PromiseOf(pending) \/ provider = "snowflake"

\* In the middle of calls too every recorded grant is in effect: a deferred grant is
\* not on record, applying others disturbs it in nothing, revoking others takes from
\* it only what they share and only until the call returns, and a grant on * covers
\* the tables that came later, except on Oracle. Excused are a grant whose table was
\* dropped since it ran, and all grants from a failed call to the next regrant.
RecordedInEffect ==
    ~suspect =>
        \A g \in recorded : \A a \in Promise(g) :
            \/ a \in Access
            \/ Suspended(a)
            \/ g \in lapsed \/ AtWork(g)
            \/ g.target = All /\ << g, a[2] >> \in late

\* After a successful update what is desired and not on record waits for its table.
AppliedOrWaiting ==
    phase = "idle" =>
        \A g \in desired \ recorded :
            g.target \in Tables \ tables \/ << g, g.target >> \in late

\* "ClickHouse grants survive DROP TABLE": between calls the privileges of recorded
\* grants are there, whether their tables are or not.
GrantsSurviveDrop ==
    provider = "clickhouse" /\ phase = "idle" /\ ~suspect =>
        \A g \in recorded : \A i \in DOMAIN StatementsOf(g) :
            PrivilegesOf(StatementsOf(g)[i]) \subseteq privs

=============================================================================
