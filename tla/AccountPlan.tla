---------------------------- MODULE AccountPlan ----------------------------
(***************************************************************************)
(* What GenerateAccount of each binding provider does, as data: the        *)
(* statements it sends to the managed service, in order, for one account.  *)
(* Each statement takes effect on its own (the DDL of these services auto- *)
(* commits), so an account is built, and may fail, one statement at a      *)
(* time; Provisioning interprets the plans.                                *)
(*                                                                         *)
(* An account is the staging or the production identity of one binding.  A *)
(* base account owns a container (database or schema) and a derived        *)
(* account lives in the container of its base.                             *)
(***************************************************************************)
EXTENDS Sequences

CONSTANTS
    Accounts,        \* account ids; every name the providers generate embeds one
    BaseOf,          \* the base of a derived account; a base account is its own
    CredentialType   \* databricks account_credential_type: "auto", "oauth", "token"

ASSUME BaseOfAssumption == BaseOf \in [Accounts -> Accounts]
ASSUME CredentialTypeAssumption == CredentialType \in {"auto", "oauth", "token"}

Providers == {"clickhouse", "databricks", "sqlserver", "oracle", "snowflake",
              "mongodb", "atlas"}

\* The artifact types of the SDK that some provider creates.
ArtifactTypes == {"role", "user", "login", "schema", "database"}

IsBase(a) == BaseOf[a] = a

\* The name a provider derives from an artifact type and an account id.
Name(t, a) == [type |-> t, account |-> a]
Names == [type : ArtifactTypes, account : Accounts]

-----------------------------------------------------------------------------
(* A statement is a check (reads only), a create (makes an object, reported *)
(* as an artifact), a grant (baseline privilege or credential), or an       *)
(* attempt: a grant whose failure falls through to the statement after it   *)
(* and whose success skips that one.  "needs" are the objects the service   *)
(* insists on when the statement runs.                                      *)

Check(what) == [kind |-> "check", what |-> what, needs |-> {}]
Create(type, needs) == [kind |-> "create", what |-> type, needs |-> needs]
Grant(what, needs) == [kind |-> "grant", what |-> what, needs |-> needs]
Attempt(what, needs) == [kind |-> "attempt", what |-> what, needs |-> needs]

CheckNames == {"principal_absent", "tablespace", "user_usable", "account_url"}
GrantNames == {"database_full", "role_to_user", "oauth_secret", "obo_token",
               "warehouse_use", "use_catalog", "schema_all", "use_schema",
               "create_objects", "quota", "session", "logon_trigger",
               "database_usage"}

Statements ==
    [kind : {"check"}, what : CheckNames, needs : SUBSET Names]
      \cup [kind : {"create"}, what : ArtifactTypes, needs : SUBSET Names]
      \cup [kind : {"grant", "attempt"}, what : GrantNames, needs : SUBSET Names]

When(cond, statements) == IF cond THEN statements ELSE << >>

ClickHousePlan(a) ==
    LET role == Name("role", a)
    IN  << Create("role", {}) >>
        \o When(IsBase(a),
                << Create("database", {}),
                   Grant("database_full", {Name("database", a), role}) >>)
        \o << Create("user", {role}),
              Grant("role_to_user", {role, Name("user", a)}),
              Check("account_url") >>

\* createAccountCredential: auto tries the OAuth secret, then the OBO token.
DatabricksCredential(a) ==
    LET user == {Name("user", a)}
    IN  When(CredentialType = "oauth", << Grant("oauth_secret", user) >>)
        \o When(CredentialType = "auto", << Attempt("oauth_secret", user) >>)
        \o When(CredentialType # "oauth", << Grant("obo_token", user) >>)

DatabricksAfterCreate(a) ==
    LET user == Name("user", a)
        schema == Name("schema", BaseOf[a])
    IN  DatabricksCredential(a)
        \o << Grant("warehouse_use", {user}) >>
        \o When(IsBase(a), << Create("schema", {}) >>)
        \o << Grant("use_catalog", {user}),
              Grant(IF IsBase(a) THEN "schema_all" ELSE "use_schema", {user, schema}) >>

DatabricksPlan(a) ==
    << Check("principal_absent"), Create("user", {}) >> \o DatabricksAfterCreate(a)

SqlServerPlan(a) ==
    LET user == Name("user", a)
    IN  << Create("login", {}), Create("user", {Name("login", a)}) >>
        \o When(IsBase(a),
                << Create("schema", {user}), Grant("create_objects", {user}) >>)
        \o << Check("account_url") >>

OraclePlan(a) ==
    LET user == {Name("user", a)}
    IN  << Create("user", {}) >>
        \o (IF IsBase(a)
            THEN << Check("tablespace"), Grant("quota", user),
                    Grant("create_objects", user) >>
            ELSE << Grant("session", user), Grant("logon_trigger", user) >>)
        \o << Check("account_url") >>

SnowflakePlan(a) ==
    LET role == Name("role", a)
    IN  << Create("role", {}), Grant("database_usage", {role}),
           Grant("warehouse_use", {role}) >>
        \o When(IsBase(a),
                << Create("schema", {}),
                   Grant("create_objects", {role, Name("schema", a)}) >>)
        \o << Create("user", {}),
              Grant("role_to_user", {role, Name("user", a)}),
              Check("account_url") >>

MongoPlan(a) ==
    When(~IsBase(a), << Create("role", {}) >>)
      \o << Create("user", IF IsBase(a) THEN {} ELSE {Name("role", a)}),
            Check("account_url") >>

\* The last check is waitForAtlasUser: the user exists but may stay unusable.
AtlasPlan(a) == << Create("user", {}), Check("user_usable"), Check("account_url") >>

Plan(p, a) ==
    CASE p = "clickhouse" -> ClickHousePlan(a)
      [] p = "databricks" -> DatabricksPlan(a)
      [] p = "sqlserver"  -> SqlServerPlan(a)
      [] p = "oracle"     -> OraclePlan(a)
      [] p = "snowflake"  -> SnowflakePlan(a)
      [] p = "mongodb"    -> MongoPlan(a)
      [] p = "atlas"      -> AtlasPlan(a)

\* Every service refuses a second object of the same name, except that SCIM
\* lets two service principals share a display name.
NameIsUnique(p, t) == ~(p = "databricks" /\ t = "user")

-----------------------------------------------------------------------------
(* DeleteArtifact: the types each provider can drop.                        *)

ClickHouseDrops == {"role", "user", "database"}
DatabricksDrops == {"user", "schema"}
SqlServerDrops  == {"schema", "user", "login"}
OracleDrops     == {"user"}
SnowflakeDrops  == {"role", "user", "schema"}
\* Mutant: users only, as on Atlas.
MongoDropsUsersOnly == {"user"}
MongoDrops      == {"user", "role"}
AtlasDrops      == {"user"}

Drops(p) ==
    CASE p = "clickhouse" -> ClickHouseDrops
      [] p = "databricks" -> DatabricksDrops
      [] p = "sqlserver"  -> SqlServerDrops
      [] p = "oracle"     -> OracleDrops
      [] p = "snowflake"  -> SnowflakeDrops
      [] p = "mongodb"    -> MongoDrops
      [] p = "atlas"      -> AtlasDrops

\* What must be gone before an object can be dropped: SQL Server refuses to
\* drop a user that still owns a schema.
DropBlockers(p, n) ==
    IF p = "sqlserver" /\ n.type = "user" THEN {Name("schema", n.account)} ELSE {}

=============================================================================
