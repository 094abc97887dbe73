------------------------- MODULE ProvisioningProofs -------------------------
(* Theorems about Provisioning, for every set of accounts, every choice of   *)
(* bases and leftovers, and any number of injected failures.                 *)
EXTENDS Provisioning, TLAPS, SequenceTheorems

-----------------------------------------------------------------------------
(* The plans *)

\* The statement constructors build statements.
LEMMA StatementTypes ==
    ASSUME NEW needs \in SUBSET Names
    PROVE  /\ \A w \in CheckNames : Check(w) \in Statements
           /\ \A t \in ArtifactTypes : Create(t, needs) \in Statements
           /\ \A g \in GrantNames : Grant(g, needs) \in Statements
           /\ \A g \in GrantNames : Attempt(g, needs) \in Statements
BY DEF Statements, Check, Create, Grant, Attempt, Names, ArtifactTypes

LEMMA NameTypes ==
    ASSUME NEW t \in ArtifactTypes, NEW a \in Accounts
    PROVE  Name(t, a) \in Names
BY DEF Name, Names

\* The statements a's plan may have: they need objects of a and of its base, and create
\* what the provider can drop; only on Databricks is there something to fall back to.
Fitting(p, a) ==
    {s \in Statements : /\ \A n \in s.needs : n.account \in {a, BaseOf[a]}
                        /\ s.kind = "create" => s.what \in Drops(p)
                        /\ s.kind = "attempt" => p = "databricks"}

LEMMA FittingTypes ==
    ASSUME NEW p, NEW a \in Accounts,
           NEW needs \in SUBSET {n \in Names : n.account \in {a, BaseOf[a]}}
    PROVE  /\ \A w \in CheckNames : Check(w) \in Fitting(p, a)
           /\ \A t \in ArtifactTypes : t \in Drops(p) => Create(t, needs) \in Fitting(p, a)
           /\ \A g \in GrantNames : Grant(g, needs) \in Fitting(p, a)
           /\ p = "databricks" => \A g \in GrantNames : Attempt(g, needs) \in Fitting(p, a)
<1>1. needs \in SUBSET Names  OBVIOUS
<1>2. \A w \in CheckNames : Check(w) \in Fitting(p, a)
  BY StatementTypes DEF Fitting, Check
<1>3. \A t \in ArtifactTypes : t \in Drops(p) => Create(t, needs) \in Fitting(p, a)
  BY <1>1, StatementTypes DEF Fitting, Create
<1>4. \A g \in GrantNames : Grant(g, needs) \in Fitting(p, a)
  BY <1>1, StatementTypes DEF Fitting, Grant
<1>5. p = "databricks" => \A g \in GrantNames : Attempt(g, needs) \in Fitting(p, a)
  BY <1>1, StatementTypes DEF Fitting, Attempt
<1>6. QED  BY <1>2, <1>3, <1>4, <1>5

\* Every provider's plan is a sequence of such statements.
LEMMA PlanFits ==
    ASSUME NEW p \in Providers, NEW a \in Accounts
    PROVE  Plan(p, a) \in Seq(Fitting(p, a))
<1> DEFINE role == Name("role", a)
           user == Name("user", a)
           login == Name("login", a)
           schema == Name("schema", a)
           database == Name("database", a)
           baseSchema == Name("schema", BaseOf[a])
           Own == {n \in Names : n.account \in {a, BaseOf[a]}}
<1>1. {role, user, login, schema, database, baseSchema} \subseteq Own
  BY NameTypes, BaseOfAssumption DEF ArtifactTypes, Name
<1> HIDE DEF Own
<1>d. /\ Drops("clickhouse") = ClickHouseDrops /\ Drops("databricks") = DatabricksDrops
      /\ Drops("sqlserver") = SqlServerDrops /\ Drops("oracle") = OracleDrops
      /\ Drops("snowflake") = SnowflakeDrops /\ Drops("mongodb") = MongoDrops
      /\ Drops("atlas") = AtlasDrops
  BY DEF Drops
<1>f. ASSUME NEW q
      PROVE  /\ \A w \in CheckNames : Check(w) \in Fitting(q, a)
             /\ \A t \in ArtifactTypes, needs \in SUBSET Own :
                   t \in Drops(q) => Create(t, needs) \in Fitting(q, a)
             /\ \A g \in GrantNames, needs \in SUBSET Own :
                   /\ Grant(g, needs) \in Fitting(q, a)
                   /\ q = "databricks" => Attempt(g, needs) \in Fitting(q, a)
  BY FittingTypes DEF Own
<1>2. ClickHousePlan(a) \in Seq(Fitting("clickhouse", a))
  <2>1. << Create("role", {}) >> \in Seq(Fitting("clickhouse", a))
    BY <1>d, <1>f DEF ArtifactTypes, ClickHouseDrops
  <2>2. << Create("database", {}), Grant("database_full", {database, role}) >>
          \in Seq(Fitting("clickhouse", a))
    BY <1>1, <1>d, <1>f DEF ArtifactTypes, ClickHouseDrops, GrantNames
  <2>3. << Create("user", {role}), Grant("role_to_user", {role, user}),
           Check("account_url") >> \in Seq(Fitting("clickhouse", a))
    BY <1>1, <1>d, <1>f DEF ArtifactTypes, ClickHouseDrops, GrantNames, CheckNames
  <2>4. QED  BY <2>1, <2>2, <2>3 DEF When, ClickHousePlan
<1>3. DatabricksAfterCreate(a) \in Seq(Fitting("databricks", a))
  <2>1. DatabricksCredential(a) \in Seq(Fitting("databricks", a))
    BY <1>1, <1>d, <1>f DEF When, DatabricksCredential, GrantNames
  <2>2. << Grant("warehouse_use", {user}) >> \in Seq(Fitting("databricks", a))
    BY <1>1, <1>d, <1>f DEF GrantNames
  <2>3. << Create("schema", {}) >> \in Seq(Fitting("databricks", a))
    BY <1>d, <1>f DEF ArtifactTypes, DatabricksDrops
  <2>4. << Grant("use_catalog", {user}),
           Grant(IF IsBase(a) THEN "schema_all" ELSE "use_schema", {user, baseSchema}) >>
          \in Seq(Fitting("databricks", a))
    BY <1>1, <1>d, <1>f DEF GrantNames
  <2>5. QED  BY <2>1, <2>2, <2>3, <2>4 DEF When, DatabricksAfterCreate
<1>4. DatabricksPlan(a) \in Seq(Fitting("databricks", a))
  <2>1. << Check("principal_absent"), Create("user", {}) >> \in Seq(Fitting("databricks", a))
    BY <1>d, <1>f DEF CheckNames, ArtifactTypes, DatabricksDrops
  <2>2. QED  BY <2>1, <1>3 DEF DatabricksPlan
<1>5. SqlServerPlan(a) \in Seq(Fitting("sqlserver", a))
  <2>1. << Create("login", {}), Create("user", {login}) >> \in Seq(Fitting("sqlserver", a))
    BY <1>1, <1>d, <1>f DEF ArtifactTypes, SqlServerDrops
  <2>2. << Create("schema", {user}), Grant("create_objects", {user}) >>
          \in Seq(Fitting("sqlserver", a))
    BY <1>1, <1>d, <1>f DEF ArtifactTypes, SqlServerDrops, GrantNames
  <2>3. << Check("account_url") >> \in Seq(Fitting("sqlserver", a))
    BY <1>d, <1>f DEF CheckNames
  <2>4. QED  BY <2>1, <2>2, <2>3 DEF When, SqlServerPlan
<1>6. OraclePlan(a) \in Seq(Fitting("oracle", a))
  <2>1. << Create("user", {}) >> \in Seq(Fitting("oracle", a))
    BY <1>d, <1>f DEF ArtifactTypes, OracleDrops
  <2>2. << Check("tablespace"), Grant("quota", {user}),
           Grant("create_objects", {user}) >> \in Seq(Fitting("oracle", a))
    BY <1>1, <1>d, <1>f DEF CheckNames, GrantNames
  <2>3. << Grant("session", {user}), Grant("logon_trigger", {user}) >>
          \in Seq(Fitting("oracle", a))
    BY <1>1, <1>d, <1>f DEF GrantNames
  <2>4. << Check("account_url") >> \in Seq(Fitting("oracle", a))
    BY <1>d, <1>f DEF CheckNames
  <2>5. QED  BY <2>1, <2>2, <2>3, <2>4 DEF OraclePlan
<1>7. SnowflakePlan(a) \in Seq(Fitting("snowflake", a))
  <2>1. << Create("role", {}), Grant("database_usage", {role}),
           Grant("warehouse_use", {role}) >> \in Seq(Fitting("snowflake", a))
    BY <1>1, <1>d, <1>f DEF ArtifactTypes, SnowflakeDrops, GrantNames
  <2>2. << Create("schema", {}), Grant("create_objects", {role, schema}) >>
          \in Seq(Fitting("snowflake", a))
    BY <1>1, <1>d, <1>f DEF ArtifactTypes, SnowflakeDrops, GrantNames
  <2>3. << Create("user", {}), Grant("role_to_user", {role, user}),
           Check("account_url") >> \in Seq(Fitting("snowflake", a))
    BY <1>1, <1>d, <1>f DEF ArtifactTypes, SnowflakeDrops, GrantNames, CheckNames
  <2>4. QED  BY <2>1, <2>2, <2>3 DEF When, SnowflakePlan
<1>8. MongoPlan(a) \in Seq(Fitting("mongodb", a))
  <2>1. << Create("role", {}) >> \in Seq(Fitting("mongodb", a))
    BY <1>d, <1>f DEF ArtifactTypes, MongoDrops
  <2>2. << Create("user", IF IsBase(a) THEN {} ELSE {role}), Check("account_url") >>
          \in Seq(Fitting("mongodb", a))
    BY <1>1, <1>d, <1>f DEF ArtifactTypes, MongoDrops, CheckNames
  <2>3. QED  BY <2>1, <2>2 DEF When, MongoPlan
<1>9. AtlasPlan(a) \in Seq(Fitting("atlas", a))
  BY <1>d, <1>f DEF AtlasPlan, AtlasDrops, ArtifactTypes, CheckNames
<1>10. QED
  BY <1>2, <1>4, <1>5, <1>6, <1>7, <1>8, <1>9 DEF Plan, Providers

LEMMA PlanType ==
    ASSUME NEW p \in Providers, NEW a \in Accounts
    PROVE  Plan(p, a) \in Seq(Statements)
<1>1. Plan(p, a) \in Seq(Fitting(p, a)) /\ Fitting(p, a) \subseteq Statements
  BY PlanFits DEF Fitting
<1>2. QED  BY <1>1

\* On Databricks the only service principal is created at step 2, right after the
\* check that nobody has its display name.
LEMMA DatabricksChecksFirst ==
    ASSUME NEW a \in Accounts
    PROVE  /\ DatabricksPlan(a)[1] = Check("principal_absent")
           /\ \A i \in DOMAIN DatabricksPlan(a) :
                 DatabricksPlan(a)[i].kind = "create" /\ DatabricksPlan(a)[i].what = "user"
                   => i = 2
<1> DEFINE Other == {s \in Statements : s.kind = "create" => s.what = "schema"}
           user == Name("user", a)
           baseSchema == Name("schema", BaseOf[a])
           head == << Check("principal_absent"), Create("user", {}) >>
<1>1. {user, baseSchema} \subseteq Names
  BY NameTypes, BaseOfAssumption DEF ArtifactTypes
<1>2. DatabricksAfterCreate(a) \in Seq(Other)
  <2>1. /\ Create("schema", {}) \in Other
        /\ \A g \in GrantNames, needs \in SUBSET Names :
              Grant(g, needs) \in Other /\ Attempt(g, needs) \in Other
    BY StatementTypes DEF ArtifactTypes, Create, Grant, Attempt
  <2> HIDE DEF Other
  <2>2. DatabricksCredential(a) \in Seq(Other)
    BY <1>1, <2>1 DEF When, DatabricksCredential, GrantNames
  <2>3. << Grant("warehouse_use", {user}) >> \in Seq(Other)
    BY <1>1, <2>1 DEF GrantNames
  <2>4. << Create("schema", {}) >> \in Seq(Other)
    BY <2>1
  <2>5. << Grant("use_catalog", {user}),
           Grant(IF IsBase(a) THEN "schema_all" ELSE "use_schema", {user, baseSchema}) >>
          \in Seq(Other)
    BY <1>1, <2>1 DEF GrantNames
  <2>6. QED  BY <2>2, <2>3, <2>4, <2>5 DEF When, DatabricksAfterCreate
<1>3. head \in Seq(Statements) /\ Len(head) = 2
  BY StatementTypes DEF CheckNames, ArtifactTypes
<1>4. \A i \in DOMAIN DatabricksPlan(a) :
         DatabricksPlan(a)[i] = IF i <= 2 THEN head[i]
                                ELSE DatabricksAfterCreate(a)[i - 2]
  BY <1>2, <1>3 DEF DatabricksPlan
<1>5. \A i \in DOMAIN DatabricksPlan(a) :
         i > 2 => DatabricksPlan(a)[i] \in Other
  BY <1>2, <1>3, <1>4 DEF DatabricksPlan
<1>6. 1 \in DOMAIN DatabricksPlan(a) /\ DOMAIN DatabricksPlan(a) \subseteq Nat \ {0}
  BY <1>2, <1>3 DEF DatabricksPlan
<1>7. DatabricksPlan(a)[1] = Check("principal_absent")
  BY <1>4, <1>6
<1>8. ASSUME NEW i \in DOMAIN DatabricksPlan(a),
             DatabricksPlan(a)[i].kind = "create", DatabricksPlan(a)[i].what = "user"
      PROVE  i = 2
  <2>1. CASE i = 1
    BY <1>7, <1>8, <2>1 DEF Check
  <2>2. CASE i > 2
    BY <1>5, <1>8, <2>2
  <2>3. QED  BY <1>6, <2>1, <2>2
<1>9. QED  BY <1>7, <1>8

-----------------------------------------------------------------------------
(* Type correctness *)

LEMMA StatementType ==
    ASSUME TypeOK, NEW a \in Accounts, Running(a)
    PROVE  Statement(a) \in Statements
<1>1. Plan(provider, a) \in Seq(Statements)  BY PlanType DEF TypeOK
<1>2. pc[a] \in 1 .. Len(Plan(provider, a))  BY <1>1 DEF TypeOK, Running
<1>3. QED  BY <1>1, <1>2 DEF Statement

\* What a statement adds to the service and to the report is well formed.
LEMMA EffectTypes ==
    ASSUME TypeOK, NEW a \in Accounts, NEW s \in Statements
    PROVE  /\ Created(a, s) \subseteq Objects
           /\ Conferred(a, s) \subseteq Privileges
           /\ {o.name : o \in Created(a, s)} \subseteq Names
           /\ Reported(a, s) \in Seq(ArtifactTypes)
<1>1. s.kind = "create" => s.what \in ArtifactTypes
  BY DEF Statements
<1>2. s.kind \in {"grant", "attempt"} => s.what \in GrantNames /\ s.needs \in SUBSET Names
  BY DEF Statements
<1>3. Created(a, s) \subseteq Objects
  BY <1>1, NameTypes DEF Created, Objects
<1>4. Conferred(a, s) \subseteq Privileges
  BY <1>2 DEF Conferred, Privileges
<1>5. Reported(a, s) \in Seq(ArtifactTypes)
  BY <1>1 DEF Reported, TypeOK
<1>6. QED  BY <1>3, <1>4, <1>5 DEF Objects

\* Both ways a failed statement ends keep the types.
LEMMA FailureType ==
    ASSUME TypeOK, NEW a \in Accounts, FailureOf(a)
    PROVE  /\ provider' = provider /\ artifacts' = artifacts
           /\ status' \in [Accounts -> Statuses]
           /\ pc' \in [Accounts -> Nat \ {0}]
           /\ cursor' \in [Accounts -> Nat]
<1>1. CASE FallThrough(a)
  BY <1>1 DEF FallThrough, TypeOK
<1>2. CASE ReturnError(a)
  BY <1>2 DEF ReturnError, TypeOK, Statuses
<1>3. QED  BY <1>1, <1>2 DEF FailureOf

LEMMA StepKeepsTypes == TypeOK /\ [Next]_vars => TypeOK'
<1> SUFFICES ASSUME TypeOK, [Next]_vars PROVE TypeOK'
  OBVIOUS
<1>1. ASSUME NEW a \in Accounts, GenerateAccount(a) PROVE TypeOK'
  BY <1>1 DEF GenerateAccount, TypeOK, Statuses
<1>2. ASSUME NEW a \in Accounts, StatementSucceeds(a) PROVE TypeOK'
  <2>1. Statement(a) \in Statements
    BY <1>2, StatementType DEF StatementSucceeds
  <2>2. QED
    BY <1>2, <2>1, EffectTypes DEF StatementSucceeds, TypeOK
<1>3. ASSUME NEW a \in Accounts, StatementFails(a) PROVE TypeOK'
  <2>1. faults' \in 0 .. MaxFaults
    BY <1>3, MaxFaultsAssumption DEF StatementFails, InjectFault, TypeOK
  <2>2. QED
    BY <1>3, <2>1, FailureType DEF StatementFails, TypeOK
<1>4. ASSUME NEW a \in Accounts, StatementReplyLost(a) PROVE TypeOK'
  <2>1. Statement(a) \in Statements
    BY <1>4, StatementType DEF StatementReplyLost
  <2>2. faults' \in 0 .. MaxFaults
    BY <1>4, MaxFaultsAssumption DEF StatementReplyLost, InjectFault, TypeOK
  <2>3. QED
    BY <1>4, <2>1, <2>2, EffectTypes, FailureType DEF StatementReplyLost, TypeOK
<1>5. ASSUME NEW a \in Accounts, ReturnAccount(a) PROVE TypeOK'
  BY <1>5 DEF ReturnAccount, TypeOK, Statuses
<1>6. ASSUME NEW a \in Accounts, DeleteBinding(a) PROVE TypeOK'
  BY <1>6 DEF DeleteBinding, TypeOK, Statuses
<1>7. ASSUME NEW a \in Accounts, DeleteArtifact(a) PROVE TypeOK'
  BY <1>7 DEF DeleteArtifact, Deleting, Drop, TypeOK
<1>8. ASSUME NEW a \in Accounts, DeleteArtifactFails(a) PROVE TypeOK'
  <2>1. faults' \in 0 .. MaxFaults
    BY <1>8, MaxFaultsAssumption DEF DeleteArtifactFails, InjectFault, TypeOK
  <2>2. catalog' \subseteq catalog /\ held' \subseteq held
    BY <1>8 DEF DeleteArtifactFails, Drop
  <2>3. QED
    BY <1>8, <2>1, <2>2 DEF DeleteArtifactFails, TypeOK
<1>9. ASSUME NEW a \in Accounts, FinishCleanup(a) PROVE TypeOK'
  BY <1>9 DEF FinishCleanup, TypeOK, Statuses
<1>10. CASE UNCHANGED vars
  BY <1>10 DEF vars, TypeOK
<1>11. QED
  BY <1>1, <1>2, <1>3, <1>4, <1>5, <1>6, <1>7, <1>8, <1>9, <1>10 DEF Next

LEMMA InitTypes == Init => TypeOK
BY LeftoverAssumption, MaxFaultsAssumption DEF Init, TypeOK, Objects, Statuses

\* Every reachable state is well typed.
THEOREM TypeCorrect == Spec => []TypeOK
BY InitTypes, StepKeepsTypes, PTL DEF Spec

-----------------------------------------------------------------------------
(* The inductive invariant behind the safety properties *)

\* An account makes objects under its own names only, so no two accounts compete.
MakersUseTheirNames ==
    \A o \in catalog : o.maker # Leftover => o.name.account = o.maker

\* No two objects share a name, service principals included.
OneObjectPerName == \A o, q \in catalog : o.name = q.name => o = q

\* Between the display-name check and the creation nobody takes the name.
PrincipalStillAbsent ==
    \A a \in Accounts :
        provider = "databricks" /\ status[a] = "generating" /\ pc[a] = 2
          => ~Exists(Name("user", a))

\* Every reported artifact that is on the service was made by its account.
ReportedIsOwn ==
    \A a \in Accounts : \A i \in DOMAIN artifacts[a] : \A o \in catalog :
        o.name = Name(artifacts[a][i], a) => o.maker = a

\* During a cleanup the artifacts past the cursor are gone.
CleanedSoFar ==
    \A a \in Accounts : status[a] \in {"rollback", "deleting"} =>
        \A i \in DOMAIN artifacts[a] :
            i > cursor[a] => ~Exists(Name(artifacts[a][i], a))

NothingReportedYet ==
    \A a \in Accounts : status[a] \in {"absent", "deleted"} => artifacts[a] = << >>

\* A doubt needs a lost reply.
DoubtNeedsLoss == inDoubt # {} => LostReplies

IInv ==
    /\ TypeOK
    /\ NothingEscapes
    /\ MakersUseTheirNames
    /\ OneObjectPerName
    /\ PrincipalStillAbsent
    /\ ReportedIsOwn
    /\ CleanedSoFar
    /\ NothingReportedYet
    /\ DoubtNeedsLoss

\* The parts of the invariant that speak of the catalog's names alone.
Naming == MakersUseTheirNames /\ OneObjectPerName

LEMMA NamesDiffer ==
    ASSUME NEW t, NEW u, NEW a, NEW b, Name(t, a) = Name(u, b)
    PROVE  t = u /\ a = b
BY DEF Name

\* A CREATE that is accepted makes an object whose name was free.
LEMMA CreateIsFresh ==
    ASSUME IInv, NEW a \in Accounts, Running(a), Accepted(a, Statement(a)),
           NEW o \in Created(a, Statement(a))
    PROVE  /\ o = [name |-> Name(Statement(a).what, a), maker |-> a]
           /\ Statement(a).kind = "create"
           /\ ~Exists(o.name)
<1> DEFINE s == Statement(a)
<1>1. s.kind = "create" /\ o = [name |-> Name(s.what, a), maker |-> a]
  BY DEF Created
<1>2. CASE NameIsUnique(provider, s.what)
  BY <1>1, <1>2 DEF Accepted
<1>3. CASE ~NameIsUnique(provider, s.what)
  <2>1. provider = "databricks" /\ s.what = "user"
    BY <1>3 DEF NameIsUnique
  <2>2. Plan(provider, a) = DatabricksPlan(a)
    BY <2>1 DEF Plan
  <2>3. pc[a] \in DOMAIN DatabricksPlan(a)
    <3>1. Plan(provider, a) \in Seq(Statements)
      BY PlanType DEF IInv, TypeOK
    <3>2. QED  BY <2>2, <3>1 DEF IInv, TypeOK, Running
  <2>4. pc[a] = 2
    BY <1>1, <2>1, <2>2, <2>3, DatabricksChecksFirst DEF Statement
  <2>5. QED
    BY <1>1, <2>1, <2>4 DEF IInv, PrincipalStillAbsent, Running
<1>4. QED  BY <1>1, <1>2, <1>3

\* A statement that takes effect keeps the catalog's names in order.
LEMMA EffectKeepsNaming ==
    ASSUME IInv, NEW a \in Accounts, Running(a), Accepted(a, Statement(a)),
           catalog' = catalog \cup Created(a, Statement(a))
    PROVE  Naming'
<1>1. MakersUseTheirNames'
  BY CreateIsFresh DEF IInv, MakersUseTheirNames, Name
<1>2. ASSUME NEW o \in catalog', NEW q \in catalog', o.name = q.name PROVE o = q
  <2>1. CASE o \in catalog /\ q \in catalog
    BY <1>2, <2>1 DEF IInv, OneObjectPerName
  <2>2. CASE o \in Created(a, Statement(a)) /\ q \in Created(a, Statement(a))
    BY <2>2, CreateIsFresh
  <2>3. CASE o \in catalog /\ q \in Created(a, Statement(a))
    BY <1>2, <2>3, CreateIsFresh DEF Exists
  <2>4. CASE o \in Created(a, Statement(a)) /\ q \in catalog
    BY <1>2, <2>4, CreateIsFresh DEF Exists
  <2>5. QED  BY <2>1, <2>2, <2>3, <2>4
<1>3. QED  BY <1>1, <1>2 DEF Naming, OneObjectPerName

\* Removing objects keeps them in order, too.
LEMMA RemovalKeepsNaming ==
    ASSUME IInv, catalog' \subseteq catalog
    PROVE  Naming'
BY DEF IInv, Naming, MakersUseTheirNames, OneObjectPerName

\* The names an account's statement adds are never those of another account.
LEMMA OthersUntouched ==
    ASSUME IInv, NEW a \in Accounts, Running(a), Accepted(a, Statement(a)),
           catalog' = catalog \cup Created(a, Statement(a))
    PROVE  \A o \in catalog' : o \in catalog \/ o.name.account = a
BY CreateIsFresh DEF Name

\* When the display-name check of an account passes, nobody has the name.
LEMMA CheckedBeforeCreate ==
    ASSUME IInv, NEW a \in Accounts, Running(a), provider = "databricks", pc[a] = 1
    PROVE  /\ Statement(a) = Check("principal_absent")
           /\ Accepted(a, Statement(a)) => ~Exists(Name("user", a))
<1>1. Statement(a) = Check("principal_absent")
  BY DatabricksChecksFirst DEF Statement, Plan
<1>2. QED  BY <1>1 DEF Accepted, Check

-----------------------------------------------------------------------------
LEMMA InitIInv == Init => IInv
<1> SUFFICES ASSUME Init PROVE IInv
  OBVIOUS
<1>1. TypeOK  BY InitTypes
<1>2. \A o \in catalog : o.maker = Leftover
  BY DEF Init
<1>3. NothingEscapes /\ MakersUseTheirNames /\ OneObjectPerName
  <2>1. \A o, q \in catalog : o.name = q.name => o = q
    BY DEF Init
  <2>2. QED  BY <1>2, <2>1 DEF NothingEscapes, MakersUseTheirNames, OneObjectPerName
<1>4. /\ PrincipalStillAbsent /\ ReportedIsOwn /\ CleanedSoFar
      /\ NothingReportedYet /\ DoubtNeedsLoss
  BY DEF Init, PrincipalStillAbsent, ReportedIsOwn, CleanedSoFar,
         NothingReportedYet, DoubtNeedsLoss
<1>5. QED  BY <1>1, <1>3, <1>4 DEF IInv

LEMMA SuccessKeepsIInv ==
    ASSUME IInv, TypeOK', NEW a \in Accounts, StatementSucceeds(a)
    PROVE  IInv'
<1> DEFINE s == Statement(a)
<1> USE DEF StatementSucceeds
<1>1. /\ Running(a) /\ Accepted(a, s) /\ status[a] = "generating"
      /\ catalog' = catalog \cup Created(a, s)
      /\ artifacts' = [artifacts EXCEPT ![a] = Reported(a, s)]
      /\ UNCHANGED << provider, status, cursor, inDoubt >>
  BY DEF Running
<1>2. s \in Statements  BY <1>1, StatementType DEF IInv
<1>3. artifacts \in [Accounts -> Seq(ArtifactTypes)]  BY DEF IInv, TypeOK
<1>4. \A b \in Accounts : b # a => artifacts'[b] = artifacts[b]
  BY <1>1, <1>3
<1>5. /\ artifacts'[a] = Reported(a, s)
      /\ \A i \in DOMAIN artifacts[a] :
            i \in DOMAIN Reported(a, s) /\ Reported(a, s)[i] = artifacts[a][i]
      /\ \A i \in DOMAIN Reported(a, s) :
            \/ i \in DOMAIN artifacts[a] /\ Reported(a, s)[i] = artifacts[a][i]
            \/ s.kind = "create" /\ Reported(a, s)[i] = s.what
      /\ s.kind = "create" =>
            \E i \in DOMAIN Reported(a, s) : Reported(a, s)[i] = s.what
  <2>1. artifacts[a] \in Seq(ArtifactTypes)  BY <1>3
  <2>2. CASE s.kind = "create"
    <3>1. s.what \in ArtifactTypes  BY <1>2, <2>2 DEF Statements
    <3>2. /\ DOMAIN Reported(a, s) = 1 .. Len(artifacts[a]) + 1
          /\ Reported(a, s)[Len(artifacts[a]) + 1] = s.what
          /\ \A i \in DOMAIN artifacts[a] : Reported(a, s)[i] = artifacts[a][i]
      BY <2>1, <2>2, <3>1 DEF Reported
    <3>3. DOMAIN artifacts[a] = 1 .. Len(artifacts[a]) /\ Len(artifacts[a]) \in Nat
      BY <2>1
    <3>4. QED  BY <1>1, <1>3, <2>2, <3>2, <3>3
  <2>3. CASE s.kind # "create"
    BY <1>1, <1>3, <2>3 DEF Reported
  <2>4. QED  BY <2>2, <2>3
<1>6. Naming'  BY <1>1, EffectKeepsNaming
<1>7. NothingEscapes'
  <2> SUFFICES ASSUME NEW o \in catalog', o.maker # Leftover
               PROVE  \/ \E i \in DOMAIN artifacts'[o.maker] :
                            artifacts'[o.maker][i] = o.name.type
                      \/ o.name \in inDoubt'
    BY DEF NothingEscapes, TypesIn
  <2>1. CASE o \in catalog
    <3>1. o.maker \in Accounts  BY <2>1 DEF IInv, TypeOK, Objects
    <3>2. \/ \E i \in DOMAIN artifacts[o.maker] : artifacts[o.maker][i] = o.name.type
          \/ o.name \in inDoubt
      BY <2>1 DEF IInv, NothingEscapes, TypesIn
    <3>3. QED  BY <1>1, <1>4, <1>5, <3>1, <3>2
  <2>2. CASE o \in Created(a, s)
    BY <1>1, <1>5, <2>2, CreateIsFresh DEF Name
  <2>3. QED  BY <1>1, <2>1, <2>2
<1>8. PrincipalStillAbsent'
  <2> SUFFICES ASSUME NEW b \in Accounts, provider = "databricks",
                      status[b] = "generating", pc'[b] = 2
               PROVE  ~Exists(Name("user", b))'
    BY <1>1 DEF PrincipalStillAbsent
  <2>1. CASE b # a
    <3>1. ~Exists(Name("user", b))
      BY <2>1 DEF IInv, TypeOK, PrincipalStillAbsent
    <3>2. QED  BY <1>1, <2>1, <3>1, OthersUntouched DEF Exists, Name
  <2>2. CASE b = a
    <3>1. pc[a] \in Nat \ {0} /\ pc'[a] = pc[a] + (IF s.kind = "attempt" THEN 2 ELSE 1)
      BY DEF IInv, TypeOK
    <3>2. pc[a] = 1  BY <2>2, <3>1
    <3>3. s = Check("principal_absent") /\ ~Exists(Name("user", a))
      BY <1>1, <3>2, CheckedBeforeCreate
    <3>4. catalog' = catalog
      BY <1>1, <3>3 DEF Created, Check
    <3>5. QED  BY <2>2, <3>3, <3>4 DEF Exists
  <2>3. QED  BY <2>1, <2>2
<1>9. ReportedIsOwn'
  <2> SUFFICES ASSUME NEW b \in Accounts, NEW i \in DOMAIN artifacts'[b], NEW o \in catalog',
                      o.name = Name(artifacts'[b][i], b)
               PROVE  o.maker = b
    BY DEF ReportedIsOwn
  <2>1. CASE o \in Created(a, s)
    BY <1>1, <2>1, CreateIsFresh, NamesDiffer
  <2>2. CASE o \in catalog /\ b # a
    BY <1>4, <2>2 DEF IInv, ReportedIsOwn
  <2>3. CASE o \in catalog /\ b = a
    <3>1. CASE i \in DOMAIN artifacts[a] /\ Reported(a, s)[i] = artifacts[a][i]
      BY <1>5, <2>3, <3>1 DEF IInv, ReportedIsOwn
    <3>2. CASE s.kind = "create" /\ Reported(a, s)[i] = s.what
      <4>1. [name |-> Name(s.what, a), maker |-> a] \in Created(a, s)
        BY <3>2 DEF Created
      <4>2. QED  BY <1>1, <1>5, <2>3, <3>2, <4>1, CreateIsFresh DEF Exists
    <3>3. QED  BY <1>5, <2>3, <3>1, <3>2
  <2>4. QED  BY <1>1, <2>1, <2>2, <2>3
<1>10. CleanedSoFar'
  <2> SUFFICES ASSUME NEW b \in Accounts, status[b] \in {"rollback", "deleting"},
                      NEW i \in DOMAIN artifacts'[b], i > cursor[b]
               PROVE  \A o \in catalog' : o.name # Name(artifacts'[b][i], b)
    BY <1>1 DEF CleanedSoFar, Exists
  <2>1. b # a  BY <1>1
  <2>2. ~Exists(Name(artifacts[b][i], b)) /\ artifacts'[b] = artifacts[b]
    BY <1>4, <2>1 DEF IInv, CleanedSoFar
  <2>3. QED  BY <1>1, <2>1, <2>2, OthersUntouched DEF Exists, Name
<1>11. NothingReportedYet' /\ DoubtNeedsLoss'
  BY <1>1, <1>4 DEF IInv, NothingReportedYet, DoubtNeedsLoss
<1>12. QED  BY <1>6, <1>7, <1>8, <1>9, <1>10, <1>11 DEF IInv, Naming

\* What a failed statement does to the call: it goes on only past an attempt, which
\* is never the display-name check, or it reports every artifact so far.
LEMMA FailureEffect ==
    ASSUME IInv, NEW a \in Accounts, Running(a), FailureOf(a)
    PROVE  /\ artifacts' = artifacts /\ provider' = provider
           /\ \A b \in Accounts : b # a =>
                 status'[b] = status[b] /\ cursor'[b] = cursor[b] /\ pc'[b] = pc[b]
           /\ status'[a] \in {"generating", "rollback"}
           /\ status'[a] = "rollback" => cursor'[a] = Len(artifacts[a])
           /\ status'[a] = "generating" /\ provider = "databricks" => pc'[a] # 2
<1>1. CASE Statement(a).kind = "attempt"
  <2>1. FallThrough(a)  BY <1>1 DEF FailureOf
  <2>2. provider = "databricks" => pc[a] # 1
    BY <1>1, CheckedBeforeCreate DEF Check
  <2>3. pc[a] \in Nat /\ pc'[a] = pc[a] + 1
    BY <2>1 DEF FallThrough, IInv, TypeOK
  <2>4. QED
    BY <2>1, <2>2, <2>3 DEF FallThrough, IInv, TypeOK, Running
<1>2. CASE Statement(a).kind # "attempt"
  BY <1>2 DEF FailureOf, ReturnError, IInv, TypeOK
<1>3. QED  BY <1>1, <1>2

\* After a failed statement the cursor stands at the last artifact, so nothing has
\* to be gone yet, and the other accounts' cleanups are where they were.
LEMMA FailureKeepsCleaned ==
    ASSUME IInv, NEW a \in Accounts, Running(a), FailureOf(a),
           \A o \in catalog' : o \in catalog \/ o.name.account = a
    PROVE  CleanedSoFar' /\ NothingReportedYet'
<1>1. CleanedSoFar'
  <2> SUFFICES ASSUME NEW b \in Accounts, status'[b] \in {"rollback", "deleting"},
                      NEW i \in DOMAIN artifacts'[b], i > cursor'[b]
               PROVE  \A o \in catalog' : o.name # Name(artifacts'[b][i], b)
    BY DEF CleanedSoFar, Exists
  <2>1. CASE b = a
    <3>1. artifacts[a] \in Seq(ArtifactTypes)  BY DEF IInv, TypeOK
    <3>2. cursor'[a] = Len(artifacts[a]) /\ i \in DOMAIN artifacts[a]
      BY <2>1, FailureEffect
    <3>3. QED  BY <2>1, <3>1, <3>2
  <2>2. CASE b # a
    BY <2>2, FailureEffect DEF IInv, CleanedSoFar, Exists, Name
  <2>3. QED  BY <2>1, <2>2
<1>2. NothingReportedYet'
  BY FailureEffect DEF IInv, NothingReportedYet
<1>3. QED  BY <1>1, <1>2

LEMMA FailureKeepsIInv ==
    ASSUME IInv, TypeOK', NEW a \in Accounts, StatementFails(a)
    PROVE  IInv'
<1>1. /\ Running(a) /\ FailureOf(a)
      /\ UNCHANGED << catalog, held, inDoubt >>
  BY DEF StatementFails
<1>2. artifacts' = artifacts /\ provider' = provider
  BY <1>1, FailureEffect
<1>3. Naming'  BY <1>1, RemovalKeepsNaming
<1>4. NothingEscapes' /\ ReportedIsOwn' /\ DoubtNeedsLoss'
  BY <1>1, <1>2 DEF IInv, NothingEscapes, ReportedIsOwn, DoubtNeedsLoss
<1>5. PrincipalStillAbsent'
  BY <1>1, FailureEffect DEF IInv, PrincipalStillAbsent, Exists
<1>6. CleanedSoFar' /\ NothingReportedYet'
  BY <1>1, FailureKeepsCleaned
<1>7. QED  BY <1>3, <1>4, <1>5, <1>6 DEF IInv, Naming

LEMMA ReplyLostKeepsIInv ==
    ASSUME IInv, TypeOK', NEW a \in Accounts, StatementReplyLost(a)
    PROVE  IInv'
<1> DEFINE s == Statement(a)
<1>1. /\ Running(a) /\ Accepted(a, s) /\ FailureOf(a) /\ LostReplies
      /\ catalog' = catalog \cup Created(a, s)
      /\ inDoubt' = inDoubt \cup {o.name : o \in Created(a, s)}
  BY DEF StatementReplyLost
<1>2. artifacts' = artifacts /\ provider' = provider
  BY <1>1, FailureEffect
<1>3. \A o \in catalog' : o \in catalog \/ o.name.account = a
  BY <1>1, OthersUntouched
<1>4. Naming'  BY <1>1, EffectKeepsNaming
<1>5. NothingEscapes'
  BY <1>1, <1>2 DEF IInv, NothingEscapes
<1>6. PrincipalStillAbsent'
  <2> SUFFICES ASSUME NEW b \in Accounts, provider = "databricks",
                      status'[b] = "generating", pc'[b] = 2
               PROVE  \A o \in catalog' : o.name # Name("user", b)
    BY <1>2 DEF PrincipalStillAbsent, Exists
  <2>1. b # a /\ status[b] = "generating" /\ pc[b] = 2
    BY <1>1, FailureEffect
  <2>2. QED
    BY <1>3, <2>1 DEF IInv, PrincipalStillAbsent, Exists, Name
<1>7. ReportedIsOwn'
  <2> SUFFICES ASSUME NEW b \in Accounts, NEW i \in DOMAIN artifacts[b], NEW o \in catalog',
                      o.name = Name(artifacts[b][i], b)
               PROVE  o.maker = b
    BY <1>2 DEF ReportedIsOwn
  <2>1. CASE o \in Created(a, s)
    BY <1>1, <2>1, CreateIsFresh DEF Name
  <2>2. CASE o \in catalog
    BY <2>2 DEF IInv, ReportedIsOwn
  <2>3. QED  BY <1>1, <2>1, <2>2
<1>8. CleanedSoFar' /\ NothingReportedYet'
  BY <1>1, <1>3, FailureKeepsCleaned
<1>9. DoubtNeedsLoss'  BY <1>1 DEF DoubtNeedsLoss
<1>10. QED  BY <1>4, <1>5, <1>6, <1>7, <1>8, <1>9 DEF IInv, Naming


LEMMA GenerateKeepsIInv ==
    ASSUME IInv, TypeOK', NEW a \in Accounts, GenerateAccount(a)
    PROVE  IInv'
<1>1. /\ status[a] = "absent" /\ status' = [status EXCEPT ![a] = "generating"]
      /\ pc' = [pc EXCEPT ![a] = 1]
      /\ UNCHANGED << provider, catalog, artifacts, cursor, inDoubt >>
  BY DEF GenerateAccount
<1>2. Naming'  BY <1>1, RemovalKeepsNaming
<1>3. NothingEscapes' /\ ReportedIsOwn' /\ DoubtNeedsLoss'
  BY <1>1 DEF IInv, NothingEscapes, ReportedIsOwn, DoubtNeedsLoss
<1>4. \A b \in Accounts : /\ b # a => status'[b] = status[b] /\ pc'[b] = pc[b]
                          /\ b = a => status'[b] = "generating" /\ pc'[b] = 1
  BY <1>1 DEF IInv, TypeOK
<1>5. PrincipalStillAbsent'
  BY <1>1, <1>4 DEF IInv, PrincipalStillAbsent, Exists
<1>6. CleanedSoFar' /\ NothingReportedYet'
  BY <1>1, <1>4 DEF IInv, CleanedSoFar, NothingReportedYet, Exists
<1>7. QED  BY <1>2, <1>3, <1>5, <1>6 DEF IInv, Naming

LEMMA ReturnKeepsIInv ==
    ASSUME IInv, TypeOK', NEW a \in Accounts, ReturnAccount(a)
    PROVE  IInv'
<1>1. /\ status' = [status EXCEPT ![a] = "live"]
      /\ UNCHANGED << provider, catalog, pc, artifacts, cursor, inDoubt >>
  BY DEF ReturnAccount
<1>2. Naming'  BY <1>1, RemovalKeepsNaming
<1>3. NothingEscapes' /\ ReportedIsOwn' /\ DoubtNeedsLoss'
  BY <1>1 DEF IInv, NothingEscapes, ReportedIsOwn, DoubtNeedsLoss
<1>4. \A b \in Accounts : (b # a /\ status'[b] = status[b]) \/ status'[b] = "live"
  BY <1>1 DEF IInv, TypeOK
<1>5. PrincipalStillAbsent' /\ CleanedSoFar' /\ NothingReportedYet'
  BY <1>1, <1>4 DEF IInv, PrincipalStillAbsent, CleanedSoFar, NothingReportedYet, Exists
<1>6. QED  BY <1>2, <1>3, <1>5 DEF IInv, Naming

\* A cleanup that starts, or starts again, leaves the catalog's names in order: all
\* artifacts are still to be deleted, so none has to be gone.
LEMMA RestartKeepsCleaned ==
    ASSUME IInv, NEW a \in Accounts, catalog' \subseteq catalog, artifacts' = artifacts,
           cursor' = [cursor EXCEPT ![a] = Len(artifacts[a])],
           \A b \in Accounts : b # a => status'[b] = status[b]
    PROVE  CleanedSoFar'
<1> SUFFICES ASSUME NEW b \in Accounts, status'[b] \in {"rollback", "deleting"},
                    NEW i \in DOMAIN artifacts[b], i > cursor'[b]
             PROVE  \A o \in catalog' : o.name # Name(artifacts[b][i], b)
  BY DEF CleanedSoFar, Exists
<1>1. CASE b = a
  <2>1. artifacts[a] \in Seq(ArtifactTypes)  BY DEF IInv, TypeOK
  <2>2. cursor'[a] = Len(artifacts[a])  BY DEF IInv, TypeOK
  <2>3. QED  BY <1>1, <2>1, <2>2
<1>2. CASE b # a
  BY <1>2 DEF IInv, TypeOK, CleanedSoFar, Exists
<1>3. QED  BY <1>1, <1>2

LEMMA DeleteBindingKeepsIInv ==
    ASSUME IInv, TypeOK', NEW a \in Accounts, DeleteBinding(a)
    PROVE  IInv'
<1>1. /\ status' = [status EXCEPT ![a] = "deleting"]
      /\ cursor' = [cursor EXCEPT ![a] = Len(artifacts[a])]
      /\ UNCHANGED << provider, catalog, pc, artifacts, inDoubt >>
  BY DEF DeleteBinding
<1>2. Naming'  BY <1>1, RemovalKeepsNaming
<1>3. NothingEscapes' /\ ReportedIsOwn' /\ DoubtNeedsLoss'
  BY <1>1 DEF IInv, NothingEscapes, ReportedIsOwn, DoubtNeedsLoss
<1>4. \A b \in Accounts : /\ b # a => status'[b] = status[b]
                          /\ b = a => status'[b] = "deleting"
  BY <1>1 DEF IInv, TypeOK
<1>5. PrincipalStillAbsent' /\ NothingReportedYet'
  BY <1>1, <1>4 DEF IInv, PrincipalStillAbsent, NothingReportedYet, Exists
<1>6. CleanedSoFar'  BY <1>1, <1>4, RestartKeepsCleaned
<1>7. QED  BY <1>2, <1>3, <1>5, <1>6 DEF IInv, Naming

\* Dropping a name leaves nothing of that name: no two objects share one.
LEMMA DropRemovesName ==
    ASSUME IInv, NEW n, Drop(n)
    PROVE  /\ catalog' \subseteq catalog
           /\ \A o \in catalog' : o.name # n
           /\ \A o \in catalog \ catalog' : o.name = n
BY DEF IInv, OneObjectPerName, Drop, Exists

\* What holds whenever a step only removes objects and keeps every report.
LEMMA RemovalKeepsReports ==
    ASSUME IInv, catalog' \subseteq catalog,
           UNCHANGED << provider, status, pc, artifacts, inDoubt >>
    PROVE  /\ NothingEscapes' /\ Naming' /\ PrincipalStillAbsent'
           /\ ReportedIsOwn' /\ NothingReportedYet' /\ DoubtNeedsLoss'
<1>1. Naming'  BY RemovalKeepsNaming
<1>2. NothingEscapes' /\ ReportedIsOwn' /\ NothingReportedYet' /\ DoubtNeedsLoss'
  BY DEF IInv, NothingEscapes, ReportedIsOwn, NothingReportedYet, DoubtNeedsLoss
<1>3. PrincipalStillAbsent'
  BY DEF IInv, PrincipalStillAbsent, Exists
<1>4. QED  BY <1>1, <1>2, <1>3

LEMMA DeleteArtifactKeepsIInv ==
    ASSUME IInv, TypeOK', NEW a \in Accounts, DeleteArtifact(a)
    PROVE  IInv'
<1>1. /\ Drop(Target(a)) /\ cursor[a] > 0
      /\ cursor' = [cursor EXCEPT ![a] = @ - 1]
      /\ UNCHANGED << provider, status, pc, artifacts, inDoubt >>
  BY DEF DeleteArtifact, Deleting
<1>2. /\ catalog' \subseteq catalog
      /\ \A o \in catalog' : o.name # Target(a)
  BY <1>1, DropRemovesName
<1>3. CleanedSoFar'
  <2> SUFFICES ASSUME NEW b \in Accounts, status[b] \in {"rollback", "deleting"},
                      NEW i \in DOMAIN artifacts[b], i > cursor'[b]
               PROVE  \A o \in catalog' : o.name # Name(artifacts[b][i], b)
    BY <1>1 DEF CleanedSoFar, Exists
  <2>1. CASE i > cursor[b]
    BY <1>2, <2>1 DEF IInv, CleanedSoFar, Exists
  <2>2. CASE ~(i > cursor[b])
    <3>1. /\ artifacts[b] \in Seq(ArtifactTypes) /\ cursor[b] \in Nat
          /\ b # a => cursor'[b] = cursor[b]
          /\ b = a => cursor'[b] = cursor[b] - 1
      BY <1>1 DEF IInv, TypeOK
    <3>2. i \in Nat  BY <3>1
    <3>3. b = a /\ i = cursor[a]  BY <2>2, <3>1, <3>2
    <3>4. QED  BY <1>2, <3>3 DEF Target
  <2>3. QED  BY <2>1, <2>2
<1>4. QED  BY <1>1, <1>2, <1>3, RemovalKeepsReports DEF IInv, Naming

LEMMA DeleteFailsKeepsIInv ==
    ASSUME IInv, TypeOK', NEW a \in Accounts, DeleteArtifactFails(a)
    PROVE  IInv'
<1>1. /\ catalog' \subseteq catalog
      /\ cursor' = [cursor EXCEPT ![a] = Len(artifacts[a])]
      /\ UNCHANGED << provider, status, pc, artifacts, inDoubt >>
  BY DEF DeleteArtifactFails, Drop
<1>2. CleanedSoFar'  BY <1>1, RestartKeepsCleaned
<1>3. QED  BY <1>1, <1>2, RemovalKeepsReports DEF IInv, Naming

\* At the end of a cleanup everything the account reported is gone.
LEMMA CleanupIsComplete ==
    ASSUME IInv, NEW a \in Accounts, status[a] \in {"rollback", "deleting"}, cursor[a] = 0,
           NEW o \in catalog, o.maker = a
    PROVE  o.name \in inDoubt
<1>1. a \in Accounts /\ o.maker # Leftover /\ o.name \in Names /\ o.name.account = a
  BY LeftoverAssumption DEF IInv, TypeOK, Objects, MakersUseTheirNames
<1>2. SUFFICES ASSUME NEW i \in DOMAIN artifacts[a], artifacts[a][i] = o.name.type
               PROVE  FALSE
  BY <1>1 DEF IInv, NothingEscapes, TypesIn
<1>3. artifacts[a] \in Seq(ArtifactTypes)  BY DEF IInv, TypeOK
<1>4. i > cursor[a]  BY <1>2, <1>3
<1>5. o.name = Name(artifacts[a][i], a)  BY <1>1, <1>2 DEF Name, Names
<1>6. QED  BY <1>4, <1>5 DEF IInv, CleanedSoFar, Exists

LEMMA FinishKeepsIInv ==
    ASSUME IInv, TypeOK', NEW a \in Accounts, FinishCleanup(a)
    PROVE  IInv'
<1>1. /\ status[a] \in {"rollback", "deleting"} /\ cursor[a] = 0
      /\ status' = [status EXCEPT ![a] = IF @ = "rollback" THEN "absent" ELSE "deleted"]
      /\ artifacts' = [artifacts EXCEPT ![a] = << >>]
      /\ UNCHANGED << provider, catalog, pc, cursor, inDoubt >>
  BY DEF FinishCleanup
<1>2. Naming'  BY <1>1, RemovalKeepsNaming
<1>3. /\ \A b \in Accounts : b # a => status'[b] = status[b] /\ artifacts'[b] = artifacts[b]
      /\ status'[a] \in {"absent", "deleted"} /\ artifacts'[a] = << >>
  BY <1>1 DEF IInv, TypeOK
<1>4. NothingEscapes'
  <2> SUFFICES ASSUME NEW o \in catalog, o.maker # Leftover, o.name \notin inDoubt
               PROVE  \E i \in DOMAIN artifacts'[o.maker] :
                         artifacts'[o.maker][i] = o.name.type
    BY <1>1 DEF NothingEscapes, TypesIn
  <2>1. o.maker # a  BY <1>1, CleanupIsComplete
  <2>2. o.maker \in Accounts  BY DEF IInv, TypeOK, Objects
  <2>3. QED  BY <1>3, <2>1, <2>2 DEF IInv, NothingEscapes, TypesIn
<1>5. ReportedIsOwn' /\ CleanedSoFar' /\ NothingReportedYet'
  <2>1. \A b \in Accounts : \A i \in DOMAIN artifacts'[b] : b # a
    BY <1>3
  <2>2. ReportedIsOwn'
    BY <1>1, <1>3, <2>1 DEF IInv, ReportedIsOwn
  <2>3. CleanedSoFar'
    BY <1>1, <1>3, <2>1 DEF IInv, CleanedSoFar, Exists
  <2>4. NothingReportedYet'
    BY <1>3 DEF IInv, NothingReportedYet
  <2>5. QED  BY <2>2, <2>3, <2>4
<1>6. PrincipalStillAbsent' /\ DoubtNeedsLoss'
  BY <1>1, <1>3 DEF IInv, PrincipalStillAbsent, DoubtNeedsLoss, Exists
<1>7. QED  BY <1>2, <1>4, <1>5, <1>6 DEF IInv, Naming

\* The strengthening is inductive.
LEMMA StepKeepsIInv == IInv /\ [Next]_vars => IInv'
<1> SUFFICES ASSUME IInv, [Next]_vars PROVE IInv'
  OBVIOUS
<1>1. TypeOK'  BY StepKeepsTypes DEF IInv
<1>2. CASE UNCHANGED vars
  BY <1>2 DEF vars, IInv, TypeOK, NothingEscapes, MakersUseTheirNames, OneObjectPerName,
              PrincipalStillAbsent, ReportedIsOwn, CleanedSoFar, NothingReportedYet,
              DoubtNeedsLoss, Exists
<1>3. CASE Next
  BY <1>1, <1>3, GenerateKeepsIInv, SuccessKeepsIInv, FailureKeepsIInv,
     ReplyLostKeepsIInv, ReturnKeepsIInv, DeleteBindingKeepsIInv,
     DeleteArtifactKeepsIInv, DeleteFailsKeepsIInv, FinishKeepsIInv DEF Next
<1>4. QED  BY <1>2, <1>3

THEOREM Invariance == Spec => []IInv
BY InitIInv, StepKeepsIInv, PTL DEF Spec

\* During a cleanup the cursor points at a reported artifact.
CursorInRange ==
    \A a \in Accounts : status[a] \in {"rollback", "deleting"} =>
                            cursor[a] <= Len(artifacts[a])

LEMMA CursorStaysInRange == Spec => [](TypeOK /\ CursorInRange)
<1>1. Init => CursorInRange  BY DEF Init, CursorInRange
<1>2. TypeOK /\ CursorInRange /\ [Next]_vars => CursorInRange'
  <2> SUFFICES ASSUME TypeOK, CursorInRange, [Next]_vars PROVE CursorInRange'
    OBVIOUS
  <2> USE DEF CursorInRange
  <2>1. ASSUME NEW a \in Accounts,
               \/ GenerateAccount(a) \/ StatementSucceeds(a) \/ ReturnAccount(a)
               \/ DeleteBinding(a)
        PROVE  CursorInRange'
    <3>1. CASE GenerateAccount(a)
      BY <3>1 DEF GenerateAccount, TypeOK
    <3>2. CASE StatementSucceeds(a)
      <4>1. status[a] = "generating" /\ status' = status /\ cursor' = cursor
        BY <3>2 DEF StatementSucceeds, Running
      <4>2. \A b \in Accounts : b # a => artifacts'[b] = artifacts[b]
        BY <3>2 DEF StatementSucceeds, TypeOK
      <4>3. QED  BY <4>1, <4>2
    <3>3. CASE ReturnAccount(a)
      BY <3>3 DEF ReturnAccount, TypeOK
    <3>4. CASE DeleteBinding(a)
      <4>1. artifacts[a] \in Seq(ArtifactTypes)  BY DEF TypeOK
      <4>2. QED  BY <3>4, <4>1 DEF DeleteBinding, TypeOK
    <3>5. QED  BY <2>1, <3>1, <3>2, <3>3, <3>4
  <2>2. ASSUME NEW a \in Accounts, StatementFails(a) \/ StatementReplyLost(a)
        PROVE  CursorInRange'
    <3>1. status[a] = "generating" /\ (FallThrough(a) \/ ReturnError(a))
      BY <2>2 DEF StatementFails, StatementReplyLost, Running, FailureOf
    <3>2. artifacts[a] \in Seq(ArtifactTypes)  BY DEF TypeOK
    <3>3. CASE FallThrough(a)
      BY <3>3 DEF FallThrough
    <3>4. CASE ReturnError(a)
      BY <3>2, <3>4 DEF ReturnError, TypeOK
    <3>5. QED  BY <3>1, <3>3, <3>4
  <2>3. ASSUME NEW a \in Accounts,
               DeleteArtifact(a) \/ DeleteArtifactFails(a) \/ FinishCleanup(a)
        PROVE  CursorInRange'
    <3>1. artifacts[a] \in Seq(ArtifactTypes)  BY DEF TypeOK
    <3>2. CASE DeleteArtifact(a)
      BY <3>1, <3>2 DEF DeleteArtifact, TypeOK
    <3>3. CASE DeleteArtifactFails(a)
      BY <3>1, <3>3 DEF DeleteArtifactFails, TypeOK
    <3>4. CASE FinishCleanup(a)
      BY <3>4 DEF FinishCleanup, TypeOK
    <3>5. QED  BY <2>3, <3>2, <3>3, <3>4
  <2>4. CASE UNCHANGED vars
    BY <2>4 DEF vars
  <2>5. QED  BY <2>1, <2>2, <2>3, <2>4 DEF Next
<1>3. QED  BY <1>1, <1>2, InitTypes, StepKeepsTypes, PTL DEF Spec

-----------------------------------------------------------------------------
(* The theorems a reader should know *)

\* Whatever fails, and in whatever order the accounts run, an object made for an
\* account is reported as its artifact or is the object of a lost CREATE reply.
THEOREM NothingEscapesAlways == Spec => []NothingEscapes
<1>1. IInv => NothingEscapes  BY DEF IInv
<1>2. QED  BY <1>1, Invariance, PTL

\* An account that was rolled back or deleted has left nothing, unless some CREATE
\* took effect and had its reply lost.
THEOREM CleanUnlessInDoubtAlways == Spec => []CleanUnlessInDoubt
<1>1. IInv => CleanUnlessInDoubt
  <2> SUFFICES ASSUME IInv, inDoubt = {}, NEW a \in Accounts,
                      status[a] \in {"absent", "deleted"}, NEW o \in catalog, o.maker = a
               PROVE  FALSE
    BY DEF CleanUnlessInDoubt, FailureLeavesNothing
  <2>1. artifacts[a] = << >>  BY DEF IInv, NothingReportedYet
  <2>2. QED  BY <2>1, LeftoverAssumption DEF IInv, NothingEscapes, TypesIn
<1>2. QED  BY <1>1, Invariance, PTL

\* If no reply is ever lost a failure leaves nothing, without exception.
THEOREM FailureLeavesNothingIfToldSo ==
    ASSUME ~LostReplies
    PROVE  Spec => []FailureLeavesNothing
<1>1. IInv /\ CleanUnlessInDoubt => FailureLeavesNothing
  BY DEF IInv, DoubtNeedsLoss, CleanUnlessInDoubt
<1>2. QED  BY <1>1, Invariance, CleanUnlessInDoubtAlways, PTL

\* A step that removes an object is a deletion for the account that made it: an
\* object that had the name before the account, or another account's, is never dropped.
THEOREM CleanupRemovesOnlyItsOwn == Spec => CleansOnlyItsOwn
<1> DEFINE Clean == \A o \in catalog \ catalog' :
                       /\ o.maker # Leftover
                       /\ status[o.maker] \in {"rollback", "deleting"}
<1>1. IInv /\ CursorInRange /\ Next => Clean
  <2> SUFFICES ASSUME IInv, CursorInRange, NEW a \in Accounts,
                      \/ DeleteArtifact(a) \/ DeleteArtifactFails(a)
                      \/ catalog \subseteq catalog',
                      NEW o \in catalog, o \notin catalog'
               PROVE  o.maker # Leftover /\ status[o.maker] \in {"rollback", "deleting"}
    <3>1. ASSUME NEW a \in Accounts
          PROVE  \/ GenerateAccount(a) \/ StatementSucceeds(a) \/ StatementFails(a)
                 \/ StatementReplyLost(a) \/ ReturnAccount(a) \/ DeleteBinding(a)
                 \/ FinishCleanup(a)
                 => catalog \subseteq catalog'
      BY DEF GenerateAccount, StatementSucceeds, StatementFails, StatementReplyLost,
             ReturnAccount, DeleteBinding, FinishCleanup
    <3>2. QED  BY <3>1 DEF Next
  <2>1. Deleting(a) /\ Drop(Target(a))
    BY DEF DeleteArtifact, DeleteArtifactFails
  <2>2. o.name = Target(a)  BY <2>1, DropRemovesName
  <2>3. artifacts[a] \in Seq(ArtifactTypes) /\ cursor[a] \in Nat
    BY DEF IInv, TypeOK
  <2>4. cursor[a] \in DOMAIN artifacts[a]
    BY <2>1, <2>3 DEF Deleting, CursorInRange
  <2>5. QED
    BY <2>1, <2>2, <2>4, LeftoverAssumption DEF Deleting, Target, IInv, ReportedIsOwn
<1>2. IInv /\ CursorInRange /\ [Next]_vars => [Clean]_vars
  BY <1>1
<1>3. QED  BY <1>2, Invariance, CursorStaysInRange, PTL DEF Spec, CleansOnlyItsOwn

=============================================================================
