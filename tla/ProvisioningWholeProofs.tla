----------------------- MODULE ProvisioningWholeProofs -----------------------
(***************************************************************************)
(* More theorems about Provisioning: an account handed to the application  *)
(* is whole, and deleting it in reverse creation order is never blocked.   *)
(***************************************************************************)
EXTENDS ProvisioningProofs

-----------------------------------------------------------------------------
(* The inductive invariants                                                 *)

InUse(a) == status[a] \in {"generating", "live"}

\* A derived account starts in the container of a live base, which may be deleted
\* meanwhile but is never rolled back.
BaseStands ==
    \A a \in Accounts : InUse(a) =>
        IsBase(a) \/ status[BaseOf[a]] \in {"live", "deleting", "deleted"}

LiveHasRun == \A a \in Accounts : status[a] = "live" => pc[a] > Len(Plan(provider, a))

\* Deleted with its account, and not to come back.
Gone(n) == ~Exists(n) /\ status[n.account] \in {"deleting", "deleted"}

\* What a statement is for: its object is there, or its privilege is in effect, unless it
\* went with an object of the base.
Done(a, i) ==
    LET s == Plan(provider, a)[i]
    IN  /\ s.kind = "create" => [name |-> Name(s.what, a), maker |-> a] \in catalog
        /\ s.kind = "grant" => GrantInEffect(a, i) \/ \E n \in s.needs : Gone(n)

DoneSoFar ==
    \A a \in Accounts : InUse(a) =>
        \A i \in DOMAIN Plan(provider, a) : i < pc[a] => Done(a, i)

WholeInv == IInv /\ BaseStands /\ LiveHasRun /\ DoneSoFar

\* What is reported can be dropped.
ReportedDrops ==
    \A a \in Accounts : \A i \in DOMAIN artifacts[a] : artifacts[a][i] \in Drops(provider)

\* On SQL Server the user is reported before the schema it owns.
UserBeforeSchema ==
    provider = "sqlserver" =>
        \A a \in Accounts :
            /\ status[a] = "generating" /\ pc[a] <= 2 => "schema" \notin TypesIn(artifacts[a])
            /\ \A i, j \in DOMAIN artifacts[a] :
                  artifacts[a][i] = "schema" /\ artifacts[a][j] = "user" => j < i

OrderInv == IInv /\ CursorInRange /\ ReportedDrops /\ UserBeforeSchema

-----------------------------------------------------------------------------
(* The plans                                                                *)

\* What an account may need, and create.
LEMMA PlanSteps ==
    ASSUME NEW p \in Providers, NEW a \in Accounts, NEW i \in DOMAIN Plan(p, a)
    PROVE  /\ Plan(p, a)[i] \in Statements
           /\ \A n \in Plan(p, a)[i].needs : n.account \in {a, BaseOf[a]}
           /\ Plan(p, a)[i].kind = "create" => Plan(p, a)[i].what \in Drops(p)
           /\ Plan(p, a)[i].kind = "attempt" => p = "databricks"
<1>1. Plan(p, a) \in Seq(Fitting(p, a))  BY PlanFits
<1>2. Plan(p, a)[i] \in Fitting(p, a)  BY <1>1
<1>3. QED  BY <1>2 DEF Fitting

\* What is put after the first two statements of a plan leaves them where they are.
LEMMA AfterTwo ==
    ASSUME NEW T, NEW S \in SUBSET T, NEW h \in Seq(T), Len(h) >= 2,
           \A i \in DOMAIN h : i > 2 => h[i] \in S,
           NEW t \in Seq(S)
    PROVE  /\ h \o t \in Seq(T) /\ Len(h \o t) >= 2
           /\ (h \o t)[1] = h[1] /\ (h \o t)[2] = h[2]
           /\ \A i \in DOMAIN (h \o t) : i > 2 => (h \o t)[i] \in S
<1>1. t \in Seq(T)  OBVIOUS
<1>2. h \o t \in Seq(T) /\ Len(h \o t) = Len(h) + Len(t)  BY <1>1
<1>3. \A i \in DOMAIN (h \o t) : (h \o t)[i] = IF i <= Len(h) THEN h[i] ELSE t[i - Len(h)]
  BY <1>1
<1>4. 1 \in DOMAIN (h \o t) /\ 2 \in DOMAIN (h \o t)  BY <1>2
<1>5. ASSUME NEW i \in DOMAIN (h \o t), i > 2 PROVE (h \o t)[i] \in S
  <2>1. CASE i <= Len(h)  BY <1>2, <1>3, <1>5, <2>1
  <2>2. CASE ~(i <= Len(h))
    <3>1. i - Len(h) \in DOMAIN t  BY <1>1, <1>2, <1>5, <2>2
    <3>2. QED  BY <1>3, <1>5, <2>2, <3>1
  <2>3. QED  BY <2>1, <2>2
<1>6. QED  BY <1>2, <1>3, <1>4, <1>5

\* On SQL Server the user is created second, and the schema later.
LEMMA SqlServerCreates ==
    ASSUME NEW a \in Accounts, NEW i \in DOMAIN SqlServerPlan(a),
           SqlServerPlan(a)[i].kind = "create"
    PROVE  /\ SqlServerPlan(a)[i].what = "user" => i = 2
           /\ SqlServerPlan(a)[i].what = "schema" => i > 2
<1> DEFINE NoUser == {s \in Statements : s.kind = "create" => s.what # "user"}
           user == Name("user", a)
           head == << Create("login", {}), Create("user", {Name("login", a)}) >>
           schema == When(IsBase(a), << Create("schema", {user}), Grant("create_objects", {user}) >>)
<1>1. {user, Name("login", a)} \subseteq Names
  BY NameTypes DEF ArtifactTypes
<1>2. head \in Seq(Statements) /\ Len(head) = 2
  BY <1>1, StatementTypes DEF ArtifactTypes
<1>3. schema \in Seq(NoUser)
  <2>1. Create("schema", {user}) \in NoUser /\ Grant("create_objects", {user}) \in NoUser
    BY <1>1, StatementTypes DEF ArtifactTypes, GrantNames, Create, Grant
  <2> HIDE DEF NoUser
  <2>2. QED  BY <2>1 DEF When
<1>4. << Check("account_url") >> \in Seq(NoUser)
  <2>1. Check("account_url") \in NoUser  BY StatementTypes DEF CheckNames, Check
  <2>2. QED  BY <2>1
<1>5. SqlServerPlan(a) = (head \o schema) \o << Check("account_url") >>
  BY DEF SqlServerPlan
<1> HIDE DEF NoUser, schema
<1>6. /\ head \o schema \in Seq(Statements) /\ Len(head \o schema) >= 2
      /\ (head \o schema)[1] = head[1]
      /\ \A j \in DOMAIN (head \o schema) : j > 2 => (head \o schema)[j] \in NoUser
  <2>1. NoUser \subseteq Statements  BY DEF NoUser
  <2>2. \A j \in DOMAIN head : ~(j > 2)  BY <1>2
  <2>3. QED  BY <1>2, <1>3, <2>1, <2>2, AfterTwo
<1>7. /\ SqlServerPlan(a) \in Seq(Statements)
      /\ SqlServerPlan(a)[1] = head[1]
      /\ \A j \in DOMAIN SqlServerPlan(a) : j > 2 => SqlServerPlan(a)[j] \in NoUser
  <2>1. NoUser \subseteq Statements  BY DEF NoUser
  <2>2. QED  BY <1>4, <1>5, <1>6, <2>1, AfterTwo
<1>8. SqlServerPlan(a)[2] = head[2]
  <2>1. (head \o schema)[2] = head[2]
    <3>1. NoUser \subseteq Statements  BY DEF NoUser
    <3>2. \A j \in DOMAIN head : ~(j > 2)  BY <1>2
    <3>3. QED  BY <1>2, <1>3, <3>1, <3>2, AfterTwo
  <2>2. NoUser \subseteq Statements  BY DEF NoUser
  <2>3. QED  BY <1>4, <1>5, <1>6, <2>1, <2>2, AfterTwo
<1>9. i \in Nat \ {0}  BY <1>7
<1>10. CASE i = 1  BY <1>7, <1>10 DEF Create
<1>11. CASE i = 2  BY <1>8, <1>11 DEF Create
<1>12. CASE i > 2  BY <1>7, <1>12 DEF NoUser
<1>13. QED  BY <1>9, <1>10, <1>11, <1>12

\* What follows an attempt is the grant that stands in for it.
LEMMA AttemptThenGrant ==
    ASSUME NEW p \in Providers, NEW a \in Accounts, NEW i \in DOMAIN Plan(p, a),
           Plan(p, a)[i].kind = "attempt"
    PROVE  /\ i + 1 \in DOMAIN Plan(p, a)
           /\ Plan(p, a)[i + 1].kind = "grant"
           /\ Plan(p, a)[i + 1].needs = Plan(p, a)[i].needs
<1> DEFINE Other == {s \in Statements : s.kind # "attempt"}
           user == {Name("user", a)}
           baseSchema == Name("schema", BaseOf[a])
           head == << Check("principal_absent"), Create("user", {}) >>
           cred == DatabricksCredential(a)
           use == << Grant("warehouse_use", {Name("user", a)}) >>
           schema == When(IsBase(a), << Create("schema", {}) >>)
           last == << Grant("use_catalog", {Name("user", a)}),
                      Grant(IF IsBase(a) THEN "schema_all" ELSE "use_schema",
                            {Name("user", a), baseSchema}) >>
           after == DatabricksAfterCreate(a)
<1>1. p = "databricks" /\ Plan(p, a) = DatabricksPlan(a)
  BY PlanSteps DEF Plan
<1>2. {Name("user", a), baseSchema} \subseteq Names
  BY NameTypes, BaseOfAssumption DEF ArtifactTypes
<1>3. /\ \A g \in GrantNames, needs \in SUBSET Names : Grant(g, needs) \in Other
      /\ Create("schema", {}) \in Other
  BY StatementTypes DEF ArtifactTypes, Grant, Create
<1>o. Other \subseteq Statements  OBVIOUS
<1> HIDE DEF Other
<1>4. use \in Seq(Other) /\ schema \in Seq(Other) /\ last \in Seq(Other)
  <2>1. use \in Seq(Other)  BY <1>2, <1>3 DEF GrantNames
  <2>2. schema \in Seq(Other)  BY <1>3 DEF When
  <2>3. last \in Seq(Other)  BY <1>2, <1>3 DEF GrantNames
  <2>4. QED  BY <2>1, <2>2, <2>3
<1>5. after = ((cred \o use) \o schema) \o last
  BY DEF DatabricksAfterCreate
<1>6. head \in Seq(Statements) /\ Len(head) = 2
  BY StatementTypes DEF CheckNames, ArtifactTypes
<1> HIDE DEF use, schema, last
<1>7. CASE CredentialType # "auto"
  <2>1. cred \in Seq(Other)
    <3>1. Grant("oauth_secret", user) \in Other /\ Grant("obo_token", user) \in Other
      BY <1>2, <1>3 DEF GrantNames
    <3>2. QED  BY <1>7, <3>1 DEF DatabricksCredential, When
  <2> HIDE DEF cred
  <2>2. after \in Seq(Other)  BY <1>4, <1>5, <2>1
  <2> HIDE DEF after
  <2>3. DatabricksPlan(a) = head \o after  BY DEF DatabricksPlan, after
  <2>4. \A j \in DOMAIN head : ~(j > 2)  BY <1>6
  <2>5. /\ DatabricksPlan(a) \in Seq(Statements)
        /\ DatabricksPlan(a)[1] = head[1] /\ DatabricksPlan(a)[2] = head[2]
        /\ \A j \in DOMAIN DatabricksPlan(a) : j > 2 => DatabricksPlan(a)[j] \in Other
    BY <1>o, <1>6, <2>2, <2>3, <2>4, AfterTwo
  <2>6. FALSE
    <3>1. i \in Nat \ {0}  BY <1>1, <2>5
    <3>2. CASE i = 1  BY <1>1, <2>5, <3>2 DEF Check
    <3>3. CASE i = 2  BY <1>1, <2>5, <3>3 DEF Create
    <3>4. CASE i > 2  BY <1>1, <2>5, <3>4 DEF Other
    <3>5. QED  BY <3>1, <3>2, <3>3, <3>4
  <2>7. QED  BY <2>6
<1>8. CASE CredentialType = "auto"
  <2>1. cred = << Attempt("oauth_secret", user), Grant("obo_token", user) >>
    <3>1. PICK x : x = Attempt("oauth_secret", user)  OBVIOUS
    <3>2. PICK y : y = Grant("obo_token", user)  OBVIOUS
    <3>3. cred = (<< >> \o << x >>) \o << y >>
      BY <1>8, <3>1, <3>2 DEF DatabricksCredential, When
    <3>4. << x >> \in Seq({x, y}) /\ << y >> \in Seq({x, y}) /\ << x, y >> \in Seq({x, y})
      OBVIOUS
    <3>5. << >> \o << x >> = << x >>  BY <3>4
    <3>6. PICK c : c = << x >> \o << y >>  OBVIOUS
    <3>7. c \in Seq({x, y}) /\ Len(c) = 2 /\ c[1] = x /\ c[2] = y  BY <3>4, <3>6
    <3>8. c = [k \in 1 .. 2 |-> c[k]] /\ << x, y >> = [k \in 1 .. 2 |-> << x, y >>[k]]
      BY <3>7
    <3>9. \A k \in 1 .. 2 : c[k] = << x, y >>[k]  BY <3>7
    <3>10. c = << x, y >>  BY <3>8, <3>9
    <3>11. QED  BY <3>1, <3>2, <3>3, <3>5, <3>6, <3>10
  <2>2. cred \in Seq(Statements) /\ Len(cred) = 2
    BY <1>2, <2>1, StatementTypes DEF GrantNames
  <2>3. cred[1] = Attempt("oauth_secret", user) /\ cred[2] = Grant("obo_token", user)
    BY <2>1
  <2> HIDE DEF cred
  <2>4. /\ cred \o use \in Seq(Statements) /\ Len(cred \o use) >= 2
        /\ (cred \o use)[1] = cred[1] /\ (cred \o use)[2] = cred[2]
        /\ \A j \in DOMAIN (cred \o use) : j > 2 => (cred \o use)[j] \in Other
    <3>1. Len(cred) >= 2 /\ \A j \in DOMAIN cred : j > 2 => cred[j] \in Other  BY <2>2
    <3>2. cred \in Seq(Statements) /\ use \in Seq(Other) /\ Other \in SUBSET Statements
      BY <1>o, <1>4, <2>2
    <3>3. QED  BY <3>1, <3>2, AfterTwo
  <2> DEFINE more == (cred \o use) \o schema
  <2>5. /\ more \in Seq(Statements) /\ Len(more) >= 2
        /\ more[1] = cred[1] /\ more[2] = cred[2]
        /\ \A j \in DOMAIN more : j > 2 => more[j] \in Other
    <3>1. PICK c : c = cred \o use  OBVIOUS
    <3>2. QED  BY <1>o, <1>4, <2>4, <3>1, AfterTwo
  <2> HIDE DEF more
  <2>6. /\ after \in Seq(Statements) /\ Len(after) >= 2
        /\ after[1] = cred[1] /\ after[2] = cred[2]
        /\ \A j \in DOMAIN after : j > 2 => after[j] \in Other
    <3>1. after = more \o last  BY <1>5 DEF more
    <3>2. QED  BY <1>o, <1>4, <2>5, <3>1, AfterTwo
  <2> HIDE DEF after
  <2>7. DatabricksPlan(a) = head \o after  BY DEF DatabricksPlan, after
  <2>8. /\ DatabricksPlan(a) \in Seq(Statements)
        /\ Len(DatabricksPlan(a)) = 2 + Len(after)
        /\ \A j \in DOMAIN DatabricksPlan(a) :
              DatabricksPlan(a)[j] = IF j <= 2 THEN head[j] ELSE after[j - 2]
    BY <1>6, <2>6, <2>7
  <2>9. i = 3
    <3>1. i \in Nat \ {0}  BY <1>1, <2>8
    <3>2. i # 1 /\ i # 2
      <4>1. head[1].kind # "attempt" /\ head[2].kind # "attempt"  BY DEF Check, Create
      <4>2. QED  BY <1>1, <2>8, <4>1
    <3>3. CASE i > 3
      <4>1. i - 2 \in DOMAIN after /\ i - 2 > 2 => after[i - 2] \in Other
        BY <2>6
      <4>2. i - 2 \in DOMAIN after  BY <1>1, <2>6, <2>8, <3>3
      <4>3. i = 4 => after[2].kind = "grant"  BY <2>3, <2>6 DEF Grant
      <4>4. Plan(p, a)[i] = after[i - 2]  BY <1>1, <2>8, <3>3
      <4>5. i # 4  BY <4>3, <4>4
      <4>6. QED  BY <3>1, <3>3, <4>1, <4>2, <4>4, <4>5 DEF Other
    <3>4. QED  BY <3>1, <3>2, <3>3
  <2>10. 3 \in DOMAIN DatabricksPlan(a) /\ 4 \in DOMAIN DatabricksPlan(a)
    BY <2>6, <2>8
  <2>11. DatabricksPlan(a)[3] = cred[1] /\ DatabricksPlan(a)[4] = cred[2]
    BY <2>6, <2>8, <2>10
  <2>12. QED  BY <1>1, <2>3, <2>9, <2>10, <2>11 DEF Attempt, Grant
<1>9. QED  BY <1>7, <1>8

-----------------------------------------------------------------------------
(* An account in use                                                        *)

\* How the server's view of an account moves.
LEMMA StatusMoves ==
    ASSUME TypeOK, [Next]_vars, NEW b \in Accounts
    PROVE  /\ status'[b] = "generating" => status[b] = "generating" \/ GenerateAccount(b)
           /\ status'[b] = "live"
                => (status[b] = "live" /\ pc'[b] = pc[b]) \/ ReturnAccount(b)
           /\ status[b] \in {"live", "deleting", "deleted"}
                => status'[b] \in {"live", "deleting", "deleted"}
           /\ status[b] \in {"deleting", "deleted"} => status'[b] \in {"deleting", "deleted"}
<1> DEFINE Moves == /\ status'[b] = "generating" => status[b] = "generating" \/ GenerateAccount(b)
                    /\ status'[b] = "live"
                         => (status[b] = "live" /\ pc'[b] = pc[b]) \/ ReturnAccount(b)
                    /\ status[b] \in {"live", "deleting", "deleted"}
                         => status'[b] \in {"live", "deleting", "deleted"}
                    /\ status[b] \in {"deleting", "deleted"}
                         => status'[b] \in {"deleting", "deleted"}
<1>0. status \in [Accounts -> Statuses] /\ pc \in [Accounts -> Nat \ {0}]  BY DEF TypeOK
<1>1. ASSUME NEW a \in Accounts, GenerateAccount(a) PROVE Moves
  <2>1. CASE a = b  BY <1>0, <1>1, <2>1 DEF GenerateAccount
  <2>2. CASE a # b  BY <1>0, <1>1, <2>2 DEF GenerateAccount
  <2>3. QED  BY <2>1, <2>2
<1>2. ASSUME NEW a \in Accounts, StatementSucceeds(a) PROVE Moves
  <2>1. status' = status /\ status[a] = "generating" /\ (b # a => pc'[b] = pc[b])
    BY <1>0, <1>2 DEF StatementSucceeds, Running
  <2>2. QED  BY <2>1
<1>3. ASSUME NEW a \in Accounts, status[a] = "generating", FailureOf(a) PROVE Moves
  <2>1. CASE FallThrough(a)
    <3>1. status' = status /\ (b # a => pc'[b] = pc[b])
      BY <1>0, <2>1 DEF FallThrough
    <3>2. QED  BY <1>3, <3>1
  <2>2. CASE ReturnError(a)
    <3>1. /\ b # a => status'[b] = status[b]
          /\ b = a => status'[b] = "rollback"
          /\ pc' = pc
      BY <1>0, <2>2 DEF ReturnError
    <3>2. QED  BY <1>3, <3>1
  <2>3. QED  BY <1>3, <2>1, <2>2 DEF FailureOf
<1>4. ASSUME NEW a \in Accounts, StatementFails(a) \/ StatementReplyLost(a) PROVE Moves
  BY <1>3, <1>4 DEF StatementFails, StatementReplyLost, Running
<1>5. ASSUME NEW a \in Accounts, ReturnAccount(a) PROVE Moves
  <2>1. CASE a = b  BY <1>0, <1>5, <2>1 DEF ReturnAccount
  <2>2. CASE a # b  BY <1>0, <1>5, <2>2 DEF ReturnAccount
  <2>3. QED  BY <2>1, <2>2
<1>6. ASSUME NEW a \in Accounts, DeleteBinding(a) PROVE Moves
  <2>1. CASE a = b  BY <1>0, <1>6, <2>1 DEF DeleteBinding
  <2>2. CASE a # b  BY <1>0, <1>6, <2>2 DEF DeleteBinding
  <2>3. QED  BY <2>1, <2>2
<1>7. ASSUME NEW a \in Accounts, FinishCleanup(a) PROVE Moves
  <2>1. CASE a = b  BY <1>0, <1>7, <2>1 DEF FinishCleanup
  <2>2. CASE a # b  BY <1>0, <1>7, <2>2 DEF FinishCleanup
  <2>3. QED  BY <2>1, <2>2
<1>8. ASSUME NEW a \in Accounts, DeleteArtifact(a) \/ DeleteArtifactFails(a) \/ UNCHANGED vars
      PROVE  Moves
  <2>1. UNCHANGED << status, pc >>
    BY <1>8 DEF DeleteArtifact, DeleteArtifactFails, vars
  <2>2. QED  BY <2>1
<1> HIDE DEF Moves
<1>9. Moves
  <2>1. CASE UNCHANGED vars  BY <1>8, <2>1
  <2>2. CASE Next  BY <1>1, <1>2, <1>4, <1>5, <1>6, <1>7, <1>8, <2>2 DEF Next
  <2>3. QED  BY <2>1, <2>2
<1>10. QED  BY <1>9 DEF Moves

LEMMA BaseStandsKept ==
    ASSUME TypeOK, BaseStands, [Next]_vars
    PROVE  BaseStands'
<1>1. SUFFICES ASSUME NEW a \in Accounts, status'[a] \in {"generating", "live"}, ~IsBase(a)
               PROVE  status'[BaseOf[a]] \in {"live", "deleting", "deleted"}
  BY DEF BaseStands, InUse, IsBase
<1>2. BaseOf[a] \in Accounts /\ BaseOf[a] # a  BY <1>1, BaseOfAssumption DEF IsBase
<1>3. status[BaseOf[a]] \in {"live", "deleting", "deleted"}
  <2>1. CASE InUse(a)  BY <1>1, <2>1 DEF BaseStands
  <2>2. CASE GenerateAccount(a)  BY <1>1, <2>2 DEF GenerateAccount
  <2>3. InUse(a) \/ GenerateAccount(a)
    BY <1>1, StatusMoves DEF InUse, ReturnAccount
  <2>4. QED  BY <2>1, <2>2, <2>3
<1>4. QED  BY <1>2, <1>3, StatusMoves

LEMMA LiveHasRunKept ==
    ASSUME TypeOK, LiveHasRun, [Next]_vars
    PROVE  LiveHasRun'
<1>1. SUFFICES ASSUME NEW a \in Accounts, status'[a] = "live"
               PROVE  pc'[a] > Len(Plan(provider, a))
  <2>1. provider' = provider
    BY DEF Next, GenerateAccount, StatementSucceeds, StatementFails, StatementReplyLost,
           FailureOf, FallThrough, ReturnError, ReturnAccount, DeleteBinding, DeleteArtifact,
           DeleteArtifactFails, FinishCleanup, vars
  <2>2. QED  BY <1>1, <2>1 DEF LiveHasRun
<1>2. CASE status[a] = "live" /\ pc'[a] = pc[a]  BY <1>2 DEF LiveHasRun
<1>3. CASE ReturnAccount(a)
  <2>1. Plan(provider, a) \in Seq(Statements)  BY PlanType DEF TypeOK
  <2>2. pc[a] \in Nat /\ pc' = pc  BY <1>3 DEF ReturnAccount, TypeOK
  <2>3. ~(pc[a] <= Len(Plan(provider, a)))  BY <1>3 DEF ReturnAccount, Running
  <2>4. QED  BY <2>1, <2>2, <2>3
<1>4. QED  BY <1>1, <1>2, <1>3, StatusMoves

\* A privilege that stands for the grant at step i needs what that grant needs.
LEMMA SameNeeds ==
    ASSUME TypeOK, NEW a \in Accounts, NEW i \in DOMAIN Plan(provider, a),
           NEW j \in {i - 1, i} \cap DOMAIN Plan(provider, a),
           j = i \/ Plan(provider, a)[j].kind = "attempt"
    PROVE  Plan(provider, a)[j].needs = Plan(provider, a)[i].needs
<1>1. CASE j = i  BY <1>1
<1>2. CASE j # i
  <2>1. Plan(provider, a) \in Seq(Statements)  BY PlanType DEF TypeOK
  <2>2. j = i - 1 /\ i \in Nat  BY <1>2, <2>1
  <2>3. i = j + 1  BY <2>2
  <2>4. QED  BY <1>2, <2>3, AttemptThenGrant DEF TypeOK
<1>3. QED  BY <1>1, <1>2

\* What has been done for an account in use stays, while objects and privileges come.
LEMMA GrowthKeepsDone ==
    ASSUME TypeOK, NEW a \in Accounts, NEW i \in DOMAIN Plan(provider, a), Done(a, i),
           provider' = provider, catalog \subseteq catalog', held \subseteq held',
           \A o \in catalog' \ catalog :
               o.name.account \in Accounts /\ status[o.name.account] = "generating",
           \A b \in Accounts :
               status[b] \in {"deleting", "deleted"} => status'[b] \in {"deleting", "deleted"}
    PROVE  Done(a, i)'
<1>1. \A n \in Plan(provider, a)[i].needs : n.account \in Accounts
  <2>1. BaseOf[a] \in Accounts  BY BaseOfAssumption
  <2>2. provider \in Providers  BY DEF TypeOK
  <2>3. \A n \in Plan(provider, a)[i].needs : n.account \in {a, BaseOf[a]}
    BY <2>2, PlanSteps
  <2>4. QED  BY <2>1, <2>3
<1>2. ASSUME NEW n \in Plan(provider, a)[i].needs, Gone(n) PROVE Gone(n)'
  BY <1>1, <1>2 DEF Gone, Exists
<1>3. GrantInEffect(a, i) => GrantInEffect(a, i)'
  BY DEF GrantInEffect, Conferred
<1>4. QED  BY <1>2, <1>3 DEF Done

\* And while they go: the account's own are not dropped, and what goes with an object of
\* its base goes for good.
LEMMA RemovalKeepsDone ==
    ASSUME IInv, BaseStands, NEW a \in Accounts, InUse(a),
           NEW i \in DOMAIN Plan(provider, a), Done(a, i),
           NEW b \in Accounts, Deleting(b), Drop(Target(b)),
           provider' = provider, status' = status
    PROVE  Done(a, i)'
<1>0. TypeOK  BY DEF IInv
<1>1. /\ catalog' \subseteq catalog
      /\ \A o \in catalog' : o.name # Target(b)
      /\ \A o \in catalog \ catalog' : o.name = Target(b)
  BY DropRemovesName
<1>2. Target(b).account = b /\ b # a /\ status[b] \in {"rollback", "deleting"}
  BY DEF Target, Name, InUse, Deleting
<1>3. ASSUME NEW t, [name |-> Name(t, a), maker |-> a] \in catalog
      PROVE  [name |-> Name(t, a), maker |-> a] \in catalog'
  <2>1. Name(t, a) # Target(b)  BY <1>2 DEF Target, NamesDiffer, Name
  <2>2. QED  BY <1>1, <1>3, <2>1
<1>4. ASSUME NEW n, Gone(n) PROVE Gone(n)'
  BY <1>1, <1>4 DEF Gone, Exists
<1>5. CASE Target(b) \in Plan(provider, a)[i].needs
  <2>1. b = BaseOf[a]  BY <1>0, <1>2, <1>5, PlanSteps DEF TypeOK
  <2>2. status[b] = "deleting"  BY <1>2, <2>1 DEF BaseStands, IsBase
  <2>3. PICK n : n = Target(b)  OBVIOUS
  <2>4. Gone(n)'  BY <1>1, <1>2, <2>2, <2>3 DEF Gone, Exists
  <2>5. QED  BY <1>3, <1>5, <2>3, <2>4 DEF Done
<1>6. CASE Target(b) \notin Plan(provider, a)[i].needs
  <2>1. ASSUME GrantInEffect(a, i) PROVE GrantInEffect(a, i)'
    <3>1. PICK j \in {i - 1, i} \cap DOMAIN Plan(provider, a) :
             /\ j = i \/ Plan(provider, a)[j].kind = "attempt"
             /\ Conferred(a, Plan(provider, a)[j]) \subseteq held
      BY <2>1 DEF GrantInEffect
    <3>2. Plan(provider, a)[j].needs = Plan(provider, a)[i].needs
      BY <1>0, <3>1, SameNeeds
    <3>3. \A h \in Conferred(a, Plan(provider, a)[j]) : h.needs = Plan(provider, a)[i].needs
      BY <3>2 DEF Conferred
    <3>4. Conferred(a, Plan(provider, a)[j]) \subseteq held'
      BY <1>6, <3>1, <3>3 DEF Drop
    <3>5. QED  BY <3>1, <3>4 DEF GrantInEffect
  <2>2. QED  BY <1>3, <1>4, <2>1 DEF Done
<1>7. QED  BY <1>5, <1>6

\* What has been done stays, whatever step is taken.
LEMMA DoneStays ==
    ASSUME IInv, BaseStands, [Next]_vars, NEW a \in Accounts, InUse(a),
           NEW i \in DOMAIN Plan(provider, a), Done(a, i)
    PROVE  Done(a, i)'
<1>0. TypeOK  BY DEF IInv
<1>m. \A b \in Accounts :
         status[b] \in {"deleting", "deleted"} => status'[b] \in {"deleting", "deleted"}
  BY <1>0, StatusMoves
<1>1. ASSUME provider' = provider, UNCHANGED << catalog, held >>
      PROVE  Done(a, i)'
  BY <1>0, <1>1, <1>m, GrowthKeepsDone
<1>2. ASSUME NEW b \in Accounts, StatementSucceeds(b) \/ StatementReplyLost(b)
      PROVE  Done(a, i)'
  <2>1. /\ provider' = provider /\ held \subseteq held'
        /\ catalog' = catalog \cup Created(b, Statement(b))
        /\ status[b] = "generating"
    BY <1>2 DEF StatementSucceeds, StatementReplyLost, Running, FailureOf, FallThrough,
                ReturnError
  <2>2. \A o \in Created(b, Statement(b)) : o.name.account = b  BY DEF Created, Name
  <2>3. QED  BY <1>0, <1>m, <2>1, <2>2, GrowthKeepsDone
<1>3. ASSUME NEW b \in Accounts, DeleteArtifact(b) \/ DeleteArtifactFails(b)
      PROVE  Done(a, i)'
  <2>1. Deleting(b) /\ provider' = provider /\ status' = status
    BY <1>3 DEF DeleteArtifact, DeleteArtifactFails
  <2>2. Drop(Target(b)) \/ UNCHANGED << catalog, held >>
    BY <1>3 DEF DeleteArtifact, DeleteArtifactFails
  <2>3. QED  BY <1>1, <2>1, <2>2, RemovalKeepsDone
<1>4. ASSUME NEW b \in Accounts,
             \/ GenerateAccount(b) \/ StatementFails(b) \/ ReturnAccount(b)
             \/ DeleteBinding(b) \/ FinishCleanup(b)
      PROVE  Done(a, i)'
  <2>1. provider' = provider /\ UNCHANGED << catalog, held >>
    BY <1>4 DEF GenerateAccount, StatementFails, FailureOf, FallThrough, ReturnError,
                ReturnAccount, DeleteBinding, FinishCleanup
  <2>2. QED  BY <1>1, <2>1
<1>5. CASE UNCHANGED vars
  BY <1>1, <1>5 DEF vars
<1>6. QED  BY <1>2, <1>3, <1>4, <1>5 DEF Next

\* A statement that is accepted does what it is for.
LEMMA SuccessIsDone ==
    ASSUME TypeOK, NEW a \in Accounts, StatementSucceeds(a),
           NEW i \in DOMAIN Plan(provider, a), i >= pc[a], i < pc'[a]
    PROVE  Done(a, i)'
<1>0. provider' = provider  BY DEF StatementSucceeds
<1>1. /\ pc[a] \in Nat \ {0} /\ Plan(provider, a) \in Seq(Statements) /\ i \in Nat
  BY PlanType DEF TypeOK
<1>2. pc[a] \in DOMAIN Plan(provider, a)
  BY <1>1 DEF StatementSucceeds, Running
<1> DEFINE s == Plan(provider, a)[pc[a]]
<1>3. /\ catalog' = catalog \cup Created(a, s)
      /\ held' = held \cup Conferred(a, s)
      /\ pc'[a] = pc[a] + (IF s.kind = "attempt" THEN 2 ELSE 1)
  BY DEF StatementSucceeds, Statement, TypeOK
<1>4. CASE i = pc[a]
  <2>1. s.kind = "create" => [name |-> Name(s.what, a), maker |-> a] \in catalog'
    BY <1>3 DEF Created
  <2>2. GrantInEffect(a, i)'
    <3>1. i \in {i - 1, i} \cap DOMAIN Plan(provider, a) /\ Conferred(a, s) \subseteq held'
      BY <1>3
    <3>2. QED  BY <1>0, <1>4, <3>1 DEF GrantInEffect, Conferred
  <2>3. QED  BY <1>0, <1>4, <2>1, <2>2 DEF Done
<1>5. CASE i # pc[a]
  <2>1. s.kind = "attempt" /\ i = pc[a] + 1  BY <1>1, <1>3, <1>5
  <2>2. Plan(provider, a)[i].kind = "grant"
    BY <1>2, <2>1, AttemptThenGrant DEF TypeOK
  <2>3. GrantInEffect(a, i)'
    <3>1. PICK j : j = pc[a]  OBVIOUS
    <3>2. j = i - 1 /\ j \in DOMAIN Plan(provider, a)  BY <1>1, <1>2, <2>1, <3>1
    <3>3. Conferred(a, Plan(provider, a)[j]) \subseteq held'  BY <1>3, <3>1
    <3>4. Plan(provider, a)[j].kind = "attempt"  BY <2>1, <3>1
    <3>5. QED  BY <1>0, <3>2, <3>3, <3>4 DEF GrantInEffect, Conferred
  <2>4. QED  BY <1>0, <2>2, <2>3 DEF Done
<1>6. QED  BY <1>4, <1>5

\* A failure goes on only after an attempt, which has nothing to show.
LEMMA FailureIsDone ==
    ASSUME TypeOK, NEW a \in Accounts, StatementFails(a) \/ StatementReplyLost(a),
           status'[a] = "generating",
           NEW i \in DOMAIN Plan(provider, a), i >= pc[a], i < pc'[a]
    PROVE  Done(a, i)'
<1>1. /\ pc[a] \in Nat \ {0} /\ Plan(provider, a) \in Seq(Statements) /\ i \in Nat
  BY PlanType DEF TypeOK
<1>2. FailureOf(a) /\ provider' = provider
  BY DEF StatementFails, StatementReplyLost, FailureOf, FallThrough, ReturnError
<1>3. ~ReturnError(a)
  BY DEF ReturnError, TypeOK
<1>4. Statement(a).kind = "attempt" /\ pc'[a] = pc[a] + 1
  BY <1>2, <1>3 DEF FailureOf, FallThrough, TypeOK
<1>5. i = pc[a]  BY <1>1, <1>4
<1>6. Plan(provider, a)[i].kind = "attempt"  BY <1>4, <1>5 DEF Statement
<1>7. QED  BY <1>2, <1>6 DEF Done

LEMMA DoneSoFarKept ==
    ASSUME IInv, BaseStands, DoneSoFar, [Next]_vars
    PROVE  DoneSoFar'
<1>0. TypeOK  BY DEF IInv
<1>1. SUFFICES ASSUME NEW a \in Accounts, status'[a] \in {"generating", "live"},
                      NEW i \in DOMAIN Plan(provider, a), i < pc'[a]
               PROVE  Done(a, i)'
  <2>1. provider' = provider
    BY DEF Next, GenerateAccount, StatementSucceeds, StatementFails, StatementReplyLost,
           FailureOf, FallThrough, ReturnError, ReturnAccount, DeleteBinding, DeleteArtifact,
           DeleteArtifactFails, FinishCleanup, vars
  <2>2. QED  BY <1>1, <2>1 DEF DoneSoFar, InUse
<1>2. Plan(provider, a) \in Seq(Statements) /\ pc[a] \in Nat /\ i \in Nat \ {0}
  BY <1>0, PlanType DEF TypeOK
<1>3. CASE GenerateAccount(a)
  BY <1>0, <1>1, <1>2, <1>3 DEF GenerateAccount, TypeOK
<1>4. CASE InUse(a) /\ i < pc[a]
  BY <1>4, DoneStays DEF DoneSoFar
<1>5. CASE StatementSucceeds(a) /\ ~(i < pc[a])
  BY <1>0, <1>1, <1>2, <1>5, SuccessIsDone
<1>6. CASE (StatementFails(a) \/ StatementReplyLost(a)) /\ ~(i < pc[a])
  <2>1. status[a] = "generating"  BY <1>6 DEF StatementFails, StatementReplyLost, Running
  <2>2. ~ReturnAccount(a) /\ status[a] # "live"
    <3>1. Running(a)  BY <1>6 DEF StatementFails, StatementReplyLost
    <3>2. QED  BY <2>1, <3>1 DEF ReturnAccount
  <2>3. status'[a] = "generating"  BY <1>0, <1>1, <2>2, StatusMoves
  <2>4. QED  BY <1>0, <1>1, <1>2, <1>6, <2>3, FailureIsDone
<1>7. InUse(a) \/ GenerateAccount(a)
  BY <1>0, <1>1, StatusMoves DEF InUse, ReturnAccount
<1>8. \/ i < pc[a] \/ GenerateAccount(a) \/ StatementSucceeds(a)
      \/ StatementFails(a) \/ StatementReplyLost(a)
  <2>1. pc'[a] = pc[a] \/ GenerateAccount(a) \/ StatementSucceeds(a)
           \/ StatementFails(a) \/ StatementReplyLost(a)
    <3>1. ASSUME NEW b \in Accounts, b # a,
                 \/ GenerateAccount(b) \/ StatementSucceeds(b)
                 \/ StatementFails(b) \/ StatementReplyLost(b)
          PROVE  pc'[a] = pc[a]
      BY <1>0, <3>1 DEF GenerateAccount, StatementSucceeds, StatementFails,
                        StatementReplyLost, FailureOf, FallThrough, ReturnError, TypeOK
    <3>2. ASSUME NEW b \in Accounts,
                 \/ ReturnAccount(b) \/ DeleteBinding(b) \/ DeleteArtifact(b)
                 \/ DeleteArtifactFails(b) \/ FinishCleanup(b)
          PROVE  pc'[a] = pc[a]
      BY <3>2 DEF ReturnAccount, DeleteBinding, DeleteArtifact, DeleteArtifactFails,
                  FinishCleanup
    <3>3. CASE UNCHANGED vars  BY <3>3 DEF vars
    <3>4. QED  BY <3>1, <3>2, <3>3 DEF Next
  <2>2. QED  BY <1>1, <2>1
<1>9. QED  BY <1>3, <1>4, <1>5, <1>6, <1>7, <1>8

LEMMA WholeInvariant == Spec => []WholeInv
<1>1. Init => WholeInv
  <2>1. Init => BaseStands /\ LiveHasRun /\ DoneSoFar
    BY DEF Init, BaseStands, LiveHasRun, DoneSoFar, InUse
  <2>2. QED  BY <2>1, InitIInv DEF WholeInv
<1>2. WholeInv /\ [Next]_vars => WholeInv'
  <2>1. WholeInv => TypeOK  BY DEF WholeInv, IInv
  <2>2. QED
    BY <2>1, StepKeepsIInv, BaseStandsKept, LiveHasRunKept, DoneSoFarKept DEF WholeInv
<1>3. QED  BY <1>1, <1>2, PTL DEF Spec

\* An account handed to the application has every object of its plan, its own, and every
\* baseline privilege and one credential, whatever failed or was lost on the way and
\* whatever happens to other accounts, but for what needs an object that was deleted with
\* the base account.
THEOREM LiveAccountsAreWhole == Spec => []LiveIsWhole
<1>1. WholeInv => LiveIsWhole
  <2> SUFFICES ASSUME WholeInv, NEW a \in Accounts, status[a] = "live"
               PROVE  /\ \A t \in Creates(a) : [name |-> Name(t, a), maker |-> a] \in catalog
                      /\ \A i \in DOMAIN Plan(provider, a) :
                            /\ Plan(provider, a)[i].kind = "grant"
                            /\ \A n \in Plan(provider, a)[i].needs : Exists(n)
                            => GrantInEffect(a, i)
    BY DEF LiveIsWhole
  <2>1. \A i \in DOMAIN Plan(provider, a) : Done(a, i)
    <3>1. Plan(provider, a) \in Seq(Statements) /\ pc[a] \in Nat
      BY PlanType DEF WholeInv, IInv, TypeOK
    <3>2. pc[a] > Len(Plan(provider, a))  BY DEF WholeInv, LiveHasRun
    <3>3. \A i \in DOMAIN Plan(provider, a) : i < pc[a]  BY <3>1, <3>2
    <3>4. QED  BY <3>3 DEF WholeInv, DoneSoFar, InUse
  <2>2. \A t \in Creates(a) : [name |-> Name(t, a), maker |-> a] \in catalog
    BY <2>1 DEF Creates, Done
  <2>3. QED  BY <2>1, <2>2 DEF Done, Gone
<1>2. QED  BY <1>1, WholeInvariant, PTL

-----------------------------------------------------------------------------
(* Deleting in reverse creation order                                       *)

\* How the report and the place in the plan move.
LEMMA ReportMoves ==
    ASSUME TypeOK, [Next]_vars, NEW b \in Accounts
    PROVE  /\ provider' = provider
           /\ \/ artifacts'[b] \in {artifacts[b], << >>}
              \/ /\ StatementSucceeds(b) /\ Statement(b).kind = "create"
                 /\ artifacts'[b] = Append(artifacts[b], Statement(b).what)
           /\ status'[b] = "generating" /\ ~GenerateAccount(b)
                => status[b] = "generating" /\ pc'[b] >= pc[b]
<1> DEFINE Moves == /\ provider' = provider
                    /\ \/ artifacts'[b] \in {artifacts[b], << >>}
                       \/ /\ StatementSucceeds(b) /\ Statement(b).kind = "create"
                          /\ artifacts'[b] = Append(artifacts[b], Statement(b).what)
                    /\ status'[b] = "generating" /\ ~GenerateAccount(b)
                         => pc'[b] >= pc[b]
<1>0. /\ artifacts \in [Accounts -> Seq(ArtifactTypes)] /\ pc \in [Accounts -> Nat \ {0}]
      /\ pc[b] \in Nat
  BY DEF TypeOK
<1>1. ASSUME NEW a \in Accounts, GenerateAccount(a) PROVE Moves
  <2>1. provider' = provider /\ artifacts' = artifacts /\ (b # a => pc'[b] = pc[b])
    BY <1>0, <1>1 DEF GenerateAccount
  <2>2. b = a => GenerateAccount(b)  BY <1>1
  <2>3. QED  BY <1>0, <2>1, <2>2
<1>2. ASSUME NEW a \in Accounts, StatementSucceeds(a) PROVE Moves
  <2>1. /\ provider' = provider
        /\ b # a => artifacts'[b] = artifacts[b] /\ pc'[b] = pc[b]
        /\ artifacts'[a] = Reported(a, Statement(a))
        /\ pc'[a] = pc[a] + (IF Statement(a).kind = "attempt" THEN 2 ELSE 1)
    BY <1>0, <1>2 DEF StatementSucceeds
  <2>2. CASE b # a  BY <1>0, <2>1, <2>2
  <2>3. CASE b = a
    <3>1. StatementSucceeds(b) /\ provider' = provider  BY <1>2, <2>1, <2>3
    <3>2. pc'[b] >= pc[b]
      <4>1. CASE Statement(a).kind = "attempt"  BY <1>0, <2>1, <2>3, <4>1
      <4>2. CASE Statement(a).kind # "attempt"  BY <1>0, <2>1, <2>3, <4>2
      <4>3. QED  BY <4>1, <4>2
    <3>3. CASE Statement(b).kind = "create"
      <4>1. artifacts'[b] = Append(artifacts[b], Statement(b).what)
        BY <2>1, <2>3, <3>3 DEF Reported
      <4>2. QED  BY <3>1, <3>2, <3>3, <4>1
    <3>4. CASE Statement(b).kind # "create"
      <4>1. artifacts'[b] = artifacts[b]  BY <2>1, <2>3, <3>4 DEF Reported
      <4>2. QED  BY <3>1, <3>2, <4>1
    <3>5. QED  BY <3>3, <3>4
  <2>4. QED  BY <2>2, <2>3
<1>3. ASSUME NEW a \in Accounts, StatementFails(a) \/ StatementReplyLost(a) PROVE Moves
  <2>1. FailureOf(a)  BY <1>3 DEF StatementFails, StatementReplyLost
  <2>2. provider' = provider /\ artifacts' = artifacts /\ pc'[b] >= pc[b]
    BY <1>0, <2>1 DEF FailureOf, FallThrough, ReturnError
  <2>3. QED  BY <2>2
<1>4. ASSUME NEW a \in Accounts,
             \/ ReturnAccount(a) \/ DeleteBinding(a) \/ DeleteArtifact(a)
             \/ DeleteArtifactFails(a)
      PROVE  Moves
  <2>1. provider' = provider /\ artifacts' = artifacts /\ pc' = pc
    BY <1>4 DEF ReturnAccount, DeleteBinding, DeleteArtifact, DeleteArtifactFails
  <2>2. QED  BY <1>0, <2>1
<1>5. ASSUME NEW a \in Accounts, FinishCleanup(a) PROVE Moves
  <2>1. provider' = provider /\ pc' = pc /\ artifacts'[b] \in {artifacts[b], << >>}
    BY <1>0, <1>5 DEF FinishCleanup
  <2>2. QED  BY <1>0, <2>1
<1>6. ASSUME UNCHANGED vars PROVE Moves
  <2>1. provider' = provider /\ artifacts' = artifacts /\ pc' = pc  BY <1>6 DEF vars
  <2>2. QED  BY <1>0, <2>1
<1> HIDE DEF Moves
<1>7. Moves
  <2>1. CASE UNCHANGED vars  BY <1>6, <2>1
  <2>2. CASE Next  BY <1>1, <1>2, <1>3, <1>4, <1>5, <2>2 DEF Next
  <2>3. QED  BY <2>1, <2>2
<1>8. QED  BY <1>7, StatusMoves DEF Moves

\* What a statement reports is what the plan creates at that step.
LEMMA ReportIsPlanned ==
    ASSUME TypeOK, NEW a \in Accounts, StatementSucceeds(a), Statement(a).kind = "create"
    PROVE  /\ Statement(a).what \in Drops(provider)
           /\ provider = "sqlserver" /\ Statement(a).what = "user" => pc[a] = 2
           /\ provider = "sqlserver" /\ Statement(a).what = "schema" => pc[a] > 2
           /\ pc'[a] = pc[a] + 1
<1>1. pc[a] \in DOMAIN Plan(provider, a)
  <2>1. Plan(provider, a) \in Seq(Statements) /\ pc[a] \in Nat \ {0}  BY PlanType DEF TypeOK
  <2>2. QED  BY <2>1 DEF StatementSucceeds, Running
<1>2. Statement(a).what \in Drops(provider)
  BY <1>1, PlanSteps DEF TypeOK, Statement
<1>3. provider = "sqlserver" => Plan(provider, a) = SqlServerPlan(a)  BY DEF Plan
<1>4. pc'[a] = pc[a] + 1  BY DEF StatementSucceeds, TypeOK
<1>5. QED  BY <1>1, <1>2, <1>3, <1>4, SqlServerCreates DEF Statement

LEMMA ReportedDropsKept ==
    ASSUME TypeOK, ReportedDrops, [Next]_vars
    PROVE  ReportedDrops'
<1>1. SUFFICES ASSUME NEW a \in Accounts, NEW i \in DOMAIN artifacts'[a]
               PROVE  artifacts'[a][i] \in Drops(provider)
  <2>1. \A a \in Accounts : provider' = provider  BY ReportMoves
  <2>2. QED  BY <2>1 DEF ReportedDrops
<1>2. artifacts[a] \in Seq(ArtifactTypes)  BY DEF TypeOK
<1>3. CASE artifacts'[a] = artifacts[a]  BY <1>1, <1>3 DEF ReportedDrops
<1>4. CASE artifacts'[a] = << >>  BY <1>1, <1>4
<1>5. CASE /\ StatementSucceeds(a) /\ Statement(a).kind = "create"
           /\ artifacts'[a] = Append(artifacts[a], Statement(a).what)
  <2>1. Statement(a).what \in Drops(provider)  BY <1>5, ReportIsPlanned
  <2>2. PICK w : w = Statement(a).what  OBVIOUS
  <2>3. artifacts'[a][i] = w \/ (i \in DOMAIN artifacts[a] /\ artifacts'[a][i] = artifacts[a][i])
    BY <1>2, <1>5, <2>2
  <2>4. QED  BY <2>1, <2>2, <2>3 DEF ReportedDrops
<1>6. QED  BY <1>3, <1>4, <1>5, ReportMoves

LEMMA UserBeforeSchemaKept ==
    ASSUME IInv, UserBeforeSchema, [Next]_vars
    PROVE  UserBeforeSchema'
<1>0. TypeOK  BY DEF IInv
<1>1. SUFFICES ASSUME provider = "sqlserver", NEW a \in Accounts
               PROVE  /\ status'[a] = "generating" /\ pc'[a] <= 2
                           => "schema" \notin TypesIn(artifacts'[a])
                      /\ \A i, j \in DOMAIN artifacts'[a] :
                            artifacts'[a][i] = "schema" /\ artifacts'[a][j] = "user" => j < i
  <2>1. \A a \in Accounts : provider' = provider  BY <1>0, ReportMoves
  <2>2. QED  BY <1>1, <2>1 DEF UserBeforeSchema, TypesIn
<1>2. /\ artifacts[a] \in Seq(ArtifactTypes) /\ pc[a] \in Nat /\ pc'[a] \in Nat
      /\ status[a] = "generating" /\ pc[a] <= 2 => "schema" \notin TypesIn(artifacts[a])
      /\ \A i, j \in DOMAIN artifacts[a] :
            artifacts[a][i] = "schema" /\ artifacts[a][j] = "user" => j < i
  <2>1. TypeOK'  BY <1>0, StepKeepsTypes
  <2>2. pc'[a] \in Nat  BY <2>1 DEF TypeOK
  <2>3. QED  BY <1>0, <1>1, <2>2 DEF TypeOK, UserBeforeSchema
<1>3. CASE artifacts'[a] = << >>  BY <1>3 DEF TypesIn
<1>4. CASE GenerateAccount(a)
  <2>1. artifacts[a] = << >> /\ artifacts' = artifacts
    BY <1>4 DEF GenerateAccount, IInv, NothingReportedYet
  <2>2. QED  BY <1>3, <2>1
<1>5. CASE artifacts'[a] = artifacts[a] /\ ~GenerateAccount(a)
  <2>1. status'[a] = "generating" => status[a] = "generating" /\ pc'[a] >= pc[a]
    BY <1>0, <1>5, ReportMoves
  <2>2. status'[a] = "generating" /\ pc'[a] <= 2 => pc[a] <= 2  BY <1>2, <2>1
  <2>3. QED  BY <1>2, <1>5, <2>1, <2>2
<1>6. CASE /\ StatementSucceeds(a) /\ Statement(a).kind = "create"
           /\ artifacts'[a] = Append(artifacts[a], Statement(a).what)
  <2>1. PICK w : w = Statement(a).what  OBVIOUS
  <2>2. /\ w = "user" => pc[a] = 2
        /\ w = "schema" => pc[a] > 2
        /\ pc'[a] = pc[a] + 1 /\ status[a] = "generating"
    BY <1>0, <1>1, <1>6, <2>1, ReportIsPlanned DEF StatementSucceeds, Running
  <2>3. /\ DOMAIN artifacts'[a] = 1 .. Len(artifacts[a]) + 1
        /\ artifacts'[a][Len(artifacts[a]) + 1] = w
        /\ \A i \in DOMAIN artifacts[a] : artifacts'[a][i] = artifacts[a][i]
        /\ DOMAIN artifacts[a] = 1 .. Len(artifacts[a]) /\ Len(artifacts[a]) \in Nat
    <3>1. PICK s : s = artifacts[a]  OBVIOUS
    <3>2. w \in ArtifactTypes
      <4>1. Statement(a) \in Statements
        BY <1>0, <1>6, StatementType DEF StatementSucceeds
      <4>2. QED  BY <1>6, <2>1, <4>1 DEF Statements
    <3>3. QED  BY <1>2, <1>6, <2>1, <3>1, <3>2
  <2>4. ASSUME pc'[a] <= 2 PROVE "schema" \notin TypesIn(artifacts'[a])
    <3>1. pc[a] <= 2 /\ w # "schema"  BY <1>2, <2>2, <2>4
    <3>2. \A i \in DOMAIN artifacts[a] : artifacts[a][i] # "schema"
      BY <1>2, <2>2, <3>1 DEF TypesIn
    <3>3. QED  BY <2>3, <3>1, <3>2 DEF TypesIn
  <2>5. ASSUME NEW i \in DOMAIN artifacts'[a], NEW j \in DOMAIN artifacts'[a],
               artifacts'[a][i] = "schema", artifacts'[a][j] = "user"
        PROVE  j < i
    <3>1. CASE i \in DOMAIN artifacts[a] /\ j \in DOMAIN artifacts[a]
      BY <1>2, <2>3, <2>5, <3>1
    <3>2. CASE i = Len(artifacts[a]) + 1
      BY <2>3, <2>5, <3>2
    <3>3. CASE i \in DOMAIN artifacts[a] /\ j = Len(artifacts[a]) + 1
      <4>1. pc[a] = 2  BY <2>2, <2>3, <2>5, <3>3
      <4>2. artifacts[a][i] # "schema"  BY <1>2, <2>2, <3>3, <4>1 DEF TypesIn
      <4>3. QED  BY <2>3, <2>5, <3>3, <4>2
    <3>4. QED  BY <2>3, <3>1, <3>2, <3>3
  <2>6. QED  BY <2>4, <2>5
<1>7. QED  BY <1>0, <1>3, <1>4, <1>5, <1>6, ReportMoves

LEMMA OrderInvariant == Spec => []OrderInv
<1>1. Init => ReportedDrops /\ UserBeforeSchema
  BY DEF Init, ReportedDrops, UserBeforeSchema, TypesIn
<1>2. IInv /\ ReportedDrops /\ UserBeforeSchema /\ [Next]_vars
        => ReportedDrops' /\ UserBeforeSchema'
  <2>1. IInv => TypeOK  BY DEF IInv
  <2>2. QED  BY <2>1, ReportedDropsKept, UserBeforeSchemaKept
<1>3. QED  BY <1>1, <1>2, Invariance, CursorStaysInRange, PTL DEF Spec, OrderInv

\* Deleting artifacts in reverse creation order never meets a type the provider cannot
\* drop, nor a user who still owns a schema, unless the reply of the schema's CREATE was
\* lost, so that it is on nobody's list.
THEOREM DropsAreNotBlocked == Spec => []DropNeverBlocked
<1>1. OrderInv => DropNeverBlocked
  <2> SUFFICES ASSUME OrderInv, NEW a \in Accounts, Deleting(a), ~Stuck(a)
               PROVE  Droppable(Target(a))
    BY DEF DropNeverBlocked
  <2> DEFINE n == Target(a)
  <2>1. /\ IInv /\ artifacts[a] \in Seq(ArtifactTypes)
        /\ cursor[a] \in DOMAIN artifacts[a] /\ status[a] \in {"rollback", "deleting"}
    <3>1. IInv /\ artifacts[a] \in Seq(ArtifactTypes) /\ cursor[a] \in Nat
      BY DEF OrderInv, IInv, TypeOK
    <3>2. cursor[a] > 0 /\ cursor[a] <= Len(artifacts[a])
      BY DEF OrderInv, CursorInRange, Deleting
    <3>3. QED  BY <3>1, <3>2 DEF Deleting
  <2>2. n.type = artifacts[a][cursor[a]] /\ n.account = a  BY DEF Target, Name
  <2>3. n.type \in Drops(provider)  BY <2>1, <2>2 DEF OrderInv, ReportedDrops
  <2>4. ASSUME NEW o \in catalog, o.maker = a, o.name \in DropBlockers(provider, n)
        PROVE  FALSE
    <3>1. provider = "sqlserver" /\ n.type = "user" /\ o.name = Name("schema", a)
      BY <2>2, <2>4 DEF DropBlockers
    <3>2. o.name \notin inDoubt  BY <2>4 DEF Stuck
    <3>3. "schema" \in TypesIn(artifacts[a])
      <4>1. o.name.type = "schema"  BY <3>1 DEF Name
      <4>2. o.maker # Leftover  BY <2>4, LeftoverAssumption
      <4>3. QED  BY <2>1, <2>4, <3>2, <4>1, <4>2 DEF IInv, NothingEscapes
    <3>4. PICK i \in DOMAIN artifacts[a] : artifacts[a][i] = "schema"  BY <3>3 DEF TypesIn
    <3>5. cursor[a] < i
      BY <2>1, <2>2, <3>1, <3>4 DEF OrderInv, UserBeforeSchema
    <3>6. ~Exists(Name("schema", a))
      BY <2>1, <3>4, <3>5 DEF IInv, CleanedSoFar
    <3>7. QED  BY <3>1, <3>6 DEF Exists
  <2>5. QED  BY <2>2, <2>3, <2>4 DEF Droppable
<1>2. QED  BY <1>1, OrderInvariant, PTL

=============================================================================
