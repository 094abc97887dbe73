------------------------- MODULE SqlGrantsProofs -------------------------
(***************************************************************************)
(* Theorems about SqlGrants, for any finite set of tables, any grants and  *)
(* requests, any number of failures and table changes, with or without     *)
(* lost replies.  Those on excess and on effect are for services whose     *)
(* tables do not come and go while a call runs on Snowflake: without that  *)
(* neither invariant holds (the run grants_future_grant).                  *)
(***************************************************************************)
EXTENDS SqlGrants, FiniteSetTheorems, SequenceTheorems, TLAPS

-----------------------------------------------------------------------------
(* What a grant confers                                                     *)

\* The privileges that give access on their own; "usage" and "alter" do not.
Powers == {"select", "write", "create"}

\* create:<table>, which is refused before a statement of it has run.
TableCreate(g) == g.type = "create" /\ g.target # All

Creates(g) ==
    g.target = All /\ (g.type = "create" \/ (g.type = "full" /\ provider # "oracle"))

\* The scopes a grant's data privileges can come to be on, tables of later included.
Covered(g) ==
    IF g.target # All THEN {g.target}
    ELSE CASE provider = "clickhouse" -> Tables \cup {All}
           [] provider \in {"databricks", "sqlserver"} -> {All}
           [] provider = "oracle" -> Tables
           [] provider = "snowflake" -> Tables \cup {"future"}

CreateScopes ==
    CASE provider = "clickhouse" -> Tables \cup {All}
      [] provider = "sqlserver" -> {"database"}
      [] provider = "oracle" -> {}
      [] provider \in {"databricks", "snowflake"} -> {All}

Footprint(g) ==
    {x \in [priv : Powers, on : Scopes] :
        \/ g.type # "create" /\ x.priv \in DataPrivs(g) /\ x.on \in Covered(g)
        \/ Creates(g) /\ x.priv = "create" /\ x.on \in CreateScopes}

\* The privileges that have to be held for the grant to be in effect on the tables
\* there are now.
NeededOn(g) ==
    IF g.target # All THEN {g.target}
    ELSE CASE provider = "clickhouse" -> Tables \cup {All}
           [] provider \in {"databricks", "sqlserver"} -> {All}
           [] provider = "oracle" -> tables
           [] provider = "snowflake" -> tables \cup {"future"}

Needs(g) ==
    {x \in [priv : Privs, on : Scopes] :
        \/ g.type # "create" /\ x.priv \in DataPrivs(g) /\ x.on \in NeededOn(g)
        \/ Creates(g) /\ x.priv = "create" /\ x.on \in CreateScopes
        \/ Creates(g) /\ provider = "sqlserver" /\ x.priv = "alter" /\ x.on = All
        \/ provider = "snowflake" /\ x.priv = "usage" /\ x.on = All}

-----------------------------------------------------------------------------
(* The inductive invariants                                                 *)

\* The grants the running pass is over.
PassGrants == CASE phase \in {"grant", "undo"} -> desired
                [] phase = "revoke" -> pending
                [] phase = "regrant" -> recorded
                [] phase = "idle" -> {}

\* The forms a statement of a grant can have.
DataForm(g, s) ==
    /\ g.type # "create" /\ s.privs = DataPrivs(g)
    /\ CASE provider \in {"clickhouse", "databricks", "sqlserver"} -> s.on = g.target
         [] provider = "oracle" -> s.on \in Tables /\ (g.target # All => s.on = g.target)
         [] provider = "snowflake" ->
              IF g.target # All THEN s.on = g.target ELSE s.on \in {"current", "future"}

CreateForm(g, s) ==
    /\ g.type = "create" \/ Creates(g)
    /\ provider # "oracle"
    /\ \/ provider # "sqlserver" /\ s.on = All /\ s.privs = {"create"}
       \/ provider = "snowflake" /\ s.on = All /\ s.privs = {"usage", "create"}
       \/ /\ provider \in {"clickhouse", "databricks"} /\ g.type = "full"
          /\ s.on = All /\ s.privs = {"select", "write", "create"}
       \/ provider = "sqlserver" /\ s.on = "database" /\ s.privs = {"create"}
       \/ provider = "sqlserver" /\ s.on = All /\ s.privs = {"alter"}

UsageForm(g, s) == provider = "snowflake" /\ s.on = All /\ s.privs = {"usage"}

\* The statements left are those of one grant of the pass.
Fits(g, s) == s.for = g /\ (DataForm(g, s) \/ CreateForm(g, s) \/ UsageForm(g, s))

InPass ==
    /\ todo \subseteq PassGrants
    /\ \A i \in DOMAIN stmts :
          /\ stmts[i].for \in PassGrants /\ stmts[i].for = stmts[1].for
          /\ Fits(stmts[i].for, stmts[i])
          /\ Granting => ~TableCreate(stmts[i].for)

Ledger ==
    /\ \A g \in recorded \cup pending \cup desired : g.type \in SupportedTypes
    /\ \A g \in recorded \cup pending : ~TableCreate(g)
    /\ phase = "grant" => done \subseteq {g \in desired : ~TableCreate(g)}
    /\ phase \in {"grant", "undo"} => pending = {}
    /\ phase = "undo" => suspect /\ todo \subseteq desired \ recorded
                         /\ \A i \in DOMAIN stmts : stmts[i].for \notin recorded

\* Except on ClickHouse no privilege outlives its table.
OnTables == provider # "clickhouse" => \A x \in privs : x.on \in Tables => x.on \in tables

\* The grants whose privileges may be held.
Sources ==
    recorded \cup leaked \cup refused
      \cup (CASE phase = "idle" -> pending
              [] phase = "grant" -> done \cup {g \in Grants : AtWork(g)}
              [] phase \in {"undo", "revoke"} -> todo
              [] phase = "regrant" -> {})

\* A privilege that is held is in the footprint of one of them, or a statement that
\* is left will revoke it.
Accounted(x) ==
    \/ \E g \in Sources : x \in Footprint(g)
    \/ /\ phase \in {"undo", "revoke"}
       /\ \E i \in DOMAIN stmts :
             x \in PrivilegesOf(stmts[i]) /\ x \in Footprint(stmts[i].for)

AccountedFor == \A x \in privs : x.priv \in Powers => Accounted(x)

LedgerInv == TypeOK /\ InPass /\ Ledger /\ OnTables
ExcessInv == LedgerInv /\ AccountedFor

\* A desired grant that is not recorded is still to come or waits for its table.
Waits(g) == g.target \in Tables \ tables \/ << g, g.target >> \in late

Waiting ==
    phase # "undo" =>
        \A g \in desired \ recorded :
            \/ Waits(g)
            \/ phase = "grant" /\ (g \in todo \cup done \/ AtWork(g))

\* A grant that ran and whose table is gone has lapsed.
Applied ==
    recorded \cup (IF phase = "grant" THEN done ELSE {})
      \cup {g \in Grants : Granting /\ AtWork(g)}

Lapsing == \A g \in Applied : g.target \in Tables \ tables => g \in lapsed

\* What a revocation may have taken from a kept grant.
Taken(x) ==
    \/ provider = "snowflake"
    \/ \E h \in pending : x \in Footprint(h) \/ (x.priv = "alter" /\ Creates(h))

Backed(g, x) ==
    \/ x \in privs
    \/ g \in lapsed
    \/ g.target = All /\ << g, x.on >> \in late
    \/ Granting /\ \E i \in DOMAIN stmts :
                      stmts[i].for = g /\ x \in PrivilegesOf(stmts[i])
    \/ (phase = "revoke" \/ (phase = "regrant" /\ g \in todo)) /\ Taken(x)

\* The grants whose privileges are known to be there, or are being granted: all that are
\* recorded, but after a failed call only those a pass has been over since.
Vouched ==
    {g \in recorded : ~suspect}
      \cup {g \in Grants : Granting /\ AtWork(g)}
      \cup (CASE phase = "grant" -> done \cup {g \in (recorded \cap desired) \ todo : reapply}
              [] phase = "regrant" -> recorded \ todo
              [] phase \in {"idle", "undo", "revoke"} -> {})

InForce == \A g \in Vouched : \A x \in Needs(g) : Backed(g, x)

EffectInv == LedgerInv /\ Lapsing /\ InForce

-----------------------------------------------------------------------------
(* The statements of a grant                                                *)

\* Oracle's list of a set has every member of it.
LEMMA SetToSeqHasAll ==
    ASSUME NEW S, IsFiniteSet(S)
    PROVE  SetToSeq(S) \in Seq(S) /\ Range(SetToSeq(S)) = S
<1> DEFINE n == Cardinality(S)
           q == SetToSeq(S)
<1>1. n \in Nat /\ ExistsBijection(1 .. n, S)  BY FS_CardinalityType
<1>2. \E f \in [1 .. n -> S] : IsInjective(f)
  BY <1>1 DEF ExistsBijection, Bijection, Injection
<1>3. q \in [1 .. n -> S] /\ IsInjective(q)
  BY <1>2 DEF SetToSeq
<1>4. q \in Injection(1 .. n, S)  BY <1>3 DEF Injection
<1>5. Cardinality(1 .. n) = n  BY <1>1, FS_Interval
<1>6. q \in Surjection(1 .. n, S)  BY <1>4, <1>5, FS_Injection
<1>7. q \in Seq(S)  BY <1>1, <1>3
<1>8. DOMAIN q = 1 .. n  BY <1>3
<1>9. Range(q) = S
  <2>1. \A x \in S : \E i \in DOMAIN q : q[i] = x
    BY <1>6, <1>8 DEF Surjection
  <2>2. \A i \in DOMAIN q : q[i] \in S  BY <1>3
  <2>3. QED  BY <2>1, <2>2 DEF Range
<1>10. QED  BY <1>7, <1>9

LEMMA OneStatement ==
    ASSUME NEW S, NEW s \in S
    PROVE  << s >> \in Seq(S) /\ Range(<< s >>) = {s}
BY DEF Range

LEMMA TwoStatements ==
    ASSUME NEW S, NEW s \in S, NEW t \in S
    PROVE  << s, t >> \in Seq(S) /\ Range(<< s, t >>) = {s, t}
<1>1. DOMAIN << s, t >> = {1, 2}  OBVIOUS
<1>2. QED  BY <1>1 DEF Range

LEMMA Concatenation ==
    ASSUME NEW S, NEW s \in Seq(S), NEW t \in Seq(S)
    PROVE  s \o t \in Seq(S) /\ Range(s \o t) = Range(s) \cup Range(t)
BY RangeConcatenation

LEMMA GrantIs ==
    ASSUME NEW g \in Grants
    PROVE  /\ g.type \in {"read", "create", "full"} /\ g.target \in Tables \cup {All}
           /\ DataPrivs(g) \subseteq {"select", "write"}
           /\ g = [type |-> "full", target |-> All] <=> g.type = "full" /\ g.target = All
           /\ g.target \in Scopes
BY GrantsAssumption DEF DataPrivs, Scopes

LEMMA StatementTypes ==
    ASSUME NEW g \in Grants, NEW what \in SUBSET Privs, NEW on \in Scopes
    PROVE  Stmt(g, what, on) \in Statements
BY DEF Stmt, Statements

\* The statements of a grant as a set.
StatementSet(g) ==
    LET data(on) == Stmt(g, DataPrivs(g), on)
        creating == {Stmt(g, {"create"}, "database"), Stmt(g, {"alter"}, All)}
    IN  CASE provider \in {"clickhouse", "databricks"} ->
               {IF g.type = "create" THEN Stmt(g, {"create"}, All)
                ELSE IF g.type = "full" /\ g.target = All
                THEN Stmt(g, {"select", "write", "create"}, All)
                ELSE data(g.target)}
          [] provider = "sqlserver" ->
               (IF g.type = "create" THEN {} ELSE {data(g.target)})
                 \cup (IF g.type = "create" \/ (g.type = "full" /\ g.target = All)
                       THEN creating ELSE {})
          [] provider = "oracle" ->
               {data(t) : t \in IF g.target = All THEN tables ELSE {g.target}}
          [] provider = "snowflake" ->
               IF g.type = "create" THEN {Stmt(g, {"usage", "create"}, All)}
               ELSE {Stmt(g, {"usage"}, All)}
                      \cup (IF g.target # All THEN {data(g.target)}
                            ELSE {data("current"), data("future")})
                      \cup (IF g.target = All /\ g.type = "full"
                            THEN {Stmt(g, {"create"}, All)} ELSE {})

LEMMA ProviderIs ==
    ASSUME TypeOK
    PROVE  provider \in {"clickhouse", "databricks", "sqlserver", "oracle", "snowflake"}
BY SqlProvidersAssumption DEF TypeOK

LEMMA StatementsAre ==
    ASSUME TypeOK, NEW g \in Grants
    PROVE  StatementsOf(g) \in Seq(Statements) /\ Range(StatementsOf(g)) = StatementSet(g)
<1> DEFINE data(on) == Stmt(g, DataPrivs(g), on)
<1>1. /\ g.type \in {"read", "create", "full"} /\ g.target \in Tables \cup {All}
      /\ DataPrivs(g) \in SUBSET Privs
      /\ g = [type |-> "full", target |-> All] <=> g.type = "full" /\ g.target = All
      /\ g.target \in Scopes
  BY GrantIs DEF Privs
<1>2. \A what \in SUBSET Privs, on \in Scopes : Stmt(g, what, on) \in Statements
  BY StatementTypes
<1>3. {All, "database", "current", "future"} \subseteq Scopes /\ Tables \subseteq Scopes
  BY DEF Scopes
<1>4. /\ {"select", "write", "create"} \in SUBSET Privs /\ {"create"} \in SUBSET Privs
      /\ {"alter"} \in SUBSET Privs /\ {"usage"} \in SUBSET Privs
      /\ {"usage", "create"} \in SUBSET Privs
  BY DEF Privs
<1>5. \A on \in Scopes : data(on) \in Statements  BY <1>1, <1>2
<1>6. CASE provider \in {"clickhouse", "databricks"}
  <2>1. StatementsOf(g) = RuleStatements(g)  BY <1>6 DEF StatementsOf
  <2>2. PICK s \in Statements : RuleStatements(g) = << s >> /\ StatementSet(g) = {s}
    BY <1>1, <1>2, <1>3, <1>4, <1>6 DEF RuleStatements, StatementSet
  <2>3. QED  BY <2>1, <2>2, OneStatement
<1>7. CASE provider = "sqlserver"
  <2> DEFINE creating == << Stmt(g, {"create"}, "database"), Stmt(g, {"alter"}, All) >>
  <2>1. StatementsOf(g) = SqlServerStatements(g)  BY <1>7 DEF StatementsOf
  <2>2. /\ creating \in Seq(Statements)
        /\ Range(creating) = {Stmt(g, {"create"}, "database"), Stmt(g, {"alter"}, All)}
    BY <1>2, <1>3, <1>4, TwoStatements
  <2>3. << data(g.target) >> \in Seq(Statements)
          /\ Range(<< data(g.target) >>) = {data(g.target)}
    BY <1>1, <1>5, OneStatement
  <2>4. /\ << data(g.target) >> \o creating \in Seq(Statements)
        /\ Range(<< data(g.target) >> \o creating)
             = {data(g.target)} \cup Range(creating)
    <3> DEFINE one == << data(g.target) >>
    <3>1. one \in Seq(Statements) /\ Range(one) = {data(g.target)}  BY <2>3
    <3> HIDE DEF one, creating
    <3>2. one \o creating \in Seq(Statements)
            /\ Range(one \o creating) = Range(one) \cup Range(creating)
      BY <2>2, <3>1, Concatenation
    <3>3. QED  BY <3>1, <3>2 DEF one
  <2>5. SqlServerStatements(g) = IF g.type = "create" THEN creating
                                 ELSE IF g.type = "full" /\ g.target = All
                                 THEN << data(g.target) >> \o creating
                                 ELSE << data(g.target) >>
    BY DEF SqlServerStatements
  <2>6. StatementSet(g) =
          (IF g.type = "create" THEN {} ELSE {data(g.target)})
            \cup (IF g.type = "create" \/ (g.type = "full" /\ g.target = All)
                  THEN {Stmt(g, {"create"}, "database"), Stmt(g, {"alter"}, All)} ELSE {})
    BY <1>7 DEF StatementSet
  <2> HIDE DEF creating, data
  <2>7. CASE g.type = "create"  BY <2>1, <2>2, <2>5, <2>6, <2>7
  <2>8. CASE g.type = "full" /\ g.target = All  BY <2>1, <2>2, <2>4, <2>5, <2>6, <2>8
  <2>9. CASE g.type # "create" /\ ~(g.type = "full" /\ g.target = All)
    BY <2>1, <2>3, <2>5, <2>6, <2>9
  <2>10. QED  BY <2>7, <2>8, <2>9
<1>8. CASE provider = "oracle"
  <2> DEFINE listed == IF g.target = All THEN tables ELSE {g.target}
             S == {data(t) : t \in listed}
             f == [t \in listed |-> data(t)]
  <2>1. StatementsOf(g) = SetToSeq(S)
    BY <1>8 DEF StatementsOf, OracleStatements
  <2>2. listed \subseteq Tables
    BY <1>1 DEF TypeOK
  <2>3. IsFiniteSet(listed)
    BY <2>2, TablesAssumption, FS_Subset
  <2>4. f \in Surjection(listed, S)
    BY DEF Surjection
  <2>5. IsFiniteSet(S)  BY <2>3, <2>4, FS_Surjection
  <2>6. S \subseteq Statements  BY <1>3, <1>5, <2>2
  <2>7. SetToSeq(S) \in Seq(S) /\ Range(SetToSeq(S)) = S
    <3> HIDE DEF S
    <3>1. QED  BY <2>5, SetToSeqHasAll
  <2>8. SetToSeq(S) \in Seq(Statements)  BY <2>6, <2>7
  <2>9. StatementSet(g) = S  BY <1>8 DEF StatementSet
  <2>10. QED  BY <2>1, <2>7, <2>8, <2>9
<1>9. CASE provider = "snowflake"
  <2> DEFINE usage == << Stmt(g, {"usage"}, All) >>
             allAndFuture == << data("current"), data("future") >>
             create == << Stmt(g, {"create"}, All) >>
             both == << Stmt(g, {"usage", "create"}, All) >>
             one == << data(g.target) >>
  <2>1. StatementsOf(g) = SnowflakeStatements(g)  BY <1>9 DEF StatementsOf
  <2>2. /\ usage \in Seq(Statements) /\ Range(usage) = {Stmt(g, {"usage"}, All)}
        /\ create \in Seq(Statements) /\ Range(create) = {Stmt(g, {"create"}, All)}
        /\ both \in Seq(Statements) /\ Range(both) = {Stmt(g, {"usage", "create"}, All)}
        /\ one \in Seq(Statements) /\ Range(one) = {data(g.target)}
    BY <1>1, <1>2, <1>3, <1>4, <1>5, OneStatement
  <2>3. /\ allAndFuture \in Seq(Statements)
        /\ Range(allAndFuture) = {data("current"), data("future")}
    BY <1>3, <1>5, TwoStatements
  <2>4. SnowflakeStatements(g) =
          IF g.type = "create" THEN both
          ELSE IF g.target # All THEN usage \o one
          ELSE IF g.type = "read" THEN usage \o allAndFuture
          ELSE usage \o allAndFuture \o create
    BY DEF SnowflakeStatements
  <2>5. StatementSet(g) =
          IF g.type = "create" THEN {Stmt(g, {"usage", "create"}, All)}
          ELSE {Stmt(g, {"usage"}, All)}
                 \cup (IF g.target # All THEN {data(g.target)}
                       ELSE {data("current"), data("future")})
                 \cup (IF g.target = All /\ g.type = "full"
                       THEN {Stmt(g, {"create"}, All)} ELSE {})
    BY <1>9 DEF StatementSet
  <2> HIDE DEF usage, allAndFuture, create, both, one, data
  <2>6. usage \o one \in Seq(Statements) /\ Range(usage \o one) = Range(usage) \cup Range(one)
    BY <2>2, Concatenation
  <2>7. /\ usage \o allAndFuture \in Seq(Statements)
        /\ Range(usage \o allAndFuture) = Range(usage) \cup Range(allAndFuture)
    BY <2>2, <2>3, Concatenation
  <2>8. /\ (usage \o allAndFuture) \o create \in Seq(Statements)
        /\ Range((usage \o allAndFuture) \o create)
             = Range(usage \o allAndFuture) \cup Range(create)
    <3> DEFINE all == usage \o allAndFuture
    <3>1. all \in Seq(Statements)  BY <2>7
    <3> HIDE DEF all
    <3>2. all \o create \in Seq(Statements)
            /\ Range(all \o create) = Range(all) \cup Range(create)
      BY <2>2, <3>1, Concatenation
    <3>3. QED  BY <3>2 DEF all
  <2>9. CASE g.type = "create"  BY <2>1, <2>2, <2>4, <2>5, <2>9
  <2>10. CASE g.type # "create" /\ g.target # All
    BY <2>1, <2>2, <2>4, <2>5, <2>6, <2>10
  <2>11. CASE g.type = "read" /\ g.target = All
    BY <2>1, <2>2, <2>3, <2>4, <2>5, <2>7, <2>11
  <2>12. CASE g.type = "full" /\ g.target = All
    BY <2>1, <2>2, <2>3, <2>4, <2>5, <2>7, <2>8, <2>12
  <2>13. QED  BY <1>1, <2>9, <2>10, <2>11, <2>12
<1>10. QED  BY ProviderIs, <1>6, <1>7, <1>8, <1>9

\* So a member of one form is a member of the other.
LEMMA StatementAt ==
    ASSUME TypeOK, NEW g \in Grants
    PROVE  /\ \A i \in DOMAIN StatementsOf(g) :
                 StatementsOf(g)[i] \in StatementSet(g) /\ StatementsOf(g)[i] \in Statements
           /\ \A s \in StatementSet(g) : \E i \in DOMAIN StatementsOf(g) : StatementsOf(g)[i] = s
<1>1. StatementsOf(g) \in Seq(Statements) /\ Range(StatementsOf(g)) = StatementSet(g)
  BY StatementsAre
<1>2. DOMAIN StatementsOf(g) = 1 .. Len(StatementsOf(g))  BY <1>1
<1>3. QED  BY <1>1, <1>2 DEF Range
LEMMA PrivilegeIs ==
    ASSUME NEW s, NEW x
    PROVE  x \in PrivilegesOf(s) <=> /\ x = [priv |-> x.priv, on |-> x.on]
                                     /\ x.priv \in s.privs /\ x.on \in ScopesOf(s)
BY DEF PrivilegesOf

LEMMA StatementForms ==
    ASSUME TypeOK, NEW g \in Grants, g.type \in SupportedTypes, NEW s \in StatementSet(g)
    PROVE  Fits(g, s)
<1> SUFFICES s.for = g /\ (DataForm(g, s) \/ CreateForm(g, s) \/ UsageForm(g, s))
  BY DEF Fits
<1>1. g.type \in {"read", "create", "full"} /\ g.target \in Tables \cup {All}
  BY GrantIs
<1>2. tables \subseteq Tables  BY DEF TypeOK
<1>3. CASE provider \in {"clickhouse", "databricks"}
  <2>1. CASE g.type = "create"
    BY <1>3, <2>1 DEF StatementSet, Stmt, CreateForm
  <2>2. CASE g.type = "full" /\ g.target = All
    BY <1>3, <2>2 DEF StatementSet, Stmt, CreateForm, Creates
  <2>3. CASE g.type # "create" /\ ~(g.type = "full" /\ g.target = All)
    <3>1. s = Stmt(g, DataPrivs(g), g.target)  BY <1>3, <2>3 DEF StatementSet
    <3>2. s.for = g /\ s.privs = DataPrivs(g) /\ s.on = g.target  BY <3>1 DEF Stmt
    <3>3. QED  BY <1>3, <2>3, <3>2 DEF DataForm
  <2>4. QED  BY <2>1, <2>2, <2>3
<1>4. CASE provider = "sqlserver"
  BY <1>1, <1>4 DEF StatementSet, Stmt, DataForm, CreateForm, Creates
<1>5. CASE provider = "oracle"
  <2>1. g.type # "create"  BY <1>5 DEF SupportedTypes
  <2>2. QED
    BY <1>1, <1>2, <1>5, <2>1 DEF StatementSet, Stmt, DataForm
<1>6. CASE provider = "snowflake"
  <2>1. CASE g.type = "create"
    BY <1>6, <2>1 DEF StatementSet, Stmt, CreateForm
  <2>2. CASE g.type # "create" /\ g.target # All
    BY <1>6, <2>2 DEF StatementSet, Stmt, DataForm, UsageForm
  <2>3. CASE g.type # "create" /\ g.target = All
    BY <1>6, <2>3 DEF StatementSet, Stmt, DataForm, CreateForm, UsageForm, Creates
  <2>4. QED  BY <2>1, <2>2, <2>3
<1>7. QED  BY ProviderIs, <1>3, <1>4, <1>5, <1>6

\* The scopes of a statement on the data a grant names lie within the grant's.
LEMMA DataScopes ==
    ASSUME TypeOK, NEW g \in Grants, NEW s, DataForm(g, s), NEW on \in ScopesOf(s)
    PROVE  on \in Covered(g) /\ on \in Scopes
<1>1. g.target \in Tables \cup {All}  BY GrantIs
<1>2. tables \subseteq Tables  BY DEF TypeOK
<1>3. Tables \cap {All, "current", "future"} = {}  BY TablesAssumption
<1>4. Tables \cup {All, "future"} \subseteq Scopes  BY DEF Scopes
<1>5. All # "current" /\ All # "future"  BY DEF All
<1>6. CASE provider \in {"clickhouse", "databricks", "sqlserver"}
  BY <1>1, <1>3, <1>4, <1>5, <1>6 DEF DataForm, ScopesOf, Covered
<1>7. CASE provider = "oracle"
  BY <1>1, <1>3, <1>4, <1>7 DEF DataForm, ScopesOf, Covered
<1>8. CASE provider = "snowflake"
  BY <1>1, <1>2, <1>3, <1>4, <1>5, <1>8 DEF DataForm, ScopesOf, Covered
<1>9. QED  BY ProviderIs, <1>6, <1>7, <1>8

LEMMA CreateFits ==
    ASSUME TypeOK, NEW g \in Grants, NEW s, CreateForm(g, s), Creates(g),
           NEW x \in PrivilegesOf(s), x.priv \in Powers
    PROVE  x \in Footprint(g)
<1>1. /\ x = [priv |-> x.priv, on |-> x.on]
      /\ x.priv \in s.privs /\ x.on \in ScopesOf(s)
  BY PrivilegeIs
<1>2. Tables \cup {All, "database"} \subseteq Scopes  BY DEF Scopes
<1>3. All # "current"  BY DEF All
<1>4. g.target = All  BY DEF Creates
<1>5. x.on \in Scopes
  BY <1>1, <1>2, <1>3 DEF CreateForm, ScopesOf
<1>6. CASE x.priv = "create"
  <2>1. x.on \in CreateScopes
    <3>1. CASE provider = "sqlserver"
      BY <1>1, <1>6, <3>1 DEF CreateForm, ScopesOf, CreateScopes
    <3>2. CASE provider = "clickhouse"
      BY <1>1, <3>2 DEF CreateForm, ScopesOf, CreateScopes, All
    <3>3. CASE provider \in {"databricks", "snowflake"}
      BY <1>1, <1>3, <3>3 DEF CreateForm, ScopesOf, CreateScopes
    <3>4. QED  BY ProviderIs, <3>1, <3>2, <3>3 DEF CreateForm
  <2>2. QED  BY <1>1, <1>5, <1>6, <2>1 DEF Footprint, Powers
<1>7. CASE x.priv # "create"
  <2>1. /\ provider \in {"clickhouse", "databricks"} /\ g.type = "full" /\ s.on = All
        /\ x.priv \in {"select", "write"}
    BY <1>1, <1>7 DEF CreateForm, Powers
  <2>2. x.on \in Covered(g)
    BY <1>1, <1>3, <1>4, <2>1 DEF ScopesOf, Covered
  <2>3. x.priv \in DataPrivs(g) /\ g.type # "create"  BY <2>1 DEF DataPrivs
  <2>4. QED  BY <1>1, <1>5, <2>2, <2>3 DEF Footprint
<1>8. QED  BY <1>6, <1>7

\* A statement touches nothing outside of its grant's footprint, unless it is of a
\* create:<table> that is being undone.
LEMMA StatementFootprint ==
    ASSUME TypeOK, NEW g \in Grants, NEW s, Fits(g, s), ~TableCreate(g),
           NEW x \in PrivilegesOf(s), x.priv \in Powers
    PROVE  x \in Footprint(g)
<1>1. DataForm(g, s) \/ CreateForm(g, s) \/ UsageForm(g, s)  BY DEF Fits
<1>2. /\ x = [priv |-> x.priv, on |-> x.on]
      /\ x.priv \in s.privs /\ x.on \in ScopesOf(s)
  BY PrivilegeIs
<1>3. CASE DataForm(g, s)
  <2>1. x.on \in Covered(g) /\ x.on \in Scopes  BY <1>2, <1>3, DataScopes
  <2>2. QED  BY <1>2, <1>3, <2>1 DEF Footprint, DataForm
<1>4. CASE CreateForm(g, s)
  <2>1. Creates(g)
    <3>1. g.type = "create" => g.target = All  BY DEF TableCreate
    <3>2. g.type = "create" \/ Creates(g)  BY <1>4 DEF CreateForm
    <3>3. QED  BY <3>1, <3>2 DEF Creates
  <2>2. QED  BY <1>4, <2>1, CreateFits
<1>5. CASE UsageForm(g, s)  BY <1>2, <1>5 DEF UsageForm, Powers
<1>6. QED  BY <1>1, <1>3, <1>4, <1>5

LEMMA AlterCreates ==
    ASSUME NEW g \in Grants, NEW s, Fits(g, s), ~TableCreate(g), "alter" \in s.privs
    PROVE  Creates(g)
<1>1. ~DataForm(g, s)
  <2>1. "alter" \notin DataPrivs(g)  BY DEF DataPrivs
  <2>2. DataForm(g, s) => s.privs = DataPrivs(g)  BY DEF DataForm
  <2>3. QED  BY <2>1, <2>2
<1>2. ~UsageForm(g, s)  BY DEF UsageForm
<1>3. CreateForm(g, s)  BY <1>1, <1>2 DEF Fits
<1>4. g.type = "create" => g.target = All  BY DEF TableCreate
<1>5. g.type = "create" \/ Creates(g)  BY <1>3 DEF CreateForm
<1>6. QED  BY <1>4, <1>5 DEF Creates

\* Every statement on Oracle names a table.
LEMMA OracleFits ==
    ASSUME NEW g \in Grants, NEW s, Fits(g, s), provider = "oracle"
    PROVE  s.on \in Tables /\ (g.target # All => s.on = g.target)
BY DEF Fits, DataForm, CreateForm, UsageForm

\* What a grant on the present tables needs its statements confer.
LEMMA NeedsCovered ==
    ASSUME TypeOK, NEW g \in Grants, g.type \in SupportedTypes, NEW x \in Needs(g)
    PROVE  \E s \in StatementSet(g) : x \in PrivilegesOf(s)
<1> DEFINE data(on) == Stmt(g, DataPrivs(g), on)
<1>1. /\ g.type \in {"read", "create", "full"} /\ g.target \in Tables \cup {All}
      /\ DataPrivs(g) \subseteq {"select", "write"}
  BY GrantIs
<1>2. tables \subseteq Tables  BY DEF TypeOK
<1>3. x = [priv |-> x.priv, on |-> x.on]  BY DEF Needs
<1>4. Tables \cap {All, "current", "future"} = {} /\ All # "current"
  BY TablesAssumption DEF All
<1>5. \/ g.type # "create" /\ x.priv \in DataPrivs(g) /\ x.on \in NeededOn(g)
      \/ Creates(g) /\ x.priv = "create" /\ x.on \in CreateScopes
      \/ Creates(g) /\ provider = "sqlserver" /\ x.priv = "alter" /\ x.on = All
      \/ provider = "snowflake" /\ x.priv = "usage" /\ x.on = All
  BY DEF Needs
<1>6. SUFFICES \E s \in StatementSet(g) : x.priv \in s.privs /\ x.on \in ScopesOf(s)
  BY <1>3, PrivilegeIs
<1>7. CASE provider \in {"clickhouse", "databricks"}
  <2>1. CASE g.type = "create"
    <3> DEFINE s == Stmt(g, {"create"}, All)
    <3>1. s \in StatementSet(g)  BY <1>7, <2>1 DEF StatementSet
    <3>2. x.priv = "create" /\ x.on \in CreateScopes  BY <1>5, <1>7, <2>1
    <3>3. s.privs = {"create"} /\ s.on = All  BY DEF Stmt
    <3>4. CreateScopes = ScopesOf(s)  BY <1>4, <1>7, <3>3 DEF ScopesOf, CreateScopes
    <3>5. QED  BY <3>1, <3>2, <3>3, <3>4
  <2>2. CASE g.type = "full" /\ g.target = All
    <3> DEFINE s == Stmt(g, {"select", "write", "create"}, All)
    <3>1. s \in StatementSet(g)  BY <1>7, <2>2 DEF StatementSet
    <3>2. x.priv \in {"select", "write", "create"}
      BY <1>1, <1>5, <1>7
    <3>3. x.on \in IF provider = "clickhouse" THEN Tables \cup {All} ELSE {All}
      BY <1>5, <1>7, <2>2 DEF NeededOn, CreateScopes
    <3>4. s.privs = {"select", "write", "create"} /\ s.on = All  BY DEF Stmt
    <3>5. x.on \in ScopesOf(s)  BY <1>4, <3>3, <3>4 DEF ScopesOf
    <3>6. QED  BY <3>1, <3>2, <3>4, <3>5
  <2>3. CASE g.type # "create" /\ ~(g.type = "full" /\ g.target = All)
    <3> DEFINE s == data(g.target)
    <3>1. s \in StatementSet(g)  BY <1>7, <2>3 DEF StatementSet
    <3>2. x.priv \in DataPrivs(g) /\ x.on \in NeededOn(g)
      BY <1>5, <1>7, <2>3 DEF Creates
    <3>3. x.on \in IF provider = "clickhouse" /\ g.target = All
                   THEN Tables \cup {All} ELSE {g.target}
      BY <1>7, <3>2 DEF NeededOn
    <3>4. s.privs = DataPrivs(g) /\ s.on = g.target  BY DEF Stmt
    <3>5. x.on \in ScopesOf(s)  BY <1>1, <1>4, <3>3, <3>4 DEF ScopesOf
    <3>6. QED  BY <3>1, <3>2, <3>4, <3>5
  <2>4. QED  BY <2>1, <2>2, <2>3
<1>8. CASE provider = "sqlserver"
  <2>1. CASE g.type # "create" /\ x.priv \in DataPrivs(g) /\ x.on \in NeededOn(g)
    <3> DEFINE s == data(g.target)
    <3>1. s \in StatementSet(g)  BY <1>8, <2>1 DEF StatementSet
    <3>2. x.on = g.target  BY <1>8, <2>1 DEF NeededOn
    <3>3. s.privs = DataPrivs(g) /\ s.on = g.target  BY DEF Stmt
    <3>4. x.on \in ScopesOf(s)  BY <1>1, <1>4, <1>8, <3>2, <3>3 DEF ScopesOf
    <3>5. QED  BY <2>1, <3>1, <3>3, <3>4
  <2>2. CASE Creates(g) /\ x.priv = "create" /\ x.on = "database"
    <3> DEFINE s == Stmt(g, {"create"}, "database")
    <3>1. s \in StatementSet(g)  BY <1>8, <2>2 DEF StatementSet, Creates
    <3>2. s.privs = {"create"} /\ s.on = "database"  BY DEF Stmt
    <3>3. x.on \in ScopesOf(s)  BY <1>8, <2>2, <3>2 DEF ScopesOf, All
    <3>4. QED  BY <2>2, <3>1, <3>2, <3>3
  <2>3. CASE Creates(g) /\ x.priv = "alter" /\ x.on = All
    <3> DEFINE s == Stmt(g, {"alter"}, All)
    <3>1. s \in StatementSet(g)  BY <1>8, <2>3 DEF StatementSet, Creates
    <3>2. s.privs = {"alter"} /\ s.on = All  BY DEF Stmt
    <3>3. x.on \in ScopesOf(s)  BY <1>8, <2>3, <3>2 DEF ScopesOf, All
    <3>4. QED  BY <2>3, <3>1, <3>2, <3>3
  <2>4. QED  BY <1>5, <1>8, <2>1, <2>2, <2>3 DEF CreateScopes
<1>9. CASE provider = "oracle"
  <2> DEFINE s == data(x.on)
  <2>1. g.type # "create" /\ x.priv \in DataPrivs(g) /\ x.on \in NeededOn(g)
    <3>1. g.type # "create"  BY <1>9 DEF SupportedTypes
    <3>2. ~Creates(g)  BY <1>9, <3>1 DEF Creates
    <3>3. QED  BY <1>5, <1>9, <3>1, <3>2
  <2>2. x.on \in IF g.target = All THEN tables ELSE {g.target}  BY <1>9, <2>1 DEF NeededOn
  <2>3. s \in StatementSet(g)  BY <1>9, <2>2 DEF StatementSet
  <2>4. x.on \in Tables  BY <1>1, <1>2, <2>2
  <2>5. s.privs = DataPrivs(g) /\ s.on = x.on  BY DEF Stmt
  <2>6. x.on \in ScopesOf(s)  BY <1>4, <1>9, <2>4, <2>5 DEF ScopesOf
  <2>7. QED  BY <2>1, <2>3, <2>5, <2>6
<1>10. CASE provider = "snowflake"
  <2>1. CASE x.priv = "usage" /\ x.on = All
    <3>1. PICK s \in StatementSet(g) : "usage" \in s.privs /\ s.on = All
      <4>1. CASE g.type = "create"
        <5>1. Stmt(g, {"usage", "create"}, All) \in StatementSet(g)
          BY <1>10, <4>1 DEF StatementSet
        <5>2. QED  BY <5>1 DEF Stmt
      <4>2. CASE g.type # "create"
        <5>1. Stmt(g, {"usage"}, All) \in StatementSet(g)
          BY <1>10, <4>2 DEF StatementSet
        <5>2. QED  BY <5>1 DEF Stmt
      <4>3. QED  BY <4>1, <4>2
    <3>2. QED  BY <1>4, <1>10, <2>1, <3>1 DEF ScopesOf
  <2>2. CASE Creates(g) /\ x.priv = "create" /\ x.on = All
    <3>1. PICK s \in StatementSet(g) : "create" \in s.privs /\ s.on = All
      <4>1. CASE g.type = "create"
        <5>1. Stmt(g, {"usage", "create"}, All) \in StatementSet(g)
          BY <1>10, <4>1 DEF StatementSet
        <5>2. QED  BY <5>1 DEF Stmt
      <4>2. CASE g.type # "create"
        <5>1. Stmt(g, {"create"}, All) \in StatementSet(g)
          BY <1>10, <2>2, <4>2 DEF StatementSet, Creates
        <5>2. QED  BY <5>1 DEF Stmt
      <4>3. QED  BY <4>1, <4>2
    <3>2. QED  BY <1>4, <1>10, <2>2, <3>1 DEF ScopesOf
  <2>3. CASE g.type # "create" /\ x.priv \in DataPrivs(g) /\ x.on \in NeededOn(g)
    <3>1. CASE g.target # All
      <4> DEFINE s == data(g.target)
      <4>1. s \in StatementSet(g)  BY <1>10, <2>3, <3>1 DEF StatementSet
      <4>2. x.on = g.target /\ g.target \in Tables  BY <1>1, <2>3, <3>1 DEF NeededOn
      <4>3. s.privs = DataPrivs(g) /\ s.on = g.target  BY DEF Stmt
      <4>4. x.on \in ScopesOf(s)  BY <1>4, <1>10, <4>2, <4>3 DEF ScopesOf
      <4>5. QED  BY <2>3, <4>1, <4>3, <4>4
    <3>2. CASE g.target = All
      <4>1. data("current") \in StatementSet(g) /\ data("future") \in StatementSet(g)
        BY <1>10, <2>3, <3>2 DEF StatementSet
      <4>2. x.on \in tables \cup {"future"}  BY <1>10, <2>3, <3>2 DEF NeededOn
      <4>3. /\ data("current").privs = DataPrivs(g) /\ data("current").on = "current"
            /\ data("future").privs = DataPrivs(g) /\ data("future").on = "future"
        BY DEF Stmt
      <4>4. ScopesOf(data("current")) = tables /\ "future" \in ScopesOf(data("future"))
        BY <1>10, <4>3 DEF ScopesOf
      <4>5. QED  BY <2>3, <4>1, <4>2, <4>3, <4>4
    <3>3. QED  BY <3>1, <3>2
  <2>4. QED  BY <1>5, <1>10, <2>1, <2>2, <2>3 DEF CreateScopes
<1>11. QED  BY ProviderIs, <1>7, <1>8, <1>9, <1>10

\* A privilege a grant accounts for is needed now, unless its table is not there.
LEMMA FootprintNeeded ==
    ASSUME TypeOK, NEW g \in Grants, NEW x \in Footprint(g),
           provider # "clickhouse" => (x.on \in Tables => x.on \in tables)
    PROVE  x \in Needs(g)
<1>1. x \in [priv : Privs, on : Scopes]  BY DEF Footprint, Powers, Privs
<1>2. Tables \cap {"future"} = {}  BY TablesAssumption
<1>3. x.on \in Covered(g) => x.on \in NeededOn(g)
  <2>1. CASE g.target # All  BY <2>1 DEF Covered, NeededOn
  <2>2. CASE g.target = All /\ provider \in {"clickhouse", "databricks", "sqlserver"}
    BY <2>2 DEF Covered, NeededOn
  <2>3. CASE g.target = All /\ provider = "oracle"  BY <2>3 DEF Covered, NeededOn
  <2>4. CASE g.target = All /\ provider = "snowflake"  BY <2>4 DEF Covered, NeededOn
  <2>5. QED  BY ProviderIs, <2>1, <2>2, <2>3, <2>4
<1>4. QED  BY <1>1, <1>3 DEF Footprint, Needs

-----------------------------------------------------------------------------
(* Type correctness                                                         *)

LEMMA InitTypes == Init => TypeOK
<1> SUFFICES ASSUME Init PROVE TypeOK
  OBVIOUS
<1>1. << >> \in Seq(Statements)  OBVIOUS
<1>2. stmts \in Seq(Statements)  BY <1>1 DEF Init
<1>3. faults \in 0 .. MaxFaults /\ changes \in 0 .. MaxChanges
  BY BoundsAssumption DEF Init
<1>4. /\ recorded = {} /\ pending = {} /\ leaked = {} /\ refused = {} /\ privs = {}
      /\ phase = "idle" /\ desired = {} /\ todo = {} /\ done = {} /\ lapsed = {} /\ late = {}
      /\ reapply = FALSE /\ suspect = FALSE
      /\ provider \in SqlProviders /\ tables \subseteq Tables
  BY DEF Init
<1>5. QED  BY <1>2, <1>3, <1>4 DEF TypeOK

\* The privileges of a statement are privileges on scopes.
LEMMA StatementPrivileges ==
    ASSUME TypeOK, NEW s \in Statements
    PROVE  PrivilegesOf(s) \subseteq [priv : Privs, on : Scopes]
<1>1. s.privs \subseteq Privs /\ s.on \in Scopes  BY DEF Statements
<1>2. ScopesOf(s) \subseteq Scopes  BY <1>1 DEF TypeOK, ScopesOf, Scopes
<1>3. QED  BY <1>1, <1>2 DEF PrivilegesOf

LEMMA HeadAndTail ==
    ASSUME TypeOK, stmts # << >>
    PROVE  /\ Head(stmts) \in Statements /\ Head(stmts) = stmts[1] /\ 1 \in DOMAIN stmts
           /\ Tail(stmts) \in Seq(Statements)
           /\ DOMAIN stmts = 1 .. Len(stmts)
           /\ \A i \in DOMAIN Tail(stmts) :
                 i + 1 \in DOMAIN stmts /\ Tail(stmts)[i] = stmts[i + 1]
           /\ \A i \in DOMAIN stmts : i # 1 =>
                 i - 1 \in DOMAIN Tail(stmts) /\ Tail(stmts)[i - 1] = stmts[i]
           /\ Len(stmts) > 1 <=> Tail(stmts) # << >>
<1>1. stmts \in Seq(Statements)  BY DEF TypeOK
<1>2. /\ Head(stmts) \in Statements /\ Tail(stmts) \in Seq(Statements)
      /\ stmts = << Head(stmts) >> \o Tail(stmts)
  BY <1>1, HeadTailProperties
<1>3. Len(stmts) \in Nat /\ Len(stmts) >= 1 /\ DOMAIN stmts = 1 .. Len(stmts)
  BY <1>1
<1>4. Len(Tail(stmts)) = Len(stmts) - 1 /\ DOMAIN Tail(stmts) = 1 .. Len(stmts) - 1
  BY <1>1, <1>3
<1>5. Head(stmts) = stmts[1] /\ \A i \in 1 .. Len(stmts) - 1 : Tail(stmts)[i] = stmts[i + 1]
  BY <1>1, <1>3
<1>6. Len(stmts) > 1 <=> Tail(stmts) # << >>
  <2>1. Len(<< >>) = 0  OBVIOUS
  <2>2. Tail(stmts) = << >> <=> Len(Tail(stmts)) = 0  BY <1>2, EmptySeq
  <2>3. QED  BY <1>3, <1>4, <2>2
<1>7. QED  BY <1>2, <1>3, <1>4, <1>5, <1>6

LEMMA ExecuteTypes ==
    ASSUME TypeOK, NEW s \in Statements, Execute(s)
    PROVE  privs' \subseteq [priv : Privs, on : Scopes]
BY StatementPrivileges DEF Execute, TypeOK

LEMMA FailTypes ==
    ASSUME TypeOK, CallFails, privs' \subseteq [priv : Privs, on : Scopes],
           faults' \in 0 .. MaxFaults
    PROVE  TypeOK'
<1>1. << >> \in Seq(Statements)  OBVIOUS
<1>2. stmts' \in Seq(Statements)  BY <1>1 DEF CallFails
<1>3. QED  BY <1>2 DEF TypeOK, CallFails, history

LEMMA InjectTypes ==
    ASSUME TypeOK, InjectFault
    PROVE  faults' \in 0 .. MaxFaults
BY BoundsAssumption DEF TypeOK, InjectFault

LEMMA TypeStep == TypeOK /\ [Next]_vars => TypeOK'
<1> SUFFICES ASSUME TypeOK, [Next]_vars PROVE TypeOK'
  OBVIOUS
<1>1. ASSUME NEW t \in Tables, CreateTable(t) PROVE TypeOK'
  <2>1. changes' \in 0 .. MaxChanges
    BY <1>1, BoundsAssumption DEF TypeOK, CreateTable, TablesMayChange
  <2>2. privs' \subseteq [priv : Privs, on : Scopes]
    <3>1. t \in Scopes  BY DEF Scopes
    <3>2. \A x \in [priv : Privs, on : Scopes] : x.priv \in Privs  OBVIOUS
    <3>3. QED  BY <1>1, <3>1, <3>2 DEF TypeOK, CreateTable
  <2>3. InPlay \subseteq Grants  BY DEF TypeOK, InPlay
  <2>4. late' \subseteq Grants \X Tables  BY <1>1, <2>3 DEF TypeOK, CreateTable
  <2>5. tables' \subseteq Tables  BY <1>1 DEF TypeOK, CreateTable
  <2>6. QED
    BY <1>1, <2>1, <2>2, <2>4, <2>5 DEF TypeOK, CreateTable, ledger, call
<1>2. ASSUME NEW t \in Tables, DropTable(t) PROVE TypeOK'
  <2>1. changes' \in 0 .. MaxChanges
    BY <1>2, BoundsAssumption DEF TypeOK, DropTable, TablesMayChange
  <2>2. privs' \subseteq privs  BY <1>2 DEF DropTable
  <2>3. lapsed' \subseteq Grants  BY <1>2 DEF TypeOK, DropTable, InPlay
  <2>4. tables' \subseteq Tables  BY <1>2 DEF TypeOK, DropTable
  <2>5. QED  BY <1>2, <2>1, <2>2, <2>3, <2>4 DEF TypeOK, DropTable, ledger, call
<1>3. ASSUME NEW g \in Grants, BeginGrant(g) PROVE TypeOK'
  <2>1. StatementsOf(g) \in Seq(Statements)  BY StatementsAre
  <2>2. << >> \in Seq(Statements)  OBVIOUS
  <2>3. stmts' \in Seq(Statements)  BY <1>3, <2>1, <2>2 DEF BeginGrant
  <2>4. done' \subseteq Grants  BY <1>3 DEF TypeOK, BeginGrant, DoneAtOnce
  <2>5. todo' \subseteq Grants /\ lapsed' \subseteq Grants /\ late' \subseteq Grants \X Tables
    BY <1>3 DEF TypeOK, BeginGrant
  <2>6. QED  BY <1>3, <2>3, <2>4, <2>5 DEF TypeOK, BeginGrant, service, ledger
<1>4. ASSUME RunStatement PROVE TypeOK'
  <2>1. Head(stmts) \in Statements /\ Tail(stmts) \in Seq(Statements)
    BY <1>4, HeadAndTail DEF RunStatement
  <2>2. Head(stmts).for \in Grants  BY <2>1 DEF Statements
  <2>3. done' \subseteq Grants /\ refused' \subseteq Grants
    BY <1>4, <2>2 DEF TypeOK, RunStatement, DoneAfter
  <2>4. privs' \subseteq [priv : Privs, on : Scopes]
    <3>1. CASE Execute(Head(stmts))  BY <2>1, <3>1, ExecuteTypes
    <3>2. CASE UNCHANGED privs  BY <3>2 DEF TypeOK
    <3>3. QED  BY <1>4, <3>1, <3>2 DEF RunStatement
  <2>5. QED  BY <1>4, <2>1, <2>3, <2>4 DEF TypeOK, RunStatement, history
<1>5. ASSUME NEW g \in Grants, RejectGrant(g) PROVE TypeOK'
  <2>1. privs' \subseteq [priv : Privs, on : Scopes] /\ faults' \in 0 .. MaxFaults
    BY <1>5 DEF TypeOK, RejectGrant
  <2>2. QED  BY <1>5, <2>1, FailTypes DEF RejectGrant
<1>6. ASSUME NEW g \in Grants, LookupFails(g) PROVE TypeOK'
  <2>1. privs' \subseteq [priv : Privs, on : Scopes]
    BY <1>6 DEF TypeOK, LookupFails
  <2>2. faults' \in 0 .. MaxFaults  BY <1>6, InjectTypes DEF LookupFails
  <2>3. QED  BY <1>6, <2>1, <2>2, FailTypes DEF LookupFails
<1>7. ASSUME StatementFails PROVE TypeOK'
  <2>1. Head(stmts) \in Statements  BY <1>7, HeadAndTail DEF StatementFails
  <2>2. faults' \in 0 .. MaxFaults
    <3>1. CASE InjectFault  BY <3>1, InjectTypes
    <3>2. CASE UNCHANGED faults  BY <3>2 DEF TypeOK
    <3>3. QED  BY <1>7, <3>1, <3>2 DEF StatementFails
  <2>3. privs' \subseteq [priv : Privs, on : Scopes]
    <3>1. CASE Execute(Head(stmts))  BY <2>1, <3>1, ExecuteTypes
    <3>2. CASE UNCHANGED privs  BY <3>2 DEF TypeOK
    <3>3. QED  BY <1>7, <3>1, <3>2 DEF StatementFails
  <2>4. QED  BY <1>7, <2>2, <2>3, FailTypes DEF StatementFails
<1>8. ASSUME NEW request \in Requests, NEW all \in BOOLEAN, ApplyGrants(request, all)
      PROVE TypeOK'
  <2>1. request \subseteq Grants  BY RequestsAssumption
  <2>2. desired' \subseteq Grants /\ todo' \subseteq Grants  BY <1>8, <2>1 DEF ApplyGrants
  <2>3. QED  BY <1>8, <2>2 DEF TypeOK, ApplyGrants, service, ledger, history
<1>9. ASSUME CommitGrants PROVE TypeOK'
  <2>1. recorded' \subseteq Grants /\ pending' \subseteq Grants
    BY <1>9 DEF TypeOK, CommitGrants
  <2>2. QED  BY <1>9, <2>1 DEF TypeOK, CommitGrants, service, history
<1>10. ASSUME ReturnError PROVE TypeOK'
  BY <1>10 DEF TypeOK, ReturnError, service, ledger, history
<1>11. ASSUME RevokeGrants PROVE TypeOK'
  BY <1>11 DEF TypeOK, RevokeGrants, service, ledger, history
<1>12. ASSUME Regrant PROVE TypeOK'
  BY <1>12 DEF TypeOK, Regrant, service, ledger, history
<1>13. ASSUME FinishRevoke PROVE TypeOK'
  BY <1>13 DEF TypeOK, FinishRevoke, service, history
<1>14. ASSUME UNCHANGED vars PROVE TypeOK'
  BY <1>14 DEF TypeOK, vars, service, ledger, call, history
<1>15. QED
  BY <1>1, <1>2, <1>3, <1>4, <1>5, <1>6, <1>7, <1>8, <1>9, <1>10, <1>11, <1>12, <1>13,
     <1>14 DEF Next

\* Every variable keeps its type, the statements of a grant among them.
THEOREM SqlTypes == Spec => []TypeOK
<1>1. QED  BY InitTypes, TypeStep, PTL DEF Spec

-----------------------------------------------------------------------------
(* The bookkeeping of the calls                                             *)

LEMMA InitLedger == Init => InPass /\ Ledger
<1>1. Init => stmts = << >> /\ DOMAIN stmts = {} /\ todo = {} /\ phase = "idle"
  BY DEF Init
<1>2. Init => recorded = {} /\ pending = {} /\ desired = {}  BY DEF Init
<1>3. QED  BY <1>1, <1>2 DEF InPass, Ledger, PassGrants, Granting

\* What the bookkeeping says does not depend on the tables, the privileges or the
\* history.
LEMMA LedgerUnchanged ==
    ASSUME InPass, Ledger, UNCHANGED << provider, recorded, pending, suspect, call >>
    PROVE  InPass' /\ Ledger'
<1>1. UNCHANGED << provider, recorded, pending, suspect, phase, desired, todo, done, stmts >>
  BY DEF call
<1>2. PassGrants' = PassGrants /\ Granting' = Granting /\ SupportedTypes' = SupportedTypes
  BY <1>1 DEF PassGrants, Granting, SupportedTypes
<1>3. \A g, s : Fits(g, s)' = Fits(g, s)
  BY <1>1 DEF Fits, DataForm, CreateForm, UsageForm, Creates
<1>4. InPass'  BY <1>1, <1>2, <1>3 DEF InPass
<1>5. Ledger'  BY <1>1, <1>2 DEF Ledger
<1>6. QED  BY <1>4, <1>5

\* A failed call leaves nothing at work; the undo is over what is new.
LEMMA LedgerFails ==
    ASSUME TypeOK, InPass, Ledger, CallFails
    PROVE  InPass' /\ Ledger'
<1>1. /\ stmts' = << >> /\ DOMAIN stmts' = {} /\ done' = {} /\ suspect'
      /\ UNCHANGED << provider, recorded, pending >>
  BY DEF CallFails
<1>2. SupportedTypes' = SupportedTypes  BY <1>1 DEF SupportedTypes
<1>3. CASE phase = "grant"
  <2>1. phase' = "undo" /\ todo' = desired \ recorded /\ desired' = desired
    BY <1>3 DEF CallFails
  <2>2. pending' = {}  BY <1>1, <1>3 DEF Ledger
  <2>3. InPass'  BY <1>1, <2>1 DEF InPass, PassGrants
  <2>4. Ledger'  BY <1>1, <1>2, <2>1, <2>2 DEF Ledger
  <2>5. QED  BY <2>3, <2>4
<1>4. CASE phase # "grant"
  <2>1. phase' = "idle" /\ todo' = {} /\ desired' \in {desired, recorded}
    BY <1>4 DEF CallFails
  <2>2. InPass'  BY <1>1, <2>1 DEF InPass
  <2>3. Ledger'  BY <1>1, <1>2, <2>1 DEF Ledger
  <2>4. QED  BY <2>2, <2>3
<1>5. QED  BY <1>3, <1>4

LEMMA PassSupported ==
    ASSUME TypeOK, InPass, Ledger, NEW g \in todo
    PROVE  g \in Grants /\ g \in PassGrants /\ g.type \in SupportedTypes
<1>1. g \in Grants /\ g \in PassGrants  BY DEF TypeOK, InPass
<1>2. PassGrants \subseteq recorded \cup pending \cup desired
  BY DEF PassGrants, TypeOK
<1>3. QED  BY <1>1, <1>2 DEF Ledger

LEMMA LedgerBegins ==
    ASSUME TypeOK, InPass, Ledger, NEW g \in Grants, BeginGrant(g)
    PROVE  InPass' /\ Ledger'
<1>1. /\ UNCHANGED << provider, recorded, pending, suspect, phase, desired >>
      /\ todo' = todo \ {g} /\ g \in todo /\ ~Rejected(g) /\ done' \in {done, done \cup {g}}
      /\ stmts' \in {<< >>, StatementsOf(g)}
  BY DEF BeginGrant, service, ledger, DoneAtOnce
<1>2. g \in PassGrants /\ g.type \in SupportedTypes  BY <1>1, PassSupported
<1>3. PassGrants' = PassGrants /\ Granting' = Granting /\ SupportedTypes' = SupportedTypes
  BY <1>1 DEF PassGrants, Granting, SupportedTypes
<1>4. Granting => ~TableCreate(g)  BY <1>1 DEF Rejected, TableCreate
<1>5. \A i \in DOMAIN stmts' : stmts'[i].for = g /\ Fits(g, stmts'[i])
  <2>1. CASE stmts' = << >>
    <3>1. DOMAIN stmts' = {}  BY <2>1
    <3>2. QED  BY <3>1
  <2>2. CASE stmts' = StatementsOf(g)
    <3>1. \A i \in DOMAIN StatementsOf(g) : StatementsOf(g)[i] \in StatementSet(g)
      BY StatementAt
    <3>2. \A s \in StatementSet(g) : Fits(g, s)  BY <1>2, StatementForms
    <3>3. QED  BY <2>2, <3>1, <3>2 DEF Fits
  <2>3. QED  BY <1>1, <2>1, <2>2
<1>6. \A s : Fits(g, s)' = Fits(g, s)
  BY <1>1 DEF Fits, DataForm, CreateForm, UsageForm, Creates
<1>7. DOMAIN stmts' = {} \/ 1 \in DOMAIN stmts'
  <2>1. << >> \in Seq(Statements)  OBVIOUS
  <2>2. stmts' \in Seq(Statements)  BY <1>1, <2>1, StatementsAre
  <2>3. DOMAIN stmts' = 1 .. Len(stmts') /\ Len(stmts') \in Nat  BY <2>2
  <2>4. QED  BY <2>3
<1>8. InPass'
  <2>1. todo' \subseteq PassGrants'  BY <1>1, <1>3 DEF InPass
  <2>2. ASSUME NEW i \in DOMAIN stmts'
        PROVE  /\ stmts'[i].for \in PassGrants' /\ stmts'[i].for = stmts'[1].for
               /\ Fits(stmts[i].for, stmts[i])'
               /\ Granting' => ~TableCreate(stmts'[i].for)
    <3>1. 1 \in DOMAIN stmts'  BY <1>7, <2>2
    <3>2. stmts'[i].for = g /\ stmts'[1].for = g  BY <1>5, <3>1
    <3>3. Fits(stmts[i].for, stmts[i])'  BY <1>5, <1>6, <3>2
    <3>4. QED  BY <1>2, <1>3, <1>4, <3>2, <3>3
  <2>3. QED  BY <2>1, <2>2 DEF InPass, TableCreate
<1>9. Ledger'
  <2>1. phase = "grant" => done' \subseteq {h \in desired : ~TableCreate(h)}
    <3>1. ASSUME phase = "grant" PROVE g \in desired /\ ~TableCreate(g)
      BY <1>2, <1>4, <3>1 DEF PassGrants, Granting
    <3>2. QED  BY <1>1, <3>1 DEF Ledger
  <2>2. phase = "undo" => \A i \in DOMAIN stmts' : stmts'[i].for \notin recorded
    BY <1>1, <1>5 DEF Ledger
  <2>3. QED  BY <1>1, <1>3, <2>1, <2>2 DEF Ledger, TableCreate
<1>10. QED  BY <1>8, <1>9

\* The statement that runs, and the grant it is of.
LEMMA HeadFits ==
    ASSUME TypeOK, InPass, stmts # << >>, NEW s, s = Head(stmts)
    PROVE  /\ s \in Statements /\ s.for \in Grants /\ s.for \in PassGrants
           /\ Fits(s.for, s) /\ AtWork(s.for)
           /\ Granting => ~TableCreate(s.for)
           /\ \A i \in DOMAIN stmts : stmts[i].for = s.for
<1>1. s \in Statements /\ s = stmts[1] /\ 1 \in DOMAIN stmts  BY HeadAndTail
<1>2. s.for \in Grants  BY <1>1 DEF Statements
<1>3. QED  BY <1>1, <1>2 DEF InPass, AtWork

LEMMA LedgerRuns ==
    ASSUME TypeOK, InPass, Ledger, RunStatement
    PROVE  InPass' /\ Ledger'
<1> DEFINE s == Head(stmts)
<1>1. /\ UNCHANGED << provider, recorded, pending, suspect, phase, desired, todo >>
      /\ stmts # << >> /\ stmts' = Tail(stmts) /\ done' \in {done, done \cup {s.for}}
  BY DEF RunStatement, DoneAfter
<1>2. /\ s.for \in PassGrants /\ (Granting => ~TableCreate(s.for))
  BY <1>1, HeadFits
<1>3. PassGrants' = PassGrants /\ Granting' = Granting /\ SupportedTypes' = SupportedTypes
  BY <1>1 DEF PassGrants, Granting, SupportedTypes
<1>4. \A g, r : Fits(g, r)' = Fits(g, r)
  BY <1>1 DEF Fits, DataForm, CreateForm, UsageForm, Creates
<1>5. \A i \in DOMAIN stmts' : i + 1 \in DOMAIN stmts /\ stmts'[i] = stmts[i + 1]
  BY <1>1, HeadAndTail
<1>6. DOMAIN stmts' = {} \/ 1 \in DOMAIN stmts'
  <2>1. stmts' \in Seq(Statements)  BY <1>1, HeadAndTail
  <2>2. DOMAIN stmts' = 1 .. Len(stmts') /\ Len(stmts') \in Nat  BY <2>1
  <2>3. QED  BY <2>2
<1>7. InPass'
  <2>1. todo' \subseteq PassGrants'  BY <1>1, <1>3 DEF InPass
  <2>2. ASSUME NEW i \in DOMAIN stmts'
        PROVE  /\ stmts'[i].for \in PassGrants' /\ stmts'[i].for = stmts'[1].for
               /\ Fits(stmts[i].for, stmts[i])'
               /\ Granting' => ~TableCreate(stmts'[i].for)
    <3> DEFINE r == stmts[i + 1]
    <3>1. i + 1 \in DOMAIN stmts /\ stmts'[i] = r  BY <1>5
    <3>2. /\ r.for \in PassGrants /\ r.for = stmts[1].for /\ Fits(r.for, r)
          /\ Granting => ~TableCreate(r.for)
      BY <3>1 DEF InPass
    <3>3. stmts'[1].for = stmts[1].for
      <4>1. 1 \in DOMAIN stmts'  BY <1>6, <2>2
      <4>2. 1 + 1 \in DOMAIN stmts /\ stmts'[1] = stmts[1 + 1]  BY <1>5, <4>1
      <4>3. QED  BY <4>2 DEF InPass
    <3>4. Fits(stmts[i].for, stmts[i])'  BY <1>4, <3>1, <3>2
    <3>5. QED  BY <1>3, <3>1, <3>2, <3>3, <3>4
  <2>3. QED  BY <2>1, <2>2 DEF InPass, TableCreate
<1>8. Ledger'
  <2>1. phase = "grant" => done' \subseteq {h \in desired : ~TableCreate(h)}
    <3>1. ASSUME phase = "grant" PROVE s.for \in desired /\ ~TableCreate(s.for)
      BY <1>2, <3>1 DEF PassGrants, Granting
    <3>2. QED  BY <1>1, <3>1 DEF Ledger
  <2>2. phase = "undo" => \A i \in DOMAIN stmts' : stmts'[i].for \notin recorded
    BY <1>5 DEF Ledger
  <2>3. QED  BY <1>1, <1>3, <2>1, <2>2 DEF Ledger, TableCreate
<1>9. QED  BY <1>7, <1>8

LEMMA LedgerStep ==
    ASSUME TypeOK, InPass, Ledger, [Next]_vars
    PROVE  InPass' /\ Ledger'
<1>1. ASSUME NEW t \in Tables, CreateTable(t) \/ DropTable(t) PROVE InPass' /\ Ledger'
  <2>1. UNCHANGED << provider, recorded, pending, suspect, call >>
    BY <1>1 DEF CreateTable, DropTable, ledger
  <2>2. QED  BY <2>1, LedgerUnchanged
<1>2. ASSUME NEW g \in Grants, BeginGrant(g) PROVE InPass' /\ Ledger'
  BY <1>2, LedgerBegins
<1>3. ASSUME RunStatement PROVE InPass' /\ Ledger'
  BY <1>3, LedgerRuns
<1>4. ASSUME CallFails PROVE InPass' /\ Ledger'
  BY <1>4, LedgerFails
<1>5. ASSUME NEW request \in Requests, NEW all \in BOOLEAN, ApplyGrants(request, all)
      PROVE InPass' /\ Ledger'
  <2>1. /\ UNCHANGED << provider, recorded, pending, stmts >> /\ phase = "idle"
        /\ phase' = "grant" /\ desired' = request /\ todo' \subseteq request /\ done' = {}
        /\ pending = {} /\ \A g \in request : g.type \in SupportedTypes
    BY <1>5 DEF ApplyGrants, service, ledger
  <2>2. SupportedTypes' = SupportedTypes  BY <2>1 DEF SupportedTypes
  <2>3. DOMAIN stmts = {}  BY <2>1 DEF InPass, PassGrants
  <2>4. InPass'  BY <2>1, <2>3 DEF InPass, PassGrants
  <2>5. Ledger'  BY <2>1, <2>2 DEF Ledger
  <2>6. QED  BY <2>4, <2>5
<1>6. ASSUME CommitGrants PROVE InPass' /\ Ledger'
  <2>1. /\ UNCHANGED << provider, desired, todo, stmts >> /\ phase = "grant"
        /\ todo = {} /\ stmts = << >> /\ DOMAIN stmts = {}
        /\ phase' = "idle" /\ done' = {} /\ pending' = recorded \ desired
        /\ recorded' = (recorded \cap desired) \cup done
    BY <1>6 DEF CommitGrants, PassEnds, service
  <2>2. SupportedTypes' = SupportedTypes  BY <2>1 DEF SupportedTypes
  <2>3. InPass'  BY <2>1 DEF InPass
  <2>4. recorded' \cup pending' \cup desired' \subseteq recorded \cup desired
    BY <2>1 DEF Ledger
  <2>5. \A g \in recorded' \cup pending' : ~TableCreate(g)  BY <2>1 DEF Ledger
  <2>6. Ledger'  BY <2>1, <2>2, <2>4, <2>5 DEF Ledger, TableCreate
  <2>7. QED  BY <2>3, <2>6
<1>7. ASSUME ReturnError PROVE InPass' /\ Ledger'
  <2>1. /\ UNCHANGED << provider, recorded, pending, todo, stmts >>
        /\ todo = {} /\ stmts = << >> /\ DOMAIN stmts = {}
        /\ phase' = "idle" /\ desired' = recorded
    BY <1>7 DEF ReturnError, PassEnds, service, ledger
  <2>2. SupportedTypes' = SupportedTypes  BY <2>1 DEF SupportedTypes
  <2>3. QED  BY <2>1, <2>2 DEF InPass, Ledger, TableCreate
<1>8. ASSUME RevokeGrants PROVE InPass' /\ Ledger'
  <2>1. /\ UNCHANGED << provider, recorded, pending, desired, stmts >> /\ phase = "idle"
        /\ phase' = "revoke" /\ todo' = pending
    BY <1>8 DEF RevokeGrants, service, ledger
  <2>2. DOMAIN stmts = {}  BY <2>1 DEF InPass, PassGrants
  <2>3. SupportedTypes' = SupportedTypes  BY <2>1 DEF SupportedTypes
  <2>4. InPass'  BY <2>1, <2>2 DEF InPass, PassGrants
  <2>5. Ledger'  BY <2>1, <2>3 DEF Ledger, TableCreate
  <2>6. QED  BY <2>4, <2>5
<1>9. ASSUME Regrant PROVE InPass' /\ Ledger'
  <2>1. /\ UNCHANGED << provider, recorded, pending, desired, stmts >>
        /\ stmts = << >> /\ DOMAIN stmts = {}
        /\ phase' = "regrant" /\ todo' = recorded
    BY <1>9 DEF Regrant, PassEnds, service, ledger
  <2>2. SupportedTypes' = SupportedTypes  BY <2>1 DEF SupportedTypes
  <2>3. InPass'  BY <2>1 DEF InPass, PassGrants
  <2>4. Ledger'  BY <2>1, <2>2 DEF Ledger, TableCreate
  <2>5. QED  BY <2>3, <2>4
<1>10. ASSUME FinishRevoke PROVE InPass' /\ Ledger'
  <2>1. /\ UNCHANGED << provider, recorded, desired, todo, stmts >>
        /\ todo = {} /\ stmts = << >> /\ DOMAIN stmts = {}
        /\ phase' = "idle" /\ pending' = {}
    BY <1>10 DEF FinishRevoke, PassEnds, service
  <2>2. SupportedTypes' = SupportedTypes  BY <2>1 DEF SupportedTypes
  <2>3. InPass'  BY <2>1 DEF InPass
  <2>4. Ledger'  BY <2>1, <2>2 DEF Ledger, TableCreate
  <2>5. QED  BY <2>3, <2>4
<1>11. ASSUME UNCHANGED vars PROVE InPass' /\ Ledger'
  <2>1. UNCHANGED << provider, recorded, pending, suspect, call >>
    BY <1>11 DEF vars, service, ledger
  <2>2. QED  BY <2>1, LedgerUnchanged
<1>12. QED
  BY <1>1, <1>2, <1>3, <1>4, <1>5, <1>6, <1>7, <1>8, <1>9, <1>10, <1>11
  DEF Next, RejectGrant, LookupFails, StatementFails

-----------------------------------------------------------------------------
(* No privilege outlives its table                                          *)

LEMMA StatementOnTables ==
    ASSUME TypeOK, NEW s, ~Missing(s), NEW x \in PrivilegesOf(s), x.on \in Tables,
           provider # "clickhouse"
    PROVE  x.on \in tables
<1>1. x.on \in ScopesOf(s)  BY PrivilegeIs
<1>2. s.on = "current" \/ x.on = s.on  BY <1>1 DEF ScopesOf
<1>3. QED  BY <1>1, <1>2 DEF ScopesOf, Missing

\* What a step of the running call does to the privileges.
LEMMA PrivilegesStep ==
    ASSUME \/ \E g \in Grants : BeginGrant(g) \/ RejectGrant(g) \/ LookupFails(g)
           \/ \E request \in Requests, all \in BOOLEAN : ApplyGrants(request, all)
           \/ CommitGrants \/ ReturnError \/ RevokeGrants \/ Regrant \/ FinishRevoke \/ UNCHANGED vars
    PROVE  UNCHANGED << provider, tables, privs >>
BY DEF BeginGrant, RejectGrant, LookupFails, CallFails, ApplyGrants, CommitGrants, ReturnError,
       RevokeGrants, Regrant, FinishRevoke, vars, service

LEMMA StatementStep ==
    ASSUME RunStatement \/ StatementFails
    PROVE  /\ UNCHANGED << provider, tables >> /\ stmts # << >>
           /\ \/ UNCHANGED privs
              \/ /\ ~Missing(Head(stmts)) /\ ~CannotRevoke(Head(stmts))
                 /\ Execute(Head(stmts))
BY DEF RunStatement, StatementFails, CallFails

LEMMA OnTablesStep ==
    ASSUME TypeOK, OnTables, [Next]_vars
    PROVE  OnTables'
<1>1. ASSUME NEW t \in Tables, CreateTable(t) PROVE OnTables'
  <2>1. /\ provider' = provider /\ tables' = tables \cup {t}
        /\ \A x \in privs' : x \in privs \/ x.on = t
    BY <1>1 DEF CreateTable
  <2>2. QED  BY <2>1 DEF OnTables
<1>2. ASSUME NEW t \in Tables, DropTable(t) PROVE OnTables'
  <2>1. /\ provider' = provider /\ tables' = tables \ {t}
        /\ provider # "clickhouse" => \A x \in privs' : x \in privs /\ x.on # t
    BY <1>2 DEF DropTable
  <2>2. QED  BY <2>1 DEF OnTables
<1>3. ASSUME RunStatement \/ StatementFails PROVE OnTables'
  <2> DEFINE s == Head(stmts)
  <2>1. /\ UNCHANGED << provider, tables >>
        /\ \/ UNCHANGED privs
           \/ ~Missing(s) /\ Execute(s)
    BY <1>3, StatementStep
  <2> HIDE DEF s
  <2>2. \A x \in privs' : x \in privs \/ (~Missing(s) /\ x \in PrivilegesOf(s))
    BY <2>1 DEF Execute
  <2>3. QED  BY <2>1, <2>2, StatementOnTables DEF OnTables
<1>4. ASSUME UNCHANGED << provider, tables, privs >> PROVE OnTables'
  BY <1>4 DEF OnTables
<1>5. QED  BY <1>1, <1>2, <1>3, <1>4, PrivilegesStep DEF Next

LEMMA LedgerInvInit == Init => LedgerInv
<1>1. Init => OnTables  BY DEF Init, OnTables
<1>2. QED  BY <1>1, InitTypes, InitLedger DEF LedgerInv

LEMMA LedgerInvStep == LedgerInv /\ [Next]_vars => LedgerInv'
BY TypeStep, LedgerStep, OnTablesStep DEF LedgerInv

-----------------------------------------------------------------------------
(* Applied or waiting                                                       *)

LEMMA WaitingFails ==
    ASSUME TypeOK, Waiting, CallFails
    PROVE  Waiting'
<1>1. UNCHANGED << recorded, tables, late >>  BY DEF CallFails, history
<1>2. CASE phase = "grant"
  <2>1. phase' = "undo"  BY <1>2 DEF CallFails
  <2>2. QED  BY <2>1 DEF Waiting
<1>3. CASE phase = "undo"
  <2>1. desired' = recorded  BY <1>3 DEF CallFails
  <2>2. QED  BY <1>1, <2>1 DEF Waiting
<1>4. CASE phase \notin {"grant", "undo"}
  <2>1. desired' = desired  BY <1>4 DEF CallFails
  <2>2. QED  BY <1>1, <1>4, <2>1 DEF Waiting, Waits
<1>5. QED  BY <1>2, <1>3, <1>4

LEMMA WaitingStep ==
    ASSUME TypeOK, InPass, Waiting, [Next]_vars
    PROVE  Waiting'
<1>1. ASSUME NEW t \in Tables, CreateTable(t) PROVE Waiting'
  <2>1. UNCHANGED << provider, recorded, phase, desired, todo, done, stmts >>
    BY <1>1 DEF CreateTable, ledger, call
  <2>2. \A g \in desired \ recorded : Waits(g) => Waits(g)'
    <3> SUFFICES ASSUME NEW g \in desired \ recorded, Waits(g) PROVE Waits(g)'
      OBVIOUS
    <3>1. tables' = tables \cup {t} /\ late \subseteq late'  BY <1>1 DEF CreateTable
    <3>2. CASE g.target = t
      <4>1. g \in InPlay /\ Names(g, t)  BY <3>2 DEF InPlay, Names
      <4>2. << g, t >> \in late'  BY <1>1, <4>1 DEF CreateTable
      <4>3. QED  BY <3>2, <4>2 DEF Waits
    <3>3. CASE g.target # t  BY <3>1, <3>3 DEF Waits
    <3>4. QED  BY <3>2, <3>3
  <2>3. \A g : AtWork(g)' = AtWork(g)  BY <2>1 DEF AtWork
  <2>4. QED  BY <2>1, <2>2, <2>3 DEF Waiting
<1>2. ASSUME NEW t \in Tables, DropTable(t) PROVE Waiting'
  <2>1. UNCHANGED << provider, recorded, phase, desired, todo, done, stmts, late >>
    BY <1>2 DEF DropTable, ledger, call
  <2>2. \A g : Waits(g) => Waits(g)'  BY <1>2, <2>1 DEF DropTable, Waits
  <2>3. \A g : AtWork(g)' = AtWork(g)  BY <2>1 DEF AtWork
  <2>4. QED  BY <2>1, <2>2, <2>3 DEF Waiting
<1>3. ASSUME NEW h \in Grants, BeginGrant(h) PROVE Waiting'
  <2>1. /\ UNCHANGED << provider, tables, recorded, phase, desired >>
        /\ h \in todo /\ todo' = todo \ {h} /\ done' = DoneAtOnce(h) /\ stmts = << >>
        /\ stmts' = IF Deferred(h) THEN << >> ELSE StatementsOf(h)
        /\ late' = IF Granting THEN {x \in late : x[1] # h} ELSE late
    BY <1>3 DEF BeginGrant, service, ledger
  <2> SUFFICES ASSUME phase # "undo", NEW g \in desired \ recorded
               PROVE  \/ Waits(g)'
                      \/ phase = "grant" /\ (g \in todo' \cup done' \/ AtWork(g)')
    BY <2>1 DEF Waiting
  <2>2. \/ Waits(g)
        \/ phase = "grant" /\ g \in todo \cup done
    BY <2>1 DEF Waiting, AtWork
  <2>3. CASE g # h
    <3>1. Waits(g) => Waits(g)'  BY <2>1, <2>3 DEF Waits
    <3>2. done \subseteq done'  BY <2>1 DEF DoneAtOnce
    <3>3. QED  BY <2>1, <2>2, <2>3, <3>1, <3>2
  <2>4. CASE g = h /\ phase = "grant"
    <3>1. CASE Deferred(h)
      <4>1. h.target \in Tables \ tables
        <5>1. h.target \in Tables \cup {All}  BY GrantIs
        <5>2. QED  BY <3>1, <5>1 DEF Deferred
      <4>2. QED  BY <2>1, <2>4, <4>1 DEF Waits
    <3>2. CASE ~Deferred(h) /\ StatementsOf(h) = << >>
      <4>1. h \in done'  BY <2>1, <3>2 DEF DoneAtOnce
      <4>2. QED  BY <2>4, <4>1
    <3>3. CASE ~Deferred(h) /\ StatementsOf(h) # << >>
      <4> DEFINE q == StatementsOf(h)
      <4>1. q \in Seq(Statements) /\ q # << >> /\ stmts' = q
        BY <2>1, <3>3, StatementsAre
      <4>2. 1 \in DOMAIN q /\ Head(q) = q[1]  BY <4>1
      <4>3. q[1] \in StatementSet(h)  BY <4>2, StatementAt
      <4>4. q[1].for = h
        BY <4>3, ProviderIs DEF StatementSet, Stmt
      <4>5. AtWork(h)'  BY <4>1, <4>2, <4>4 DEF AtWork
      <4>6. QED  BY <2>4, <4>5
    <3>4. QED  BY <3>1, <3>2, <3>3
  <2>5. CASE g = h /\ phase # "grant"
    <3>1. phase = "regrant" => h \in recorded
      BY <2>1 DEF InPass, PassGrants
    <3>2. ~Granting  BY <2>5, <3>1 DEF Granting
    <3>3. QED  BY <2>1, <2>2, <2>5, <3>2 DEF Waits
  <2>6. QED  BY <2>3, <2>4, <2>5
<1>4. ASSUME RunStatement PROVE Waiting'
  <2> PICK s : s = Head(stmts)
    OBVIOUS
  <2>1. /\ UNCHANGED << provider, tables, recorded, phase, desired, todo, late >>
        /\ stmts # << >> /\ stmts' = Tail(stmts) /\ done' = DoneAfter(s)
    BY <1>4 DEF RunStatement, history
  <2>2. /\ s.for \in Grants /\ Fits(s.for, s)
        /\ Len(stmts) > 1 => AtWork(s.for)'
    <3>1. s.for \in Grants /\ Fits(s.for, s)  BY <2>1, HeadFits
    <3>2. ASSUME Len(stmts) > 1 PROVE AtWork(s.for)'
      <4>1. Tail(stmts) # << >> /\ Tail(stmts) \in Seq(Statements) /\ s = stmts[1]
        BY <2>1, <3>2, HeadAndTail
      <4>2. 1 \in DOMAIN Tail(stmts) /\ Head(Tail(stmts)) = Tail(stmts)[1]  BY <4>1
      <4>3. 2 \in DOMAIN stmts /\ Tail(stmts)[1] = stmts[2]  BY <2>1, <4>2, HeadAndTail
      <4>4. stmts[2].for = stmts[1].for  BY <4>3 DEF InPass
      <4>5. QED  BY <2>1, <4>1, <4>2, <4>3, <4>4 DEF AtWork
    <3>3. QED  BY <3>1, <3>2
  <2> SUFFICES ASSUME phase # "undo", NEW g \in desired \ recorded
               PROVE  \/ Waits(g)'
                      \/ phase = "grant" /\ (g \in todo' \cup done' \/ AtWork(g)')
    BY <2>1 DEF Waiting
  <2>3. Waits(g) => Waits(g)'  BY <2>1 DEF Waits
  <2>4. AtWork(g) => g = s.for  BY DEF AtWork
  <2>5. done \subseteq done'  BY <2>1 DEF DoneAfter
  <2>6. ASSUME phase = "grant", g = s.for
        PROVE  g \in done' \/ AtWork(g)' \/ Waits(g)'
    <3>1. CASE Len(stmts) > 1  BY <2>2, <2>6, <3>1
    <3>2. CASE ~(Len(stmts) > 1) /\ s.for.target # All /\ Tolerated(s)
      <4>1. provider = "oracle" /\ Missing(s)
        BY <2>6, <3>2 DEF Tolerated, CannotRevoke, Granting
      <4>2. s.on = g.target  BY <2>2, <2>6, <3>2, <4>1, OracleFits
      <4>3. g.target \in Tables \ tables  BY <4>1, <4>2 DEF Missing
      <4>4. QED  BY <2>1, <4>3 DEF Waits
    <3>3. CASE ~(Len(stmts) > 1) /\ ~(s.for.target # All /\ Tolerated(s))
      BY <2>1, <2>6, <3>3 DEF DoneAfter
    <3>4. QED  BY <3>1, <3>2, <3>3
  <2>7. QED  BY <2>1, <2>3, <2>4, <2>5, <2>6 DEF Waiting
<1>5. ASSUME CallFails PROVE Waiting'
  BY <1>5, WaitingFails
<1>6. ASSUME NEW request \in Requests, NEW all \in BOOLEAN, ApplyGrants(request, all)
      PROVE Waiting'
  <2>1. /\ UNCHANGED recorded /\ phase' = "grant" /\ desired' = request
        /\ request \ recorded \subseteq todo'
    BY <1>6 DEF ApplyGrants, ledger
  <2>2. QED  BY <2>1 DEF Waiting
<1>7. ASSUME CommitGrants PROVE Waiting'
  <2>1. /\ UNCHANGED << tables, desired, late >> /\ phase = "grant" /\ phase' = "idle"
        /\ todo = {} /\ stmts = << >> /\ recorded' = (recorded \cap desired) \cup done
    BY <1>7 DEF CommitGrants, PassEnds, service, history
  <2>2. \A g \in desired \ recorded' : g \in desired \ recorded /\ Waits(g)
    BY <2>1 DEF Waiting, AtWork
  <2>3. QED  BY <2>1, <2>2 DEF Waiting, Waits
<1>8. ASSUME ReturnError PROVE Waiting'
  <2>1. UNCHANGED recorded /\ desired' = recorded  BY <1>8 DEF ReturnError, ledger
  <2>2. QED  BY <2>1 DEF Waiting
<1>9. ASSUME UNCHANGED << tables, recorded, desired, late >>, phase \notin {"grant", "undo"},
             phase' # "undo"
      PROVE  Waiting'
  BY <1>9 DEF Waiting, Waits
<1>10. ASSUME RevokeGrants \/ Regrant \/ FinishRevoke PROVE Waiting'
  BY <1>9, <1>10 DEF RevokeGrants, Regrant, FinishRevoke, PassEnds, service, ledger, history
<1>11. ASSUME UNCHANGED vars PROVE Waiting'
  <2>1. UNCHANGED << tables, recorded, phase, desired, todo, done, stmts, late >>
    BY <1>11 DEF vars, service, ledger, call, history
  <2>2. QED  BY <2>1 DEF Waiting, Waits, AtWork
<1>12. QED
  BY <1>1, <1>2, <1>3, <1>4, <1>5, <1>6, <1>7, <1>8, <1>10, <1>11
  DEF Next, RejectGrant, LookupFails, StatementFails

\* After a successful update every desired grant is on record or its table is not there,
\* or came after the grant looked for it (the deferral of applyPerms): no grant is lost
\* by a tolerated error or by the order of the statements.
THEOREM AppliedOrWaitingForTable == Spec => []AppliedOrWaiting
<1>1. Init => Waiting  BY DEF Init, Waiting
<1>2. LedgerInv /\ Waiting /\ [Next]_vars => (LedgerInv /\ Waiting)'
  BY LedgerInvStep, WaitingStep DEF LedgerInv
<1>3. Waiting => AppliedOrWaiting
  BY DEF Waiting, AppliedOrWaiting, Waits
<1>4. QED  BY <1>1, <1>2, <1>3, LedgerInvInit, PTL DEF Spec

-----------------------------------------------------------------------------
(* No excess                                                                *)

\* On Snowflake "ALL TABLES" is whatever there is when the statement runs, so that a
\* REVOKE misses what its GRANT gave on a table that came or went in between: there the
\* tables have to stay as they are while a call runs.
StableOnSnowflake == "snowflake" \notin ChangingMidCall

LEMMA FootprintIsFixed ==
    ASSUME provider' = provider
    PROVE  \A g, x : x \in Footprint(g)' <=> x \in Footprint(g)
BY DEF Footprint, Covered, CreateScopes, Creates

\* The tables matter to a statement only on Snowflake.
LEMMA ScopesAreFixed ==
    ASSUME TypeOK, provider' = provider, NEW g \in Grants, NEW s, Fits(g, s),
           provider # "snowflake" \/ tables' = tables
    PROVE  \A x : x \in PrivilegesOf(s)' <=> x \in PrivilegesOf(s)
<1>1. CASE tables' = tables  BY <1>1 DEF PrivilegesOf, ScopesOf
<1>2. CASE provider # "snowflake"
  <2>1. s.on # "current"
    <3>1. g.target # "current"  BY GrantIs, TablesAssumption DEF All
    <3>2. DataForm(g, s) => s.on # "current"
      <4>1. CASE provider \in {"clickhouse", "databricks", "sqlserver"}
        BY <3>1, <4>1 DEF DataForm
      <4>2. CASE provider = "oracle"  BY <4>2, TablesAssumption DEF DataForm
      <4>3. QED  BY <1>2, <4>1, <4>2, ProviderIs
    <3>3. CreateForm(g, s) => s.on # "current"  BY DEF CreateForm, All
    <3>4. ~UsageForm(g, s)  BY <1>2 DEF UsageForm
    <3>5. QED  BY <3>2, <3>3, <3>4 DEF Fits
  <2>2. QED  BY <2>1 DEF PrivilegesOf, ScopesOf
<1>3. QED  BY <1>1, <1>2

LEMMA StableMidCall ==
    ASSUME StableOnSnowflake, TypeOK, TablesMayChange, phase # "idle"
    PROVE  provider # "snowflake"
BY DEF StableOnSnowflake, TablesMayChange

\* A privilege that is held is in the footprint of a grant on record, leaked, refused,
\* of the pass, or pending.
LEMMA HeldIsOwed ==
    ASSUME LedgerInv, AccountedFor, NEW x \in privs, x.priv \in Powers
    PROVE  \E g \in recorded \cup leaked \cup refused \cup PassGrants
                      \cup (IF phase = "idle" THEN pending ELSE {}) :
              g \in Grants /\ x \in Footprint(g)
<1>1. CASE \E g \in Sources : x \in Footprint(g)
  <2>1. PICK g \in Sources : x \in Footprint(g)  BY <1>1
  <2>2. Sources \subseteq recorded \cup leaked \cup refused \cup PassGrants
                      \cup (IF phase = "idle" THEN pending ELSE {})
    <3>1. \A h : AtWork(h) => h \in PassGrants
      BY HeadFits DEF AtWork, LedgerInv
    <3>2. phase = "grant" => done \subseteq PassGrants
      BY DEF LedgerInv, Ledger, PassGrants
    <3>3. phase \in {"idle", "grant", "undo", "revoke", "regrant"} /\ todo \subseteq PassGrants
      BY DEF LedgerInv, InPass, TypeOK
    <3>4. CASE phase = "idle"  BY <3>4 DEF Sources
    <3>5. CASE phase = "grant"  BY <3>1, <3>2, <3>5 DEF Sources
    <3>6. CASE phase \in {"undo", "revoke"}  BY <3>3, <3>6 DEF Sources
    <3>7. CASE phase = "regrant"  BY <3>7 DEF Sources
    <3>8. QED  BY <3>3, <3>4, <3>5, <3>6, <3>7
  <2>3. g \in Grants
    BY <2>1, <2>2 DEF LedgerInv, TypeOK, PassGrants
  <2>4. QED  BY <2>1, <2>2, <2>3
<1>2. CASE \E i \in DOMAIN stmts : x \in Footprint(stmts[i].for)
  <2>1. PICK i \in DOMAIN stmts : x \in Footprint(stmts[i].for)  BY <1>2
  <2>2. stmts[i].for \in PassGrants  BY <2>1 DEF LedgerInv, InPass
  <2>3. stmts[i].for \in Grants  BY <2>2 DEF LedgerInv, TypeOK, PassGrants
  <2>4. QED  BY <2>1, <2>2, <2>3
<1>3. QED  BY <1>1, <1>2 DEF AccountedFor, Accounted

LEMMA NoneExceeds ==
    ASSUME LedgerInv, AccountedFor
    PROVE  NoExcess
<1>1. \A x \in privs : x.priv \in Powers =>
         \E g \in Owed \cup refused : g \in Grants /\ x \in Footprint(g)
  <2>1. recorded \cup leaked \cup refused \cup PassGrants
           \cup (IF phase = "idle" THEN pending ELSE {}) \subseteq Owed \cup refused
    BY DEF LedgerInv, TypeOK, PassGrants, Owed
  <2>2. QED  BY <2>1, HeldIsOwed
<1>2. tables \subseteq Tables /\ Tables \cap {All, "database", "future"} = {}
  BY TablesAssumption DEF LedgerInv, TypeOK
<1>3. provider \in {"clickhouse", "databricks", "sqlserver", "oracle", "snowflake"}
  BY ProviderIs DEF LedgerInv
<1>4. ASSUME NEW p \in {"select", "write"}, NEW t \in Tables, MayUse(p, t)
      PROVE  << p, t >> \in PromiseOf(Owed \cup refused)
  <2>1. PICK on \in {t, All} : Holds(p, on) /\ (on = All => provider \in {"databricks", "sqlserver"})
    BY <1>2, <1>4 DEF MayUse
  <2> DEFINE x == [priv |-> p, on |-> on]
  <2>2. x \in privs /\ x.priv = p /\ x.on = on  BY <2>1 DEF Holds
  <2> HIDE DEF x
  <2>3. PICK g \in Owed \cup refused : g \in Grants /\ x \in Footprint(g)
    BY <1>1, <2>2 DEF Powers
  <2>4. g.type # "create" /\ p \in DataPrivs(g) /\ on \in Covered(g)
    BY <2>2, <2>3 DEF Footprint
  <2>5. g.target = t \/ g.target = All
    BY <1>2, <2>4 DEF Covered
  <2>6. t \in tables  BY <1>4 DEF MayUse
  <2>7. << p, t >> \in Promise(g)
    BY <1>2, <2>4, <2>5, <2>6 DEF Promise
  <2>8. QED  BY <2>3, <2>7 DEF PromiseOf
<1>5. ASSUME MayCreate
      PROVE  << "create", All >> \in PromiseOf(Owed \cup refused)
  <2>1. PICK on : Holds("create", on)  BY <1>5 DEF MayCreate
  <2> DEFINE x == [priv |-> "create", on |-> on]
  <2>2. x \in privs /\ x.priv = "create"  BY <2>1 DEF Holds
  <2> HIDE DEF x
  <2>3. PICK g \in Owed \cup refused : g \in Grants /\ x \in Footprint(g)
    BY <1>1, <2>2 DEF Powers
  <2>4. "create" \notin DataPrivs(g)  BY DEF DataPrivs
  <2>5. Creates(g)  BY <2>2, <2>3, <2>4 DEF Footprint
  <2>6. << "create", All >> \in Promise(g)  BY <2>5 DEF Promise, Creates
  <2>7. QED  BY <2>3, <2>6 DEF PromiseOf
<1>6. QED  BY <1>4, <1>5 DEF NoExcess, Access

\* A table that comes or goes.
LEMMA AccountedTables ==
    ASSUME StableOnSnowflake, LedgerInv, AccountedFor,
           NEW t \in Tables, CreateTable(t) \/ DropTable(t)
    PROVE  AccountedFor'
<1>1. /\ UNCHANGED << provider, recorded, pending, leaked, refused, phase, todo, done, stmts >>
      /\ TablesMayChange
  BY DEF CreateTable, DropTable, ledger, call
<1>2. Sources' = Sources  BY <1>1 DEF Sources, AtWork
<1>3. phase # "idle" => provider # "snowflake"
  BY <1>1, StableMidCall DEF LedgerInv
<1>4. \A g, x : x \in Footprint(g)' <=> x \in Footprint(g)  BY <1>1, FootprintIsFixed
<1>5. ASSUME NEW x, Accounted(x) PROVE Accounted(x)'
  <2>1. CASE \E g \in Sources : x \in Footprint(g)
    BY <1>2, <1>4, <2>1 DEF Accounted
  <2>2. CASE /\ phase \in {"undo", "revoke"}
             /\ \E i \in DOMAIN stmts :
                   x \in PrivilegesOf(stmts[i]) /\ x \in Footprint(stmts[i].for)
    <3>1. PICK i \in DOMAIN stmts :
                   x \in PrivilegesOf(stmts[i]) /\ x \in Footprint(stmts[i].for)
      BY <2>2
    <3> PICK s : s = stmts[i]
      OBVIOUS
    <3>2. s.for \in Grants /\ Fits(s.for, s)
      <4>1. s.for \in PassGrants /\ Fits(s.for, s)  BY <3>1 DEF LedgerInv, InPass
      <4>2. QED  BY <4>1 DEF PassGrants, LedgerInv, TypeOK
    <3>3. provider # "snowflake"  BY <1>3, <2>2
    <3>4. x \in PrivilegesOf(s)'
      BY <1>1, <3>1, <3>2, <3>3, ScopesAreFixed DEF LedgerInv
    <3>5. x \in Footprint(s.for)'  BY <1>4, <3>1
    <3>6. s = stmts'[i] /\ i \in DOMAIN stmts' /\ phase' \in {"undo", "revoke"}
      BY <1>1, <2>2
    <3>7. QED  BY <3>4, <3>5, <3>6 DEF Accounted
  <2>3. QED  BY <1>5, <2>1, <2>2 DEF Accounted
<1>6. ASSUME NEW y \in privs, y.on = "future", y.priv \in Powers, CreateTable(t),
             NEW x, x = [priv |-> y.priv, on |-> t]
      PROVE  Accounted(x)'
  <2>1. PICK g \in Grants : y \in Footprint(g) /\ (phase = "idle" => g \in Sources)
    <3>1. phase = "idle" => PassGrants = {}  BY DEF PassGrants
    <3>2. phase = "idle" => Sources = recorded \cup leaked \cup refused \cup pending
      BY DEF Sources
    <3>3. QED  BY <1>6, <3>1, <3>2, HeldIsOwed
  <2>2. "future" \notin Tables /\ t \in Scopes  BY TablesAssumption DEF Scopes
  <2>3. y.priv \in Powers /\ y.on \notin CreateScopes
    BY <1>6, <2>2, ProviderIs DEF CreateScopes, All, LedgerInv
  <2>4. g.type # "create" /\ y.priv \in DataPrivs(g) /\ "future" \in Covered(g)
    BY <1>6, <2>1, <2>3 DEF Footprint
  <2>5. CASE g.target # All
    <3>1. g.target = "future"  BY <2>4, <2>5 DEF Covered
    <3>2. QED  BY <2>2, <3>1, GrantIs DEF All
  <2>6. CASE g.target = All
    <3>1. provider = "snowflake"
      BY <2>2, <2>4, <2>6, ProviderIs DEF Covered, All, LedgerInv
    <3>2. phase = "idle" /\ g \in Sources  BY <1>3, <2>1, <3>1
    <3>3. t \in Covered(g)  BY <2>6, <3>1 DEF Covered
    <3>4. x \in Footprint(g)  BY <1>6, <2>2, <2>3, <2>4, <3>3 DEF Footprint
    <3>5. Accounted(x)  BY <3>2, <3>4 DEF Accounted
    <3>6. QED  BY <1>5, <3>5
  <2>7. QED  BY <2>5, <2>6
<1>7. \A x \in privs' : \/ x \in privs
                        \/ /\ CreateTable(t)
                           /\ \E y \in privs : y.on = "future" /\ x = [priv |-> y.priv, on |-> t]
  <2>1. CASE CreateTable(t)  BY <2>1 DEF CreateTable
  <2>2. CASE DropTable(t)  BY <2>2 DEF DropTable
  <2>3. QED  BY <2>1, <2>2
<1>8. QED  BY <1>5, <1>6, <1>7 DEF AccountedFor, Powers

\* The pass comes to a grant.
LEMMA AccountedBegins ==
    ASSUME LedgerInv, AccountedFor, NEW g \in Grants, BeginGrant(g)
    PROVE  AccountedFor'
<1>1. /\ UNCHANGED << provider, tables, privs, recorded, pending, leaked, refused, phase, desired >>
      /\ stmts = << >> /\ DOMAIN stmts = {} /\ phase # "idle"
      /\ g \in todo /\ todo' = todo \ {g} /\ done \subseteq done'
      /\ stmts' = IF Deferred(g) THEN << >> ELSE StatementsOf(g)
  BY DEF BeginGrant, service, ledger, DoneAtOnce, Busy
<1>2. \A h, x : x \in Footprint(h)' <=> x \in Footprint(h)  BY <1>1, FootprintIsFixed
<1>3. \A s, x : x \in PrivilegesOf(s)' <=> x \in PrivilegesOf(s)
  BY <1>1 DEF PrivilegesOf, ScopesOf
<1>4. SUFFICES ASSUME NEW x \in privs, x.priv \in Powers PROVE Accounted(x)'
  BY <1>1 DEF AccountedFor
<1>5. PICK h \in Sources : x \in Footprint(h)
  BY <1>1, <1>4 DEF AccountedFor, Accounted
<1>6. CASE phase \notin {"undo", "revoke"} \/ h # g
  <2>1. \A k : ~AtWork(k)  BY <1>1 DEF AtWork
  <2>2. phase \in {"grant", "undo", "revoke", "regrant"}
    BY <1>1 DEF LedgerInv, TypeOK
  <2>3. h \in Sources'
    <3>1. CASE phase = "grant"  BY <1>1, <1>5, <2>1, <3>1 DEF Sources
    <3>2. CASE phase \in {"undo", "revoke"}  BY <1>1, <1>5, <1>6, <3>2 DEF Sources
    <3>3. CASE phase = "regrant"  BY <1>1, <1>5, <3>3 DEF Sources
    <3>4. QED  BY <2>2, <3>1, <3>2, <3>3
  <2>4. QED  BY <1>2, <1>5, <2>3 DEF Accounted
<1>7. CASE phase \in {"undo", "revoke"} /\ h = g
  <2>1. TypeOK /\ OnTables /\ InPass /\ Ledger  BY DEF LedgerInv
  <2>2. g.type \in SupportedTypes  BY <1>1, <2>1, PassSupported
  <2>3. ~Deferred(g)
    <3> SUFFICES ASSUME Deferred(g) PROVE FALSE
      OBVIOUS
    <3>1. /\ provider # "clickhouse" /\ g.target # All /\ g.target \notin tables
      BY <1>7 DEF Deferred, LooksUp, Granting
    <3>2. x.on = g.target
      BY <1>5, <1>7, <3>1 DEF Footprint, Covered, Creates
    <3>3. g.target \in Tables  BY <3>1, GrantIs
    <3>4. QED  BY <1>4, <2>1, <3>1, <3>2, <3>3 DEF OnTables
  <2>4. x \in Needs(g)
    BY <1>4, <1>5, <1>7, <2>1, FootprintNeeded DEF OnTables
  <2>5. PICK s \in StatementSet(g) : x \in PrivilegesOf(s)
    BY <2>1, <2>2, <2>4, NeedsCovered
  <2>6. s.for = g  BY <2>1, <2>2, StatementForms DEF Fits
  <2>7. PICK i \in DOMAIN StatementsOf(g) : StatementsOf(g)[i] = s  BY <2>1, StatementAt
  <2>8. stmts' = StatementsOf(g)  BY <1>1, <2>3
  <2>9. i \in DOMAIN stmts' /\ stmts'[i] = s  BY <2>7, <2>8
  <2>10. x \in PrivilegesOf(s)' /\ x \in Footprint(s.for)'
    BY <1>2, <1>3, <1>5, <1>7, <2>5, <2>6
  <2>11. QED  BY <1>1, <1>7, <2>9, <2>10 DEF Accounted
<1>8. QED  BY <1>6, <1>7

\* What a statement that runs in a grant or a regrant gives is its grant's.
LEMMA GivenIsCovered ==
    ASSUME LedgerInv, stmts # << >>, NEW s, s = Head(stmts), Granting,
           NEW x \in PrivilegesOf(s), x.priv \in Powers
    PROVE  s.for \in PassGrants /\ x \in Footprint(s.for)
BY HeadFits, StatementFootprint DEF LedgerInv

LEMMA AccountedRuns ==
    ASSUME LedgerInv, AccountedFor, RunStatement
    PROVE  AccountedFor'
<1> PICK s : s = Head(stmts)
  OBVIOUS
<1>1. /\ UNCHANGED << provider, tables, recorded, pending, leaked, phase, desired, todo >>
      /\ stmts # << >> /\ stmts' = Tail(stmts) /\ phase # "idle"
      /\ \/ ~Missing(s) /\ ~CannotRevoke(s) /\ Execute(s)
         \/ Tolerated(s) /\ UNCHANGED privs
      /\ done' = DoneAfter(s)
      /\ refused' = IF CannotRevoke(s) /\ PrivilegesOf(s) \cap privs # {}
                    THEN refused \cup {s.for} ELSE refused
  BY DEF RunStatement, Busy
<1>2. \A h, x : x \in Footprint(h)' <=> x \in Footprint(h)  BY <1>1, FootprintIsFixed
<1>3. \A r, x : x \in PrivilegesOf(r)' <=> x \in PrivilegesOf(r)
  BY <1>1 DEF PrivilegesOf, ScopesOf
<1>4. /\ TypeOK /\ InPass /\ Ledger /\ OnTables
      /\ s.for \in Grants /\ Fits(s.for, s) /\ s.for \in PassGrants
  BY <1>1, HeadFits DEF LedgerInv
<1>5. Missing(s) /\ Tolerated(s) => \A x \in PrivilegesOf(s) : x \notin privs
  <2>1. Tolerated(s) => provider = "oracle"  BY DEF Tolerated
  <2>2. ASSUME Missing(s), provider = "oracle", NEW x \in PrivilegesOf(s)
        PROVE  x \notin privs
    <3>1. x.on \in ScopesOf(s)  BY PrivilegeIs
    <3>2. s.on \in Tables /\ s.on \notin tables  BY <2>2 DEF Missing
    <3>3. s.on # "current"  BY <3>2, TablesAssumption
    <3>4. x.on = s.on  BY <2>2, <3>1, <3>3 DEF ScopesOf
    <3>5. QED  BY <1>4, <2>2, <3>2, <3>4 DEF OnTables
  <2>3. QED  BY <2>1, <2>2
<1>6. CASE Granting
  <2>1. phase \in {"grant", "regrant"}  BY <1>6 DEF Granting
  <2>2. ASSUME phase = "grant", ~(s.for.target # All /\ Tolerated(s))
        PROVE  s.for \in Sources'
    <3>1. CASE Len(stmts) > 1
      <4>1. Tail(stmts) # << >> /\ Tail(stmts) \in Seq(Statements) /\ s = stmts[1]
        BY <1>1, <1>4, <3>1, HeadAndTail
      <4>2. 1 \in DOMAIN Tail(stmts) /\ Head(Tail(stmts)) = Tail(stmts)[1]  BY <4>1
      <4>3. 2 \in DOMAIN stmts /\ Tail(stmts)[1] = stmts[2]  BY <1>1, <1>4, <4>2, HeadAndTail
      <4>4. stmts[2].for = s.for  BY <1>1, <1>4, <4>3, HeadFits
      <4>5. AtWork(s.for)'  BY <1>1, <4>1, <4>2, <4>3, <4>4 DEF AtWork
      <4>6. QED  BY <1>1, <1>4, <2>2, <4>5 DEF Sources
    <3>2. CASE ~(Len(stmts) > 1)
      <4>1. s.for \in done'  BY <1>1, <2>2, <3>2 DEF DoneAfter
      <4>2. QED  BY <1>1, <2>2, <4>1 DEF Sources
    <3>3. QED  BY <3>1, <3>2
  <2>3. ASSUME NEW h \in Sources, h # s.for PROVE h \in Sources'
    <3>1. \A k : AtWork(k) => k = s.for  BY DEF AtWork
    <3>2. done \subseteq done' /\ refused \subseteq refused'  BY <1>1 DEF DoneAfter
    <3>3. CASE phase = "grant"  BY <1>1, <2>3, <3>1, <3>2, <3>3 DEF Sources
    <3>4. CASE phase = "regrant"  BY <1>1, <2>3, <3>2, <3>4 DEF Sources
    <3>5. QED  BY <2>1, <3>3, <3>4
  <2>4. phase = "regrant" => s.for \in Sources'
    <3>1. phase = "regrant" => s.for \in recorded  BY <1>4 DEF PassGrants
    <3>2. QED  BY <1>1, <3>1 DEF Sources
  <2>5. ASSUME NEW x \in privs, NEW h \in Sources, x \in Footprint(h)
        PROVE  h \in Sources'
    <3>1. CASE phase = "grant" /\ h = s.for /\ s.for.target # All /\ Tolerated(s)
      <4>1. Missing(s) /\ provider = "oracle"
        BY <1>6, <3>1 DEF Tolerated, CannotRevoke
      <4>2. s.on = h.target  BY <1>4, <3>1, <4>1, OracleFits
      <4>3. x.on = h.target  BY <2>5, <3>1 DEF Footprint, Covered, Creates
      <4>4. QED  BY <1>4, <2>5, <4>1, <4>2, <4>3 DEF OnTables, Missing
    <3>2. QED  BY <2>1, <2>2, <2>3, <2>4, <3>1
  <2>6. ASSUME NEW x \in PrivilegesOf(s), x.priv \in Powers, x \notin privs, x \in privs'
        PROVE  s.for \in Sources' /\ x \in Footprint(s.for)
    <3>1. ~Tolerated(s)
      BY <1>1, <2>6 DEF Tolerated
    <3>2. x \in Footprint(s.for)  BY <1>1, <1>6, <2>6, GivenIsCovered
    <3>3. QED  BY <2>1, <2>2, <2>4, <3>1, <3>2
  <2>7. ASSUME NEW x \in privs', x.priv \in Powers PROVE Accounted(x)'
    <3>1. CASE x \in privs
      <4>1. PICK h \in Sources : x \in Footprint(h)
        BY <2>1, <2>7, <3>1 DEF AccountedFor, Accounted
      <4>2. QED  BY <1>2, <2>5, <3>1, <4>1 DEF Accounted
    <3>2. CASE x \notin privs
      <4>1. x \in PrivilegesOf(s)  BY <1>1, <1>6, <2>7, <3>2 DEF Execute
      <4>2. QED  BY <1>2, <2>6, <2>7, <3>2, <4>1 DEF Accounted
    <3>3. QED  BY <3>1, <3>2
  <2>8. QED  BY <2>7 DEF AccountedFor
<1>7. CASE ~Granting
  <2>1. phase \in {"undo", "revoke"}
    BY <1>1, <1>4, <1>7 DEF Granting, TypeOK
  <2>2. Sources \subseteq Sources' /\ refused' \subseteq Sources'
    BY <1>1, <2>1 DEF Sources
  <2>3. privs' \subseteq privs  BY <1>1, <1>7 DEF Execute
  <2>4. ASSUME NEW x \in privs', x.priv \in Powers PROVE Accounted(x)'
    <3>1. Accounted(x)  BY <2>3, <2>4 DEF AccountedFor
    <3>2. CASE \E h \in Sources : x \in Footprint(h)
      BY <1>2, <2>2, <3>2 DEF Accounted
    <3>3. CASE \E i \in DOMAIN stmts :
                  x \in PrivilegesOf(stmts[i]) /\ x \in Footprint(stmts[i].for)
      <4>1. PICK i \in DOMAIN stmts :
                  x \in PrivilegesOf(stmts[i]) /\ x \in Footprint(stmts[i].for)
        BY <3>3
      <4>2. CASE i = 1
        <5>1. stmts[i] = s  BY <1>1, <1>4, <4>2, HeadAndTail
        <5>2. ~(Execute(s) /\ ~Missing(s) /\ ~CannotRevoke(s))
          BY <1>7, <2>4, <4>1, <5>1 DEF Execute
        <5>3. Tolerated(s) /\ ~Missing(s)
          BY <1>1, <1>5, <2>3, <2>4, <4>1, <5>1, <5>2
        <5>4. CannotRevoke(s)  BY <5>3 DEF Tolerated
        <5>5. s.for \in refused'  BY <1>1, <2>3, <2>4, <4>1, <5>1, <5>4
        <5>6. QED  BY <1>2, <2>2, <4>1, <5>1, <5>5 DEF Accounted
      <4>3. CASE i # 1
        <5>1. i - 1 \in DOMAIN stmts' /\ stmts'[i - 1] = stmts[i]
          BY <1>1, <1>4, <4>1, <4>3, HeadAndTail
        <5> PICK r : r = stmts[i]
          OBVIOUS
        <5>2. x \in PrivilegesOf(r)' /\ x \in Footprint(r.for)'
          BY <1>2, <1>3, <4>1
        <5>3. QED  BY <1>1, <2>1, <5>1, <5>2 DEF Accounted
      <4>4. QED  BY <4>2, <4>3
    <3>4. QED  BY <3>1, <3>2, <3>3 DEF Accounted
  <2>5. QED  BY <2>4 DEF AccountedFor
<1>8. QED  BY <1>6, <1>7

\* A call that fails passes on all that its grants may hold.
LEMMA AccountedFails ==
    ASSUME LedgerInv, AccountedFor, CallFails, phase # "idle", provider' = provider,
           \A x \in privs' : \/ x \in privs
                             \/ /\ Granting /\ stmts # << >>
                                /\ x \in PrivilegesOf(Head(stmts))
    PROVE  AccountedFor'
<1>1. /\ UNCHANGED << recorded, pending, refused >> /\ leaked \subseteq leaked'
  BY DEF CallFails
<1>2. \A g, x : x \in Footprint(g)' <=> x \in Footprint(g)  BY FootprintIsFixed
<1>3. recorded \cup leaked \cup refused \cup PassGrants \subseteq Sources'
  <2>1. CASE phase = "grant"
    <3>1. phase' = "undo" /\ todo' = desired \ recorded  BY <2>1 DEF CallFails
    <3>2. Sources' = recorded \cup leaked' \cup refused \cup (desired \ recorded)
      BY <1>1, <3>1 DEF Sources
    <3>3. QED  BY <1>1, <2>1, <3>2 DEF PassGrants
  <2>2. CASE phase = "undo"
    <3>1. phase' = "idle" /\ leaked' = leaked \cup (desired \ recorded)
      BY <2>2 DEF CallFails
    <3>2. Sources' = recorded \cup leaked' \cup refused \cup pending
      BY <1>1, <3>1 DEF Sources
    <3>3. QED  BY <2>2, <3>1, <3>2 DEF PassGrants
  <2>3. CASE phase \in {"revoke", "regrant"}
    <3>1. phase' = "idle"  BY <2>3 DEF CallFails
    <3>2. Sources' = recorded \cup leaked' \cup refused \cup pending
      BY <1>1, <3>1 DEF Sources
    <3>3. QED  BY <1>1, <2>3, <3>2 DEF PassGrants
  <2>4. QED  BY <2>1, <2>2, <2>3 DEF LedgerInv, TypeOK
<1>4. ASSUME NEW x \in privs', x.priv \in Powers
      PROVE  \E g \in recorded \cup leaked \cup refused \cup PassGrants : x \in Footprint(g)
  <2>1. CASE x \in privs  BY <1>4, <2>1, HeldIsOwed
  <2>2. CASE Granting /\ stmts # << >> /\ x \in PrivilegesOf(Head(stmts))
    BY <1>4, <2>2, GivenIsCovered
  <2>3. QED  BY <2>1, <2>2
<1>5. ASSUME NEW x \in privs', x.priv \in Powers PROVE Accounted(x)'
  <2>1. PICK g \in Sources' : x \in Footprint(g)  BY <1>3, <1>4, <1>5
  <2>2. QED  BY <1>2, <2>1 DEF Accounted
<1>6. QED  BY <1>5 DEF AccountedFor

LEMMA AccountedStep ==
    ASSUME StableOnSnowflake, LedgerInv, AccountedFor, [Next]_vars
    PROVE  AccountedFor'
<1>1. ASSUME NEW t \in Tables, CreateTable(t) \/ DropTable(t) PROVE AccountedFor'
  BY <1>1, AccountedTables
<1>2. ASSUME NEW g \in Grants, BeginGrant(g) PROVE AccountedFor'
  BY <1>2, AccountedBegins
<1>3. ASSUME RunStatement PROVE AccountedFor'
  BY <1>3, AccountedRuns
<1>4. ASSUME NEW g \in Grants, RejectGrant(g) \/ LookupFails(g) PROVE AccountedFor'
  BY <1>4, AccountedFails DEF RejectGrant, LookupFails, CallFails, Busy
<1>5. ASSUME StatementFails PROVE AccountedFor'
  <2>1. CallFails /\ phase # "idle" /\ provider' = provider /\ stmts # << >>
    BY <1>5 DEF StatementFails, CallFails, Busy
  <2>2. UNCHANGED privs \/ Execute(Head(stmts))  BY <1>5 DEF StatementFails
  <2>3. \A x \in privs' : x \in privs \/ (Granting /\ x \in PrivilegesOf(Head(stmts)))
    BY <2>2 DEF Execute
  <2>4. QED  BY <2>1, <2>3, AccountedFails
<1>6. ASSUME UNCHANGED << provider, tables, privs >>, Sources \subseteq Sources', stmts = << >>
      PROVE  AccountedFor'
  <2>1. \A g, x : x \in Footprint(g)' <=> x \in Footprint(g)  BY <1>6, FootprintIsFixed
  <2>2. ASSUME NEW x \in privs', x.priv \in Powers PROVE Accounted(x)'
    <3>1. DOMAIN stmts = {}  BY <1>6
    <3>2. PICK g \in Sources : x \in Footprint(g)
      BY <1>6, <2>2, <3>1 DEF AccountedFor, Accounted
    <3>3. QED  BY <1>6, <2>1, <3>2 DEF Accounted
  <2>3. QED  BY <2>2 DEF AccountedFor
<1>7. phase = "idle" => stmts = << >>
  <2>1. phase = "idle" => DOMAIN stmts = {}  BY DEF LedgerInv, InPass, PassGrants
  <2>2. stmts \in Seq(Statements)  BY DEF LedgerInv, TypeOK
  <2>3. DOMAIN stmts = 1 .. Len(stmts) /\ Len(stmts) \in Nat  BY <2>2
  <2>4. DOMAIN stmts = {} => Len(stmts) = 0  BY <2>3
  <2>5. Len(stmts) = 0 => stmts = << >>  BY <2>2, EmptySeq
  <2>6. QED  BY <2>1, <2>4, <2>5
<1>8. stmts = << >> => \A g : ~AtWork(g)  BY DEF AtWork
<1>9. ASSUME NEW request \in Requests, NEW all \in BOOLEAN, ApplyGrants(request, all)
      PROVE  AccountedFor'
  <2>1. /\ UNCHANGED << provider, tables, privs, recorded, leaked, refused >>
        /\ phase = "idle" /\ pending = {} /\ phase' = "grant"
    BY <1>9 DEF ApplyGrants, service, ledger
  <2>2. Sources = recorded \cup leaked \cup refused  BY <2>1 DEF Sources
  <2>3. recorded' \cup leaked' \cup refused' \subseteq Sources'  BY DEF Sources
  <2>4. QED  BY <1>6, <1>7, <2>1, <2>2, <2>3
<1>10. ASSUME CommitGrants PROVE AccountedFor'
  <2>1. /\ UNCHANGED << provider, tables, privs, leaked, refused >>
        /\ phase = "grant" /\ phase' = "idle" /\ stmts = << >>
        /\ recorded' = (recorded \cap desired) \cup done /\ pending' = recorded \ desired
    BY <1>10 DEF CommitGrants, PassEnds, service
  <2>2. Sources = recorded \cup leaked \cup refused \cup done  BY <1>8, <2>1 DEF Sources
  <2>3. Sources' = recorded' \cup leaked' \cup refused' \cup pending'
    BY <2>1 DEF Sources
  <2>4. QED  BY <1>6, <2>1, <2>2, <2>3
<1>11. ASSUME ReturnError PROVE AccountedFor'
  <2>1. /\ UNCHANGED << provider, tables, privs, recorded, pending, leaked, refused >>
        /\ phase = "undo" /\ phase' = "idle" /\ stmts = << >> /\ todo = {}
    BY <1>11 DEF ReturnError, PassEnds, service, ledger
  <2>2. Sources \subseteq Sources'  BY <2>1 DEF Sources
  <2>3. QED  BY <1>6, <2>1, <2>2
<1>12. ASSUME RevokeGrants PROVE AccountedFor'
  <2>1. /\ UNCHANGED << provider, tables, privs, recorded, pending, leaked, refused >>
        /\ phase = "idle" /\ phase' = "revoke" /\ todo' = pending
    BY <1>12 DEF RevokeGrants, service, ledger
  <2>2. Sources \subseteq Sources'  BY <2>1 DEF Sources
  <2>3. QED  BY <1>6, <1>7, <2>1, <2>2
<1>13. ASSUME Regrant PROVE AccountedFor'
  <2>1. /\ UNCHANGED << provider, tables, privs, recorded, pending, leaked, refused >>
        /\ phase = "revoke" /\ phase' = "regrant" /\ stmts = << >> /\ todo = {}
    BY <1>13 DEF Regrant, PassEnds, service, ledger
  <2>2. Sources \subseteq Sources'  BY <2>1 DEF Sources
  <2>3. QED  BY <1>6, <2>1, <2>2
<1>14. ASSUME FinishRevoke PROVE AccountedFor'
  <2>1. /\ UNCHANGED << provider, tables, privs, recorded, leaked, refused >>
        /\ phase = "regrant" /\ phase' = "idle" /\ stmts = << >>
    BY <1>14 DEF FinishRevoke, PassEnds, service
  <2>2. Sources \subseteq Sources'  BY <2>1 DEF Sources
  <2>3. QED  BY <1>6, <2>1, <2>2
<1>15. ASSUME UNCHANGED vars PROVE AccountedFor'
  <2>1. UNCHANGED << provider, tables, privs, recorded, pending, leaked, refused, phase,
                     todo, done, stmts >>
    BY <1>15 DEF vars, service, ledger, call
  <2>2. Sources' = Sources  BY <2>1 DEF Sources, AtWork
  <2>3. \A g, x : x \in Footprint(g)' <=> x \in Footprint(g)  BY <2>1, FootprintIsFixed
  <2>4. \A s, x : x \in PrivilegesOf(s)' <=> x \in PrivilegesOf(s)
    BY <2>1 DEF PrivilegesOf, ScopesOf
  <2>5. ASSUME NEW x, Accounted(x) PROVE Accounted(x)'
    BY <2>1, <2>2, <2>3, <2>4, <2>5 DEF Accounted
  <2>6. QED  BY <2>1, <2>5 DEF AccountedFor
<1>16. QED
  BY <1>1, <1>2, <1>3, <1>4, <1>5, <1>9, <1>10, <1>11, <1>12, <1>13, <1>14, <1>15 DEF Next

\* Where Snowflake's tables stay as they are while a call runs, the account can never do
\* more than what its grants stand for, those whose REVOKE was refused included: whatever
\* GRANT and REVOKE statements ran, failed, were tolerated or lost their replies, and
\* whatever tables came and went.
THEOREM NothingInExcess ==
    ASSUME StableOnSnowflake
    PROVE  Spec => []NoExcess
<1>1. Init => AccountedFor  BY DEF Init, AccountedFor
<1>2. LedgerInv /\ AccountedFor /\ [Next]_vars => (LedgerInv /\ AccountedFor)'
  BY LedgerInvStep, AccountedStep
<1>3. LedgerInv /\ AccountedFor => NoExcess  BY NoneExceeds
<1>4. QED  BY <1>1, <1>2, <1>3, LedgerInvInit, PTL DEF Spec

-----------------------------------------------------------------------------
(* What is recorded is in effect                                            *)

\* What has been granted, or is being granted, is on record or desired.
LEMMA AppliedIsInPlay ==
    ASSUME LedgerInv
    PROVE  Applied \subseteq InPlay
<1>1. \A g : AtWork(g) => g \in PassGrants
  BY HeadFits DEF AtWork, LedgerInv
<1>2. phase = "grant" => done \subseteq desired  BY DEF LedgerInv, Ledger
<1>3. Granting => PassGrants \subseteq InPlay  BY DEF Granting, PassGrants, InPlay
<1>4. QED  BY <1>1, <1>2, <1>3 DEF Applied, InPlay

\* A pass works at one grant at a time.
LEMMA WorkBegins ==
    ASSUME TypeOK, NEW h \in Grants, BeginGrant(h), NEW g, AtWork(g)'
    PROVE  g = h /\ ~Deferred(h)
<1> DEFINE q == StatementsOf(h)
<1>1. ~Deferred(h) /\ stmts' = q /\ q # << >> /\ Head(q).for = g
  BY DEF BeginGrant, AtWork
<1>2. q \in Seq(Statements)  BY StatementsAre
<1>3. 1 \in DOMAIN q /\ Head(q) = q[1]  BY <1>1, <1>2
<1>4. q[1] \in StatementSet(h)  BY <1>3, StatementAt
<1>5. q[1].for = h  BY <1>4, ProviderIs DEF StatementSet, Stmt
<1>6. QED  BY <1>1, <1>3, <1>5

LEMMA WorkGoesOn ==
    ASSUME TypeOK, InPass, RunStatement, NEW g, AtWork(g)'
    PROVE  g = Head(stmts).for
<1>1. Tail(stmts) # << >> /\ Head(Tail(stmts)).for = g /\ stmts # << >>
  BY DEF RunStatement, AtWork
<1>2. Tail(stmts) \in Seq(Statements)  BY <1>1, HeadAndTail
<1>3. 1 \in DOMAIN Tail(stmts) /\ Head(Tail(stmts)) = Tail(stmts)[1]  BY <1>1, <1>2
<1>4. 2 \in DOMAIN stmts /\ Tail(stmts)[1] = stmts[2]  BY <1>1, <1>3, HeadAndTail
<1>5. stmts[2].for = Head(stmts).for  BY <1>1, <1>4, HeadFits
<1>6. QED  BY <1>1, <1>3, <1>4, <1>5

LEMMA LapsingStep ==
    ASSUME LedgerInv, Lapsing, [Next]_vars
    PROVE  Lapsing'
<1>1. ASSUME NEW t \in Tables, CreateTable(t) PROVE Lapsing'
  <2>1. UNCHANGED << recorded, phase, done, stmts, lapsed >> /\ tables \subseteq tables'
    BY <1>1 DEF CreateTable, ledger, call
  <2>2. Applied' = Applied  BY <2>1 DEF Applied, AtWork, Granting
  <2>3. QED  BY <2>1, <2>2 DEF Lapsing
<1>2. ASSUME NEW t \in Tables, DropTable(t) PROVE Lapsing'
  <2>1. /\ UNCHANGED << recorded, phase, done, stmts >> /\ tables' = tables \ {t}
        /\ lapsed' = lapsed \cup {g \in InPlay : g.target = t}
    BY <1>2 DEF DropTable, ledger, call
  <2>2. Applied' = Applied  BY <2>1 DEF Applied, AtWork, Granting
  <2>3. QED  BY <2>1, <2>2, AppliedIsInPlay DEF Lapsing
<1>3. ASSUME NEW h \in Grants, BeginGrant(h) PROVE Lapsing'
  <2>1. /\ UNCHANGED << tables, recorded, phase >> /\ ~Rejected(h)
        /\ done' = DoneAtOnce(h) /\ stmts' = IF Deferred(h) THEN << >> ELSE StatementsOf(h)
        /\ lapsed' = IF Granting /\ ~Deferred(h) THEN lapsed \ {h} ELSE lapsed
    BY <1>3 DEF BeginGrant, service, ledger
  <2>2. Granting' = Granting  BY <2>1 DEF Granting
  <2>3. Granting /\ ~Deferred(h) => h.target \notin Tables \ tables
    <3>1. All \notin Tables  BY TablesAssumption
    <3>2. QED  BY <2>1, <3>1 DEF Deferred, LooksUp, Rejected
  <2>4. \A g : AtWork(g)' => g = h /\ ~Deferred(h)  BY <1>3, WorkBegins DEF LedgerInv
  <2>5. Applied' \subseteq Applied \cup {g \in {h} : Granting /\ ~Deferred(h)}
    <3>1. phase = "grant" => Granting  BY DEF Granting
    <3>2. QED  BY <2>1, <2>2, <2>4, <3>1 DEF Applied, DoneAtOnce
  <2>6. QED  BY <2>1, <2>3, <2>5 DEF Lapsing
<1>4. ASSUME RunStatement PROVE Lapsing'
  <2> PICK s : s = Head(stmts)
    OBVIOUS
  <2>1. /\ UNCHANGED << tables, recorded, phase, lapsed >>
        /\ stmts # << >> /\ stmts' = Tail(stmts) /\ done' \in {done, done \cup {s.for}}
    BY <1>4 DEF RunStatement, history, DoneAfter
  <2>2. s.for \in Grants /\ AtWork(s.for) /\ \A i \in DOMAIN stmts : stmts[i].for = s.for
    BY <2>1, HeadFits DEF LedgerInv
  <2>3. \A g : AtWork(g)' => g = s.for  BY <1>4, WorkGoesOn DEF LedgerInv
  <2>4. Granting' = Granting /\ (phase = "grant" => Granting)  BY <2>1 DEF Granting
  <2>5. Applied' \subseteq Applied
    BY <2>1, <2>2, <2>3, <2>4 DEF Applied
  <2>6. QED  BY <2>1, <2>5 DEF Lapsing
<1>5. ASSUME CallFails PROVE Lapsing'
  <2>1. UNCHANGED << tables, recorded, lapsed >> /\ phase' \in {"undo", "idle"}
    BY <1>5 DEF CallFails, history
  <2>2. Applied' \subseteq Applied  BY <2>1 DEF Applied, Granting
  <2>3. QED  BY <2>1, <2>2 DEF Lapsing
<1>6. ASSUME UNCHANGED << tables, lapsed >>, recorded' \subseteq Applied,
             phase' \in {"idle", "revoke"} \/ stmts' = << >>,
             phase' = "grant" => done' = {}
      PROVE  Lapsing'
  <2>1. Applied' \subseteq Applied  BY <1>6 DEF Applied, Granting, AtWork
  <2>2. QED  BY <1>6, <2>1 DEF Lapsing
<1>7. recorded \subseteq Applied  BY DEF Applied
<1>8. ASSUME NEW request \in Requests, NEW all \in BOOLEAN, ApplyGrants(request, all)
      PROVE  Lapsing'
  <2>1. UNCHANGED << tables, lapsed, recorded, stmts >> /\ phase = "idle" /\ done' = {}
    BY <1>8 DEF ApplyGrants, service, ledger, history
  <2>2. stmts = << >>
    <3>1. DOMAIN stmts = {}  BY <2>1 DEF LedgerInv, InPass, PassGrants
    <3>2. stmts \in Seq(Statements)  BY DEF LedgerInv, TypeOK
    <3>3. QED  BY <3>1, <3>2
  <2>3. QED  BY <1>6, <1>7, <2>1, <2>2
<1>9. ASSUME CommitGrants PROVE Lapsing'
  <2>1. /\ UNCHANGED << tables, lapsed >> /\ phase = "grant" /\ phase' = "idle"
        /\ recorded' \subseteq recorded \cup done
    BY <1>9 DEF CommitGrants, PassEnds, service, history
  <2>2. QED  BY <1>6, <2>1 DEF Applied
<1>10. ASSUME ReturnError \/ RevokeGrants \/ Regrant \/ FinishRevoke PROVE Lapsing'
  <2>1. /\ UNCHANGED << tables, lapsed, recorded >> /\ phase' # "grant"
        /\ phase' \in {"idle", "revoke"} \/ stmts' = << >>
    BY <1>10 DEF ReturnError, RevokeGrants, Regrant, FinishRevoke, PassEnds, service, ledger, history
  <2>2. QED  BY <1>6, <1>7, <2>1
<1>11. ASSUME UNCHANGED vars PROVE Lapsing'
  <2>1. UNCHANGED << tables, recorded, phase, done, stmts, lapsed >>
    BY <1>11 DEF vars, service, ledger, call, history
  <2>2. Applied' = Applied  BY <2>1 DEF Applied, AtWork, Granting
  <2>3. QED  BY <2>1, <2>2 DEF Lapsing
<1>12. QED
  BY <1>1, <1>2, <1>3, <1>4, <1>5, <1>8, <1>9, <1>10, <1>11
  DEF Next, RejectGrant, LookupFails, StatementFails

\* What is needed depends on the tables only in part.
LEMMA NeedsIsFixed ==
    ASSUME provider' = provider, tables' = tables
    PROVE  \A g, x : x \in Needs(g)' <=> x \in Needs(g)
BY DEF Needs, NeededOn, CreateScopes, Creates

LEMMA VouchedIsInPlay ==
    ASSUME LedgerInv
    PROVE  Vouched \subseteq InPlay /\ Vouched \subseteq Applied
<1>1. phase = "grant" => Granting  BY DEF Granting
<1>2. Vouched \subseteq Applied
  BY <1>1 DEF Vouched, Applied, LedgerInv, TypeOK
<1>3. QED  BY <1>2, AppliedIsInPlay

LEMMA InForceCreate ==
    ASSUME StableOnSnowflake, EffectInv, NEW t \in Tables, CreateTable(t)
    PROVE  InForce'
<1>1. /\ UNCHANGED << provider, recorded, pending, suspect, phase, desired, reapply, todo,
                      done, stmts, lapsed >>
      /\ tables' = tables \cup {t} /\ privs \subseteq privs' /\ TablesMayChange
      /\ \A y \in privs : y.on = "future" => [priv |-> y.priv, on |-> t] \in privs'
      /\ late' = late \cup {<< g, t >> : g \in {h \in InPlay : Names(h, t)}}
  BY DEF CreateTable, ledger, call
<1>2. Vouched' = Vouched /\ Granting' = Granting
  BY <1>1 DEF Vouched, AtWork, Granting
<1>3. TypeOK /\ InPass /\ Vouched \subseteq InPlay
  BY VouchedIsInPlay DEF EffectInv, LedgerInv
<1>4. phase # "idle" => provider # "snowflake"  BY <1>1, <1>3, StableMidCall
<1>5. \A x : Taken(x) => Taken(x)'
  <2>1. \A g, x : x \in Footprint(g)' <=> x \in Footprint(g)  BY <1>1, FootprintIsFixed
  <2>2. QED  BY <1>1, <2>1 DEF Taken, Creates
<1>6. ASSUME NEW g \in Vouched, NEW x, Backed(g, x) PROVE Backed(g, x)'
  <2>1. CASE Granting /\ \E i \in DOMAIN stmts :
                            stmts[i].for = g /\ x \in PrivilegesOf(stmts[i])
    <3>1. PICK i \in DOMAIN stmts : stmts[i].for = g /\ x \in PrivilegesOf(stmts[i])
      BY <2>1
    <3> PICK s : s = stmts[i]
      OBVIOUS
    <3>2. s.for \in Grants /\ Fits(s.for, s)
      <4>1. s.for \in PassGrants /\ Fits(s.for, s)  BY <1>3, <3>1 DEF InPass
      <4>2. QED  BY <1>3, <4>1 DEF PassGrants, TypeOK
    <3>3. x \in PrivilegesOf(s)'
      BY <1>1, <1>3, <1>4, <2>1, <3>1, <3>2, ScopesAreFixed DEF Granting
    <3>4. QED  BY <1>1, <1>2, <2>1, <3>1, <3>3 DEF Backed
  <2>2. CASE ~(Granting /\ \E i \in DOMAIN stmts :
                              stmts[i].for = g /\ x \in PrivilegesOf(stmts[i]))
    BY <1>1, <1>5, <1>6, <2>2 DEF Backed
  <2>3. QED  BY <2>1, <2>2
<1>7. ASSUME NEW g \in Vouched, NEW x, x \in Needs(g)', x \notin Needs(g)
      PROVE  Backed(g, x)'
  <2>1. /\ g.target = All /\ g.type # "create" /\ provider \in {"oracle", "snowflake"}
        /\ x.on = t /\ x.priv \in DataPrivs(g) /\ x = [priv |-> x.priv, on |-> x.on]
    <3>1. \/ g.type # "create" /\ x.priv \in DataPrivs(g) /\ x.on \in NeededOn(g)'
          \/ Creates(g) /\ x.priv = "create" /\ x.on \in CreateScopes
          \/ Creates(g) /\ provider = "sqlserver" /\ x.priv = "alter" /\ x.on = All
          \/ provider = "snowflake" /\ x.priv = "usage" /\ x.on = All
      BY <1>1, <1>7 DEF Needs, Creates, CreateScopes
    <3>2. x \in [priv : Privs, on : Scopes]  BY <1>7 DEF Needs
    <3>3. /\ g.type # "create" /\ x.priv \in DataPrivs(g) /\ x.on \in NeededOn(g)'
          /\ x.on \notin NeededOn(g)
      BY <1>7, <3>1, <3>2 DEF Needs
    <3>4. g.target = All /\ provider \in {"oracle", "snowflake"}
      BY <1>1, <1>3, <3>3, ProviderIs DEF NeededOn
    <3>5. x.on = t
      BY <1>1, <3>3, <3>4 DEF NeededOn
    <3>6. QED  BY <3>2, <3>3, <3>4, <3>5
  <2>2. CASE provider = "oracle"
    <3>1. << g, t >> \in late'  BY <1>1, <1>3, <2>1, <2>2 DEF Names
    <3>2. QED  BY <2>1, <3>1 DEF Backed
  <2>3. CASE provider = "snowflake"
    <3> DEFINE y == [priv |-> x.priv, on |-> "future"]
    <3>1. phase = "idle"  BY <1>4, <2>3
    <3>2. y \in Needs(g)
      <4>1. y \in [priv : Privs, on : Scopes] /\ y.priv = x.priv /\ y.on = "future"
        <5>1. x.priv \in Privs  BY <2>1 DEF DataPrivs, Privs
        <5>2. QED  BY <5>1 DEF Scopes
      <4>2. "future" \in NeededOn(g)  BY <2>1, <2>3 DEF NeededOn
      <4>3. QED  BY <2>1, <4>1, <4>2 DEF Needs
    <3>3. Backed(g, y) /\ y.on = "future" /\ y.priv = x.priv
      BY <3>2 DEF EffectInv, InForce
    <3> HIDE DEF y
    <3>4. << g, y.on >> \notin late  BY <1>3, <3>3, TablesAssumption DEF TypeOK
    <3>5. ~Granting  BY <3>1 DEF Granting
    <3>6. y \in privs \/ g \in lapsed  BY <3>1, <3>3, <3>4, <3>5 DEF Backed
    <3>7. CASE y \in privs
      <4>1. x \in privs'  BY <1>1, <2>1, <3>3, <3>7
      <4>2. QED  BY <4>1 DEF Backed
    <3>8. CASE g \in lapsed  BY <1>1, <3>8 DEF Backed
    <3>9. QED  BY <3>6, <3>7, <3>8
  <2>4. QED  BY <2>1, <2>2, <2>3
<1>8. \A g \in Vouched : \A x \in Needs(g) : Backed(g, x)
  BY DEF EffectInv, InForce
<1>9. QED  BY <1>2, <1>6, <1>7, <1>8 DEF InForce

LEMMA InForceDrop ==
    ASSUME StableOnSnowflake, EffectInv, NEW t \in Tables, DropTable(t)
    PROVE  InForce'
<1>1. /\ UNCHANGED << provider, recorded, pending, suspect, phase, desired, reapply, todo,
                      done, stmts, late >>
      /\ tables' = tables \ {t} /\ TablesMayChange
      /\ \A x \in privs : x.on # t \/ provider = "clickhouse" => x \in privs'
      /\ lapsed' = lapsed \cup {g \in InPlay : g.target = t}
  BY DEF DropTable, ledger, call
<1>2. Vouched' = Vouched /\ Granting' = Granting
  BY <1>1 DEF Vouched, AtWork, Granting
<1>3. TypeOK /\ InPass /\ Vouched \subseteq InPlay
  BY VouchedIsInPlay DEF EffectInv, LedgerInv
<1>4. phase # "idle" => provider # "snowflake"  BY <1>1, <1>3, StableMidCall
<1>5. \A x : Taken(x) => Taken(x)'
  <2>1. \A g, x : x \in Footprint(g)' <=> x \in Footprint(g)  BY <1>1, FootprintIsFixed
  <2>2. QED  BY <1>1, <2>1 DEF Taken, Creates
<1>6. ASSUME NEW g \in Vouched, NEW x, x \in Needs(g)'
      PROVE  x \in Needs(g) /\ (x.on = t /\ provider # "clickhouse" => g.target = t)
  <2>1. /\ x \in [priv : Privs, on : Scopes]
        /\ \/ g.type # "create" /\ x.priv \in DataPrivs(g) /\ x.on \in NeededOn(g)'
           \/ Creates(g) /\ x.priv = "create" /\ x.on \in CreateScopes
           \/ Creates(g) /\ provider = "sqlserver" /\ x.priv = "alter" /\ x.on = All
           \/ provider = "snowflake" /\ x.priv = "usage" /\ x.on = All
    BY <1>1, <1>6 DEF Needs, Creates, CreateScopes
  <2>2. Tables \cap {All, "database", "future"} = {}  BY TablesAssumption
  <2>3. x.on \in NeededOn(g)' => /\ x.on \in NeededOn(g)
                                 /\ x.on = t /\ provider # "clickhouse" => g.target = t
    BY <1>1, <1>3, <2>2, ProviderIs DEF NeededOn
  <2>4. x.on = t /\ x.on \in CreateScopes => provider = "clickhouse"
    BY <1>3, <2>2, ProviderIs DEF CreateScopes
  <2>5. QED  BY <2>1, <2>2, <2>3, <2>4 DEF Needs
<1>7. ASSUME NEW g \in Vouched, NEW x, x \in Needs(g)'
      PROVE  Backed(g, x)'
  <2>1. Backed(g, x)  BY <1>6, <1>7 DEF EffectInv, InForce
  <2>2. CASE x.on = t /\ provider # "clickhouse"
    <3>1. g \in lapsed'  BY <1>1, <1>3, <1>6, <1>7, <2>2
    <3>2. QED  BY <3>1 DEF Backed
  <2>3. CASE x \in privs /\ ~(x.on = t /\ provider # "clickhouse")
    <3>1. x \in privs'  BY <1>1, <2>3
    <3>2. QED  BY <3>1 DEF Backed
  <2>4. CASE Granting /\ \E i \in DOMAIN stmts :
                            stmts[i].for = g /\ x \in PrivilegesOf(stmts[i])
    <3>1. PICK i \in DOMAIN stmts : stmts[i].for = g /\ x \in PrivilegesOf(stmts[i])
      BY <2>4
    <3> PICK s : s = stmts[i]
      OBVIOUS
    <3>2. s.for \in Grants /\ Fits(s.for, s)
      <4>1. s.for \in PassGrants /\ Fits(s.for, s)  BY <1>3, <3>1 DEF InPass
      <4>2. QED  BY <1>3, <4>1 DEF PassGrants, TypeOK
    <3>3. x \in PrivilegesOf(s)'
      BY <1>1, <1>3, <1>4, <2>4, <3>1, <3>2, ScopesAreFixed DEF Granting
    <3>4. QED  BY <1>1, <1>2, <2>4, <3>1, <3>3 DEF Backed
  <2>5. CASE /\ x \notin privs
             /\ ~(Granting /\ \E i \in DOMAIN stmts :
                                 stmts[i].for = g /\ x \in PrivilegesOf(stmts[i]))
    BY <1>1, <1>5, <2>1, <2>5 DEF Backed
  <2>6. QED  BY <2>1, <2>2, <2>3, <2>4, <2>5
<1>8. QED  BY <1>2, <1>7 DEF InForce

LEMMA InForceBegins ==
    ASSUME EffectInv, NEW h \in Grants, BeginGrant(h)
    PROVE  InForce'
<1>1. /\ UNCHANGED << provider, tables, privs, recorded, pending, suspect, phase, desired, reapply >>
      /\ stmts = << >> /\ DOMAIN stmts = {} /\ phase # "idle"
      /\ h \in todo /\ todo' = todo \ {h} /\ done' = DoneAtOnce(h)
      /\ stmts' = IF Deferred(h) THEN << >> ELSE StatementsOf(h)
      /\ lapsed' = IF Granting /\ ~Deferred(h) THEN lapsed \ {h} ELSE lapsed
      /\ late' = IF Granting THEN {x \in late : x[1] # h} ELSE late
  BY DEF BeginGrant, service, ledger, Busy
<1>2. TypeOK /\ InPass /\ Ledger /\ Lapsing /\ InForce  BY DEF EffectInv, LedgerInv
<1>3. Granting' = Granting  BY <1>1 DEF Granting
<1>4. \A g, x : x \in Needs(g)' <=> x \in Needs(g)  BY <1>1, NeedsIsFixed
<1>5. \A s, x : x \in PrivilegesOf(s)' <=> x \in PrivilegesOf(s)
  BY <1>1 DEF PrivilegesOf, ScopesOf
<1>6. \A x : Taken(x) => Taken(x)'
  <2>1. \A g, x : x \in Footprint(g)' <=> x \in Footprint(g)  BY <1>1, FootprintIsFixed
  <2>2. QED  BY <1>1, <2>1 DEF Taken, Creates
<1>7. \A g : AtWork(g)' => g = h /\ ~Deferred(h)  BY <1>2, WorkBegins
<1>8. Vouched' \subseteq Vouched \cup {g \in {h} : Granting}
  <2>1. phase \in {"grant", "regrant"} => Granting  BY DEF Granting
  <2>2. CASE phase = "grant"  BY <1>1, <1>3, <1>7, <2>1, <2>2 DEF Vouched, DoneAtOnce
  <2>3. CASE phase = "regrant"  BY <1>1, <1>3, <1>7, <2>1, <2>3 DEF Vouched
  <2>4. CASE phase \in {"undo", "revoke"}
    BY <1>1, <1>3, <2>4 DEF Vouched, Granting
  <2>5. QED  BY <1>1, <1>2, <2>2, <2>3, <2>4 DEF TypeOK
<1>9. ASSUME NEW g \in Vouched, g # h \/ ~Granting, NEW x \in Needs(g) PROVE Backed(g, x)'
  <2>1. Backed(g, x)  BY <1>2, <1>9 DEF InForce
  <2>2. CASE x \in privs \/ g \in lapsed \/ (g.target = All /\ << g, x.on >> \in late)
    <3>1. g \in lapsed => g \in lapsed'  BY <1>1, <1>9
    <3>2. << g, x.on >> \in late => << g, x.on >> \in late'  BY <1>1, <1>9
    <3>3. QED  BY <1>1, <2>2, <3>1, <3>2 DEF Backed
  <2>3. CASE (phase = "revoke" \/ (phase = "regrant" /\ g \in todo)) /\ Taken(x)
    <3>1. phase = "regrant" => g # h  BY <1>9 DEF Granting
    <3>2. QED  BY <1>1, <1>6, <2>3, <3>1 DEF Backed
  <2>4. QED  BY <1>1, <2>1, <2>2, <2>3 DEF Backed
<1>10. ASSUME Granting, h \in Vouched', NEW x \in Needs(h) PROVE Backed(h, x)'
  <2>1. CASE Deferred(h)
    <3>1. h.target \in Tables \ tables
      <4>1. h.target \in Tables \cup {All}  BY GrantIs
      <4>2. QED  BY <2>1, <4>1 DEF Deferred
    <3>2. done' = done /\ \A g : ~AtWork(g)'  BY <1>1, <1>7, <2>1 DEF DoneAtOnce
    <3>3. h \in recorded \cup (IF phase = "grant" THEN done ELSE {})
      BY <1>1, <1>10, <3>2 DEF Vouched, Granting
    <3>4. h \in lapsed  BY <1>2, <3>1, <3>3 DEF Lapsing, Applied
    <3>5. QED  BY <1>1, <2>1, <3>4 DEF Backed
  <2>2. CASE ~Deferred(h)
    <3>1. h.type \in SupportedTypes  BY <1>1, <1>2, PassSupported
    <3>2. PICK s \in StatementSet(h) : x \in PrivilegesOf(s)
      BY <1>2, <1>10, <3>1, NeedsCovered
    <3>3. s.for = h  BY <1>2, <3>1, StatementForms DEF Fits
    <3>4. PICK i \in DOMAIN StatementsOf(h) : StatementsOf(h)[i] = s  BY <1>2, StatementAt
    <3>5. i \in DOMAIN stmts' /\ stmts'[i] = s  BY <1>1, <2>2, <3>4
    <3>6. x \in PrivilegesOf(s)'  BY <1>5, <3>2
    <3>7. QED  BY <1>3, <1>10, <3>3, <3>5, <3>6 DEF Backed
  <2>3. QED  BY <2>1, <2>2
<1>11. QED  BY <1>4, <1>8, <1>9, <1>10 DEF InForce

\* A revocation takes from a kept grant only what it shares with a pending one.
LEMMA RevokedIsTaken ==
    ASSUME LedgerInv, phase = "revoke", stmts # << >>, NEW s, s = Head(stmts),
           NEW g, NEW x \in Needs(g), x \in PrivilegesOf(s)
    PROVE  Taken(x)
<1>1. /\ TypeOK /\ InPass /\ Ledger
      /\ s.for \in Grants /\ Fits(s.for, s) /\ s.for \in pending
  BY HeadFits DEF LedgerInv, PassGrants
<1>2. ~TableCreate(s.for)  BY <1>1 DEF Ledger
<1>3. x.priv \in Privs  BY DEF Needs
<1>4. CASE x.priv \in Powers
  <2>1. x \in Footprint(s.for)  BY <1>1, <1>2, <1>4, StatementFootprint
  <2>2. QED  BY <1>1, <2>1 DEF Taken
<1>5. CASE x.priv = "alter"
  <2>1. "alter" \in s.privs  BY <1>5, PrivilegeIs
  <2>2. Creates(s.for)  BY <1>1, <1>2, <2>1, AlterCreates
  <2>3. QED  BY <1>1, <1>5, <2>2 DEF Taken
<1>6. CASE x.priv = "usage"
  <2>1. "usage" \notin DataPrivs(g)  BY DEF DataPrivs
  <2>2. provider = "snowflake"  BY <1>6, <2>1 DEF Needs
  <2>3. QED  BY <2>2 DEF Taken
<1>7. QED  BY <1>3, <1>4, <1>5, <1>6 DEF Privs, Powers

LEMMA InForceRuns ==
    ASSUME EffectInv, RunStatement
    PROVE  InForce'
<1> PICK s : s = Head(stmts)
  OBVIOUS
<1>1. /\ UNCHANGED << provider, tables, recorded, pending, suspect, phase, desired, reapply,
                      todo, lapsed, late >>
      /\ stmts # << >> /\ stmts' = Tail(stmts) /\ phase # "idle"
      /\ \/ ~Missing(s) /\ ~CannotRevoke(s) /\ Execute(s)
         \/ Tolerated(s) /\ UNCHANGED privs
      /\ done' \in {done, done \cup {s.for}}
  BY DEF RunStatement, Busy, history, DoneAfter
<1>2. TypeOK /\ InPass /\ Ledger /\ Lapsing /\ InForce /\ LedgerInv
  BY DEF EffectInv, LedgerInv
<1>3. Granting' = Granting  BY <1>1 DEF Granting
<1>4. \A g, x : x \in Needs(g)' <=> x \in Needs(g)  BY <1>1, NeedsIsFixed
<1>5. \A r, x : x \in PrivilegesOf(r)' <=> x \in PrivilegesOf(r)
  BY <1>1 DEF PrivilegesOf, ScopesOf
<1>6. \A x : Taken(x) => Taken(x)'
  <2>1. \A g, x : x \in Footprint(g)' <=> x \in Footprint(g)  BY <1>1, FootprintIsFixed
  <2>2. QED  BY <1>1, <2>1 DEF Taken, Creates
<1>7. \A g : AtWork(g)' => g = s.for  BY <1>2, WorkGoesOn
<1>8. /\ s.for \in Grants /\ Fits(s.for, s) /\ s.for \in PassGrants /\ AtWork(s.for)
      /\ \A i \in DOMAIN stmts : stmts[i].for = s.for
  BY <1>1, <1>2, HeadFits
<1>9. CASE Granting
  <2>1. Vouched' \subseteq Vouched
    <3>1. s.for \in Vouched  BY <1>8, <1>9 DEF Vouched
    <3>2. CASE phase = "grant"  BY <1>1, <1>3, <1>7, <3>1, <3>2 DEF Vouched
    <3>3. CASE phase = "regrant"  BY <1>1, <1>3, <1>7, <3>1, <3>3 DEF Vouched
    <3>4. QED  BY <1>9, <3>2, <3>3 DEF Granting
  <2>2. privs \subseteq privs'  BY <1>1, <1>9 DEF Execute
  <2>3. ASSUME NEW g \in Vouched, NEW x \in Needs(g) PROVE Backed(g, x)'
    <3>1. Backed(g, x)  BY <1>2, <2>3 DEF InForce
    <3>2. CASE \E i \in DOMAIN stmts : stmts[i].for = g /\ x \in PrivilegesOf(stmts[i])
      <4>1. PICK i \in DOMAIN stmts : stmts[i].for = g /\ x \in PrivilegesOf(stmts[i])
        BY <3>2
      <4>2. CASE i # 1
        <5>1. i - 1 \in DOMAIN stmts' /\ stmts'[i - 1] = stmts[i]
          BY <1>1, <1>2, <4>1, <4>2, HeadAndTail
        <5> PICK r : r = stmts[i]
          OBVIOUS
        <5>2. r.for = g /\ x \in PrivilegesOf(r)'  BY <1>5, <4>1
        <5>3. QED  BY <1>3, <1>9, <5>1, <5>2 DEF Backed
      <4>3. CASE i = 1 /\ Execute(s)
        <5>1. stmts[i] = s  BY <1>1, <1>2, <4>3, HeadAndTail
        <5>2. x \in privs'  BY <1>9, <4>1, <4>3, <5>1 DEF Execute
        <5>3. QED  BY <5>2 DEF Backed
      <4>4. CASE i = 1 /\ Tolerated(s)
        <5>1. stmts[i] = s /\ g = s.for /\ x \in PrivilegesOf(s)
          BY <1>1, <1>2, <4>1, <4>4, HeadAndTail
        <5>2. provider = "oracle" /\ Missing(s)
          BY <1>9, <4>4 DEF Tolerated, CannotRevoke
        <5>3. s.on \in Tables \ tables /\ s.on # "current"
          BY <5>2, TablesAssumption DEF Missing
        <5>4. x.on = s.on  BY <5>1, <5>2, <5>3, PrivilegeIs DEF ScopesOf
        <5>5. CASE g.target # All
          <6>1. g.target = s.on  BY <1>8, <5>1, <5>2, <5>5, OracleFits
          <6>2. g \in Applied  BY <1>8, <1>9, <5>1 DEF Applied
          <6>3. g \in lapsed  BY <1>2, <5>3, <6>1, <6>2 DEF Lapsing
          <6>4. QED  BY <1>1, <6>3 DEF Backed
        <5>6. CASE g.target = All
          <6>1. x.on \in NeededOn(g)
            BY <2>3, <5>2 DEF Needs, CreateScopes
          <6>2. x.on \in tables  BY <5>2, <5>6, <6>1 DEF NeededOn
          <6>3. QED  BY <5>3, <5>4, <6>2
        <5>7. QED  BY <5>5, <5>6
      <4>5. QED  BY <1>1, <4>2, <4>3, <4>4
    <3>3. CASE ~\E i \in DOMAIN stmts : stmts[i].for = g /\ x \in PrivilegesOf(stmts[i])
      BY <1>1, <1>6, <2>2, <3>1, <3>3 DEF Backed
    <3>4. QED  BY <3>2, <3>3
  <2>4. QED  BY <1>4, <2>1, <2>3 DEF InForce
<1>10. CASE ~Granting
  <2>1. phase \in {"undo", "revoke"}
    BY <1>1, <1>2, <1>10 DEF Granting, TypeOK
  <2>2. CASE phase = "undo"
    <3>1. suspect'  BY <1>1, <1>2, <2>2 DEF Ledger
    <3>2. Vouched' = {}  BY <1>1, <1>3, <1>10, <2>2, <3>1 DEF Vouched
    <3>3. QED  BY <3>2 DEF InForce
  <2>3. CASE phase = "revoke"
    <3>1. Vouched' = Vouched  BY <1>1, <1>3, <1>10, <2>3 DEF Vouched
    <3>2. ASSUME NEW g \in Vouched, NEW x \in Needs(g) PROVE Backed(g, x)'
      <4>1. Backed(g, x)  BY <1>2, <3>2 DEF InForce
      <4>2. CASE x \in privs /\ x \notin privs'
        <5>1. x \in PrivilegesOf(s)  BY <1>1, <1>10, <4>2 DEF Execute
        <5>2. Taken(x)  BY <1>1, <1>2, <2>3, <3>2, <5>1, RevokedIsTaken
        <5>3. QED  BY <1>1, <1>6, <2>3, <5>2 DEF Backed
      <4>3. CASE ~(x \in privs /\ x \notin privs')
        BY <1>1, <1>6, <1>10, <4>1, <4>3 DEF Backed
      <4>4. QED  BY <4>2, <4>3
    <3>3. QED  BY <1>4, <3>1, <3>2 DEF InForce
  <2>4. QED  BY <2>1, <2>2, <2>3
<1>11. QED  BY <1>9, <1>10

LEMMA InForceStep ==
    ASSUME StableOnSnowflake, EffectInv, [Next]_vars
    PROVE  InForce'
<1>1. ASSUME NEW t \in Tables, CreateTable(t) \/ DropTable(t) PROVE InForce'
  BY <1>1, InForceCreate, InForceDrop
<1>2. ASSUME NEW g \in Grants, BeginGrant(g) PROVE InForce'
  BY <1>2, InForceBegins
<1>3. ASSUME RunStatement PROVE InForce'
  BY <1>3, InForceRuns
<1>4. ASSUME CallFails PROVE InForce'
  <2>1. suspect' /\ phase' \in {"undo", "idle"}  BY <1>4 DEF CallFails
  <2>2. Vouched' = {}  BY <2>1 DEF Vouched, Granting
  <2>3. QED  BY <2>2 DEF InForce
<1>5. TypeOK /\ InPass /\ Ledger /\ InForce  BY DEF EffectInv, LedgerInv
\* The other steps begin or end a pass.
<1>6. ASSUME UNCHANGED << provider, tables, privs, lapsed, late >>,
             stmts = << >>, stmts' = << >>, Vouched' \subseteq Vouched,
             \A g \in Vouched' : \A x :
                (phase = "revoke" \/ (phase = "regrant" /\ g \in todo)) /\ Taken(x)
                  => (phase' = "revoke" \/ (phase' = "regrant" /\ g \in todo')) /\ Taken(x)'
      PROVE  InForce'
  <2>1. \A g, x : x \in Needs(g)' <=> x \in Needs(g)  BY <1>6, NeedsIsFixed
  <2>2. DOMAIN stmts = {}  BY <1>6
  <2>3. \A g \in Vouched' : \A x : Backed(g, x) => Backed(g, x)'
    BY <1>6, <2>2 DEF Backed
  <2>4. QED  BY <1>5, <1>6, <2>1, <2>3 DEF InForce
<1>7. stmts = << >> => \A g : ~AtWork(g)  BY DEF AtWork
<1>8. stmts' = << >> => \A g : ~AtWork(g)'  BY DEF AtWork
<1>9. phase = "idle" => stmts = << >>
  <2>1. phase = "idle" => DOMAIN stmts = {}  BY <1>5 DEF InPass, PassGrants
  <2>2. stmts \in Seq(Statements)  BY <1>5 DEF TypeOK
  <2>3. DOMAIN stmts = 1 .. Len(stmts) /\ Len(stmts) \in Nat  BY <2>2
  <2>4. DOMAIN stmts = {} => Len(stmts) = 0  BY <2>3
  <2>5. Len(stmts) = 0 => stmts = << >>  BY <2>2, EmptySeq
  <2>6. QED  BY <2>1, <2>4, <2>5
<1>10. UNCHANGED << provider, pending >> => \A x : Taken(x) => Taken(x)'
  <2>1. provider' = provider => \A g, x : x \in Footprint(g)' <=> x \in Footprint(g)
    BY FootprintIsFixed
  <2>2. QED  BY <2>1 DEF Taken, Creates
<1>11. ASSUME NEW request \in Requests, NEW all \in BOOLEAN, ApplyGrants(request, all)
       PROVE  InForce'
  <2>1. /\ UNCHANGED << provider, tables, privs, recorded, suspect, lapsed, late, stmts >>
        /\ phase = "idle" /\ phase' = "grant" /\ desired' = request /\ done' = {}
        /\ reapply' = all /\ (all => todo' = request)
    BY <1>11 DEF ApplyGrants, service, ledger, history
  <2>2. stmts' = << >>  BY <1>9, <2>1
  <2>3. Vouched' \subseteq {g \in recorded : ~suspect}
    BY <1>8, <2>1, <2>2 DEF Vouched
  <2>4. {g \in recorded : ~suspect} \subseteq Vouched  BY DEF Vouched
  <2>5. QED  BY <1>6, <1>9, <2>1, <2>2, <2>3, <2>4
<1>12. ASSUME CommitGrants PROVE InForce'
  <2>1. /\ UNCHANGED << provider, tables, privs, lapsed, late, stmts >>
        /\ phase = "grant" /\ phase' = "idle" /\ stmts = << >> /\ todo = {}
        /\ recorded' = (recorded \cap desired) \cup done
        /\ suspect' = (suspect /\ ~reapply)
    BY <1>12 DEF CommitGrants, PassEnds, service, history
  <2>2. Vouched' = {g \in recorded' : ~suspect'}
    BY <2>1 DEF Vouched, Granting
  <2>3. \A g \in recorded' : ~suspect' => g \in Vouched
    BY <2>1 DEF Vouched
  <2>4. QED  BY <1>6, <2>1, <2>2, <2>3
<1>13. ASSUME ReturnError PROVE InForce'
  <2>1. UNCHANGED suspect /\ phase = "undo" /\ phase' = "idle"
    BY <1>13 DEF ReturnError, PassEnds, ledger
  <2>2. suspect'  BY <1>5, <2>1 DEF Ledger
  <2>3. Vouched' = {}  BY <2>1, <2>2 DEF Vouched, Granting
  <2>4. QED  BY <2>3 DEF InForce
<1>14. ASSUME RevokeGrants PROVE InForce'
  <2>1. /\ UNCHANGED << provider, tables, privs, recorded, suspect, lapsed, late, stmts >>
        /\ phase = "idle" /\ phase' = "revoke"
    BY <1>14 DEF RevokeGrants, service, ledger, history
  <2>2. Vouched' \subseteq Vouched  BY <2>1 DEF Vouched, Granting
  <2>3. QED  BY <1>6, <1>9, <2>1, <2>2
<1>15. ASSUME Regrant PROVE InForce'
  <2>1. /\ UNCHANGED << provider, tables, privs, recorded, pending, suspect, lapsed, late, stmts >>
        /\ phase = "revoke" /\ phase' = "regrant" /\ stmts = << >> /\ todo' = recorded
    BY <1>15 DEF Regrant, PassEnds, service, ledger, history
  <2>2. Vouched' = {g \in recorded : ~suspect}
    BY <1>8, <2>1 DEF Vouched
  <2>3. Vouched' \subseteq Vouched /\ Vouched' \subseteq todo'
    BY <2>1, <2>2 DEF Vouched
  <2>4. QED  BY <1>6, <1>10, <2>1, <2>3
<1>16. ASSUME FinishRevoke PROVE InForce'
  <2>1. /\ UNCHANGED << provider, tables, privs, recorded, lapsed, late, stmts >>
        /\ phase = "regrant" /\ phase' = "idle" /\ stmts = << >> /\ todo = {}
    BY <1>16 DEF FinishRevoke, PassEnds, service, history
  <2>2. Vouched' \subseteq recorded  BY <2>1 DEF Vouched, Granting
  <2>3. recorded \subseteq Vouched  BY <2>1 DEF Vouched
  <2>4. QED  BY <1>6, <2>1, <2>2, <2>3
<1>17. ASSUME UNCHANGED vars PROVE InForce'
  <2>1. UNCHANGED << provider, tables, privs, recorded, pending, suspect, phase, desired, reapply,
                     todo, done, stmts, lapsed, late >>
    BY <1>17 DEF vars, service, ledger, call, history
  <2>2. \A g, x : x \in Needs(g)' <=> x \in Needs(g)  BY <2>1, NeedsIsFixed
  <2>3. \A s, x : x \in PrivilegesOf(s)' <=> x \in PrivilegesOf(s)
    BY <2>1 DEF PrivilegesOf, ScopesOf
  <2>4. Vouched' = Vouched  BY <2>1 DEF Vouched, AtWork, Granting
  <2>5. \A g, x : Backed(g, x) => Backed(g, x)'
    BY <1>10, <2>1, <2>3 DEF Backed, Granting
  <2>6. QED  BY <1>5, <2>2, <2>4, <2>5 DEF InForce
<1>18. QED
  BY <1>1, <1>2, <1>3, <1>4, <1>11, <1>12, <1>13, <1>14, <1>15, <1>16, <1>17
  DEF Next, RejectGrant, LookupFails, StatementFails

\* The privileges that an access takes.
Serves(x, a) ==
    \/ a[1] \in {"select", "write"} /\ x.priv = a[1] /\ x.on \in {a[2], All}
    \/ a = << "create", All >> /\ x.priv \in {"create", "alter"} /\ x.on \in {All, "database"}
    \/ provider = "snowflake" /\ x.priv = "usage" /\ x.on = All

Excused(g, a) ==
    \/ Suspended(a)
    \/ g \in lapsed \/ AtWork(g)
    \/ g.target = All /\ << g, a[2] >> \in late

LEMMA ServingIsBacked ==
    ASSUME EffectInv, NEW g \in Grants, NEW k \in Grants, NEW a \in Promise(k),
           NEW x, Serves(x, a), Backed(g, x)
    PROVE  x \in privs \/ Excused(g, a)
<1>1. TypeOK /\ InPass /\ tables \subseteq Tables /\ Tables \cap {All, "database"} = {}
  BY TablesAssumption DEF EffectInv, LedgerInv, TypeOK
<1>2. CASE << g, x.on >> \in late /\ g.target = All
  <2>1. x.on \in Tables  BY <1>1, <1>2 DEF TypeOK
  <2>2. x.on = a[2]  BY <1>1, <2>1 DEF Serves
  <2>3. QED  BY <1>2, <2>2 DEF Excused
<1>3. CASE Granting /\ \E i \in DOMAIN stmts : stmts[i].for = g
  <2>1. stmts # << >>  BY <1>3
  <2>2. AtWork(g)  BY <1>1, <1>3, <2>1, HeadFits
  <2>3. QED  BY <2>2 DEF Excused
<1>4. CASE phase \in {"revoke", "regrant"} /\ Taken(x)
  <2>1. CASE provider = "snowflake"  BY <1>4, <2>1 DEF Suspended, Excused
  <2>2. CASE provider # "snowflake"
    <3>1. PICK h \in pending : x \in Footprint(h) \/ (x.priv = "alter" /\ Creates(h))
      BY <1>4, <2>2 DEF Taken
    <3>2. h \in Grants  BY <1>1, <3>1 DEF TypeOK
    <3>3. CASE a = << "create", All >> /\ x.priv \in {"create", "alter"}
      <4>1. "create" \notin DataPrivs(h) /\ "alter" \notin DataPrivs(h)  BY DEF DataPrivs
      <4>2. Creates(h)
        <5>1. CASE x \in Footprint(h)  BY <3>3, <4>1, <5>1 DEF Footprint
        <5>2. QED  BY <3>1, <5>1
      <4>3. a \in Promise(h)  BY <3>3, <4>2 DEF Promise, Creates
      <4>4. a \in PromiseOf(pending)  BY <3>1, <4>3 DEF PromiseOf
      <4>5. QED  BY <1>4, <4>4 DEF Suspended, Excused
    <3>4. CASE a[1] \in {"select", "write"} /\ x.priv = a[1] /\ x.on \in {a[2], All}
      <4>1. x \in Footprint(h)  BY <3>1, <3>4
      <4>2. h.type # "create" /\ x.priv \in DataPrivs(h) /\ x.on \in Covered(h)
        BY <3>4, <4>1 DEF Footprint
      <4>3. a = << a[1], a[2] >> /\ a[2] \in tables
        BY <3>4 DEF Promise
      <4>4. h.target = All \/ h.target = a[2]
        BY <1>1, <3>2, <3>4, <4>2, GrantIs DEF Covered
      <4>5. a \in Promise(h)  BY <3>4, <4>2, <4>3, <4>4 DEF Promise
      <4>6. a \in PromiseOf(pending)  BY <3>1, <4>5 DEF PromiseOf
      <4>7. QED  BY <1>4, <4>6 DEF Suspended, Excused
    <3>5. QED  BY <2>2, <3>3, <3>4 DEF Serves
  <2>3. QED  BY <2>1, <2>2
<1>5. CASE g \in lapsed  BY <1>5 DEF Excused
<1>6. QED  BY <1>2, <1>3, <1>4, <1>5 DEF Backed

LEMMA AllInEffect ==
    ASSUME EffectInv
    PROVE  RecordedInEffect
<1>1. /\ TypeOK /\ Ledger /\ InForce
      /\ tables \subseteq Tables /\ Tables \cap {All, "database"} = {}
  BY TablesAssumption DEF EffectInv, LedgerInv, TypeOK
<1>2. SUFFICES ASSUME ~suspect, NEW g \in recorded, NEW a \in Promise(g), ~Excused(g, a)
               PROVE  a \in Access
  BY DEF RecordedInEffect, Excused
<1>3. g \in Grants /\ g \in Vouched /\ g.type \in SupportedTypes
  BY <1>1, <1>2 DEF TypeOK, Vouched, Ledger
<1>4. \A x \in Needs(g) : Serves(x, a) => x \in privs
  BY <1>1, <1>2, <1>3, ServingIsBacked DEF InForce
<1>5. provider \in {"clickhouse", "databricks", "sqlserver", "oracle", "snowflake"}
  BY <1>1, ProviderIs
<1>6. provider = "snowflake" => Holds("usage", All)
  <2> DEFINE x == [priv |-> "usage", on |-> All]
  <2>1. x \in [priv : Privs, on : Scopes] /\ x.priv = "usage" /\ x.on = All
    BY DEF Privs, Scopes
  <2>2. provider = "snowflake" => x \in Needs(g) /\ Serves(x, a)
    BY <2>1 DEF Needs, Serves
  <2>3. QED  BY <1>4, <2>2 DEF Holds
<1>7. CASE a = << "create", All >>
  <2>1. Creates(g)
    <3>1. "create" \notin DataPrivs(g)  BY DEF DataPrivs
    <3>2. QED  BY <1>2, <1>7, <3>1 DEF Promise, Creates
  <2>2. provider # "oracle"  BY <1>3, <2>1 DEF Creates, SupportedTypes
  <2>3. ASSUME NEW p \in {"create", "alter"}, NEW on \in {All, "database"},
               p = "create" => on \in CreateScopes,
               p = "alter" => on = All /\ provider = "sqlserver"
        PROVE  Holds(p, on)
    <3> DEFINE x == [priv |-> p, on |-> on]
    <3>1. x \in [priv : Privs, on : Scopes] /\ x.priv = p /\ x.on = on
      BY DEF Privs, Scopes
    <3>2. x \in Needs(g)  BY <2>1, <2>3, <3>1 DEF Needs
    <3>3. Serves(x, a)  BY <1>7, <3>1 DEF Serves
    <3>4. QED  BY <1>4, <3>2, <3>3 DEF Holds
  <2>4. MayCreate
    <3>1. CASE provider = "sqlserver"
      BY <2>3, <3>1 DEF MayCreate, CreateScopes
    <3>2. CASE provider \in {"clickhouse", "databricks", "snowflake"}
      <4>1. All \in CreateScopes  BY <3>2 DEF CreateScopes
      <4>2. Holds("create", All)  BY <2>3, <4>1
      <4>3. QED  BY <1>6, <3>2, <4>2 DEF MayCreate
    <3>3. QED  BY <1>5, <2>2, <3>1, <3>2
  <2>5. QED  BY <1>7, <2>4 DEF Access
<1>8. CASE a # << "create", All >>
  <2> DEFINE p == a[1]
             t == a[2]
  <2>1. /\ a = << p, t >> /\ p \in DataPrivs(g) /\ g.type # "create"
        /\ t \in tables /\ (g.target = All \/ g.target = t)
    BY <1>2, <1>8 DEF Promise
  <2>2. p \in {"select", "write"}  BY <2>1 DEF DataPrivs
  <2>3. PICK on \in {t, All} : /\ on \in NeededOn(g)
                               /\ on = t \/ provider \in {"databricks", "sqlserver"}
    <3>1. CASE g.target = t
      BY <1>1, <2>1, <3>1 DEF NeededOn
    <3>2. CASE g.target = All /\ provider \in {"databricks", "sqlserver"}
      BY <3>2 DEF NeededOn
    <3>3. CASE g.target = All /\ provider = "clickhouse"
      BY <1>1, <2>1, <3>3 DEF NeededOn
    <3>4. CASE g.target = All /\ provider = "oracle"
      BY <1>1, <2>1, <3>4 DEF NeededOn
    <3>5. CASE g.target = All /\ provider = "snowflake"
      BY <1>1, <2>1, <3>5 DEF NeededOn
    <3>6. QED  BY <1>5, <2>1, <3>1, <3>2, <3>3, <3>4, <3>5
  <2>4. Holds(p, on)
    <3> DEFINE x == [priv |-> p, on |-> on]
    <3>1. x \in [priv : Privs, on : Scopes] /\ x.priv = p /\ x.on = on
      <4>1. p \in Privs  BY <2>2 DEF Privs
      <4>2. on \in Scopes  BY <1>1, <2>1 DEF Scopes
      <4>3. QED  BY <4>1, <4>2
    <3>2. x \in Needs(g)  BY <2>1, <2>3, <3>1 DEF Needs
    <3>3. Serves(x, a)  BY <2>2, <3>1 DEF Serves
    <3>4. QED  BY <1>4, <3>2, <3>3 DEF Holds
  <2>5. MayUse(p, t)  BY <1>6, <2>1, <2>3, <2>4 DEF MayUse
  <2> HIDE DEF p, t
  <2>6. QED  BY <1>1, <2>1, <2>2, <2>5 DEF Access
<1>9. QED  BY <1>7, <1>8

\* Where Snowflake's tables stay as they are while a call runs, every recorded grant is in
\* effect in the middle of calls too, except for what RevokeThenRegrant takes until it has
\* granted again, for a table that was dropped, or came on Oracle, since the grant ran, and
\* from a failed call to the next regrant.
THEOREM RecordedGrantsInEffect ==
    ASSUME StableOnSnowflake
    PROVE  Spec => []RecordedInEffect
<1>1. Init => Lapsing /\ InForce
  <2>1. Init => recorded = {} /\ done = {} /\ phase = "idle"  BY DEF Init
  <2>2. Init => Applied = {} /\ Vouched = {}
    BY <2>1 DEF Applied, Vouched, Granting
  <2>3. QED  BY <2>2 DEF Lapsing, InForce
<1>2. EffectInv /\ [Next]_vars => EffectInv'
  BY LedgerInvStep, LapsingStep, InForceStep DEF EffectInv
<1>3. EffectInv => RecordedInEffect  BY AllInEffect
<1>4. Init => EffectInv  BY <1>1, LedgerInvInit DEF EffectInv
<1>5. QED  BY <1>2, <1>3, <1>4, PTL DEF Spec

=============================================================================
