------------------------ MODULE NameResolutionProofs ------------------------
(***************************************************************************)
(* Theorems about NameResolution, for any words and any wildcards in them, *)
(* any number of tables and views, and any number of changes and failures. *)
(***************************************************************************)
EXTENDS NameResolution, FiniteSetTheorems, TLAPS

-----------------------------------------------------------------------------
(* The inductive invariant                                                  *)

\* No two objects share an id, and ids are not used again.
Identified ==
    /\ \A o, p \in catalog : o.id = p.id => o = p
    /\ \A o \in catalog : o.id <= serial

\* A pass has found a spelling of the target, or has come to one of its queries; a
\* revocation on ClickHouse does neither.
Calls ==
    /\ op = "grant" => status = "none"
    /\ op = "revoke" => status = "revoking"
    /\ IF ByName /\ op = "revoke" THEN left = << >> /\ found = {}
       ELSE op # "none" => (left = << >> <=> found # {})
    /\ left \in {<< >>, Queries} \/ (Len(Queries) = 2 /\ left = << Queries[2] >>)
    /\ \A o \in found : o.name \in Spellings

NamesHeld ==
    ByName => /\ held \subseteq {target} /\ renamed = {} /\ shadowed = {}
              /\ (status = "none" => held = {})

\* What the history excuses, and what is left: that is what a revocation has to take.
Strayed == renamed \cup shadowed
Due == held \ Strayed

DueIsReached == ~ByName => Due \subseteq Keys(Reached(catalog))

\* What only the second query finds.
SecondOnly(p) == IF provider = "snowflake" THEN p.kind = "view" ELSE p.name # target

\* A revocation goes for what it has to take, whatever the application does meanwhile:
\* that is what the name it found denotes, or what the query that is left finds.
OnCourse ==
    ~ByName /\ op = "revoke" =>
        \A p \in catalog : p.id \in Due =>
            /\ \A o \in found : p.name = Quoted(o.name)
                                  /\ (provider = "snowflake" => p.kind = o.kind)
            /\ left # << >> /\ left # Queries => SecondOnly(p)

LookupInv == TypeOK /\ Identified /\ Calls
RevocationInv ==
    LookupInv /\ NamesHeld /\ NeverAnotherTable /\ DueIsReached /\ OnCourse /\ RevokedIsGone

-----------------------------------------------------------------------------
(* Names and queries                                                        *)

LEMMA ProviderIs ==
    ASSUME TypeOK
    PROVE  provider \in {"clickhouse", "databricks", "sqlserver", "oracle", "snowflake"}
BY NameProvidersAssumption DEF TypeOK

LEMMA CaseIs ==
    ASSUME NEW n \in Names
    PROVE  /\ Upper(n) \in Names /\ Lower(n) \in Names
           /\ Upper(n).word = n.word /\ Upper(n).case = "upper"
           /\ Lower(n).word = n.word /\ Lower(n).case = "lower"
           /\ Upper(Upper(n)) = Upper(n) /\ Upper(Lower(n)) = Upper(n)
BY DEF Names, Upper, Lower

LEMMA SpellingsAreNames ==
    ASSUME TypeOK
    PROVE  Spellings \subseteq Names /\ \A n \in Spellings : Quoted(n) \in Spellings
<1>1. target \in Names  BY DEF TypeOK
<1>2. Upper(target) \in Names /\ Lower(target) \in Names  BY <1>1, CaseIs
<1>3. \A n \in Spellings : Upper(n) = Upper(target)  BY <1>1, CaseIs DEF Spellings
<1>4. QED  BY <1>1, <1>2, <1>3 DEF Spellings, Quoted

\* The names and kinds a query asks for.
LEMMA OneQuery ==
    ASSUME TypeOK, provider \in {"databricks", "sqlserver", "clickhouse"}
    PROVE  /\ Len(Queries) = 1
           /\ \E n \in Spellings : Queries[1] = << For(Kinds, n) >>
BY DEF Queries, Spellings

LEMMA OracleQueries ==
    ASSUME TypeOK, provider = "oracle"
    PROVE  \/ Queries = << << For(Kinds, target) >> >>
           \/ /\ target # Upper(target)
              /\ Queries = << << For(Kinds, target) >>, << For(Kinds, Upper(target)) >> >>
<1> DEFINE q == << For(Kinds, target) >>
           r == << For(Kinds, Upper(target)) >>
<1>1. Queries = << q >> \o (IF target = Upper(target) THEN << >> ELSE << r >>)
  BY DEF Queries
<1> HIDE DEF q, r
<1>2. << q >> \o << >> = << q >>  OBVIOUS
<1>3. << q >> \o << r >> = << q, r >>
  <2>1. << q >> \in Seq({q, r}) /\ << r >> \in Seq({q, r}) /\ << q, r >> \in Seq({q, r})
    OBVIOUS
  <2> DEFINE s == << q >> \o << r >>
  <2>2. s \in Seq({q, r}) /\ Len(s) = 2 /\ s[1] = q /\ s[2] = r
    BY <2>1
  <2> HIDE DEF s
  <2>3. s = [i \in 1 .. 2 |-> s[i]]  BY <2>2
  <2>4. << q, r >> = [i \in 1 .. 2 |-> << q, r >>[i]]  OBVIOUS
  <2>5. \A i \in 1 .. 2 : s[i] = << q, r >>[i]  BY <2>2
  <2>6. s = << q, r >>  BY <2>3, <2>4, <2>5
  <2>7. QED  BY <2>6 DEF s
<1>4. QED  BY <1>1, <1>2, <1>3 DEF q, r

LEMMA SnowflakeQueries ==
    ASSUME TypeOK, provider = "snowflake"
    PROVE  Queries = << << For({"table"}, target), For({"table"}, Upper(target)) >>,
                        << For({"view"}, target), For({"view"}, Upper(target)) >> >>
BY DEF Queries

\* Every query is for spellings of the target; the second of Snowflake's for views, and
\* Oracle's first for the target as it is written.
LEMMA QueriesAre ==
    ASSUME TypeOK
    PROVE  /\ Len(Queries) \in {1, 2} /\ DOMAIN Queries = 1 .. Len(Queries)
           /\ Len(Queries) = 1 => Queries = << Queries[1] >>
           /\ Len(Queries) = 2 => Queries = << Queries[1], Queries[2] >>
                                    /\ provider \in {"oracle", "snowflake"}
           /\ \A k \in DOMAIN Queries : \A i \in 1 .. Len(Queries[k]) :
                /\ Queries[k][i].name \in Spellings
                /\ Len(Queries) = 2 /\ provider = "snowflake"
                     => Queries[k][i].kinds = IF k = 1 THEN {"table"} ELSE {"view"}
                /\ Len(Queries) = 2 /\ provider = "oracle"
                     => (Queries[k][i].name = target <=> k = 1)
<1>1. CASE provider \in {"databricks", "sqlserver", "clickhouse"}
  <2>1. PICK n \in Spellings : Queries[1] = << For(Kinds, n) >>  BY <1>1, OneQuery
  <2>2. Len(Queries) = 1 /\ DOMAIN Queries = 1 .. 1 /\ Queries = << Queries[1] >>
    BY <1>1 DEF Queries
  <2>3. \A k \in DOMAIN Queries : \A i \in 1 .. Len(Queries[k]) : Queries[k][i] = For(Kinds, n)
    BY <2>1, <2>2
  <2>4. QED  BY <2>2, <2>3 DEF For
<1>2. CASE provider = "oracle"
  <2>1. CASE Queries = << << For(Kinds, target) >> >>
    <3>1. Len(Queries) = 1 /\ DOMAIN Queries = 1 .. 1 /\ Queries = << Queries[1] >>
      BY <2>1
    <3>2. \A k \in DOMAIN Queries : \A i \in 1 .. Len(Queries[k]) :
             Queries[k][i] = For(Kinds, target)
      BY <2>1, <3>1
    <3>3. QED  BY <3>1, <3>2 DEF For, Spellings
  <2>2. CASE /\ target # Upper(target)
             /\ Queries = << << For(Kinds, target) >>, << For(Kinds, Upper(target)) >> >>
    <3>1. Len(Queries) = 2 /\ DOMAIN Queries = 1 .. 2 /\ Queries = << Queries[1], Queries[2] >>
      BY <2>2
    <3>2. \A k \in DOMAIN Queries : \A i \in 1 .. Len(Queries[k]) :
             Queries[k][i] = For(Kinds, IF k = 1 THEN target ELSE Upper(target))
      BY <2>2, <3>1
    <3>3. QED  BY <1>2, <2>2, <3>1, <3>2 DEF For, Spellings
  <2>3. QED  BY <1>2, <2>1, <2>2, OracleQueries
<1>3. CASE provider = "snowflake"
  <2> DEFINE kinds(k) == IF k = 1 THEN {"table"} ELSE {"view"}
  <2>1. Queries = << << For({"table"}, target), For({"table"}, Upper(target)) >>,
                     << For({"view"}, target), For({"view"}, Upper(target)) >> >>
    BY <1>3, SnowflakeQueries
  <2>2. Len(Queries) = 2 /\ DOMAIN Queries = 1 .. 2 /\ Queries = << Queries[1], Queries[2] >>
    BY <2>1
  <2>3. \A k \in DOMAIN Queries : \A i \in 1 .. Len(Queries[k]) :
           Queries[k][i] \in {For(kinds(k), target), For(kinds(k), Upper(target))}
    <3>1. /\ Queries[1] = << For(kinds(1), target), For(kinds(1), Upper(target)) >>
          /\ Queries[2] = << For(kinds(2), target), For(kinds(2), Upper(target)) >>
      BY <2>1
    <3> HIDE DEF kinds
    <3>2. \A k \in DOMAIN Queries :
             Queries[k] = << For(kinds(k), target), For(kinds(k), Upper(target)) >>
      <4>1. TAKE k \in DOMAIN Queries
      <4>2. k = 1 \/ k = 2  BY <2>2
      <4>3. QED  BY <3>1, <4>2
    <3>3. QED  BY <3>2
  <2>4. QED  BY <1>3, <2>2, <2>3 DEF For, Spellings
<1>4. QED  BY <1>1, <1>2, <1>3, ProviderIs

LEMMA FirstIsUnique ==
    ASSUME NEW cat, \A o, p \in cat : o.name = p.name => o = p, NEW wants,
           NEW o \in FirstOf(cat, wants), NEW p \in FirstOf(cat, wants)
    PROVE  o = p
<1>1. PICK i \in 1 .. Len(wants) :
        /\ Answers(o, wants[i])
        /\ \A k \in 1 .. i - 1, r \in cat : ~Answers(r, wants[k])
  BY DEF FirstOf
<1>2. PICK j \in 1 .. Len(wants) :
        /\ Answers(p, wants[j])
        /\ \A k \in 1 .. j - 1, r \in cat : ~Answers(r, wants[k])
  BY DEF FirstOf
<1>3. o \in cat /\ p \in cat  BY DEF FirstOf
<1>4. ~(i < j) /\ ~(j < i)
  <2>1. i < j => i \in 1 .. j - 1  BY <1>1, <1>2
  <2>2. j < i => j \in 1 .. i - 1  BY <1>1, <1>2
  <2>3. QED  BY <1>1, <1>2, <1>3, <2>1, <2>2
<1>5. i = j  BY <1>1, <1>2, <1>4
<1>6. o.name = p.name  BY <1>1, <1>2, <1>5 DEF Answers
<1>7. QED  BY <1>3, <1>6

\* What a query finds goes by a spelling of the target.
LEMMA FirstIsSpelled ==
    ASSUME TypeOK, NEW k \in DOMAIN Queries, NEW cat, NEW o \in FirstOf(cat, Queries[k])
    PROVE  /\ o \in cat /\ o.name \in Spellings
           /\ Len(Queries) = 2 /\ provider = "snowflake" =>
                 o.kind = IF k = 1 THEN "table" ELSE "view"
           /\ Len(Queries) = 2 /\ provider = "oracle" => (o.name = target <=> k = 1)
<1>1. PICK i \in 1 .. Len(Queries[k]) : Answers(o, Queries[k][i])
  BY DEF FirstOf
<1>2. o.name = Queries[k][i].name /\ o.kind \in Queries[k][i].kinds
  BY <1>1 DEF Answers
<1>3. QED  BY <1>2, QueriesAre DEF FirstOf

\* What a pass reaches is what the first query to find anything finds.
LEMMA ReachedBy ==
    ASSUME TypeOK, NEW p \in Reached(catalog)
    PROVE  \E k \in DOMAIN Queries : \E o \in FirstOf(catalog, Queries[k]) :
              /\ p \in NamedBy(o, catalog)
              /\ \A j \in 1 .. k - 1 : FirstOf(catalog, Queries[j]) = {}
BY DEF Reached


-----------------------------------------------------------------------------
(* What no step changes                                                     *)

LEMMA Steady ==
    ASSUME [Next]_vars
    PROVE  /\ provider' = provider /\ target' = target
           /\ ByName' <=> ByName
           /\ Queries' = Queries /\ Spellings' = Spellings
<1>1. provider' = provider /\ target' = target
  BY DEF Next, Application, CreateObject, DropObject, RenameObject, AppChanges, StartGrant,
         CommitRevoke, StartRevoke, CallStep, Query, Statement, TargetVanished, CallFails, vars
<1>2. Spellings' = Spellings  BY <1>1 DEF Spellings
<1>3. ByName' <=> ByName  BY <1>1 DEF ByName
<1>4. Queries' = Queries  BY <1>1 DEF Queries
<1>5. QED  BY <1>1, <1>2, <1>3, <1>4

\* A pass reaches the same in the same catalog.
LEMMA SameReached ==
    ASSUME [Next]_vars
    PROVE  Reached(catalog)' = Reached(catalog')
<1>1. provider' = provider /\ Queries' = Queries  BY Steady
<1>2. PICK c : c = catalog'  OBVIOUS
<1>3. \A n : Quoted(n)' = Quoted(n)  BY <1>1 DEF Quoted
<1>4. \A o : NamedBy(o, c)' = NamedBy(o, c)
  <2>1. TAKE o
  <2>2. \A p : p \in NamedBy(o, c)' <=> p \in NamedBy(o, c)  BY <1>1, <1>3 DEF NamedBy
  <2>3. QED  BY <2>2 DEF NamedBy
<1> DEFINE Some(p) == \E k \in DOMAIN Queries : \E o \in FirstOf(c, Queries[k]) :
                        /\ p \in NamedBy(o, c)
                        /\ \A j \in 1 .. k - 1 : FirstOf(c, Queries[j]) = {}
<1>5. \A p : p \in Reached(c) <=> Some(p)  BY DEF Reached
<1>6. \A p : p \in Reached(c)' <=> Some(p)'  BY DEF Reached
<1>7. \A p : Some(p)' <=> Some(p)  BY <1>1, <1>4
<1> HIDE DEF Some
<1>8. \A p : p \in Reached(c)' <=> p \in Reached(c)  BY <1>5, <1>6, <1>7
<1>9. Reached(c)' = Reached(c)  BY <1>8 DEF Reached
<1>10. QED  BY <1>2, <1>9

\* Elsewhere than on ClickHouse, the keys are the ids.
LEMMA KeysAre ==
    ASSUME ~ByName
    PROVE  /\ \A o : Key(o) = o.id
           /\ \A S : Keys(S) = {o.id : o \in S}
           /\ \A keys, cat : Shadows(keys, cat)
                = keys \cap Keys({o \in cat : o.name \in Spellings} \ Reached(cat))
BY DEF Key, Keys, Shadows

LEMMA InTheCatalog ==
    ASSUME NEW cat
    PROVE  Reached(cat) \subseteq cat /\ \A o : NamedBy(o, cat) \subseteq cat
BY DEF Reached, NamedBy

-----------------------------------------------------------------------------
(* Types                                                                    *)

LEMMA AddressedIs ==
    ASSUME TypeOK
    PROVE  Addressed \subseteq IF ByName THEN Names ELSE {o.id : o \in catalog}
<1>1. CASE ByName  BY <1>1 DEF Addressed, TypeOK
<1>2. CASE ~ByName
  <2>1. UNION {NamedBy(o, catalog) : o \in found} \subseteq catalog  BY InTheCatalog
  <2>2. QED  BY <1>2, <2>1, KeysAre DEF Addressed
<1>3. QED  BY <1>1, <1>2

\* What is passed over has an id.
LEMMA ShadowsAre ==
    ASSUME NEW keys, NEW cat \in SUBSET Objects
    PROVE  Shadows(keys, cat) \subseteq 1 .. MaxObjects
<1>1. CASE ByName  BY <1>1 DEF Shadows
<1>2. CASE ~ByName
  <2>1. Shadows(keys, cat) \subseteq Keys(cat)  BY <1>2 DEF Shadows, Keys
  <2>2. Keys(cat) = {o.id : o \in cat}  BY <1>2, KeysAre
  <2>3. QED  BY <2>1, <2>2 DEF Objects
<1>3. QED  BY <1>1, <1>2

LEMMA OneFound ==
    ASSUME NEW o
    PROVE  Cardinality({o}) <= 1 /\ Cardinality({}) <= 1
<1>1. Cardinality({o}) = 1  BY FS_Singleton
<1>2. Cardinality({}) = 0  BY FS_EmptySet
<1>3. QED  BY <1>1, <1>2

LEMMA TypesKept ==
    ASSUME TypeOK, [Next]_vars
    PROVE  TypeOK'
<1>0. /\ provider' = provider /\ target' = target /\ (ByName' <=> ByName)
  BY Steady
<1>a. SUFFICES ASSUME Next PROVE TypeOK'
  <2>1. CASE UNCHANGED vars  BY <2>1 DEF vars, call, TypeOK, ByName, past
  <2>2. QED  BY <1>a, <2>1
<1>b. MaxObjects \in Nat /\ MaxChanges \in Nat /\ MaxFaults \in Nat
  BY BoundsAssumption
<1>c. ASSUME catalog' \subseteq Objects,
             \A o, p \in catalog' : o.name = p.name => o = p,
             held' \subseteq IF ByName THEN Names ELSE {o.id : o \in catalog'},
             serial' \in 0 .. MaxObjects, lapsed' \in BOOLEAN,
             NEW moved \in SUBSET catalog, AppChanges(moved)
      PROVE  TypeOK'
  <2>1. Shadows(held', catalog') \subseteq 1 .. MaxObjects  BY <1>c, ShadowsAre
  <2>2. ~ByName => held \cap Keys(moved) \subseteq 1 .. MaxObjects
    BY KeysAre DEF TypeOK, Objects
  <2>3. renamed' \subseteq 1 .. MaxObjects /\ shadowed' \subseteq 1 .. MaxObjects
    BY <1>c, <2>1, <2>2 DEF AppChanges, TypeOK
  <2>4. changes' \in 0 .. MaxChanges  BY <1>b, <1>c DEF AppChanges, TypeOK
  <2>5. QED  BY <1>0, <1>c, <2>3, <2>4 DEF TypeOK, AppChanges, call
<1>1. ASSUME NEW n \in Names, NEW kind \in Kinds, CreateObject(n, kind) PROVE TypeOK'
  <2> DEFINE new == [id |-> serial + 1, name |-> n, kind |-> kind]
  <2>1. new \in Objects  BY <1>b, <1>1 DEF CreateObject, TypeOK, Objects
  <2>2. catalog' = catalog \cup {new}  BY <1>1 DEF CreateObject
  <2>3. \A o, p \in catalog' : o.name = p.name => o = p
    BY <1>1, <2>2 DEF CreateObject, Free, TypeOK
  <2>4. held' \subseteq IF ByName THEN Names ELSE {o.id : o \in catalog'}
    BY <1>1, <2>2 DEF CreateObject, TypeOK
  <2>5. serial' \in 0 .. MaxObjects /\ lapsed' \in BOOLEAN
    BY <1>b, <1>1 DEF CreateObject, TypeOK
  <2>6. catalog' \subseteq Objects  BY <2>1, <2>2 DEF TypeOK
  <2>7. AppChanges({})  BY <1>1 DEF CreateObject
  <2>8. QED  BY <1>c, <2>3, <2>4, <2>5, <2>6, <2>7
<1>2. ASSUME NEW o \in catalog, DropObject(o) PROVE TypeOK'
  <2>1. catalog' = catalog \ {o} /\ catalog' \subseteq Objects  BY <1>2 DEF DropObject, TypeOK
  <2>2. \A p, q \in catalog' : p.name = q.name => p = q  BY <2>1 DEF TypeOK
  <2>3. held' \subseteq IF ByName THEN Names ELSE {p.id : p \in catalog'}
    BY <1>2, <2>1 DEF DropObject, TypeOK
  <2>4. serial' \in 0 .. MaxObjects /\ lapsed' \in BOOLEAN  BY <1>2 DEF DropObject, TypeOK
  <2>5. AppChanges({})  BY <1>2 DEF DropObject
  <2>6. QED  BY <1>c, <2>1, <2>2, <2>3, <2>4, <2>5
<1>3. ASSUME NEW o \in catalog, NEW n \in Names, RenameObject(o, n) PROVE TypeOK'
  <2> DEFINE new == [o EXCEPT !.name = n]
  <2>1. new \in Objects /\ new.name = n /\ new.id = o.id  BY DEF TypeOK, Objects
  <2>2. catalog' = (catalog \ {o}) \cup {new}  BY <1>3 DEF RenameObject
  <2> HIDE DEF new
  <2>3. \A p, q \in catalog' : p.name = q.name => p = q
    BY <1>3, <2>1, <2>2 DEF RenameObject, Free, TypeOK
  <2>4. held' \subseteq IF ByName THEN Names ELSE {p.id : p \in catalog'}
    <3>1. held' = held  BY <1>3 DEF RenameObject
    <3>2. \A p \in catalog : \E q \in catalog' : q.id = p.id  BY <2>1, <2>2
    <3>3. QED  BY <3>1, <3>2 DEF TypeOK
  <2>5. serial' \in 0 .. MaxObjects /\ lapsed' \in BOOLEAN  BY <1>3 DEF RenameObject, TypeOK
  <2>6. catalog' \subseteq Objects  BY <2>1, <2>2 DEF TypeOK
  <2>7. AppChanges({o}) /\ {o} \in SUBSET catalog  BY <1>3 DEF RenameObject
  <2>8. QED  BY <1>c, <2>3, <2>4, <2>5, <2>6, <2>7
<1>4. CASE StartGrant \/ CommitRevoke \/ StartRevoke
  BY <1>0, <1>4 DEF StartGrant, CommitRevoke, StartRevoke, TypeOK, call, ByName, past
<1>5. CASE Query
  <2>1. found' = {} \/ \E o \in catalog : found' = {o}
    BY <1>5 DEF Query, Ends, FirstOf
  <2>2. Cardinality(found') <= 1 /\ found' \subseteq Objects  BY <2>1, OneFound DEF TypeOK
  <2>3. op' \in {"none", "grant", "revoke"} /\ (op' = "none" => found' = {} /\ left' = << >>)
    BY <1>5 DEF Query, Ends, TypeOK
  <2>4. status' \in {"none", "applied", "revoking"}  BY <1>5 DEF Query, Passed, TypeOK
  <2>5. QED  BY <1>0, <1>5, <2>2, <2>3, <2>4 DEF Query, TypeOK, past
<1>6. CASE Statement
  <2>1. found' = {} /\ op' = "none" /\ left' = << >>  BY <1>6 DEF Statement, Ends
  <2>2. Cardinality(found') <= 1  BY <2>1, OneFound
  <2>3. held' \subseteq IF ByName THEN Names ELSE {o.id : o \in catalog}
    BY <1>6, AddressedIs DEF Statement, TypeOK
  <2>4. Shadows(Addressed, catalog) \subseteq 1 .. MaxObjects
    BY ShadowsAre DEF TypeOK
  <2>5. /\ renamed' \subseteq 1 .. MaxObjects /\ shadowed' \subseteq 1 .. MaxObjects
        /\ lapsed' \in BOOLEAN /\ status' \in {"none", "applied", "revoking"}
    BY <1>6, <2>4 DEF Statement, TypeOK, past
  <2>6. QED  BY <1>0, <1>6, <2>1, <2>2, <2>3, <2>5 DEF Statement, TypeOK
<1>7. CASE TargetVanished \/ CallFails
  <2>1. found' = {} /\ op' = "none" /\ left' = << >>
    BY <1>7 DEF TargetVanished, CallFails, Ends
  <2>2. Cardinality(found') <= 1  BY <2>1, OneFound
  <2>3. status' \in {"none", "applied", "revoking"}
    BY <1>7 DEF TargetVanished, CallFails, Passed, TypeOK
  <2>4. faults' \in 0 .. MaxFaults  BY <1>b, <1>7 DEF TargetVanished, CallFails, TypeOK
  <2>5. QED
    BY <1>0, <1>7, <2>1, <2>2, <2>3, <2>4 DEF TargetVanished, CallFails, TypeOK, past
<1>8. QED
  BY <1>a, <1>1, <1>2, <1>3, <1>4, <1>5, <1>6, <1>7 DEF Next, Application, CallStep

-----------------------------------------------------------------------------
(* Identities, and the course of a pass                                     *)

LEMMA IdentifiedKept ==
    ASSUME TypeOK, Identified, [Next]_vars
    PROVE  Identified'
<1>0. MaxObjects \in Nat /\ serial \in Nat /\ \A o \in catalog : o.id \in Nat
  BY BoundsAssumption DEF TypeOK, Objects
<1>1. ASSUME NEW n \in Names, NEW kind \in Kinds, CreateObject(n, kind) PROVE Identified'
  <2>1. PICK new : new = [id |-> serial + 1, name |-> n, kind |-> kind]  OBVIOUS
  <2>2. catalog' = catalog \cup {new} /\ serial' = serial + 1 /\ new.id = serial + 1
    BY <1>1, <2>1 DEF CreateObject
  <2>3. \A o \in catalog : o.id <= serial /\ o.id # new.id  BY <1>0, <2>2 DEF Identified
  <2>4. QED  BY <1>0, <2>2, <2>3 DEF Identified
<1>2. ASSUME NEW o \in catalog, DropObject(o) PROVE Identified'
  BY <1>2 DEF DropObject, Identified
<1>3. ASSUME NEW o \in catalog, NEW n \in Names, RenameObject(o, n) PROVE Identified'
  <2>1. PICK new : new = [o EXCEPT !.name = n]  OBVIOUS
  <2>2. new.id = o.id  BY <2>1 DEF TypeOK, Objects
  <2>3. catalog' = (catalog \ {o}) \cup {new} /\ serial' = serial
    BY <1>3, <2>1 DEF RenameObject
  <2>4. QED  BY <2>2, <2>3 DEF Identified
<1>4. CASE UNCHANGED << catalog, serial >>  BY <1>4 DEF Identified
<1>5. StartGrant \/ CommitRevoke \/ StartRevoke \/ CallStep \/ CallFails \/ UNCHANGED vars
        => UNCHANGED << catalog, serial >>
  BY DEF StartGrant, CommitRevoke, StartRevoke, CallStep, Query, Statement, TargetVanished,
         CallFails, vars
<1>6. QED  BY <1>1, <1>2, <1>3, <1>4, <1>5 DEF Next, Application

\* The query at the head of what is left is the first or the last.
LEMMA QueryLeft ==
    ASSUME TypeOK, Calls, left # << >>
    PROVE  \E k \in DOMAIN Queries :
              /\ Head(left) = Queries[k]
              /\ Len(left) > 1 => k = 1 /\ Len(Queries) = 2 /\ Tail(left) = << Queries[2] >>
              /\ Len(left) = 1 => k = Len(Queries)
              /\ Len(left) \in {1, 2}
              /\ k = 1 <=> left = Queries
<1>1. CASE left = Queries
  <2>1. CASE Len(Queries) = 1
    <3>1. Queries = << Queries[1] >> /\ DOMAIN Queries = 1 .. 1  BY <2>1, QueriesAre
    <3>2. PICK a : a = Queries[1]  OBVIOUS
    <3>3. Head(left) = Queries[1]  BY <1>1, <3>1, <3>2
    <3>4. QED  BY <1>1, <2>1, <3>1, <3>3
  <2>2. CASE Len(Queries) = 2
    <3>1. Queries = << Queries[1], Queries[2] >> /\ DOMAIN Queries = 1 .. 2
      BY <2>2, QueriesAre
    <3>2. PICK a, b : a = Queries[1] /\ b = Queries[2]  OBVIOUS
    <3>3. Head(<< a, b >>) = a /\ Tail(<< a, b >>) = << b >>  OBVIOUS
    <3>4. Head(left) = Queries[1] /\ Tail(left) = << Queries[2] >>
      BY <1>1, <3>1, <3>2, <3>3
    <3>5. QED  BY <1>1, <2>2, <3>1, <3>4
  <2>3. QED  BY <2>1, <2>2, QueriesAre
<1>2. CASE Len(Queries) = 2 /\ left = << Queries[2] >>
  <2>1. DOMAIN Queries = 1 .. 2  BY <1>2, QueriesAre
  <2>2. Head(left) = Queries[2] /\ Len(left) = 1  BY <1>2
  <2>3. left # Queries  BY <1>2, <2>2
  <2>4. QED  BY <1>2, <2>1, <2>2, <2>3
<1>3. QED  BY <1>1, <1>2 DEF Calls

LEMMA CallsKept ==
    ASSUME TypeOK, Calls, [Next]_vars
    PROVE  Calls'
<1>0. /\ Queries' = Queries /\ Spellings' = Spellings /\ (ByName' <=> ByName)
  BY Steady
<1>1. CASE Application \/ UNCHANGED vars
  <2>1. UNCHANGED << op, left, found, status >>
    BY <1>1 DEF Application, CreateObject, DropObject, RenameObject, AppChanges, call, vars
  <2>2. QED  BY <1>0, <2>1 DEF Calls
<1>2. CASE StartGrant
  <2>1. /\ op' = "grant" /\ status' = "none" /\ found' = {} /\ left' = Queries
    BY <1>2 DEF StartGrant, TypeOK
  <2>2. Queries # << >>  BY QueriesAre
  <2>3. QED  BY <1>0, <2>1, <2>2 DEF Calls
<1>3. CASE CommitRevoke
  BY <1>0, <1>3 DEF CommitRevoke, Calls, call, TypeOK
<1>4. CASE StartRevoke
  <2>1. /\ op' = "revoke" /\ status' = "revoking" /\ found' = {}
        /\ left' = IF ByName THEN << >> ELSE Queries
    BY <1>4 DEF StartRevoke, TypeOK, RevokeQueries
  <2>2. Queries # << >>  BY QueriesAre
  <2>3. QED  BY <1>0, <2>1, <2>2 DEF Calls
<1>5. ASSUME Ends PROVE Calls'
  BY <1>0, <1>5 DEF Ends, Calls
<1>6. CASE Query
  <2>1. PICK k \in DOMAIN Queries :
          /\ Head(left) = Queries[k]
          /\ Len(left) > 1 => k = 1 /\ Len(Queries) = 2 /\ Tail(left) = << Queries[2] >>
    BY <1>6, QueryLeft DEF Query
  <2>2. ~(ByName /\ op = "revoke")  BY <1>6 DEF Query, Calls
  <2>3. ASSUME NEW o \in FirstOf(catalog, Head(left)), found' = {o}, left' = << >>,
               UNCHANGED << op, status >>
        PROVE  Calls'
    <3>1. o.name \in Spellings  BY <2>1, <2>3, FirstIsSpelled
    <3>2. QED  BY <1>0, <2>2, <2>3, <3>1 DEF Calls
  <2>4. ASSUME Len(left) > 1, left' = Tail(left), UNCHANGED << op, found, status >>
        PROVE  Calls'
    <3>1. Len(Queries) = 2 /\ left' = << Queries[2] >>  BY <2>1, <2>4
    <3>2. left' # << >> /\ found' = {}  BY <1>6, <2>4, <3>1 DEF Query
    <3>3. QED  BY <1>0, <2>2, <2>4, <3>1, <3>2 DEF Calls
  <2>5. QED  BY <1>5, <1>6, <2>3, <2>4 DEF Query
<1>7. CASE Statement \/ TargetVanished \/ CallFails
  BY <1>5, <1>7 DEF Statement, TargetVanished, CallFails
<1>8. QED
  BY <1>1, <1>2, <1>3, <1>4, <1>6, <1>7 DEF Next, CallStep

LEMMA LookupKept ==
    ASSUME LookupInv, [Next]_vars
    PROVE  LookupInv'
BY TypesKept, IdentifiedKept, CallsKept DEF LookupInv

-----------------------------------------------------------------------------
(* What a revocation has to take                                            *)

\* What a statement that names one object refers to.
LEMMA AddressedByName ==
    ASSUME TypeOK, ~ByName, NEW o, found = {o}
    PROVE  Addressed = Keys(NamedBy(o, catalog))
<1>1. UNION {NamedBy(p, catalog) : p \in {o}} = NamedBy(o, catalog)  OBVIOUS
<1>2. QED  BY <1>1 DEF Addressed

LEMMA NamesHeldKept ==
    ASSUME LookupInv, NamesHeld, [Next]_vars
    PROVE  NamesHeld'
<1>0. (ByName' <=> ByName) /\ target' = target  BY Steady
<1>1. SUFFICES ASSUME ByName
               PROVE  /\ held' \subseteq {target} /\ renamed' = {} /\ shadowed' = {}
                      /\ (status' = "none" => held' = {})
  BY <1>0 DEF NamesHeld
<1>2. /\ held \subseteq {target} /\ renamed = {} /\ shadowed = {}
      /\ status = "none" => held = {}
      /\ \A keys, cat : Shadows(keys, cat) = {}
  BY <1>1 DEF NamesHeld, Shadows
<1>3. CASE Application
  <2>1. renamed' = {} /\ shadowed' = {}
    BY <1>1, <1>2, <1>3
       DEF Application, CreateObject, DropObject, RenameObject, AppChanges
  <2>2. held' = held /\ status' = status
    BY <1>1, <1>3 DEF Application, CreateObject, DropObject, RenameObject, AppChanges
  <2>3. QED  BY <1>2, <2>1, <2>2
<1>4. CASE Statement
  <2>1. Addressed = {target}  BY <1>1 DEF Addressed
  <2>2. QED  BY <1>2, <1>4, <2>1 DEF Statement, past
<1>5. CASE Query
  <2>1. op = "grant" /\ status = "none"  BY <1>1, <1>5 DEF Query, LookupInv, Calls, TypeOK
  <2>2. QED  BY <1>2, <1>5, <2>1 DEF Query, past
<1>6. ~TargetVanished
  BY <1>1 DEF TargetVanished, Runs, Addressed
<1>7. CASE StartGrant \/ CommitRevoke \/ StartRevoke \/ CallFails \/ UNCHANGED vars
  BY <1>2, <1>7 DEF StartGrant, CommitRevoke, StartRevoke, CallFails, vars, past
<1>8. QED  BY <1>3, <1>4, <1>5, <1>6, <1>7 DEF Next, CallStep

LEMMA NeverAnotherTableKept ==
    ASSUME LookupInv, NamesHeld, NeverAnotherTable, [Next]_vars
    PROVE  NeverAnotherTable'
<1>0. /\ target' = target /\ Spellings' = Spellings /\ (ByName' <=> ByName)
  BY Steady
<1>1. CASE ByName
  <2>1. held' \subseteq {target}  BY <1>0, <1>1, NamesHeldKept DEF NamesHeld
  <2>2. \A o \in catalog' : Key(o)' \in held' => o.name = target
    BY <1>0, <1>1, <2>1 DEF Key
  <2>3. QED  BY <1>0, <2>2 DEF NeverAnotherTable, Spellings
<1>2. CASE ~ByName
  <2>1. SUFFICES ASSUME NEW p \in catalog', p.id \in held'
                 PROVE  p.name \in Spellings \/ p.id \in renamed'
    <3>1. \A o : Key(o)' = o.id  BY <1>0, <1>2 DEF Key
    <3>2. QED  BY <1>0, <2>1, <3>1 DEF NeverAnotherTable
  <2>3. p \in catalog /\ p.id \in held => p.name \in Spellings \/ p.id \in renamed
    BY <1>2, KeysAre DEF NeverAnotherTable
  <2>4. CASE Application
    <3>1. held' \subseteq held /\ renamed \subseteq renamed'
      BY <2>4 DEF Application, CreateObject, DropObject, RenameObject, AppChanges
    <3>2. CASE p \in catalog  BY <2>1, <2>3, <3>1, <3>2
    <3>3. ASSUME NEW n \in Names, NEW kind \in Kinds, CreateObject(n, kind)
          PROVE  p \in catalog
      <4>1. PICK new : new = [id |-> serial + 1, name |-> n, kind |-> kind]  OBVIOUS
      <4>2. catalog' = catalog \cup {new} /\ new.id = serial + 1
        BY <3>3, <4>1 DEF CreateObject
      <4>3. serial \in Nat /\ \A o \in catalog : o.id <= serial /\ o.id \in Nat
        BY BoundsAssumption DEF LookupInv, Identified, TypeOK, Objects
      <4>4. serial + 1 \notin held  BY <1>2, <4>3 DEF LookupInv, TypeOK
      <4>5. QED  BY <2>1, <3>1, <4>2, <4>4
    <3>4. ASSUME NEW o \in catalog, DropObject(o) PROVE p \in catalog
      BY <2>1, <3>4 DEF DropObject
    <3>5. ASSUME NEW o \in catalog, NEW n \in Names, RenameObject(o, n), p \notin catalog
          PROVE  p.id \in renamed'
      <4>1. PICK new : new = [o EXCEPT !.name = n]  OBVIOUS
      <4>2. new.id = o.id  BY <4>1 DEF LookupInv, TypeOK, Objects
      <4>3. p = new  BY <2>1, <3>5, <4>1 DEF RenameObject
      <4>4. held \cap Keys({o}) \subseteq renamed'
        BY <1>2, <3>5 DEF RenameObject, AppChanges
      <4>5. Keys({o}) = {o.id}  BY <1>2, KeysAre
      <4>6. QED  BY <2>1, <3>1, <4>2, <4>3, <4>4, <4>5
    <3>6. QED  BY <2>4, <3>2, <3>3, <3>4, <3>5 DEF Application
  <2>5. CASE Statement
    <3>1. catalog' = catalog /\ held' \subseteq held \cup Addressed  BY <2>5 DEF Statement
    <3>2. ASSUME p.id \in Addressed PROVE p.name \in Spellings
      <4>1. PICK q \in UNION {NamedBy(o, catalog) : o \in found} : q.id = p.id
        BY <1>2, <3>2, KeysAre DEF Addressed
      <4>2. PICK o \in found : q \in NamedBy(o, catalog)  BY <4>1
      <4>3. q \in catalog /\ q.name = Quoted(o.name)  BY <4>2 DEF NamedBy
      <4>4. q = p  BY <2>1, <3>1, <4>1, <4>3 DEF LookupInv, Identified
      <4>5. o.name \in Spellings  BY <4>2 DEF LookupInv, Calls
      <4>6. QED  BY <4>3, <4>4, <4>5, SpellingsAreNames DEF LookupInv
    <3>3. p.id \notin Addressed /\ p.id \in renamed => p.id \in renamed'
      BY <2>5 DEF Statement, past
    <3>4. QED  BY <2>1, <2>3, <3>1, <3>2, <3>3
  <2>6. CASE UNCHANGED << catalog, held, renamed >>
    BY <2>1, <2>3, <2>6
  <2>7. StartGrant \/ CommitRevoke \/ StartRevoke \/ Query \/ TargetVanished \/ CallFails
          \/ UNCHANGED vars => UNCHANGED << catalog, held, renamed >>
    BY DEF StartGrant, CommitRevoke, StartRevoke, Query, TargetVanished, CallFails, vars, past
  <2>8. QED  BY <2>4, <2>5, <2>6, <2>7 DEF Next, CallStep
<1>3. QED  BY <1>1, <1>2

LEMMA DueIsReachedKept ==
    ASSUME LookupInv, DueIsReached, [Next]_vars, TypeOK', NeverAnotherTable'
    PROVE  DueIsReached'
<1>1. SUFFICES ASSUME ~ByName PROVE Due' \subseteq Keys(Reached(catalog'))
  <2>1. PICK r : r = Reached(catalog')  OBVIOUS
  <2>2. Reached(catalog)' = r  BY <2>1, SameReached
  <2>3. ByName' <=> ByName  BY Steady
  <2>4. ~ByName => Keys(r)' = Keys(r)  BY <2>3 DEF Keys, Key
  <2>5. Keys(Reached(catalog))' = Keys(r)'  BY <2>2 DEF Keys
  <2>6. QED  BY <1>1, <2>1, <2>3, <2>4, <2>5 DEF DueIsReached
\* What is due is in the catalog, under a spelling of the target.
<1>2. ASSUME NEW k \in Due'
      PROVE  \E o \in catalog' : o.id = k /\ o.name \in Spellings
  <2>1. (ByName' <=> ByName) /\ Spellings' = Spellings  BY Steady
  <2>2. PICK o \in catalog' : o.id = k  BY <1>1, <1>2, <2>1 DEF Due, TypeOK
  <2>3. Key(o)' = k  BY <1>1, <2>1, <2>2 DEF Key
  <2>4. k \in held' /\ k \notin renamed'  BY <1>2 DEF Due, Strayed
  <2>5. o.name \in Spellings  BY <2>1, <2>2, <2>3, <2>4 DEF NeverAnotherTable
  <2>6. QED  BY <2>2, <2>5
<1>3. ASSUME NEW k \in Due', NEW keys, k \in keys, Shadows(keys, catalog') \subseteq shadowed'
      PROVE  k \in Keys(Reached(catalog'))
  <2>1. PICK o \in catalog' : o.id = k /\ o.name \in Spellings  BY <1>2, <1>3
  <2>2. k \notin Shadows(keys, catalog')  BY <1>3 DEF Due, Strayed
  <2>3. o \in Reached(catalog')
    <3>1. SUFFICES ASSUME o \notin Reached(catalog') PROVE FALSE  OBVIOUS
    <3>2. o \in {q \in catalog' : q.name \in Spellings} \ Reached(catalog')  BY <2>1, <3>1
    <3>3. k \in Keys({q \in catalog' : q.name \in Spellings} \ Reached(catalog'))
      BY <1>1, <2>1, <3>2 DEF Keys, Key
    <3>4. QED  BY <1>1, <1>3, <2>2, <3>3, KeysAre
  <2>4. QED  BY <1>1, <2>1, <2>3 DEF Keys, Key
<1>4. Due \subseteq Keys(Reached(catalog))  BY <1>1 DEF DueIsReached
<1>5. CASE Application
  <2>1. Shadows(held', catalog') \subseteq shadowed'
    BY <1>5 DEF Application, CreateObject, DropObject, RenameObject, AppChanges
  <2>2. \A k \in Due' : k \in held'  BY DEF Due
  <2>3. QED  BY <1>3, <2>1, <2>2
<1>6. CASE Statement
  <2>1. catalog' = catalog  BY <1>6 DEF Statement
  <2>2. ASSUME NEW k \in Due' PROVE k \in Keys(Reached(catalog))
    <3>1. CASE op = "grant" /\ k \in Addressed
      <4>1. Shadows(Addressed, catalog) \subseteq shadowed'  BY <1>6, <3>1 DEF Statement
      <4>2. Shadows(Addressed, catalog') \subseteq shadowed'  BY <2>1, <4>1
      <4>3. k \in Keys(Reached(catalog'))  BY <1>3, <2>2, <3>1, <4>2
      <4>4. QED  BY <2>1, <4>3
    <3>2. CASE op = "grant" /\ k \notin Addressed
      <4>1. /\ held' = held \cup Addressed /\ renamed' = renamed \ Addressed
            /\ shadowed \ Addressed \subseteq shadowed'
        BY <1>6, <3>2 DEF Statement
      <4>2. k \in Due  BY <2>2, <3>2, <4>1 DEF Due, Strayed
      <4>3. QED  BY <1>4, <4>2
    <3>3. CASE op # "grant"
      <4>1. held' = held \ Addressed /\ renamed' = renamed /\ shadowed' = shadowed
        BY <1>6, <3>3 DEF Statement, past
      <4>2. k \in Due  BY <2>2, <4>1 DEF Due, Strayed
      <4>3. QED  BY <1>4, <4>2
    <3>4. QED  BY <3>1, <3>2, <3>3
  <2>3. QED  BY <2>1, <2>2
<1>7. CASE UNCHANGED << catalog, held, renamed, shadowed >>
  BY <1>4, <1>7 DEF Due, Strayed
<1>8. StartGrant \/ CommitRevoke \/ StartRevoke \/ Query \/ TargetVanished \/ CallFails
        \/ UNCHANGED vars => UNCHANGED << catalog, held, renamed, shadowed >>
  BY DEF StartGrant, CommitRevoke, StartRevoke, Query, TargetVanished, CallFails, vars, past
<1>9. QED  BY <1>5, <1>6, <1>7, <1>8 DEF Next, CallStep

\* What a revocation has to take is what one of the queries finds, the second only if it is
\* of the kind or the name which that one asks for.
LEMMA DueIsFound ==
    ASSUME LookupInv, DueIsReached, ~ByName, NEW p \in catalog, p.id \in Due
    PROVE  \E k \in DOMAIN Queries : \E o \in FirstOf(catalog, Queries[k]) :
              /\ p \in NamedBy(o, catalog)
              /\ \A j \in 1 .. k - 1 : FirstOf(catalog, Queries[j]) = {}
              /\ Len(Queries) = 2 => (SecondOnly(p) <=> k = 2)
<1>1. p \in Reached(catalog)
  <2>1. PICK q \in Reached(catalog) : q.id = p.id  BY KeysAre DEF DueIsReached
  <2>2. q \in catalog  BY InTheCatalog
  <2>3. QED  BY <2>1, <2>2 DEF LookupInv, Identified
<1>2. PICK k \in DOMAIN Queries : \E o \in FirstOf(catalog, Queries[k]) :
         /\ p \in NamedBy(o, catalog)
         /\ \A j \in 1 .. k - 1 : FirstOf(catalog, Queries[j]) = {}
  BY <1>1, ReachedBy DEF LookupInv
<1>3. PICK o \in FirstOf(catalog, Queries[k]) :
         /\ p \in NamedBy(o, catalog)
         /\ \A j \in 1 .. k - 1 : FirstOf(catalog, Queries[j]) = {}
  BY <1>2
<1>4. ASSUME Len(Queries) = 2 PROVE SecondOnly(p) <=> k = 2
  <2>1. k \in {1, 2} /\ provider \in {"oracle", "snowflake"}
    BY <1>4, QueriesAre DEF LookupInv
  <2>2. CASE provider = "snowflake"
    <3>1. o.kind = IF k = 1 THEN "table" ELSE "view"
      BY <1>4, <2>2, FirstIsSpelled DEF LookupInv
    <3>2. p.kind = o.kind  BY <1>3, <2>2 DEF NamedBy
    <3>3. QED  BY <2>1, <2>2, <3>1, <3>2 DEF SecondOnly
  <2>3. CASE provider = "oracle"
    <3>1. o.name = target <=> k = 1
      BY <1>4, <2>3, FirstIsSpelled DEF LookupInv
    <3>2. p.name = o.name  BY <1>3, <2>3 DEF NamedBy, Quoted
    <3>3. QED  BY <2>1, <2>3, <3>1, <3>2 DEF SecondOnly
  <2>4. QED  BY <2>1, <2>2, <2>3
<1>5. QED  BY <1>3, <1>4

\* The query that comes next in a revocation finds what it has to take, or a later one does.
LEMMA QueryForDue ==
    ASSUME LookupInv, DueIsReached, OnCourse, ~ByName, op = "revoke", left # << >>,
           NEW p \in catalog, p.id \in Due
    PROVE  /\ FirstOf(catalog, Head(left)) = {} => Len(left) > 1 /\ SecondOnly(p)
           /\ \A o \in FirstOf(catalog, Head(left)) : p \in NamedBy(o, catalog)
<1>1. PICK k \in DOMAIN Queries, f \in catalog :
         /\ f \in FirstOf(catalog, Queries[k])
         /\ p \in NamedBy(f, catalog)
         /\ \A j \in 1 .. k - 1 : FirstOf(catalog, Queries[j]) = {}
         /\ Len(Queries) = 2 => (SecondOnly(p) <=> k = 2)
  BY DueIsFound DEF FirstOf
<1>2. PICK h \in DOMAIN Queries :
         /\ Head(left) = Queries[h]
         /\ Len(left) > 1 => h = 1 /\ Len(Queries) = 2 /\ Tail(left) = << Queries[2] >>
         /\ Len(left) = 1 => h = Len(Queries)
         /\ Len(left) \in {1, 2}
         /\ h = 1 <=> left = Queries
  BY QueryLeft DEF LookupInv
<1>3. DOMAIN Queries = 1 .. Len(Queries) /\ Len(Queries) \in {1, 2}
  BY QueriesAre DEF LookupInv
<1>4. CASE h = k
  <2>1. \A o \in FirstOf(catalog, Head(left)) : o = f
    BY <1>1, <1>2, <1>4, FirstIsUnique DEF LookupInv, TypeOK
  <2>2. QED  BY <1>1, <1>2, <1>4, <2>1
<1>5. CASE h < k
  <2>1. h = 1 /\ k = 2 /\ Len(Queries) = 2  BY <1>3, <1>5
  <2>2. FirstOf(catalog, Queries[1]) = {}  BY <1>1, <2>1
  <2>3. Len(left) > 1
    <3>1. Len(left) # 1  BY <1>2, <2>1
    <3>2. Len(left) = 2  BY <1>2, <3>1
    <3>3. QED  BY <3>2
  <2>4. QED  BY <1>1, <1>2, <2>1, <2>2, <2>3
<1>6. ~(k < h)
  <2>1. SUFFICES ASSUME k < h PROVE FALSE  OBVIOUS
  <2>2. h = 2 /\ k = 1 /\ Len(Queries) = 2  BY <1>3, <2>1
  <2>3. left # Queries  BY <1>2, <2>2
  <2>4. SecondOnly(p)  BY <2>3 DEF OnCourse
  <2>5. QED  BY <1>1, <2>2, <2>4
<1>7. QED  BY <1>3, <1>4, <1>5, <1>6

\* What a revocation has to take is an unchanged object of the catalog before.
LEMMA DueIsUnchanged ==
    ASSUME LookupInv, ~ByName, Application, NEW p \in catalog', p.id \in Due'
    PROVE  p \in catalog /\ p.id \in Due
<1>0. Strayed \subseteq Strayed' /\ serial \in Nat
  <2>1. Strayed \subseteq Strayed'
    BY DEF Strayed, Application, CreateObject, DropObject, RenameObject, AppChanges
  <2>2. serial \in Nat  BY BoundsAssumption DEF LookupInv, TypeOK
  <2>3. QED  BY <2>1, <2>2
<1>1. held' \subseteq held
  BY DEF Application, CreateObject, DropObject, RenameObject
<1>2. p.id \in Due  BY <1>0, <1>1 DEF Due
<1>3. ASSUME NEW n \in Names, NEW kind \in Kinds, CreateObject(n, kind) PROVE p \in catalog
  <2>1. PICK new : new = [id |-> serial + 1, name |-> n, kind |-> kind]  OBVIOUS
  <2>2. catalog' = catalog \cup {new} /\ new.id = serial + 1  BY <1>3, <2>1 DEF CreateObject
  <2>3. \A o \in catalog : o.id <= serial /\ o.id \in Nat
    BY DEF LookupInv, Identified, TypeOK, Objects
  <2>4. serial + 1 \notin held  BY <1>0, <2>3 DEF LookupInv, TypeOK
  <2>5. QED  BY <1>2, <2>2, <2>4 DEF Due
<1>4. ASSUME NEW o \in catalog, DropObject(o) PROVE p \in catalog
  BY <1>4 DEF DropObject
<1>5. ASSUME NEW o \in catalog, NEW n \in Names, RenameObject(o, n) PROVE p \in catalog
  <2>1. PICK new : new = [o EXCEPT !.name = n]  OBVIOUS
  <2>2. new.id = o.id  BY <2>1 DEF LookupInv, TypeOK, Objects
  <2>3. catalog' = (catalog \ {o}) \cup {new}  BY <1>5, <2>1 DEF RenameObject
  <2>4. held \cap Keys({o}) \subseteq Strayed'  BY <1>5 DEF RenameObject, AppChanges, Strayed
  <2>5. o.id \in held => o.id \in Strayed'
    <3>1. Keys({o}) = {o.id}  BY KeysAre
    <3>2. QED  BY <2>4, <3>1
  <2>6. o.id \notin Due'  BY <1>1, <2>5 DEF Due
  <2>7. QED  BY <2>2, <2>3, <2>6
<1>6. QED  BY <1>2, <1>3, <1>4, <1>5 DEF Application

LEMMA OnCourseKept ==
    ASSUME LookupInv, DueIsReached, OnCourse, [Next]_vars
    PROVE  OnCourse'
<1>0. /\ provider' = provider /\ target' = target /\ Queries' = Queries
      /\ (ByName' <=> ByName)
  BY Steady
<1>s. \A p : SecondOnly(p)' <=> SecondOnly(p)  BY <1>0 DEF SecondOnly
<1>q. \A n : Quoted(n)' = Quoted(n)  BY <1>0 DEF Quoted
<1>1. SUFFICES ASSUME ~ByName, op' = "revoke", NEW p \in catalog', p.id \in Due'
               PROVE  /\ \A o \in found' : p.name = Quoted(o.name)
                                  /\ (provider = "snowflake" => p.kind = o.kind)
                      /\ left' # << >> /\ left' # Queries => SecondOnly(p)
  BY <1>0, <1>s, <1>q DEF OnCourse
<1>2. CASE Application \/ UNCHANGED vars
  <2>1. UNCHANGED << op, left, found >>
    BY <1>2 DEF Application, CreateObject, DropObject, RenameObject, AppChanges, call, vars
  <2>2. p \in catalog /\ p.id \in Due
    <3>1. CASE Application  BY <1>1, <3>1, DueIsUnchanged
    <3>2. CASE UNCHANGED vars  BY <1>1, <3>2 DEF vars, past, Due, Strayed
    <3>3. QED  BY <1>2, <3>1, <3>2
  <2>3. QED  BY <1>1, <2>1, <2>2 DEF OnCourse
<1>3. CASE StartRevoke
  BY <1>1, <1>3 DEF StartRevoke, RevokeQueries, LookupInv, TypeOK
<1>4. CASE Query
  <2>1. /\ p \in catalog /\ p.id \in Due /\ op = "revoke" /\ left # << >> /\ found = {}
    BY <1>1, <1>4 DEF Query, Due, Strayed, past, Ends
  <2>2. /\ FirstOf(catalog, Head(left)) = {} => Len(left) > 1 /\ SecondOnly(p)
        /\ \A o \in FirstOf(catalog, Head(left)) : p \in NamedBy(o, catalog)
    BY <1>1, <2>1, QueryForDue
  <2>3. ASSUME NEW o \in FirstOf(catalog, Head(left)), found' = {o}, left' = << >>
        PROVE  /\ \A r \in found' : p.name = Quoted(r.name)
                                  /\ (provider = "snowflake" => p.kind = r.kind)
               /\ left' # << >> /\ left' # Queries => SecondOnly(p)
    BY <2>2, <2>3 DEF NamedBy
  <2>4. CASE FirstOf(catalog, Head(left)) = {} /\ found' = {}
    BY <2>2, <2>4
  <2>5. QED  BY <1>1, <1>4, <2>1, <2>3, <2>4 DEF Query, Ends
<1>5. op' # "revoke" \/ Application \/ UNCHANGED vars \/ StartRevoke \/ Query
  <2>1. StartGrant => op' = "grant"  BY DEF StartGrant
  <2>2. CommitRevoke => op' = "none"  BY DEF CommitRevoke, call
  <2>3. Statement \/ TargetVanished \/ CallFails => op' = "none"
    BY DEF Statement, TargetVanished, CallFails, Ends
  <2>4. QED  BY <2>1, <2>2, <2>3 DEF Next, CallStep
<1>6. QED  BY <1>1, <1>2, <1>3, <1>4, <1>5

LEMMA RevokedIsGoneKept ==
    ASSUME RevocationInv, [Next]_vars
    PROVE  RevokedIsGone'
<1>0. LookupInv /\ NamesHeld /\ DueIsReached /\ OnCourse /\ RevokedIsGone
  BY DEF RevocationInv
<1>1. SUFFICES ASSUME status' = "none" PROVE held' \subseteq Strayed'
  BY DEF RevokedIsGone, Strayed
<1>r. status = "none" => held \subseteq Strayed  BY <1>0 DEF RevokedIsGone, Strayed
<1>2. CASE Application
  <2>1. status = "none" /\ Strayed \subseteq Strayed' /\ held' \subseteq held
    BY <1>1, <1>2
       DEF Strayed, Application, CreateObject, DropObject, RenameObject, AppChanges
  <2>2. QED  BY <1>r, <2>1
<1>3. CASE UNCHANGED << status, held, Strayed >>
  BY <1>r, <1>1, <1>3
<1>4. StartGrant \/ CommitRevoke \/ StartRevoke \/ CallFails \/ UNCHANGED vars
        => UNCHANGED << status, held, Strayed >>
  BY <1>1 DEF StartGrant, CommitRevoke, StartRevoke, CallFails, vars, past, Strayed
\* Every object due is in the catalog.
<1>5. ~ByName => \A k \in Due : \E p \in catalog : p.id = k
  BY <1>0 DEF LookupInv, TypeOK, Due
<1>x. Query \/ TargetVanished => UNCHANGED << held, Strayed >>
  BY DEF Query, TargetVanished, past, Strayed
<1>6. CASE Query
  <2>1. CASE UNCHANGED status  BY <1>3, <1>6, <1>x, <2>1
  <2>2. CASE op = "grant"
    <3>1. status = "none"  BY <1>0, <2>2 DEF LookupInv, Calls
    <3>2. QED  BY <1>1, <1>3, <1>6, <1>x, <3>1
  <2>3. CASE op = "revoke" /\ FirstOf(catalog, Head(left)) = {} /\ Len(left) = 1
    <3>1. ~ByName /\ left # << >>  BY <1>0, <1>6, <2>3 DEF Query, LookupInv, Calls
    <3>2. \A p \in catalog : p.id \notin Due  BY <1>0, <2>3, <3>1, QueryForDue
    <3>3. held \subseteq Strayed  BY <1>5, <3>1, <3>2 DEF Due
    <3>4. QED  BY <1>6, <1>x, <3>3
  <2>4. QED  BY <1>0, <1>6, <2>1, <2>2, <2>3 DEF Query, LookupInv, TypeOK
<1>7. ASSUME Ready, op = "revoke" PROVE held \ Addressed \subseteq Strayed
  <2>1. CASE ByName
    <3>1. Addressed = {target}  BY <2>1 DEF Addressed
    <3>2. held \subseteq {target}  BY <1>0, <2>1 DEF NamesHeld
    <3>3. QED  BY <3>1, <3>2
  <2>2. CASE ~ByName
    <3>1. found # {}  BY <1>0, <1>7, <2>2 DEF Ready, LookupInv, Calls
    <3>2. PICK o : o \in found  BY <3>1
    <3>3. ASSUME NEW p \in catalog, p.id \in Due PROVE p.id \in Addressed
      <4>1. /\ p.name = Quoted(o.name)
            /\ provider = "snowflake" => p.kind = o.kind
        BY <1>0, <1>7, <2>2, <3>2, <3>3 DEF OnCourse
      <4>2. p \in NamedBy(o, catalog)  BY <4>1 DEF NamedBy
      <4>3. p \in UNION {NamedBy(r, catalog) : r \in found}  BY <3>2, <4>2
      <4>4. QED  BY <2>2, <4>3, KeysAre DEF Addressed
    <3>4. Due \subseteq Addressed  BY <1>5, <2>2, <3>3
    <3>5. QED  BY <3>4 DEF Due
  <2>3. QED  BY <2>1, <2>2
<1>8. CASE Statement
  <2>1. op \in {"grant", "revoke"}  BY <1>0, <1>8 DEF Statement, Ready, LookupInv, TypeOK
  <2>2. op # "grant"  BY <1>1, <1>8 DEF Statement
  <2>3. held' = held \ Addressed /\ Strayed' = Strayed  
    BY <1>8, <2>1, <2>2 DEF Statement, past, Strayed
  <2>4. QED  BY <1>7, <1>8, <2>1, <2>2, <2>3 DEF Statement
<1>9. CASE TargetVanished
  <2>1. UNCHANGED << held, Strayed >> /\ Ready /\ Addressed = {}
    BY <1>9, <1>x DEF TargetVanished, Runs
  <2>2. CASE op = "revoke"
    <3>1. held \subseteq Strayed  BY <1>7, <2>1, <2>2
    <3>2. QED  BY <2>1, <3>1
  <2>3. CASE op = "grant"
    <3>1. status = "none"  BY <1>0, <2>3 DEF LookupInv, Calls
    <3>2. QED  BY <1>r, <2>1, <3>1
  <2>4. QED  BY <1>0, <2>1, <2>2, <2>3 DEF Ready, LookupInv, TypeOK
<1>10. QED  BY <1>2, <1>3, <1>4, <1>6, <1>8, <1>9 DEF Next, CallStep

-----------------------------------------------------------------------------
(* What is reported as applied                                              *)

LEMMA AppliedIsHeldKept ==
    ASSUME TypeOK, AppliedIsHeld, [Next]_vars
    PROVE  AppliedIsHeld'
<1>1. CASE Application
  <2>0. status' = status
    BY <1>1 DEF Application, CreateObject, DropObject, RenameObject, AppChanges
  <2>1. lapsed => lapsed'
    <3>1. ASSUME NEW o \in catalog, DropObject(o) PROVE lapsed => lapsed'
      BY <3>1 DEF DropObject
    <3>2. ASSUME NEW o \in catalog, NEW n \in Names, RenameObject(o, n)
          PROVE  lapsed => lapsed'
      BY <3>2 DEF RenameObject
    <3>3. ASSUME NEW n \in Names, NEW kind \in Kinds, CreateObject(n, kind)
          PROVE  lapsed => lapsed'
      BY <3>3 DEF CreateObject
    <3>4. QED  BY <1>1, <3>1, <3>2, <3>3 DEF Application
  <2>2. held' = {} => held = {} \/ lapsed'
    <3>1. ASSUME NEW o \in catalog, DropObject(o) PROVE held' = {} => held = {} \/ lapsed'
      <4>1. CASE ByName  BY <3>1, <4>1 DEF DropObject
      <4>2. CASE ~ByName
        <5>1. held' = held \ {o.id}  BY <3>1, <4>2 DEF DropObject
        <5>2. o.id \in held => lapsed'
          <6>1. Key(o) = o.id  BY <4>2, KeysAre
          <6>2. QED  BY <3>1, <6>1 DEF DropObject
        <5>3. QED  BY <5>1, <5>2
      <4>3. QED  BY <4>1, <4>2
    <3>2. (\E n \in Names, kind \in Kinds : CreateObject(n, kind))
            \/ (\E o \in catalog, n \in Names : RenameObject(o, n)) => held' = held
      BY DEF CreateObject, RenameObject
    <3>3. QED  BY <1>1, <3>1, <3>2 DEF Application
  <2>3. QED  BY <2>0, <2>1, <2>2 DEF AppliedIsHeld
<1>2. CASE Statement
  <2>1. CASE op = "grant"
    <3>1. Addressed # {} /\ held' = held \cup Addressed
      BY <1>2, <2>1 DEF Statement, Runs
    <3>2. QED  BY <3>1 DEF AppliedIsHeld
  <2>2. CASE op # "grant"
    BY <1>2, <2>2 DEF Statement, AppliedIsHeld
  <2>3. QED  BY <2>1, <2>2
<1>3. status' = "applied" => UNCHANGED << status, held, lapsed >> \/ Application \/ Statement
  <2>1. Query => UNCHANGED << held, lapsed >> /\ (status' = status \/ status' = "none")
    BY DEF Query, Passed, past
  <2>2. TargetVanished => UNCHANGED << held, lapsed >> /\ (status' = status \/ status' = "none")
    BY DEF TargetVanished, Passed, past
  <2>3. StartGrant \/ StartRevoke \/ CallFails \/ UNCHANGED vars
          => UNCHANGED << status, held, lapsed >>
    BY DEF StartGrant, StartRevoke, CallFails, vars, past
  <2>4. CommitRevoke => status' = "revoking"  BY DEF CommitRevoke
  <2>5. QED  BY <2>1, <2>2, <2>3, <2>4 DEF Next, CallStep
<1>4. QED  BY <1>1, <1>2, <1>3 DEF AppliedIsHeld

-----------------------------------------------------------------------------
(* Theorems                                                                 *)

LEMMA InvariantsInit ==
    ASSUME Init
    PROVE  RevocationInv /\ AppliedIsHeld
<1>1. TypeOK
  <2>1. MaxObjects \in Nat /\ MaxChanges \in Nat /\ MaxFaults \in Nat  BY BoundsAssumption
  <2>2. Cardinality({}) <= 1  BY OneFound
  <2>3. /\ catalog = {} /\ held = {} /\ found = {} /\ left = << >>
        /\ renamed = {} /\ shadowed = {}
        /\ op = "none" /\ status = "none" /\ lapsed = FALSE
        /\ serial = 0 /\ changes = 0 /\ faults = 0
        /\ provider \in NameProviders /\ target \in Names
    BY DEF Init
  <2>4. /\ serial \in 0 .. MaxObjects /\ changes \in 0 .. MaxChanges
        /\ faults \in 0 .. MaxFaults
    BY <2>1, <2>3
  <2>5. Cardinality(found) <= 1  BY <2>2, <2>3
  <2>6. QED  BY <2>3, <2>4, <2>5 DEF TypeOK
<1>2. Identified /\ Calls  BY DEF Init, Identified, Calls
<1>3. NamesHeld /\ DueIsReached /\ OnCourse /\ RevokedIsGone
  BY DEF Init, NamesHeld, Due, DueIsReached, OnCourse, RevokedIsGone
<1>4. NeverAnotherTable /\ AppliedIsHeld  BY DEF Init, NeverAnotherTable, AppliedIsHeld
<1>5. QED  BY <1>1, <1>2, <1>3, <1>4 DEF RevocationInv, LookupInv

LEMMA RevocationInvariant == Spec => []RevocationInv
<1>1. Init => RevocationInv  BY InvariantsInit
<1>2. ASSUME RevocationInv, [Next]_vars PROVE RevocationInv'
  <2>1. LookupInv' /\ NamesHeld' /\ NeverAnotherTable'
    BY <1>2, LookupKept, NamesHeldKept, NeverAnotherTableKept DEF RevocationInv
  <2>2. DueIsReached'  BY <1>2, <2>1, DueIsReachedKept DEF RevocationInv, LookupInv
  <2>3. OnCourse' /\ RevokedIsGone'
    BY <1>2, OnCourseKept, RevokedIsGoneKept DEF RevocationInv
  <2>4. QED  BY <2>1, <2>2, <2>3 DEF RevocationInv
<1>3. QED  BY <1>1, <1>2, PTL DEF Spec

\* NameResolution.TypeOK: among others, the account only ever has privileges on tables and
\* views that are there, and a lookup comes to one of them.
THEOREM NameTypes == Spec => []TypeOK
<1>1. RevocationInv => TypeOK  BY DEF RevocationInv, LookupInv
<1>2. QED  BY <1>1, RevocationInvariant, PTL

\* However many tables and views the application creates, drops and renames between the
\* queries of a pass and its statement, and whatever wildcards their names match, what a
\* grant reaches goes by a spelling of its target when the statement runs: an account holds
\* another table only if that one was renamed after it was granted.
THEOREM NothingElseIsGranted == Spec => []NeverAnotherTable
<1>1. RevocationInv => NeverAnotherTable  BY DEF RevocationInv
<1>2. QED  BY <1>1, RevocationInvariant, PTL

\* A grant reported as applied has reached a table or a view: what vanishes between its
\* lookup and its statement leaves it deferred, or fails the call.
THEOREM AppliedHasReached == Spec => []AppliedIsHeld
<1>1. Init => AppliedIsHeld  BY InvariantsInit
<1>2. TypeOK /\ AppliedIsHeld /\ [Next]_vars => AppliedIsHeld'  BY AppliedIsHeldKept
<1>3. QED  BY <1>1, <1>2, NameTypes, PTL DEF Spec

\* A revocation that ends, with its statement run or skipped, leaves the account its
\* privilege only on what was renamed or what the lookup did not lead to any more.
THEOREM RevocationLeavesNothing == Spec => []RevokedIsGone
<1>1. RevocationInv => RevokedIsGone  BY DEF RevocationInv
<1>2. QED  BY <1>1, RevocationInvariant, PTL

-----------------------------------------------------------------------------
(* What was found is what is granted on, where names are quoted as they are *)

\* ClickHouse finds the target under the name that is written.
FoundByName == ByName => \A o \in found : o.name = target

LEMMA FoundByNameKept ==
    ASSUME LookupInv, FoundByName, [Next]_vars
    PROVE  FoundByName'
<1>0. (ByName' <=> ByName) /\ target' = target  BY Steady
<1>1. SUFFICES ASSUME ByName, NEW o \in found' PROVE o.name = target
  BY <1>0 DEF FoundByName
<1>2. CASE o \in found  BY <1>1, <1>2 DEF FoundByName
<1>3. CASE Query /\ o \in FirstOf(catalog, Head(left))
  <2>1. Queries = << << For(Kinds, target) >> >>  BY <1>1 DEF ByName, Queries
  <2>2. Queries[1] = << For(Kinds, target) >> /\ DOMAIN Queries = 1 .. 1  BY <2>1
  <2>3. Head(left) = << For(Kinds, target) >>
    BY <1>3, <2>2, QueryLeft DEF Query, LookupInv
  <2>4. PICK i \in 1 .. Len(<< For(Kinds, target) >>) :
          Answers(o, << For(Kinds, target) >>[i])
    BY <1>3, <2>3 DEF FirstOf
  <2>5. QED  BY <2>4 DEF Answers, For
<1>4. o \in found \/ (Query /\ o \in FirstOf(catalog, Head(left)))
  <2>1. Application \/ StartGrant \/ CommitRevoke \/ StartRevoke \/ UNCHANGED vars
          => found' = found
    BY DEF Application, CreateObject, DropObject, RenameObject, AppChanges, call, StartGrant,
           CommitRevoke, StartRevoke, vars
  <2>2. Statement \/ TargetVanished \/ CallFails => found' = {}
    BY DEF Statement, TargetVanished, CallFails, Ends
  <2>3. Query => found' = found \/ found' = {}
                   \/ \E r \in FirstOf(catalog, Head(left)) : found' = {r}
    BY DEF Query, Ends
  <2>4. QED  BY <1>1, <2>1, <2>2, <2>3 DEF Next, CallStep
<1>5. QED  BY <1>2, <1>3, <1>4

\* Where names are quoted as the catalog has them, on every provider but Snowflake, a grant
\* that is applied is a grant on what the lookup found, if that is still there.
THEOREM FoundIsGranted ==
    ASSUME "snowflake" \notin NameProviders
    PROVE  Spec => AppliedToFound
<1>1. Init => FoundByName  BY DEF Init, FoundByName
<1>2. RevocationInv /\ FoundByName /\ [Next]_vars => FoundByName'
  BY FoundByNameKept DEF RevocationInv
<1>3. ASSUME RevocationInv, FoundByName, Next,
             status = "none", status' = "applied", found \subseteq catalog
      PROVE  Keys(found) \subseteq held'
  <2>1. Statement /\ op = "grant"
    <3>1. Statement
      BY <1>3 DEF Next, Application, CreateObject, DropObject, RenameObject, AppChanges,
                  StartGrant, CommitRevoke, StartRevoke, CallStep, Query, TargetVanished,
                  CallFails, Passed
    <3>2. op # "grant" => status' = "none"  BY <3>1 DEF Statement
    <3>3. QED  BY <1>3, <3>1, <3>2
  <2>2. Addressed \subseteq held'  BY <2>1 DEF Statement
  <2>3. CASE ByName
    <3>1. Addressed = {target}  BY <2>3 DEF Addressed
    <3>2. Keys(found) \subseteq {target}  BY <1>3, <2>3 DEF FoundByName, Keys, Key
    <3>3. QED  BY <2>2, <3>1, <3>2
  <2>4. CASE ~ByName
    <3>1. provider # "snowflake"  BY <1>3 DEF RevocationInv, LookupInv, TypeOK
    <3>2. \A o \in found : o \in NamedBy(o, catalog)
      BY <1>3, <3>1 DEF NamedBy, Quoted
    <3>3. found \subseteq UNION {NamedBy(o, catalog) : o \in found}  BY <3>2
    <3>4. Keys(found) \subseteq Addressed  BY <2>4, <3>3, KeysAre DEF Addressed
    <3>5. QED  BY <2>2, <3>4
  <2>5. QED  BY <2>3, <2>4
<1>4. RevocationInv /\ FoundByName /\ [Next]_vars =>
        [status = "none" /\ status' = "applied" /\ found \subseteq catalog
           => Keys(found) \subseteq held']_vars
  BY <1>3
<1>5. QED  BY <1>1, <1>2, <1>4, RevocationInvariant, PTL DEF Spec, AppliedToFound

=============================================================================
