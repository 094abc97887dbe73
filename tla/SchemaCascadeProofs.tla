------------------------- MODULE SchemaCascadeProofs -------------------------
(***************************************************************************)
(* Theorems about SchemaCascade: types, that nothing comes off the list    *)
(* that is still there, and that the order of the cascade is never the     *)
(* reason for a refusal.                                                   *)
(***************************************************************************)
EXTENDS SchemaCascade, TLAPS

SchemaSteps == {"check_schema", "fks", "view", "table", "sequence", "drop_schema"}
ListingSteps == {"fks", "view", "table", "sequence"}

\* A call is at a step of the artifact at the head of the list; what comes before that
\* in the order is gone, and rows are only kept while their class is being dropped.
InStep ==
    /\ step \in SchemaSteps => todo = << "schema", "user", "login" >>
    /\ step = "drop_user" => todo = << "user", "login" >>
    /\ step \in {"check_login", "drop_login"} => todo = << "login" >>
    /\ todo \in {<< "user", "login" >>, << "login" >>} => "schema" \notin there
    /\ step \notin ListingSteps => ~listed

\* What refers to what.
References ==
    /\ \A f \in fks : kind[f[1]] = "table" /\ kind[f[2]] = "table"
    /\ \A b \in bound : \/ kind[b[1]] = "view" /\ kind[b[2]] \in {"view", "table"}
                        \/ kind[b[1]] = "table" /\ kind[b[2]] = "sequence"

\* As long as the application keeps still, what a call has listed and not dropped is
\* all there is of its class, and the classes before it are gone.
Gone(class) == \A x \in Names : kind[x] # class

Swept ==
    ~disturbed =>
        /\ listed /\ step \in ListingSteps => queue = Catalog
        /\ step \in {"view", "table", "sequence", "drop_schema"} => fks = {}
        /\ step \in {"table", "sequence", "drop_schema"} => Gone("view")
        /\ step \in {"sequence", "drop_schema"} => Gone("table")
        /\ step = "drop_schema" => Gone("sequence")

CascadeInv == TypeOK /\ InStep /\ References /\ Swept

-----------------------------------------------------------------------------

LEMMA AfterIs ==
    /\ DOMAIN After = ListingSteps
    /\ After["fks"] = "view" /\ After["view"] = "table" /\ After["table"] = "sequence"
    /\ After["sequence"] = "drop_schema"
BY DEF After, ListingSteps

LEMMA ListingIs == Listing <=> step \in ListingSteps
BY AfterIs DEF Listing

LEMMA Tails ==
    /\ Tail(<< "schema", "user", "login" >>) = << "user", "login" >>
    /\ Tail(<< "user", "login" >>) = << "login" >>
    /\ Tail(<< "login" >>) = << >>
OBVIOUS

LEMMA CascadeInit == Init => CascadeInv
<1> SUFFICES ASSUME Init PROVE CascadeInv  OBVIOUS
<1> USE DEF Init
<1>1. TypeOK
  <2>1. kind \in [Names -> Classes \cup {None}]  OBVIOUS
  <2>2. /\ there \subseteq Artifacts /\ fks \subseteq Names \X Names
        /\ bound \subseteq Names \X Names /\ queue \subseteq Names
        /\ todo = << >> /\ step = "idle"
    OBVIOUS
  <2>3. faults \in 0 .. MaxFaults  BY BoundsAssumption
  <2>4. QED  BY <2>1, <2>2, <2>3 DEF TypeOK
<1>2. InStep  BY DEF InStep, SchemaSteps
<1>3. References  BY DEF References
<1>4. Swept  BY DEF Swept, ListingSteps
<1>5. QED  BY <1>1, <1>2, <1>3, <1>4 DEF CascadeInv

-----------------------------------------------------------------------------
(* The application                                                          *)

\* Whatever it does to the contents, a call that runs is disturbed from then on.
LEMMA ContentsChange ==
    ASSUME CascadeInv, AppChanges,
           kind' \in [Names -> Classes \cup {None}],
           fks' \subseteq Names \X Names, bound' \subseteq Names \X Names, References'
    PROVE  CascadeInv'
<1> USE DEF CascadeInv
<1>1. /\ there' = there /\ session' = session /\ todo' = todo /\ step' = step
      /\ listed' = listed /\ queue' = queue /\ faults' = faults
      /\ disturbed' = (step # "idle")
  BY DEF AppChanges, call
<1>2. TypeOK'  BY <1>1 DEF TypeOK
<1>3. InStep'  BY <1>1 DEF InStep
<1>4. Swept'
  <2>1. step' = "idle" \/ disturbed'  BY <1>1
  <2>2. QED  BY <1>1, <2>1 DEF Swept, ListingSteps
<1>5. QED  BY <1>2, <1>3, <1>4

LEMMA RemoveKeeps ==
    ASSUME TypeOK, References, NEW x \in Names, ~Held(x), Remove(x)
    PROVE  /\ kind' \in [Names -> Classes \cup {None}]
           /\ fks' \subseteq fks /\ bound' \subseteq bound
           /\ fks' \subseteq Names \X Names /\ bound' \subseteq Names \X Names
           /\ kind'[x] = None
           /\ \A y \in Names \ {x} : kind'[y] = kind[y]
           /\ References'
<1>1. /\ kind \in [Names -> Classes \cup {None}]
      /\ fks \subseteq Names \X Names /\ bound \subseteq Names \X Names
  BY DEF TypeOK
<1>2. /\ kind' = [kind EXCEPT ![x] = None]
      /\ fks' = {f \in fks : f[1] # x} /\ bound' = {b \in bound : b[1] # x}
  BY DEF Remove
<1>3. \A y \in Names : kind'[y] = IF y = x THEN None ELSE kind[y]
  BY <1>1, <1>2
<1>4. ASSUME NEW r \in fks' \cup bound'
      PROVE  r[1] \in Names \ {x} /\ r[2] \in Names \ {x}
  <2>1. r \in fks \cup bound /\ r[1] # x  BY <1>2
  <2>2. r = << r[1], r[2] >> /\ r[1] \in Names /\ r[2] \in Names  BY <1>1, <2>1
  <2>3. QED  BY <2>1, <2>2 DEF Held
<1>5. References'
  <2>1. ASSUME NEW f \in fks' PROVE kind'[f[1]] = "table" /\ kind'[f[2]] = "table"
    BY <1>2, <1>3, <1>4 DEF References
  <2>2. ASSUME NEW b \in bound'
        PROVE  \/ kind'[b[1]] = "view" /\ kind'[b[2]] \in {"view", "table"}
               \/ kind'[b[1]] = "table" /\ kind'[b[2]] = "sequence"
    BY <1>2, <1>3, <1>4 DEF References
  <2>3. QED  BY <2>1, <2>2 DEF References
<1>6. QED  BY <1>1, <1>2, <1>3, <1>5

LEMMA CascadeCreate ==
    ASSUME CascadeInv, NEW x \in Names, NEW class \in Classes, NEW targets \in SUBSET Names,
           CreateObject(x, class, targets)
    PROVE  CascadeInv'
<1> USE DEF CascadeInv
<1>1. /\ kind \in [Names -> Classes \cup {None}]
      /\ fks \subseteq Names \X Names /\ bound \subseteq Names \X Names
  BY DEF TypeOK
<1>2. /\ kind[x] = None /\ kind' = [kind EXCEPT ![x] = class]
      /\ bound' = bound \cup ({x} \X targets) /\ fks' = fks /\ AppChanges
  BY DEF CreateObject
<1>3. /\ class = "view" => targets \subseteq Existing("view") \cup Existing("table")
      /\ class = "table" => targets \subseteq Existing("sequence")
      /\ class = "sequence" => targets = {}
  BY DEF CreateObject
<1>4. \A y \in Names : kind'[y] = IF y = x THEN class ELSE kind[y]
  BY <1>1, <1>2
<1>5. \A y \in Names : kind[y] \in Classes => y # x
  BY <1>2 DEF Classes, None
<1>6. References'
  <2>1. ASSUME NEW f \in fks' PROVE kind'[f[1]] = "table" /\ kind'[f[2]] = "table"
    <3>1. f \in fks /\ f[1] \in Names /\ f[2] \in Names  BY <1>1, <1>2
    <3>2. QED  BY <3>1, <1>4, <1>5 DEF References, Classes
  <2>2. ASSUME NEW b \in bound'
        PROVE  \/ kind'[b[1]] = "view" /\ kind'[b[2]] \in {"view", "table"}
               \/ kind'[b[1]] = "table" /\ kind'[b[2]] = "sequence"
    <3>1. CASE b \in bound
      <4>1. b[1] \in Names /\ b[2] \in Names  BY <3>1, <1>1
      <4>2. QED  BY <3>1, <4>1, <1>4, <1>5 DEF References, Classes
    <3>2. CASE b \in {x} \X targets
      <4>1. b[1] = x /\ b[2] \in targets /\ b[2] \in Names  BY <3>2
      <4>2. class = "view" => kind[b[2]] \in {"view", "table"}
        BY <4>1, <1>3 DEF Existing
      <4>3. class = "table" => kind[b[2]] = "sequence"
        BY <4>1, <1>3 DEF Existing
      <4>4. class # "sequence"  BY <4>1, <1>3
      <4>5. class \in {"view", "table"}  BY <4>4 DEF Classes
      <4>6. kind[b[2]] \in Classes  BY <4>2, <4>3, <4>5 DEF Classes
      <4>7. QED  BY <4>1, <4>2, <4>3, <4>5, <4>6, <1>4, <1>5
    <3>3. QED  BY <3>1, <3>2, <1>2
  <2>3. QED  BY <2>1, <2>2 DEF References
<1>7. kind' \in [Names -> Classes \cup {None}]  BY <1>1, <1>2
<1>8. bound' \subseteq Names \X Names  BY <1>1, <1>2
<1>9. QED  BY <1>1, <1>2, <1>6, <1>7, <1>8, ContentsChange

LEMMA CascadeAddForeignKey ==
    ASSUME CascadeInv, NEW x \in Names, NEW y \in Names, AddForeignKey(x, y)
    PROVE  CascadeInv'
<1> USE DEF CascadeInv
<1>1. /\ kind[x] = "table" /\ kind[y] = "table" /\ fks' = fks \cup {<< x, y >>}
      /\ kind' = kind /\ bound' = bound /\ AppChanges
  BY DEF AddForeignKey, Existing
<1>2. References'  BY <1>1 DEF References
<1>3. /\ kind' \in [Names -> Classes \cup {None}]
      /\ fks' \subseteq Names \X Names /\ bound' \subseteq Names \X Names
  BY <1>1 DEF TypeOK
<1>4. QED  BY <1>1, <1>2, <1>3, ContentsChange

LEMMA CascadeAppDrop ==
    ASSUME CascadeInv, NEW x \in Names, AppDrop(x)
    PROVE  CascadeInv'
BY RemoveKeeps, ContentsChange DEF AppDrop, CascadeInv

LEMMA CascadeSession ==
    ASSUME CascadeInv, Connect \/ Disconnect
    PROVE  CascadeInv'
<1>1. /\ UNCHANGED << there, contents, todo, call, disturbed, faults >>
      /\ session' \in BOOLEAN
  BY DEF Connect, Disconnect
<1>2. QED
  BY <1>1 DEF contents, call, CascadeInv, TypeOK, InStep, References, Swept, Gone,
              Catalog, Existing

-----------------------------------------------------------------------------
(* The deletion                                                             *)

LEMMA CascadeBegin ==
    ASSUME CascadeInv, DeleteBinding \/ CallDelete
    PROVE  CascadeInv'
<1> USE DEF CascadeInv
<1>1. CASE DeleteBinding
  <2>1. /\ there' = there /\ kind' = kind /\ fks' = fks /\ bound' = bound /\ step' = step
        /\ session' = session /\ listed' = listed /\ queue' = queue
        /\ disturbed' = disturbed /\ faults' = faults
        /\ todo = << >> /\ todo' = << "schema", "user", "login" >>
    BY <1>1 DEF DeleteBinding, contents, call
  <2>2. step = "idle"
    BY <2>1 DEF TypeOK, InStep, SchemaSteps, Classes
  <2>3. TypeOK'  BY <2>1 DEF TypeOK
  <2>4. InStep'  BY <2>1, <2>2 DEF InStep, SchemaSteps
  <2>5. References'  BY <2>1 DEF References
  <2>6. Swept'  BY <2>1, <2>2 DEF Swept, ListingSteps
  <2>7. QED  BY <2>3, <2>4, <2>5, <2>6
<1>2. CASE CallDelete
  <2>1. /\ there' = there /\ kind' = kind /\ fks' = fks /\ bound' = bound
        /\ session' = session /\ listed' = listed /\ queue' = queue
        /\ todo # << >> /\ todo' = todo /\ faults' = faults /\ disturbed' = FALSE
        /\ step = "idle" /\ step' = FirstStep[Head(todo)]
    BY <1>2 DEF CallDelete, contents
  <2>2. \/ todo = << "schema", "user", "login" >> /\ step' = "check_schema"
        \/ todo = << "user", "login" >> /\ step' = "drop_user"
        \/ todo = << "login" >> /\ step' = "check_login"
    BY <2>1 DEF TypeOK, FirstStep
  <2>3. ~listed /\ queue = {}  BY <2>1 DEF InStep, ListingSteps, TypeOK
  <2>4. TypeOK'  BY <2>1, <2>2, <2>3 DEF TypeOK
  <2>5. InStep'  BY <2>1, <2>2, <2>3 DEF InStep, SchemaSteps
  <2>6. References'  BY <2>1 DEF References
  <2>7. Swept'  BY <2>2, <2>1 DEF Swept, ListingSteps
  <2>8. QED  BY <2>4, <2>5, <2>6, <2>7
<1>3. QED  BY <1>1, <1>2

\* What a return does to the call.
LEMMA ReturnsTo ==
    ASSUME CascadeInv, Returns, step # "idle"
    PROVE  /\ step' = "idle" /\ listed' = listed /\ queue' = queue /\ todo' = Tail(todo)
           /\ step \in SchemaSteps => todo' = << "user", "login" >>
           /\ step = "drop_user" => todo' = << "login" >>
           /\ step \in {"check_login", "drop_login"} => todo' = << >>
<1>1. InStep  BY DEF CascadeInv
<1>2. step' = "idle" /\ listed' = listed /\ queue' = queue /\ todo' = Tail(todo)
  BY DEF Returns
<1>3. step \in SchemaSteps => todo' = << "user", "login" >>
  BY <1>1, <1>2, Tails DEF InStep
<1>4. step = "drop_user" => todo' = << "login" >>
  BY <1>1, <1>2, Tails DEF InStep
<1>5. step \in {"check_login", "drop_login"} => todo' = << >>
  BY <1>1, <1>2, Tails DEF InStep
<1>6. QED  BY <1>2, <1>3, <1>4, <1>5

LEMMA CascadeCheck ==
    ASSUME CascadeInv, CheckSchema \/ CheckLogin, UNCHANGED << session, disturbed >>
    PROVE  CascadeInv'
<1> USE DEF CascadeInv
<1>1. /\ there' = there /\ kind' = kind /\ fks' = fks /\ bound' = bound
      /\ session' = session /\ faults' = faults /\ disturbed' = disturbed
  BY DEF CheckSchema, CheckLogin, Check, contents
<1>2. step \in {"check_schema", "check_login"} /\ ~listed /\ queue = {}
  BY DEF CheckSchema, CheckLogin, InStep, ListingSteps, TypeOK
<1>3. References'  BY <1>1 DEF References
<1>4. CASE Returns
  <2>1. /\ step' = "idle" /\ listed' = listed /\ queue' = queue
        /\ step = "check_schema" => todo' = << "user", "login" >>
        /\ step = "check_login" => todo' = << >>
    BY <1>2, <1>4, ReturnsTo DEF SchemaSteps
  <2>2. step = "check_schema" => "schema" \notin there
    BY <1>2, <1>4 DEF CheckSchema, CheckLogin, Check, MissingIsDone, Returns
  <2>3. TypeOK'  BY <1>1, <1>2, <2>1 DEF TypeOK
  <2>4. InStep'  BY <1>1, <1>2, <2>1, <2>2 DEF InStep, SchemaSteps
  <2>5. Swept'  BY <2>1 DEF Swept, ListingSteps
  <2>6. QED  BY <1>3, <2>3, <2>4, <2>5
<1>5. CASE UNCHANGED << todo, listed, queue >>
             /\ \/ step = "check_schema" /\ step' = "fks"
                \/ step = "check_login" /\ step' = "drop_login"
  <2>1. TypeOK'  BY <1>1, <1>2, <1>5 DEF TypeOK, Classes
  <2>2. InStep'  BY <1>1, <1>2, <1>5 DEF InStep, SchemaSteps
  <2>3. Swept'  BY <1>1, <1>2, <1>5 DEF Swept, ListingSteps
  <2>4. QED  BY <1>3, <2>1, <2>2, <2>3
<1>6. QED  BY <1>4, <1>5 DEF CheckSchema, CheckLogin, Check

LEMMA CascadeList ==
    ASSUME CascadeInv, List, UNCHANGED << session, disturbed >>
    PROVE  CascadeInv'
<1> USE DEF CascadeInv
<1>1. /\ there' = there /\ kind' = kind /\ fks' = fks /\ bound' = bound
      /\ session' = session /\ faults' = faults /\ disturbed' = disturbed
      /\ todo' = todo /\ step' = step /\ listed' = TRUE /\ queue' = Catalog
      /\ step \in ListingSteps
  BY ListingIs DEF List, contents
<1>2. step = "fks" => Catalog = fks  BY DEF Catalog
<1>3. step # "fks" => Catalog \subseteq Names  BY DEF Catalog, Existing
<1>4. TypeOK'  BY <1>1, <1>2, <1>3 DEF TypeOK
<1>5. InStep'  BY <1>1 DEF InStep
<1>6. References'  BY <1>1 DEF References
<1>7. Catalog' = Catalog  BY <1>1 DEF Catalog, Existing
<1>8. Swept'  BY <1>1, <1>7 DEF Swept, Gone
<1>9. QED  BY <1>4, <1>5, <1>6, <1>8

\* One drop that SQL Server accepts takes away that object, or that foreign key, and
\* leaves the references in order.
LEMMA DropKeeps ==
    ASSUME TypeOK, References, step \in ListingSteps, NEW x \in queue, Accepts(x), Drop(x)
    PROVE  /\ kind' \in [Names -> Classes \cup {None}]
           /\ fks' \subseteq fks
           /\ fks' \subseteq Names \X Names /\ bound' \subseteq Names \X Names
           /\ References'
           /\ \A class \in Classes : Gone(class) => Gone(class)'
           /\ step = "fks" => fks' = fks \ {x} /\ kind' = kind
           /\ step # "fks" => \A y \in Names : kind'[y] = step <=> (kind[y] = step /\ y # x)
<1>1. CASE step = "fks"
  <2>1. fks' = fks \ {x} /\ kind' = kind /\ bound' = bound  BY <1>1 DEF Drop
  <2>2. References'  BY <2>1 DEF References
  <2>3. QED  BY <1>1, <2>1, <2>2 DEF TypeOK, Gone
<1>2. CASE step # "fks"
  <2>1. x \in Names /\ kind[x] = step /\ ~Held(x) /\ Remove(x)
    BY <1>2 DEF Accepts, Drop, TypeOK
  <2>2. /\ kind' \in [Names -> Classes \cup {None}]
        /\ fks' \subseteq fks
        /\ fks' \subseteq Names \X Names /\ bound' \subseteq Names \X Names
        /\ kind'[x] = None
        /\ \A y \in Names \ {x} : kind'[y] = kind[y]
        /\ References'
    BY <2>1, RemoveKeeps
  <2>3. ASSUME NEW class \in Classes, Gone(class) PROVE Gone(class)'
    BY <2>1, <2>2, <2>3 DEF Gone, Classes, None
  <2>4. step # None  BY DEF ListingSteps, None
  <2>5. \A y \in Names : kind'[y] = step <=> (kind[y] = step /\ y # x)
    BY <2>1, <2>2, <2>4
  <2>6. QED  BY <1>2, <2>2, <2>3, <2>5
<1>3. QED  BY <1>1, <1>2

LEMMA CascadeDropNext ==
    ASSUME CascadeInv, DropNext, UNCHANGED << session, disturbed >>
    PROVE  CascadeInv'
<1> USE DEF CascadeInv
<1>1. PICK x \in queue : Accepts(x) /\ Drop(x) /\ queue' = queue \ {x}
  BY DEF DropNext
<1>2. /\ there' = there /\ session' = session /\ disturbed' = disturbed
      /\ todo' = todo /\ step' = step /\ listed' = listed /\ faults' = faults
      /\ step \in ListingSteps
  BY ListingIs DEF DropNext
<1>3. listed /\ x \in queue  BY <1>1 DEF TypeOK
<1>4. /\ kind' \in [Names -> Classes \cup {None}]
      /\ fks' \subseteq fks
      /\ fks' \subseteq Names \X Names /\ bound' \subseteq Names \X Names
      /\ References'
      /\ \A class \in Classes : Gone(class) => Gone(class)'
      /\ step = "fks" => fks' = fks \ {x} /\ kind' = kind
      /\ step # "fks" => \A y \in Names : kind'[y] = step <=> (kind[y] = step /\ y # x)
  BY <1>1, <1>2, DropKeeps
<1>5. TypeOK'
  <2>1. IF step = "fks" THEN queue' \subseteq Names \X Names ELSE queue' \subseteq Names
    BY <1>1 DEF TypeOK
  <2>2. QED  BY <1>2, <1>3, <1>4, <2>1 DEF TypeOK
<1>6. InStep'  BY <1>2 DEF InStep
<1>7. queue = Catalog => queue' = Catalog'
  <2>1. CASE step = "fks"
    BY <2>1, <1>1, <1>2, <1>4 DEF Catalog
  <2>2. CASE step # "fks"
    <3>1. Catalog = {y \in Names : kind[y] = step}  BY <2>2 DEF Catalog, Existing
    <3>2. Catalog' = {y \in Names : kind'[y] = step}
      BY <2>2, <1>2 DEF Catalog, Existing
    <3>3. {y \in Names : kind'[y] = step} = {y \in Names : kind[y] = step} \ {x}
      BY <2>2, <1>4
    <3>4. QED  BY <3>1, <3>2, <3>3, <1>1
  <2>3. QED  BY <2>1, <2>2
<1>8. Swept'
  <2>1. "view" \in Classes /\ "table" \in Classes /\ "sequence" \in Classes
    BY DEF Classes
  <2>2. fks = {} => fks' = {}  BY <1>4
  <2>3. QED  BY <1>2, <1>4, <1>7, <2>1, <2>2 DEF Swept
<1>9. QED  BY <1>4, <1>5, <1>6, <1>8

\* The rows of a class are used up: in a call that the application left alone, the class
\* is gone.
LEMMA CascadeNextClass ==
    ASSUME CascadeInv, NextClass, UNCHANGED << session, disturbed >>
    PROVE  CascadeInv'
<1> USE DEF CascadeInv
<1>1. /\ there' = there /\ kind' = kind /\ fks' = fks /\ bound' = bound
      /\ session' = session /\ disturbed' = disturbed /\ faults' = faults
      /\ todo' = todo /\ queue' = queue /\ listed /\ ~listed' /\ queue = {}
  BY DEF NextClass, contents, TypeOK
<1>2. \/ step = "fks" /\ step' = "view"
      \/ step = "view" /\ step' = "table"
      \/ step = "table" /\ step' = "sequence"
      \/ step = "sequence" /\ step' = "drop_schema"
  BY ListingIs, AfterIs DEF NextClass, ListingSteps
<1>3. TypeOK'
  <2>1. IF step' = "fks" THEN queue' \subseteq Names \X Names ELSE queue' \subseteq Names
    BY <1>1
  <2>2. step' \in Classes \cup {"drop_schema"}  BY <1>2 DEF Classes
  <2>3. listed' \in BOOLEAN /\ queue' = {}  BY <1>1 DEF NextClass
  <2>4. QED  BY <1>1, <2>1, <2>2, <2>3 DEF TypeOK
<1>4. InStep'  BY <1>1, <1>2 DEF InStep, SchemaSteps, ListingSteps
<1>5. References'  BY <1>1 DEF References
<1>6. Swept'
  <2>1. ASSUME ~disturbed, step = "fks" PROVE fks = {}
    BY <1>1, <2>1 DEF Swept, Catalog, ListingSteps
  <2>2. ASSUME ~disturbed, step # "fks" PROVE Gone(step)
    BY <1>1, <1>2, <2>2 DEF Swept, Catalog, Existing, Gone, ListingSteps
  <2>3. \A class \in Classes : Gone(class)' <=> Gone(class)  BY <1>1 DEF Gone
  <2>4. "view" \in Classes /\ "table" \in Classes /\ "sequence" \in Classes
    BY DEF Classes
  <2>5. QED  BY <1>1, <1>2, <2>1, <2>2, <2>3, <2>4 DEF Swept
<1>7. QED  BY <1>3, <1>4, <1>5, <1>6

\* Which step drops which artifact.
LEMMA DropsIs ==
    ASSUME NEW artifact \in Artifacts, DropsArtifact(artifact)
    PROVE  \/ artifact = "schema" /\ step = "drop_schema"
           \/ artifact = "user" /\ step = "drop_user" /\ "schema" \notin there
           \/ artifact = "login" /\ step = "drop_login"
BY DEF DropsArtifact, Artifacts

LEMMA CascadeDropArtifact ==
    ASSUME CascadeInv, DropArtifact, UNCHANGED << session, disturbed >>
    PROVE  CascadeInv'
<1> USE DEF CascadeInv
<1>1. PICK artifact \in Artifacts :
         DropsArtifact(artifact) /\ there' = there \ {artifact}
  BY DEF DropArtifact
<1>2. /\ kind' = kind /\ fks' = fks /\ bound' = bound /\ session' = session
      /\ disturbed' = disturbed /\ faults' = faults /\ Returns
  BY DEF DropArtifact, contents
<1>3. \/ artifact = "schema" /\ step = "drop_schema"
      \/ artifact = "user" /\ step = "drop_user" /\ "schema" \notin there
      \/ artifact = "login" /\ step = "drop_login"
  BY <1>1, DropsIs
<1>4. ~listed /\ queue = {}
  BY <1>3 DEF InStep, ListingSteps, TypeOK
<1>5. /\ step' = "idle" /\ listed' = listed /\ queue' = queue
      /\ artifact = "schema" => todo' = << "user", "login" >>
      /\ artifact = "user" => todo' = << "login" >>
      /\ artifact = "login" => todo' = << >>
  BY <1>2, <1>3, ReturnsTo DEF SchemaSteps
<1>6. TypeOK'  BY <1>1, <1>2, <1>3, <1>4, <1>5 DEF TypeOK
<1>7. InStep'  BY <1>1, <1>3, <1>4, <1>5 DEF InStep, SchemaSteps
<1>8. References'  BY <1>2 DEF References
<1>9. Swept'  BY <1>5 DEF Swept, ListingSteps
<1>10. QED  BY <1>6, <1>7, <1>8, <1>9

\* A call that fails leaves the list as it was, and no rows.
LEMMA FailsKeeps ==
    ASSUME CascadeInv, Fails, UNCHANGED << session, disturbed >>, there' \subseteq there,
           kind' \in [Names -> Classes \cup {None}],
           fks' \subseteq Names \X Names, bound' \subseteq Names \X Names, References',
           faults' \in 0 .. MaxFaults
    PROVE  CascadeInv'
<1> USE DEF CascadeInv
<1>1. /\ step' = "idle" /\ listed' = FALSE /\ queue' = {} /\ todo' = todo
      /\ session' = session /\ disturbed' = disturbed
  BY DEF Fails
<1>2. TypeOK'  BY <1>1 DEF TypeOK
<1>3. InStep'  BY <1>1 DEF InStep, SchemaSteps
<1>4. Swept'  BY <1>1 DEF Swept, ListingSteps
<1>5. QED  BY <1>2, <1>3, <1>4

LEMMA CascadeFails ==
    ASSUME CascadeInv, Refused \/ StatementFails \/ ReplyLost
    PROVE  CascadeInv'
<1> USE DEF CascadeInv
<1>1. Fails /\ session' = session /\ disturbed' = disturbed
  BY DEF Refused, StatementFails, ReplyLost
<1>2. faults' \in 0 .. MaxFaults
  <2>1. faults' = faults \/ (faults < MaxFaults /\ faults' = faults + 1)
    BY DEF Refused, StatementFails, ReplyLost, InjectFault
  <2>2. faults \in 0 .. MaxFaults  BY DEF TypeOK
  <2>3. QED  BY <2>1, <2>2, BoundsAssumption
<1>3. /\ kind \in [Names -> Classes \cup {None}]
      /\ fks \subseteq Names \X Names /\ bound \subseteq Names \X Names
  BY DEF TypeOK
<1>4. CASE there' \subseteq there /\ kind' = kind /\ fks' = fks /\ bound' = bound
  <2>1. References'  BY <1>4 DEF References
  <2>2. QED  BY <1>1, <1>2, <1>3, <1>4, <2>1, FailsKeeps
<1>5. CASE there' = there /\ step \in ListingSteps
             /\ \E x \in queue : Accepts(x) /\ Drop(x)
  BY <1>1, <1>2, <1>5, DropKeeps, FailsKeeps
<1>6. QED  BY <1>4, <1>5, ListingIs DEF Refused, StatementFails, ReplyLost, contents

LEMMA CascadeStutter ==
    ASSUME CascadeInv, UNCHANGED vars
    PROVE  CascadeInv'
BY DEF vars, contents, call, CascadeInv, TypeOK, InStep, References, Swept, Gone,
       Catalog, Existing

LEMMA CascadeNext == CascadeInv /\ [Next]_vars => CascadeInv'
<1> SUFFICES ASSUME CascadeInv, [Next]_vars PROVE CascadeInv'
  OBVIOUS
<1>1. CASE Application
  BY <1>1, CascadeCreate, CascadeAddForeignKey, CascadeAppDrop, CascadeSession
  DEF Application
<1>2. CASE DeleteBinding \/ CallDelete  BY <1>2, CascadeBegin
<1>3. CASE Progress
  BY <1>3, CascadeCheck, CascadeList, CascadeDropNext, CascadeNextClass,
     CascadeDropArtifact
  DEF Progress
<1>4. CASE Refused \/ StatementFails \/ ReplyLost  BY <1>4, CascadeFails
<1>5. CASE UNCHANGED vars  BY <1>5, CascadeStutter
<1>6. QED  BY <1>1, <1>2, <1>3, <1>4, <1>5 DEF Next, Deletion

LEMMA CascadeInvariant == Spec => []CascadeInv
BY CascadeInit, CascadeNext, PTL DEF Spec

-----------------------------------------------------------------------------

\* The types: the rows that are queued are of the class that is being dropped
\* (dropSchemaCascade's names and fks slices), and the list only shrinks from its head.
THEOREM CascadeTypes == Spec => []TypeOK
BY CascadeInvariant, PTL DEF CascadeInv

LEMMA InvMeansNoRefusal == CascadeInv => NoRefusalOfItsOwn
<1> SUFFICES ASSUME CascadeInv, ~disturbed, ~BoundViews
             PROVE  /\ \A x \in queue : Accepts(x)
                    /\ step = "drop_schema" => \A x \in Names : kind[x] = None
                    /\ step # "drop_user" \/ "schema" \notin there
  BY DEF NoRefusalOfItsOwn
<1> USE DEF CascadeInv
<1>1. ASSUME NEW x \in queue PROVE Accepts(x)
  <2>1. listed /\ step \in ListingSteps  BY DEF TypeOK, InStep
  <2>2. x \in Catalog  BY <2>1 DEF Swept
  <2>3. CASE step = "fks"  BY <2>2, <2>3 DEF Accepts, Catalog
  <2>4. CASE step # "fks"
    <3>1. x \in Names /\ kind[x] = step  BY <2>2, <2>4 DEF Catalog, Existing
    <3>2. step \in {"view", "table", "sequence"}  BY <2>1, <2>4 DEF ListingSteps
    <3>3. fks = {}  BY <3>2 DEF Swept
    <3>4. ASSUME NEW y \in Names \ {x}, << y, x >> \in bound PROVE FALSE
      <4>1. \/ kind[y] = "view" /\ kind[x] \in {"view", "table"}
            \/ kind[y] = "table" /\ kind[x] = "sequence"
        BY <3>4 DEF References
      <4>2. CASE step = "view"
        <5>1. kind[y] = "view" /\ kind[x] = "view"  BY <4>1, <4>2, <3>1
        <5>2. {y, x} \subseteq Existing("view")  BY <5>1, <3>1 DEF Existing
        <5>3. QED  BY <5>2, <3>4 DEF BoundViews
      <4>3. CASE step = "table"
        BY <4>1, <4>3, <3>1 DEF Swept, Gone
      <4>4. CASE step = "sequence"
        BY <4>1, <4>4, <3>1 DEF Swept, Gone
      <4>5. QED  BY <3>2, <4>2, <4>3, <4>4
    <3>5. ~Held(x)  BY <3>3, <3>4 DEF Held
    <3>6. QED  BY <2>4, <3>1, <3>5 DEF Accepts
  <2>5. QED  BY <2>3, <2>4
<1>2. ASSUME step = "drop_schema", NEW x \in Names PROVE kind[x] = None
  BY <1>2 DEF Swept, Gone, TypeOK, Classes
<1>3. step # "drop_user" \/ "schema" \notin there  BY DEF InStep
<1>4. QED  BY <1>1, <1>2, <1>3

\* The order of dropSchemaCascade, foreign keys before views before tables before
\* sequences before the schema, is sound for any number of objects and references: SQL
\* Server refuses none of its statements unless the application changed something
\* meanwhile or a view is schema-bound to a view.
THEOREM OrderIsSound == Spec => []NoRefusalOfItsOwn
BY CascadeInvariant, InvMeansNoRefusal, PTL

LEMMA OnlyWhatIsGone ==
    ASSUME CascadeInv, [Next]_vars, todo # << >>, todo' = Tail(todo)
    PROVE  Head(todo) \notin there'
<1>1. TypeOK /\ InStep  BY DEF CascadeInv
<1>2. todo' # todo
  BY <1>1, Tails DEF TypeOK
<1>3. /\ CheckSchema \/ CheckLogin \/ DropArtifact
      /\ Returns
  <2>1. ~Application
    BY <1>2 DEF Application, CreateObject, AddForeignKey, AppDrop, AppChanges,
                Connect, Disconnect
  <2>2. ~DeleteBinding  BY DEF DeleteBinding
  <2>3. ~(CallDelete \/ Refused \/ StatementFails \/ ReplyLost)
    BY <1>2 DEF CallDelete, Refused, StatementFails, ReplyLost, Fails
  <2>4. ~(List \/ DropNext \/ NextClass)
    BY <1>2 DEF List, DropNext, NextClass
  <2>5. todo' = todo => FALSE  BY <1>2
  <2>6. ~UNCHANGED vars  BY <1>2 DEF vars
  <2>7. CheckSchema \/ CheckLogin \/ DropArtifact
    BY <2>1, <2>2, <2>3, <2>4, <2>6 DEF Next, Deletion, Progress
  <2>8. QED
    BY <1>2, <2>7 DEF CheckSchema, CheckLogin, DropArtifact, Check
<1>4. CASE CheckSchema
  <2>1. Head(todo) = "schema"
    BY <1>1, <1>4 DEF CheckSchema, InStep, SchemaSteps
  <2>2. "schema" \notin there /\ there' = there
    BY <1>2, <1>4 DEF CheckSchema, Check, MissingIsDone
  <2>3. QED  BY <2>1, <2>2
<1>5. CASE CheckLogin
  <2>1. Head(todo) = "login"
    BY <1>1, <1>5 DEF CheckLogin, InStep
  <2>2. "login" \notin there /\ there' = there
    BY <1>2, <1>5 DEF CheckLogin, Check, MissingIsDone
  <2>3. QED  BY <2>1, <2>2
<1>6. CASE DropArtifact
  <2>1. PICK artifact \in Artifacts :
           DropsArtifact(artifact) /\ there' = there \ {artifact}
    BY <1>6 DEF DropArtifact
  <2>2. \/ artifact = "schema" /\ step = "drop_schema"
        \/ artifact = "user" /\ step = "drop_user"
        \/ artifact = "login" /\ step = "drop_login"
    BY <2>1, DropsIs
  <2>3. Head(todo) = artifact  BY <1>1, <2>2 DEF InStep, SchemaSteps
  <2>4. QED  BY <2>1, <2>3
<1>7. QED  BY <1>3, <1>4, <1>5, <1>6

\* DeleteArtifact reports success only of an artifact that is gone, whatever the
\* application does meanwhile and whichever replies are lost on the way.
THEOREM SuccessMeansGone == Spec => OffTheListIsGone
<1>1. CascadeInv /\ [Next]_vars
        => [todo # << >> /\ todo' = Tail(todo) => Head(todo) \notin there']_vars
  BY OnlyWhatIsGone
<1>2. QED  BY <1>1, CascadeInvariant, PTL DEF Spec, OffTheListIsGone

=============================================================================
