---------------------------- MODULE SchemaCascade ----------------------------
(***************************************************************************)
(* DeleteArtifact on SQL Server: the schema, the user and the login of a   *)
(* base account are dropped one after the other.  SQL Server has no DROP   *)
(* SCHEMA CASCADE, so the schema's foreign keys, views, tables and         *)
(* sequences are listed and dropped first, while the account's application *)
(* may still be connected and change any of them.                          *)
(***************************************************************************)
EXTENDS Naturals, Sequences, FiniteSets

CONSTANTS
    Names,        \* names of objects in the schema; the classes share them
    LostReplies,  \* whether a statement may take effect and still return an error
    MaxReferences, MaxFaults  \* bounds on references between objects, and on failures

ASSUME LostRepliesAssumption == LostReplies \in BOOLEAN
ASSUME BoundsAssumption == MaxReferences \in Nat /\ MaxFaults \in Nat

VARIABLES
    there,      \* which of the account's artifacts exist
    kind,       \* the class of the object of each name
    fks,        \* foreign keys, << table, referenced table >>
    bound,      \* << view, object it is schema-bound to >>, << table, sequence of a default >>
    session,    \* whether the application is connected
    todo,       \* the artifacts still to be deleted, in order
    step,       \* where DeleteArtifact is
    listed,     \* whether this step's catalog query has been read
    queue,      \* what it returned and is still to be dropped
    disturbed,  \* history: the application changed something during the call
    faults

contents == << kind, fks, bound >>
call == << step, listed, queue >>
vars == << there, contents, session, todo, call, disturbed, faults >>

None == "none"
Classes == {"view", "table", "sequence"}
Artifacts == {"schema", "user", "login"}

TypeOK ==
    /\ there \subseteq Artifacts
    /\ kind \in [Names -> Classes \cup {None}]
    /\ fks \subseteq Names \X Names /\ bound \subseteq Names \X Names
    /\ session \in BOOLEAN /\ disturbed \in BOOLEAN /\ listed \in BOOLEAN
    /\ todo \in {<< >>, << "login" >>, << "user", "login" >>,
                 << "schema", "user", "login" >>}
    /\ step \in {"idle", "check_schema", "fks", "drop_schema", "drop_user",
                 "check_login", "drop_login"} \cup Classes
    /\ IF step = "fks" THEN queue \subseteq Names \X Names ELSE queue \subseteq Names
    /\ listed = FALSE => queue = {}
    /\ faults \in 0 .. MaxFaults

Init ==
    /\ there = Artifacts
    /\ kind = [x \in Names |-> None] /\ fks = {} /\ bound = {}
    /\ session = TRUE /\ todo = << >>
    /\ step = "idle" /\ listed = FALSE /\ queue = {}
    /\ disturbed = FALSE /\ faults = 0

-----------------------------------------------------------------------------
(* The application                                                          *)

Existing(class) == {x \in Names : kind[x] = class}

\* An object that another one refers to cannot be dropped.
Held(x) == \E y \in Names \ {x} : << y, x >> \in fks \cup bound

Remove(x) ==
    /\ kind' = [kind EXCEPT ![x] = None]
    /\ fks' = {f \in fks : f[1] # x}
    /\ bound' = {b \in bound : b[1] # x}

\* What the account was granted: tables, views and sequences in its schema.
AppChanges ==
    /\ session /\ {"schema", "user"} \subseteq there
    /\ disturbed' = (step # "idle")
    /\ UNCHANGED << there, session, todo, call, faults >>

FewReferences == Cardinality(fks) + Cardinality(bound) <= MaxReferences

CreateObject(x, class, targets) ==
    /\ kind[x] = None
    /\ targets \subseteq (CASE class = "view"     -> Existing("view") \cup Existing("table")
                            [] class = "table"    -> Existing("sequence")
                            [] class = "sequence" -> {})
    /\ kind' = [kind EXCEPT ![x] = class]
    /\ bound' = bound \cup ({x} \X targets)
    /\ UNCHANGED fks /\ FewReferences'
    /\ AppChanges

\* A table may refer to itself.
AddForeignKey(x, y) ==
    /\ {x, y} \subseteq Existing("table") /\ << x, y >> \notin fks
    /\ fks' = fks \cup {<< x, y >>}
    /\ UNCHANGED << kind, bound >> /\ FewReferences'
    /\ AppChanges

AppDrop(x) ==
    /\ kind[x] # None /\ ~Held(x)
    /\ Remove(x)
    /\ AppChanges

Connect ==
    /\ ~session /\ {"user", "login"} \subseteq there
    /\ session' = TRUE
    /\ UNCHANGED << there, contents, todo, call, disturbed, faults >>

Disconnect ==
    /\ session
    /\ session' = FALSE
    /\ UNCHANGED << there, contents, todo, call, disturbed, faults >>

Application ==
    \/ \E x \in Names, class \in Classes, targets \in SUBSET Names :
          CreateObject(x, class, targets)
    \/ \E x, y \in Names : AddForeignKey(x, y)
    \/ \E x \in Names : AppDrop(x)
    \/ Connect
    \/ Disconnect

-----------------------------------------------------------------------------
(* The server                                                               *)

\* The binding is deleted: its artifacts, newest first.
DeleteBinding ==
    /\ there = Artifacts /\ todo = << >>
    /\ todo' = << "schema", "user", "login" >>
    /\ UNCHANGED << there, contents, session, call, disturbed, faults >>

FirstStep == [schema |-> "check_schema", user |-> "drop_user", login |-> "check_login"]

\* DeleteArtifact, again after a failure.
CallDelete ==
    /\ step = "idle" /\ todo # << >>
    /\ step' = FirstStep[Head(todo)] /\ disturbed' = FALSE
    /\ UNCHANGED << there, contents, session, todo, listed, queue, faults >>

-----------------------------------------------------------------------------
(* DeleteArtifact                                                           *)

Returns == step' = "idle" /\ todo' = Tail(todo) /\ UNCHANGED << listed, queue >>

\* Mutant: a schema or a login that is missing is not looked for.
NeverMissing(artifact) == FALSE

\* Mutant: the login is taken to go with its user.
LoginGoesWithUser(artifact) == artifact \notin there \/ (artifact = "login" /\ "user" \notin there)

\* What is already gone is not an error.
MissingIsDone(artifact) == artifact \notin there

Check(artifact, next) ==
    /\ IF MissingIsDone(artifact)
       THEN Returns
       ELSE artifact \in there /\ step' = next /\ UNCHANGED << todo, listed, queue >>
    /\ UNCHANGED << there, contents, faults >>

CheckSchema == step = "check_schema" /\ Check("schema", "fks")
CheckLogin == step = "check_login" /\ Check("login", "drop_login")

\* Mutant: tables before the views that may be bound to them.
TablesFirst == [fks |-> "table", table |-> "view", view |-> "sequence",
                sequence |-> "drop_schema"]

\* Foreign keys, then views, tables and sequences.
After == [fks |-> "view", view |-> "table", table |-> "sequence",
          sequence |-> "drop_schema"]

Listing == step \in DOMAIN After

Catalog == IF step = "fks" THEN fks ELSE Existing(step)

List ==
    /\ Listing /\ ~listed
    /\ queue' = Catalog /\ listed' = TRUE
    /\ UNCHANGED << there, contents, todo, step, faults >>

\* What SQL Server accepts.
Accepts(x) == IF step = "fks" THEN x \in fks ELSE kind[x] = step /\ ~Held(x)

Drop(x) == IF step = "fks" THEN fks' = fks \ {x} /\ UNCHANGED << kind, bound >>
                           ELSE Remove(x)

DropNext ==
    /\ Listing
    /\ \E x \in queue : Accepts(x) /\ Drop(x) /\ queue' = queue \ {x}
    /\ UNCHANGED << there, todo, step, listed, faults >>

NextClass ==
    /\ Listing /\ listed /\ queue = {}
    /\ step' = After[step] /\ listed' = FALSE
    /\ UNCHANGED << there, contents, todo, queue, faults >>

\* The statement that drops the artifact: a schema must be empty, a user must not own
\* one, and a login must not be in use.
DropsArtifact(artifact) ==
    CASE artifact = "schema" -> step = "drop_schema" /\ \A x \in Names : kind[x] = None
      [] artifact = "user"   -> step = "drop_user" /\ "schema" \notin there
      [] artifact = "login"  -> step = "drop_login" /\ ~session /\ "login" \in there

DropArtifact ==
    /\ \E artifact \in Artifacts :
          DropsArtifact(artifact) /\ there' = there \ {artifact}
    /\ Returns
    /\ UNCHANGED << contents, faults >>

Progress ==
    /\ CheckSchema \/ CheckLogin \/ List \/ DropNext \/ NextClass \/ DropArtifact
    /\ UNCHANGED << session, disturbed >>

\* Mutant: rows that were read are kept by the call that failed.
FailsWithRows == step' = "idle" /\ UNCHANGED << todo, listed, queue >>

\* The first error is returned, and the artifact stays on the list.
Fails == step' = "idle" /\ listed' = FALSE /\ queue' = {} /\ UNCHANGED todo

\* A statement is refused.
Refused ==
    /\ \/ Listing /\ \E x \in queue : ~Accepts(x)
       \/ step \in {"drop_schema", "drop_user", "drop_login"}
            /\ \A artifact \in Artifacts : ~DropsArtifact(artifact)
    /\ Fails
    /\ UNCHANGED << there, contents, session, disturbed, faults >>

InjectFault == faults < MaxFaults /\ faults' = faults + 1

StatementFails ==
    /\ step # "idle" /\ InjectFault /\ Fails
    /\ UNCHANGED << there, contents, session, disturbed >>

\* A drop takes effect and its reply is lost.
ReplyLost ==
    /\ LostReplies /\ InjectFault /\ Fails
    /\ \/ /\ Listing /\ \E x \in queue : Accepts(x) /\ Drop(x)
          /\ UNCHANGED there
       \/ /\ \E artifact \in Artifacts :
                DropsArtifact(artifact) /\ there' = there \ {artifact}
          /\ UNCHANGED contents
    /\ UNCHANGED << session, disturbed >>

Deletion == CallDelete \/ Progress \/ Refused

Next == Application \/ DeleteBinding \/ Deletion \/ StatementFails \/ ReplyLost

Spec == Init /\ [][Next]_vars

\* A call goes on, and the server retries what failed.
FairSpec == Spec /\ WF_vars(Deletion)

-----------------------------------------------------------------------------
(* Properties                                                               *)

\* A view schema-bound to another view: the order of the views is the catalog's.
BoundViews == \E b \in bound : {b[1], b[2]} \subseteq Existing("view")

\* The order of the cascade is sound: as long as the application keeps still and binds
\* no view to a view, no DROP is refused, whatever refers to whatever and whatever an
\* earlier attempt that failed has left.
NoRefusalOfItsOwn ==
    disturbed \/ BoundViews
      \/ /\ \A x \in queue : Accepts(x)
         /\ step = "drop_schema" => \A x \in Names : kind[x] = None
         /\ step # "drop_user" \/ "schema" \notin there

\* An artifact is off the list only when it is gone: no success of a DeleteArtifact
\* leaves a schema, a user or a login behind that nothing will delete again.
OffTheListIsGone ==
    [][todo # << >> /\ todo' = Tail(todo) => Head(todo) \notin there']_vars

\* Once the application stays away, the deletion is completed, after whatever it has
\* put into the schema and changed there in the middle of earlier attempts.
DeletionFinishes ==
    <>[](~session /\ ~BoundViews) => (todo # << >> ~> there = {})

=============================================================================
