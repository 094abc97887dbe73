----------------------------- MODULE MongoGrants -----------------------------
(***************************************************************************)
(* The grants of one derived account on MongoDB, self-hosted or Atlas. The *)
(* complete permission set, the privileges of the account's custom role or *)
(* the roles array of its Atlas user, is replaced in one command each time:*)
(* by ApplyGrants with the applied and the desired grants together, by     *)
(* RevokeGrants with the kept ones.  Meanwhile somebody drops the user or  *)
(* the role behind the server's back, and an update puts them back.        *)
(***************************************************************************)
EXTENDS Naturals

CONSTANTS
    Collections,       \* collection names a grant may have as its target
    SystemCollections, \* and those it may not
    Grants,            \* the grants somebody may ask for
    Requests,          \* the sets of grants a binding update may desire
    Modes,             \* the kinds of service under check
    RoleDropsAlone,    \* whether a role is dropped while its user stays
    LostReplies,       \* whether a command may take effect and still return an error
    MaxFaults, MaxDrops  \* bounds on injected failures and on drops

All == "*"
Baseline == "baseline"   \* the placeholder collection that no binding has

ASSUME CollectionsAssumption ==
    /\ Collections \cap ({All, Baseline} \cup SystemCollections) = {}
    /\ All \notin SystemCollections
ASSUME GrantsAssumption ==
    Grants \subseteq [type : {"read", "create", "full"},
                      target : Collections \cup SystemCollections \cup {All}]
ASSUME RequestsAssumption == Requests \subseteq SUBSET Grants
ASSUME ModesAssumption == Modes \subseteq {"mongodb", "atlas"}
ASSUME FlagsAssumption == RoleDropsAlone \in BOOLEAN /\ LostReplies \in BOOLEAN
ASSUME BoundsAssumption == MaxFaults \in Nat /\ MaxDrops \in Nat

VARIABLES
    mode,
    user,      \* whether the user exists, and still has its custom role
    role,      \* whether the permission set exists: the role, or the Atlas user
    perms,     \* what is in it
    recorded, pending,  \* the server's metadata, and what it still has to revoke
    call,      \* the running call, or what it does about a failed restore
    step,      \* the command it is at
    desired,   \* the grants the last update asked for
    reapply,   \* reapplyAll of the running update
    leaked,    \* history: a failed update may have left these in effect
    dropped,   \* history: when user or role were dropped and not put back since
    faults, drops

service == << mode, user, role, perms >>
ledger == << recorded, pending, leaked >>
vars == << service, ledger, call, step, desired, reapply, dropped, faults, drops >>

Actions == {"read", "write"}
Permissions == [on : Collections \cup SystemCollections \cup {All, Baseline},
                actions : SUBSET Actions]

TypeOK ==
    /\ mode \in Modes
    /\ user \in {"present", "stripped", "absent"} /\ role \in {"present", "absent"}
    /\ perms \subseteq Permissions
    /\ mode = "atlas" => (role = "present" <=> user = "present")
    /\ recorded \subseteq Grants /\ pending \subseteq Grants /\ leaked \subseteq Grants
    /\ call \in {"idle", "apply", "rollback", "revoke"}
    /\ step \in {"update", "create", "lookup", "recreate", "return"}
    /\ step \in {"lookup", "recreate"} => call = "apply" /\ reapply /\ mode = "mongodb"
    /\ desired \subseteq Grants /\ reapply \in BOOLEAN
    /\ dropped \in {"no", "before", "during"}
    /\ faults \in 0 .. MaxFaults /\ drops \in 0 .. MaxDrops

-----------------------------------------------------------------------------
(* The permission set of a set of grants                                    *)

Valid(g) == g.type \in {"read", "full"} /\ g.target \notin SystemCollections

ActionsOf(g) == IF g.type = "read" THEN {"read"} ELSE Actions

\* One privilege for each target, with the actions of all its grants.
MongoPrivileges(gs) ==
    {[on |-> t, actions |-> UNION {ActionsOf(g) : g \in {h \in gs : h.target = t}}] :
        t \in {g.target : g \in gs}}

RoleFor(g) == [on |-> g.target, actions |-> ActionsOf(g)]

\* Mutant: the roles of the grants alone.
AtlasRolesWithoutBaseline(gs) == {RoleFor(g) : g \in gs}

\* Built-in roles, read or readWrite, with the placeholder that keeps the array
\* from being empty.
AtlasRoles(gs) == {RoleFor(g) : g \in gs} \cup {[on |-> Baseline, actions |-> {"read"}]}

PermissionsOf(gs) == IF mode = "atlas" THEN AtlasRoles(gs) ELSE MongoPrivileges(gs)

\* What the account can do.
Access == {a \in Actions \X Collections :
             /\ user = "present" /\ role = "present"
             /\ \E p \in perms : a[1] \in p.actions /\ p.on \in {a[2], All}}

\* A derived account fresh from GenerateAccount.
Init ==
    /\ mode \in Modes
    /\ user = "present" /\ role = "present" /\ perms = PermissionsOf({})
    /\ recorded = {} /\ pending = {} /\ leaked = {}
    /\ call = "idle" /\ step = "update" /\ desired = {} /\ reapply = FALSE
    /\ dropped = "no" /\ faults = 0 /\ drops = 0

-----------------------------------------------------------------------------
(* Somebody else on the service                                             *)

Drops ==
    /\ drops < MaxDrops
    /\ drops' = drops + 1
    /\ dropped' = IF call = "idle" THEN "before" ELSE "during"
    /\ UNCHANGED << mode, ledger, call, step, desired, reapply, faults >>

DropUser ==
    /\ user # "absent"
    /\ user' = "absent"
    /\ IF mode = "atlas" THEN role' = "absent" /\ perms' = {}
                         ELSE UNCHANGED << role, perms >>
    /\ Drops

\* Dropping a role takes it from the users that have it.
DropRole ==
    /\ mode = "mongodb" /\ role = "present"
    /\ RoleDropsAlone \/ user = "absent"
    /\ role' = "absent" /\ perms' = {}
    /\ user' = IF user = "present" THEN "stripped" ELSE user
    /\ Drops

-----------------------------------------------------------------------------
(* The commands                                                             *)

\* Mutant: an update is built from what is desired alone.
DesiredOnly == IF call = "apply" THEN desired ELSE recorded

\* Mutant: a revocation is built from the grants that were applied.
RebuildsFromApplied == recorded \cup (IF call = "apply" THEN desired ELSE pending)

\* The grants whose permission set the running call puts in place.
Building == IF call = "apply" THEN recorded \cup desired ELSE recorded

\* Mutant: the user is looked up after every update of its role.
RestoresAlways == IF mode = "mongodb" THEN "lookup" ELSE "return"

AfterSet == IF call = "apply" /\ mode = "mongodb" /\ reapply THEN "lookup" ELSE "return"

\* The Atlas API rejects a user without roles.
Rejected == mode = "atlas" /\ PermissionsOf(Building) = {}

Put == perms' = PermissionsOf(Building)

\* The commands that replace the permission set; an update of what is not there does not.
Replaces == step = "create" \/ (step = "update" /\ role = "present")

\* updateRole, or PATCH of the user; not found is not an error.
Update ==
    /\ step = "update" /\ ~Rejected /\ \A g \in Building : Valid(g)
    /\ IF Replaces THEN Put ELSE UNCHANGED perms
    /\ UNCHANGED << user, role >>

\* createRole; or POST of the user with the stored password.
Create ==
    /\ step = "create" /\ ~Rejected
    /\ role' = "present" /\ Put
    /\ user' = IF mode = "atlas" THEN "present" ELSE user

Lookup == step = "lookup" /\ UNCHANGED << user, role, perms >>

\* createUser refuses a role that does not exist.
Recreate ==
    /\ step = "recreate" /\ role = "present"
    /\ user' = "present"
    /\ UNCHANGED << role, perms >>

Command == call # "idle" /\ (Update \/ Create \/ Lookup \/ Recreate)

CommandSucceeds ==
    /\ Command
    /\ step' = CASE step = "update" /\ role = "absent" -> "create"
                 [] Replaces -> AfterSet
                 [] step = "lookup" /\ user = "absent" -> "recreate"
                 [] OTHER -> "return"
    /\ leaked' = IF Replaces THEN {} ELSE leaked
    /\ UNCHANGED << mode, recorded, pending, call, desired, reapply, dropped, faults, drops >>

\* Mutant: a failed restore returns without undoing the role.
FailsAtOnce == /\ call' = "idle" /\ step' = "update" /\ desired' = recorded
               /\ reapply' = FALSE

\* A failed command ends the call, except that a user who cannot be restored has the
\* role set back first. The SDK ignores what a failed ApplyGrants did.
CallFails ==
    /\ call' = IF step \in {"lookup", "recreate"} THEN "rollback" ELSE "idle"
    /\ step' = "update"
    /\ desired' = IF call' = "idle" THEN recorded ELSE desired
    /\ reapply' = FALSE

InjectFault == faults < MaxFaults /\ faults' = faults + 1

\* The service refuses the command, or fails before it takes effect.
CommandFails ==
    /\ call # "idle" /\ step # "return"
    /\ \/ InjectFault
       \/ /\ \/ step = "update" /\ \E g \in Building : ~Valid(g)
             \/ step \in {"update", "create"} /\ Rejected
             \/ step = "recreate" /\ role = "absent"
          /\ UNCHANGED faults
    /\ CallFails
    /\ leaked' = IF call = "rollback" THEN leaked \cup desired ELSE leaked
    /\ UNCHANGED << service, recorded, pending, dropped, drops >>

\* The command takes effect and its reply is lost.
ReplyLost ==
    /\ LostReplies /\ InjectFault
    /\ Command
    /\ CallFails
    /\ leaked' = IF call = "apply" /\ Replaces THEN leaked \cup desired ELSE leaked
    /\ UNCHANGED << mode, recorded, pending, dropped, drops >>

-----------------------------------------------------------------------------
(* The calls                                                                *)

ApplyGrants(request, all) ==
    /\ call = "idle" /\ pending = {}
    /\ call' = "apply" /\ desired' = request /\ reapply' = all
    /\ dropped' = IF dropped = "during" THEN "before" ELSE dropped
    /\ UNCHANGED << service, ledger, step, faults, drops >>

\* What an update that succeeds puts back.
Restores == mode = "atlas" \/ reapply

\* ApplyGrants returns; the server commits the result.
CommitGrants ==
    /\ call = "apply" /\ step = "return"
    /\ recorded' = desired /\ pending' = recorded \ desired
    /\ dropped' = IF dropped = "before" /\ Restores THEN "no" ELSE dropped
    /\ call' = "idle" /\ step' = "update" /\ reapply' = FALSE
    /\ UNCHANGED << service, leaked, desired, faults, drops >>

\* ApplyGrants returns its error after the rollback.
ReturnError ==
    /\ call = "rollback" /\ step = "return"
    /\ call' = "idle" /\ step' = "update" /\ desired' = recorded
    /\ UNCHANGED << service, ledger, reapply, dropped, faults, drops >>

\* After the commit, or again after a failure.
RevokeGrants ==
    /\ call = "idle" /\ pending # {}
    /\ call' = "revoke"
    /\ UNCHANGED << service, ledger, step, desired, reapply, dropped, faults, drops >>

FinishRevoke ==
    /\ call = "revoke" /\ step = "return"
    /\ pending' = {}
    /\ call' = "idle" /\ step' = "update"
    /\ UNCHANGED << service, recorded, leaked, desired, reapply, dropped, faults, drops >>

CallStep == CommandSucceeds \/ CommandFails \/ CommitGrants \/ ReturnError \/ FinishRevoke

Next ==
    \/ DropUser
    \/ DropRole
    \/ \E request \in Requests, all \in BOOLEAN : ApplyGrants(request, all)
    \/ RevokeGrants
    \/ ReplyLost
    \/ CallStep

Spec == Init /\ [][Next]_vars

\* A call goes on, and the server revokes what it has committed to revoke.
FairSpec == Spec /\ WF_vars(CallStep) /\ WF_vars(RevokeGrants)

-----------------------------------------------------------------------------
(* Properties                                                               *)

Promise(g) == IF ~Valid(g) THEN {}
              ELSE ActionsOf(g) \X (IF g.target = All THEN Collections
                                                      ELSE {g.target})

PromiseOf(gs) == UNION {Promise(g) : g \in gs}

\* The account can never do more than the grants on record, those still to be revoked
\* and those of the running update stand for; a failed update leaves nothing of it
\* behind ("undo it before returning"), save for a lost reply or a failed rollback,
\* and that only until the next call succeeds.
NoExcess ==
    Access \subseteq PromiseOf(recorded \cup pending \cup leaked
                                 \cup (IF call \in {"apply", "rollback"} THEN desired ELSE {}))

\* The grants on record are in effect at every moment, in the middle of calls and
\* after failures too ("kept grants are never transiently revoked"), from the update
\* that put back what somebody dropped.
KeptInEffect == dropped = "no" => PromiseOf(recorded) \subseteq Access

\* The commands add up to what GrantLedger promises: the ledger moves by updates and
\* revocations alone, what is being revoked never comes back, an update is on record
\* only when it is in effect, and only somebody else can take recorded access away.
Offered == leaked \cup (IF call \in {"apply", "rollback"} THEN desired ELSE {})

Ledger == INSTANCE GrantLedger WITH
            Meaning <- [g \in Grants |-> Promise(g)],
            access <- Access, offered <- Offered, intact <- (dropped = "no")

ImplementsGrantLedger == Ledger!Spec

\* What the server has committed to revoke is revoked, whatever is left.
RevokesComplete == pending # {} ~> pending = {}

=============================================================================
