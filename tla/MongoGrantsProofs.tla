-------------------------- MODULE MongoGrantsProofs --------------------------
(***************************************************************************)
(* Theorems about MongoGrants: types, that the account never has more than *)
(* its grants stand for, and that recorded grants stay in effect.          *)
(***************************************************************************)
EXTENDS MongoGrants, TLAPS

\* What an account that has the permissions ps can do.
Reach(ps) == {a \in Actions \X Collections :
                \E p \in ps : a[1] \in p.actions /\ p.on \in {a[2], All}}

LEMMA AccessIsReach ==
    /\ user = "present" /\ role = "present" => Access = Reach(perms)
    /\ ~(user = "present" /\ role = "present") => Access = {}
BY DEF Access, Reach

LEMMA GrantTypes ==
    ASSUME NEW g \in Grants
    PROVE  /\ g.type \in {"read", "create", "full"}
           /\ g.target \in Collections \cup SystemCollections \cup {All}
           /\ ActionsOf(g) \subseteq Actions
BY GrantsAssumption DEF ActionsOf, Actions

LEMMA PromiseMember ==
    ASSUME NEW gs, NEW a
    PROVE  a \in PromiseOf(gs) <=> \E g \in gs : a \in Promise(g)
BY DEF PromiseOf

LEMMA PromiseGrows ==
    ASSUME NEW gs, NEW hs, gs \subseteq hs
    PROVE  PromiseOf(gs) \subseteq PromiseOf(hs)
BY DEF PromiseOf

LEMMA PromiseIs ==
    ASSUME NEW g \in Grants, NEW a
    PROVE  a \in Promise(g) <=>
             /\ Valid(g)
             /\ a \in Actions \X Collections
             /\ a[1] \in ActionsOf(g) /\ g.target \in {a[2], All}
<1>1. ActionsOf(g) \subseteq Actions  BY GrantTypes
<1>2. Valid(g) => g.target \in Collections \cup {All}
  BY GrantTypes DEF Valid
<1>3. All \notin Collections  BY CollectionsAssumption
<1>4. CASE ~Valid(g)  BY <1>4 DEF Promise
<1>5. CASE Valid(g) /\ g.target = All
  <2>1. Promise(g) = ActionsOf(g) \X Collections  BY <1>5 DEF Promise
  <2>2. QED  BY <2>1, <1>1, <1>5
<1>6. CASE Valid(g) /\ g.target # All
  <2>1. Promise(g) = ActionsOf(g) \X {g.target}  BY <1>6 DEF Promise
  <2>2. g.target \in Collections  BY <1>6, <1>2
  <2>3. QED  BY <2>1, <2>2, <1>1, <1>6
<1>7. QED  BY <1>4, <1>5, <1>6

\* Whoever has one of the permissions of gs has it through a grant of gs, or through
\* the placeholder role.
LEMMA PermissionOrigin ==
    ASSUME NEW gs \in SUBSET Grants, NEW p \in PermissionsOf(gs), NEW x \in p.actions
    PROVE  \/ p.on = Baseline
           \/ \E g \in gs : g.target = p.on /\ x \in ActionsOf(g)
<1>1. CASE mode = "atlas"
  BY <1>1 DEF PermissionsOf, AtlasRoles, RoleFor
<1>2. CASE mode # "atlas"
  <2>1. PICK t \in {g.target : g \in gs} :
          p = [on |-> t, actions |->
                 UNION {ActionsOf(g) : g \in {h \in gs : h.target = t}}]
    BY <1>2 DEF PermissionsOf, MongoPrivileges
  <2>2. QED  BY <2>1
<1>3. QED  BY <1>1, <1>2

\* And every grant of gs has a permission that gives its actions on its target.
LEMMA PermissionFor ==
    ASSUME NEW gs \in SUBSET Grants, NEW g \in gs
    PROVE  \E p \in PermissionsOf(gs) : p.on = g.target /\ ActionsOf(g) \subseteq p.actions
<1>1. CASE mode = "atlas"
  <2>1. RoleFor(g) \in PermissionsOf(gs)  BY <1>1 DEF PermissionsOf, AtlasRoles
  <2>2. QED  BY <2>1 DEF RoleFor
<1>2. CASE mode # "atlas"
  <2> DEFINE p == [on |-> g.target, actions |->
                     UNION {ActionsOf(f) : f \in {h \in gs : h.target = g.target}}]
  <2>1. p \in PermissionsOf(gs)  BY <1>2 DEF PermissionsOf, MongoPrivileges
  <2>2. p.on = g.target /\ ActionsOf(g) \subseteq p.actions  OBVIOUS
  <2>3. QED  BY <2>1, <2>2
<1>3. QED  BY <1>1, <1>2

\* Both builders of permission sets give exactly what the grants stand for, if
\* all of them are valid.
LEMMA PermissionsAreExact ==
    ASSUME NEW gs \in SUBSET Grants
    PROVE  /\ PromiseOf(gs) \subseteq Reach(PermissionsOf(gs))
           /\ (\A g \in gs : Valid(g)) => Reach(PermissionsOf(gs)) \subseteq PromiseOf(gs)
<1>1. ASSUME NEW a \in PromiseOf(gs) PROVE a \in Reach(PermissionsOf(gs))
  <2>1. PICK g \in gs : a \in Promise(g)  BY <1>1, PromiseMember
  <2>2. /\ a \in Actions \X Collections /\ a[1] \in ActionsOf(g)
        /\ g.target \in {a[2], All}
    BY <2>1, PromiseIs
  <2>3. PICK p \in PermissionsOf(gs) : p.on = g.target /\ ActionsOf(g) \subseteq p.actions
    BY PermissionFor
  <2>4. QED  BY <2>2, <2>3 DEF Reach
<1>2. ASSUME \A g \in gs : Valid(g), NEW a \in Reach(PermissionsOf(gs))
      PROVE  a \in PromiseOf(gs)
  <2>1. PICK p \in PermissionsOf(gs) : a[1] \in p.actions /\ p.on \in {a[2], All}
    BY <1>2 DEF Reach
  <2>2. a \in Actions \X Collections  BY <1>2 DEF Reach
  <2>3. p.on # Baseline
    BY <2>1, <2>2, CollectionsAssumption DEF All, Baseline
  <2>4. PICK g \in gs : g.target = p.on /\ a[1] \in ActionsOf(g)
    BY <2>1, <2>3, PermissionOrigin
  <2>5. a \in Promise(g)  BY <1>2, <2>1, <2>2, <2>4, PromiseIs
  <2>6. QED  BY <2>5, PromiseMember
<1>3. QED  BY <1>1, <1>2

-----------------------------------------------------------------------------
(* Types                                                                    *)

LEMMA PermissionTypes ==
    ASSUME NEW gs \in SUBSET Grants
    PROVE  PermissionsOf(gs) \subseteq Permissions
<1> SUFFICES ASSUME NEW p \in PermissionsOf(gs) PROVE p \in Permissions
  OBVIOUS
<1>1. CASE mode = "atlas"
  <2>1. p \in {RoleFor(g) : g \in gs} \cup {[on |-> Baseline, actions |-> {"read"}]}
    BY <1>1 DEF PermissionsOf, AtlasRoles
  <2>2. ASSUME NEW g \in gs, p = RoleFor(g) PROVE p \in Permissions
    BY <2>2, GrantTypes DEF RoleFor, Permissions
  <2>3. QED  BY <2>1, <2>2 DEF Permissions, Actions
<1>2. CASE mode # "atlas"
  <2>1. PICK t \in {g.target : g \in gs} :
          p = [on |-> t, actions |->
                 UNION {ActionsOf(g) : g \in {h \in gs : h.target = t}}]
    BY <1>2 DEF PermissionsOf, MongoPrivileges
  <2>2. t \in Collections \cup SystemCollections \cup {All}  BY GrantTypes
  <2>3. UNION {ActionsOf(g) : g \in {h \in gs : h.target = t}} \subseteq Actions
    BY GrantTypes
  <2>4. QED  BY <2>1, <2>2, <2>3 DEF Permissions
<1>3. QED  BY <1>1, <1>2

LEMMA BuildingType ==
    ASSUME TypeOK
    PROVE  Building \in SUBSET Grants /\ PermissionsOf(Building) \subseteq Permissions
BY PermissionTypes DEF TypeOK, Building

LEMMA InitTypes == Init => TypeOK
<1> SUFFICES ASSUME Init PROVE TypeOK
  OBVIOUS
<1>1. PermissionsOf({}) \subseteq Permissions  BY PermissionTypes
<1>2. mode \in Modes /\ user = "present" /\ role = "present" /\ perms \subseteq Permissions
  BY <1>1 DEF Init
<1>3. reapply \in BOOLEAN  BY DEF Init
<1>4. /\ recorded = {} /\ pending = {} /\ leaked = {} /\ desired = {}
      /\ call = "idle" /\ step = "update" /\ dropped = "no" /\ faults = 0 /\ drops = 0
  BY DEF Init
<1>5. QED  BY <1>2, <1>3, <1>4, BoundsAssumption DEF TypeOK

\* What a command may do to the service, and what a failed call does to the rest.
LEMMA CommandTypes ==
    ASSUME TypeOK, Command, mode' = mode
    PROVE  /\ user' \in {"present", "stripped", "absent"} /\ role' \in {"present", "absent"}
           /\ perms' \subseteq Permissions
           /\ mode' = "atlas" => (role' = "present" <=> user' = "present")
<1>1. PermissionsOf(Building) \subseteq Permissions  BY BuildingType
<1>2. CASE Update  BY <1>1, <1>2 DEF Update, Put, TypeOK
<1>3. CASE Create  BY <1>1, <1>3 DEF Create, Put, TypeOK
<1>4. CASE Lookup  BY <1>4 DEF Lookup, TypeOK
<1>5. CASE Recreate  BY <1>5 DEF Recreate, TypeOK
<1>6. QED  BY <1>2, <1>3, <1>4, <1>5 DEF Command

LEMMA FailureTypes ==
    ASSUME TypeOK, CallFails
    PROVE  /\ call' \in {"idle", "rollback"} /\ step' = "update"
           /\ desired' \in {desired, recorded} /\ reapply' = FALSE
BY DEF CallFails, TypeOK

LEMMA StepKeepsTypes == TypeOK /\ [Next]_vars => TypeOK'
<1> SUFFICES ASSUME TypeOK, [Next]_vars PROVE TypeOK'
  OBVIOUS
<1> USE DEF service, ledger
<1>1. CASE DropUser  BY <1>1, BoundsAssumption DEF DropUser, Drops, TypeOK
<1>2. CASE DropRole  BY <1>2, BoundsAssumption DEF DropRole, Drops, TypeOK
<1>3. ASSUME NEW request \in Requests, NEW all \in BOOLEAN, ApplyGrants(request, all)
      PROVE  TypeOK'
  <2>1. request \in SUBSET Grants  BY RequestsAssumption
  <2>2. QED  BY <1>3, <2>1 DEF ApplyGrants, TypeOK
<1>4. CASE RevokeGrants  BY <1>4 DEF RevokeGrants, TypeOK
<1>5. CASE ReplyLost
  <2>1. Command /\ CallFails /\ mode' = mode  BY <1>5 DEF ReplyLost
  <2>2. leaked' \subseteq Grants  BY <1>5 DEF ReplyLost, TypeOK
  <2>3. /\ recorded' = recorded /\ pending' = pending
        /\ dropped' = dropped /\ drops' = drops
        /\ faults < MaxFaults /\ faults' = faults + 1
    BY <1>5 DEF ReplyLost, InjectFault
  <2>4. /\ user' \in {"present", "stripped", "absent"} /\ role' \in {"present", "absent"}
        /\ perms' \subseteq Permissions
        /\ mode' = "atlas" => (role' = "present" <=> user' = "present")
    BY <2>1, CommandTypes
  <2>5. /\ call' \in {"idle", "rollback"} /\ step' = "update"
        /\ desired' \subseteq Grants /\ reapply' \in BOOLEAN
    BY <2>1, FailureTypes DEF TypeOK
  <2>6. faults' \in 0 .. MaxFaults  BY <2>3, BoundsAssumption DEF TypeOK
  <2>7. QED  BY <2>1, <2>2, <2>3, <2>4, <2>5, <2>6 DEF TypeOK
<1>6. CASE CommandSucceeds
  <2>1. Command /\ mode' = mode  BY <1>6 DEF CommandSucceeds
  <2>2. step' \in {"update", "create", "lookup", "recreate", "return"}
    BY <1>6 DEF CommandSucceeds, AfterSet
  <2>3. step' \in {"lookup", "recreate"} => call = "apply" /\ reapply /\ mode = "mongodb"
    BY <1>6 DEF CommandSucceeds, AfterSet, TypeOK
  <2>4. QED  BY <1>6, <2>1, <2>2, <2>3, CommandTypes DEF CommandSucceeds, TypeOK
<1>7. CASE CommandFails
  <2>1. CallFails /\ leaked' \subseteq Grants /\ faults' \in 0 .. MaxFaults
    BY <1>7, BoundsAssumption DEF CommandFails, InjectFault, TypeOK
  <2>2. QED  BY <1>7, <2>1, FailureTypes DEF CommandFails, TypeOK
<1>8. CASE CommitGrants  BY <1>8 DEF CommitGrants, TypeOK
<1>9. CASE ReturnError  BY <1>9 DEF ReturnError, TypeOK
<1>10. CASE FinishRevoke  BY <1>10 DEF FinishRevoke, TypeOK
<1>11. CASE UNCHANGED vars  BY <1>11 DEF vars, TypeOK
<1>12. QED
  BY <1>1, <1>2, <1>3, <1>4, <1>5, <1>6, <1>7, <1>8, <1>9, <1>10, <1>11
  DEF Next, CallStep

\* Every reachable state is well typed.
THEOREM TypeCorrect == Spec => []TypeOK
BY InitTypes, StepKeepsTypes, PTL DEF Spec

-----------------------------------------------------------------------------
(* The account never has more than its grants stand for                     *)

\* NoExcess as it stands is not inductive: that a commit or a rollback may forget the
\* grants of a failed update depends on what the call has put in place by then.
RecordedValid == \A g \in recorded : Valid(g)

BuildingValid == step # "update" => \A g \in Building : Valid(g)

IdleAtStart == call = "idle" => step = "update"

InPlace ==
    step \in {"lookup", "recreate", "return"} /\ role = "present"
        => perms = PermissionsOf(Building)

\* Before the running call has put anything in place.
Before ==
    step \in {"update", "create"}
        => Access \subseteq PromiseOf(recorded \cup pending \cup leaked
                                       \cup (IF call = "rollback" THEN desired ELSE {}))

SafetyInv == RecordedValid /\ BuildingValid /\ IdleAtStart /\ InPlace /\ Before

LEMMA AccessWithinReach == Access \subseteq Reach(perms) /\ Access' \subseteq Reach(perms')
BY DEF Access, Reach

\* After the commands that change the permission set, the account has what is built.
LEMMA PlacedIsBounded ==
    ASSUME TypeOK, SafetyInv, step \notin {"update", "create"}
    PROVE  Access \subseteq PromiseOf(Building)
<1>1. step \in {"lookup", "recreate", "return"}  BY DEF TypeOK
<1>2. Building \in SUBSET Grants /\ \A g \in Building : Valid(g)
  BY <1>1, BuildingType DEF SafetyInv, BuildingValid
<1>3. CASE role = "present"
  <2>1. perms = PermissionsOf(Building)  BY <1>1, <1>3 DEF SafetyInv, InPlace
  <2>2. Reach(perms) \subseteq PromiseOf(Building)  BY <2>1, <1>2, PermissionsAreExact
  <2>3. QED  BY <2>2, AccessWithinReach
<1>4. CASE role # "present"  BY <1>4, AccessIsReach
<1>5. QED  BY <1>3, <1>4

LEMMA BoundImpliesNoExcess == TypeOK /\ SafetyInv => NoExcess
<1> SUFFICES ASSUME TypeOK, SafetyInv PROVE NoExcess
  OBVIOUS
<1> DEFINE granted == recorded \cup pending \cup leaked
                        \cup (IF call \in {"apply", "rollback"} THEN desired ELSE {})
<1>1. CASE step \in {"update", "create"}
  <2>1. recorded \cup pending \cup leaked \cup (IF call = "rollback" THEN desired ELSE {})
          \subseteq granted
    OBVIOUS
  <2>2. QED  BY <1>1, <2>1, PromiseGrows DEF SafetyInv, Before, NoExcess
<1>2. CASE step \notin {"update", "create"}
  <2>1. Building \subseteq granted  BY DEF Building
  <2>2. PromiseOf(Building) \subseteq PromiseOf(granted)  BY <2>1, PromiseGrows
  <2>3. QED  BY <1>2, <2>2, PlacedIsBounded DEF NoExcess
<1>3. QED  BY <1>1, <1>2

\* A command that has its effect: either it replaces the set, or it leaves it.
LEMMA CommandReplaces ==
    ASSUME TypeOK, SafetyInv, Command, mode' = mode
    PROVE  /\ step \in {"update", "create", "lookup", "recreate"}
           /\ \A g \in Building : Valid(g)
           /\ Replaces => role' = "present" /\ perms' = PermissionsOf(Building)
           /\ step = "update" /\ ~Replaces => Access' = {}
           /\ step \in {"lookup", "recreate"} => role' = role /\ perms' = perms
           /\ step # "update" => (Access' \subseteq PromiseOf(Building))
           /\ Replaces => (Access' \subseteq PromiseOf(Building))
<1>1. CASE Update
  <2>1. step = "update" /\ \A g \in Building : Valid(g)  BY <1>1 DEF Update
  <2>2. Replaces => role' = "present" /\ perms' = PermissionsOf(Building)
    BY <1>1 DEF Update, Put, Replaces
  <2>3. ~Replaces => Access' = {}
    BY <1>1, <2>1 DEF Update, Replaces, Access, TypeOK
  <2>4. Replaces => Access' \subseteq PromiseOf(Building)
    BY <2>1, <2>2, AccessWithinReach, BuildingType, PermissionsAreExact
  <2>5. QED  BY <2>1, <2>2, <2>3, <2>4
<1>2. CASE Create
  <2>1. step = "create" /\ role' = "present" /\ perms' = PermissionsOf(Building)
    BY <1>2 DEF Create, Put
  <2>2. \A g \in Building : Valid(g)  BY <2>1 DEF SafetyInv, BuildingValid
  <2>3. Access' \subseteq PromiseOf(Building)
    BY <2>1, <2>2, AccessWithinReach, BuildingType, PermissionsAreExact
  <2>4. QED  BY <2>1, <2>2, <2>3
<1>3. CASE Lookup \/ Recreate
  <2>1. step \in {"lookup", "recreate"} /\ role' = role /\ perms' = perms
    BY <1>3 DEF Lookup, Recreate
  <2>2. \A g \in Building : Valid(g)  BY <2>1 DEF SafetyInv, BuildingValid
  <2>3. Access' \subseteq PromiseOf(Building)
    <3>1. CASE role = "present"
      <4>1. perms = PermissionsOf(Building)  BY <2>1, <3>1 DEF SafetyInv, InPlace
      <4>2. QED  BY <4>1, <2>1, <2>2, AccessWithinReach, BuildingType, PermissionsAreExact
    <3>2. CASE role # "present"
      <4>1. Access' = {}  BY <2>1, <3>2 DEF Access
      <4>2. QED  BY <4>1
    <3>3. QED  BY <3>1, <3>2
  <2>4. ~Replaces  BY <2>1 DEF Replaces
  <2>5. QED  BY <2>1, <2>2, <2>3, <2>4
<1>4. QED  BY <1>1, <1>2, <1>3 DEF Command

LEMMA InitSafety == Init => SafetyInv
<1> SUFFICES ASSUME Init PROVE SafetyInv
  OBVIOUS
<1>1. PermissionsOf({}) \subseteq Permissions /\ Reach(PermissionsOf({})) \subseteq PromiseOf({})
  BY PermissionTypes, PermissionsAreExact
<1>2. Access \subseteq PromiseOf({})  BY <1>1, AccessWithinReach DEF Init
<1>3. recorded \cup pending \cup leaked \cup (IF call = "rollback" THEN desired ELSE {}) = {}
  BY DEF Init
<1>4. Before  BY <1>2, <1>3 DEF Before
<1>5. QED
  BY <1>4 DEF Init, SafetyInv, RecordedValid, BuildingValid, IdleAtStart, InPlace

\* A step back to the start of a call, after which the account has no more than
\* what is then on record, still to be revoked, or left by a failed update.
LEMMA BackAtStart ==
    ASSUME step' = "update", RecordedValid', NEW gs, Access' \subseteq PromiseOf(gs),
           gs \subseteq recorded' \cup pending' \cup leaked'
                           \cup (IF call' = "rollback" THEN desired' ELSE {})
    PROVE  SafetyInv'
<1>1. Before'  BY PromiseGrows DEF Before
<1>2. QED
  BY <1>1 DEF SafetyInv, BuildingValid, IdleAtStart, InPlace

LEMMA StepKeepsSafety == TypeOK /\ SafetyInv /\ [Next]_vars => SafetyInv'
<1> SUFFICES ASSUME TypeOK, SafetyInv, [Next]_vars PROVE SafetyInv'
  OBVIOUS
<1> USE DEF service, ledger
<1> DEFINE granted == recorded \cup pending \cup leaked
                        \cup (IF call \in {"apply", "rollback"} THEN desired ELSE {})
<1>0. Access \subseteq PromiseOf(granted)  BY BoundImpliesNoExcess DEF NoExcess
<1>1. CASE DropUser \/ DropRole
  <2>1. /\ UNCHANGED << mode, recorded, pending, leaked, call, step, desired >>
        /\ role' = "present" => role = "present" /\ perms' = perms
    BY <1>1 DEF DropUser, DropRole, Drops, TypeOK
  <2>2. Access' = {}  BY <1>1 DEF DropUser, DropRole, Access, TypeOK
  <2>3. Building' = Building /\ PermissionsOf(Building)' = PermissionsOf(Building)
    BY <2>1 DEF Building, PermissionsOf
  <2>4. RecordedValid' /\ BuildingValid' /\ IdleAtStart'
    BY <2>1, <2>3 DEF SafetyInv, RecordedValid, BuildingValid, IdleAtStart
  <2>5. InPlace'  BY <2>1, <2>3 DEF SafetyInv, InPlace
  <2>6. Before'  BY <2>2 DEF Before
  <2>7. QED  BY <2>4, <2>5, <2>6 DEF SafetyInv
<1>2. ASSUME NEW request \in Requests, NEW all \in BOOLEAN, ApplyGrants(request, all)
      PROVE  SafetyInv'
  <2>1. step = "update" /\ call = "idle"  BY <1>2 DEF ApplyGrants, SafetyInv, IdleAtStart
  <2>2. Access' = Access /\ RecordedValid'
    BY <1>2 DEF ApplyGrants, Access, SafetyInv, RecordedValid
  <2>3. step' = "update" /\ UNCHANGED << recorded, pending, leaked >>
    BY <1>2, <2>1 DEF ApplyGrants
  <2>4. QED  BY <1>0, <2>1, <2>2, <2>3, BackAtStart
<1>3. CASE RevokeGrants
  <2>1. step = "update" /\ call = "idle"  BY <1>3 DEF RevokeGrants, SafetyInv, IdleAtStart
  <2>2. Access' = Access /\ RecordedValid'
    BY <1>3 DEF RevokeGrants, Access, SafetyInv, RecordedValid
  <2>3. step' = "update" /\ UNCHANGED << recorded, pending, leaked >>
    BY <1>3, <2>1 DEF RevokeGrants
  <2>4. QED  BY <1>0, <2>1, <2>2, <2>3, BackAtStart
<1>4. CASE CommandSucceeds
  <2>1. Command /\ UNCHANGED << mode, recorded, pending, call, desired >>
    BY <1>4 DEF CommandSucceeds
  <2>2. /\ \A g \in Building : Valid(g)
        /\ Replaces => role' = "present" /\ perms' = PermissionsOf(Building)
        /\ step = "update" /\ ~Replaces => Access' = {}
        /\ step \in {"lookup", "recreate"} => role' = role /\ perms' = perms
    BY <2>1, CommandReplaces
  <2>3. Building' = Building /\ PermissionsOf(Building)' = PermissionsOf(Building)
    BY <2>1 DEF Building, PermissionsOf
  <2>4. step \in {"update", "create", "lookup", "recreate"}  BY <2>1, CommandReplaces
  <2>5. /\ step = "update" /\ ~Replaces => step' = "create"
        /\ Replaces \/ step \in {"lookup", "recreate"}
             => step' \in {"lookup", "recreate", "return"}
    BY <1>4, <2>4 DEF CommandSucceeds, AfterSet, Replaces, TypeOK
  <2>6. RecordedValid' /\ BuildingValid'
    BY <2>1, <2>2, <2>3 DEF SafetyInv, RecordedValid, BuildingValid
  <2>7. IdleAtStart'  BY <2>1 DEF Command, IdleAtStart
  <2>8. InPlace'
    <3>1. CASE Replaces  BY <3>1, <2>2, <2>3 DEF InPlace
    <3>2. CASE step = "update" /\ ~Replaces  BY <3>2, <2>5 DEF InPlace
    <3>3. CASE step \in {"lookup", "recreate"}
      BY <3>3, <2>2, <2>3 DEF SafetyInv, InPlace
    <3>4. QED  BY <3>1, <3>2, <3>3, <2>4 DEF Replaces
  <2>9. Before'
    <3>1. CASE step = "update" /\ ~Replaces  BY <3>1, <2>2 DEF Before
    <3>2. CASE Replaces \/ step \in {"lookup", "recreate"}  BY <3>2, <2>5 DEF Before
    <3>3. QED  BY <3>1, <3>2, <2>4 DEF Replaces
  <2>10. QED  BY <2>6, <2>7, <2>8, <2>9 DEF SafetyInv
<1>5. CASE CommandFails
  <2>1. CallFails /\ step # "return" /\ call # "idle"  BY <1>5 DEF CommandFails
  <2>2. Access' = Access /\ RecordedValid' /\ step' = "update"
    BY <1>5, <2>1, FailureTypes DEF CommandFails, Access, SafetyInv, RecordedValid
  <2>3. CASE step \in {"lookup", "recreate"}
    <3>1. call = "apply" /\ call' = "rollback" /\ desired' = desired /\ leaked' = leaked
      BY <1>5, <2>1, <2>3 DEF CallFails, CommandFails, TypeOK
    <3>2. UNCHANGED << recorded, pending >>  BY <1>5 DEF CommandFails
    <3>3. QED  BY <1>0, <2>2, <3>1, <3>2, BackAtStart
  <2>4. CASE step \in {"update", "create"}
    <3> DEFINE gs == recorded \cup pending \cup leaked
                       \cup (IF call = "rollback" THEN desired ELSE {})
    <3>1. Access \subseteq PromiseOf(gs)  BY <2>4 DEF SafetyInv, Before
    <3>2. gs \subseteq recorded' \cup pending' \cup leaked'  BY <1>5 DEF CommandFails
    <3>3. QED  BY <2>2, <3>1, <3>2, BackAtStart
  <2>5. QED  BY <2>1, <2>3, <2>4 DEF TypeOK
<1>6. CASE ReplyLost
  <2>1. Command /\ CallFails /\ mode' = mode /\ UNCHANGED << recorded, pending >>
    BY <1>6 DEF ReplyLost
  <2>2. step' = "update" /\ RecordedValid'
    BY <2>1, FailureTypes DEF SafetyInv, RecordedValid
  <2>3. CASE step = "update" /\ ~Replaces
    <3>1. Access' = {}  BY <2>1, <2>3, CommandReplaces
    <3>2. Access' \subseteq PromiseOf({})  BY <3>1
    <3>3. QED  BY <2>2, <3>2, BackAtStart
  <2>4. CASE Replaces \/ step \in {"lookup", "recreate"}
    <3>1. Access' \subseteq PromiseOf(Building)
      BY <2>1, <2>4, CommandReplaces
    <3>2. CASE Replaces
      <4>1. Building \subseteq recorded' \cup pending' \cup leaked'
        BY <1>6, <2>1, <3>2 DEF ReplyLost, Building
      <4>2. QED  BY <2>2, <3>1, <4>1, BackAtStart
    <3>3. CASE step \in {"lookup", "recreate"}
      <4>1. call' = "rollback" /\ desired' = desired  BY <2>1, <3>3 DEF CallFails
      <4>2. Building \subseteq recorded' \cup desired'  BY <2>1, <4>1 DEF Building
      <4>3. QED  BY <2>2, <3>1, <4>1, <4>2, BackAtStart
    <3>4. QED  BY <2>4, <3>2, <3>3
  <2>5. QED  BY <2>1, <2>3, <2>4, CommandReplaces DEF Replaces
<1>7. CASE CommitGrants
  <2>1. /\ Access' = Access /\ step' = "update" /\ recorded' = desired
        /\ pending' = recorded \ desired /\ Building = recorded \cup desired
        /\ step = "return"
    BY <1>7 DEF CommitGrants, Access, Building
  <2>2. RecordedValid'  BY <2>1 DEF SafetyInv, BuildingValid, RecordedValid
  <2>3. Access' \subseteq PromiseOf(Building)  BY <2>1, PlacedIsBounded
  <2>4. Building \subseteq recorded' \cup pending'  BY <2>1
  <2>5. QED  BY <2>1, <2>2, <2>3, <2>4, BackAtStart
<1>8. CASE ReturnError \/ FinishRevoke
  <2>1. /\ Access' = Access /\ step' = "update" /\ recorded' = recorded
        /\ Building = recorded /\ step = "return"
    BY <1>8 DEF ReturnError, FinishRevoke, Access, Building
  <2>2. RecordedValid'  BY <2>1 DEF SafetyInv, RecordedValid
  <2>3. Access' \subseteq PromiseOf(Building)  BY <2>1, PlacedIsBounded
  <2>4. QED  BY <2>1, <2>2, <2>3, BackAtStart
<1>9. CASE UNCHANGED vars
  BY <1>9 DEF vars, SafetyInv, RecordedValid, BuildingValid, IdleAtStart, InPlace, Before,
     Building, PermissionsOf, AtlasRoles, MongoPrivileges, Access
<1>10. QED
  BY <1>1, <1>2, <1>3, <1>4, <1>5, <1>6, <1>7, <1>8, <1>9 DEF Next, CallStep

\* The account never has more than the grants on record, those still to be revoked and
\* those of the running update stand for, whatever is dropped, fails or is lost.
THEOREM NoExcessHolds == Spec => []NoExcess
<1>1. Init => TypeOK /\ SafetyInv  BY InitTypes, InitSafety
<1>2. TypeOK /\ SafetyInv /\ [Next]_vars => (TypeOK /\ SafetyInv)'
  BY StepKeepsTypes, StepKeepsSafety
<1>3. TypeOK /\ SafetyInv => NoExcess  BY BoundImpliesNoExcess
<1>4. QED  BY <1>1, <1>2, <1>3, PTL DEF Spec

-----------------------------------------------------------------------------
(* Recorded grants stay in effect                                           *)

\* Until somebody drops it, the account has what is recorded, and a call that has put
\* its set in place, with nothing dropped meanwhile, has put back what was.
InEffect ==
    dropped = "no" => /\ user = "present" /\ role = "present"
                      /\ PromiseOf(recorded) \subseteq Reach(perms)

RolePutBack ==
    /\ call = "apply" /\ dropped # "during" /\ step \in {"lookup", "recreate", "return"}
    => role = "present"

UserPutBack ==
    call = "apply" /\ dropped # "during" /\ step = "return" /\ Restores => user = "present"

NeverStripped == user # "stripped"

EffectInv == InEffect /\ RolePutBack /\ UserPutBack /\ NeverStripped

LEMMA InitEffect == Init => EffectInv
<1> SUFFICES ASSUME Init PROVE EffectInv
  OBVIOUS
<1>1. InEffect  BY PermissionsAreExact DEF Init, InEffect
<1>2. QED  BY <1>1 DEF Init, EffectInv, RolePutBack, UserPutBack, NeverStripped

\* A command never takes anything on record away.
LEMMA CommandKeepsEffect ==
    ASSUME TypeOK, SafetyInv, EffectInv, Command,
           UNCHANGED << mode, recorded, dropped >>
    PROVE  InEffect' /\ NeverStripped' /\ (user = "present" => user' = "present")
<1>1. user = "present" => user' = "present"
  BY DEF Command, Update, Create, Lookup, Recreate
<1>2. NeverStripped'
  BY DEF Command, Update, Create, Lookup, Recreate, EffectInv, NeverStripped
<1>3. ASSUME dropped = "no" PROVE role' = "present" /\ PromiseOf(recorded) \subseteq Reach(perms')
  <2>1. role = "present" /\ PromiseOf(recorded) \subseteq Reach(perms)
    BY <1>3 DEF EffectInv, InEffect
  <2>2. CASE Replaces
    <3>1. role' = "present" /\ perms' = PermissionsOf(Building)
      BY <2>2, CommandReplaces
    <3>2. PromiseOf(Building) \subseteq Reach(PermissionsOf(Building))
      BY BuildingType, PermissionsAreExact
    <3>3. PromiseOf(recorded) \subseteq PromiseOf(Building)
      BY PromiseGrows DEF Building
    <3>4. QED  BY <3>1, <3>2, <3>3
  <2>3. CASE step \in {"lookup", "recreate"}  BY <2>1, <2>3, CommandReplaces
  <2>4. QED  BY <2>1, <2>2, <2>3, CommandReplaces DEF Replaces
<1>4. InEffect'  BY <1>1, <1>3 DEF EffectInv, InEffect
<1>5. QED  BY <1>1, <1>2, <1>4

LEMMA StepKeepsEffect ==
    ASSUME ~RoleDropsAlone, TypeOK, SafetyInv, EffectInv, [Next]_vars
    PROVE  EffectInv'
<1> USE DEF service, ledger
<1>1. CASE DropUser \/ DropRole
  <2>1. dropped' # "no" /\ call' = call /\ (call = "apply" => dropped' = "during")
    BY <1>1 DEF DropUser, DropRole, Drops
  <2>2. NeverStripped'
    BY <1>1 DEF DropUser, DropRole, EffectInv, NeverStripped
  <2>3. QED  BY <2>1, <2>2 DEF EffectInv, InEffect, RolePutBack, UserPutBack
<1>2. ASSUME NEW request \in Requests, NEW all \in BOOLEAN, ApplyGrants(request, all)
      PROVE  EffectInv'
  <2>1. step' = "update"  BY <1>2 DEF ApplyGrants, SafetyInv, IdleAtStart
  <2>2. /\ UNCHANGED << user, role, perms, recorded >>
        /\ dropped' = "no" => dropped = "no"
    BY <1>2 DEF ApplyGrants
  <2>3. InEffect' /\ NeverStripped'  BY <2>2 DEF EffectInv, InEffect, NeverStripped
  <2>4. QED  BY <2>1, <2>3 DEF EffectInv, RolePutBack, UserPutBack
<1>3. CASE RevokeGrants
  <2>1. call' = "revoke" /\ UNCHANGED << user, role, perms, recorded, dropped >>
    BY <1>3 DEF RevokeGrants
  <2>2. QED  BY <2>1 DEF EffectInv, InEffect, RolePutBack, UserPutBack, NeverStripped
<1>4. CASE CommandSucceeds
  <2>1. Command /\ UNCHANGED << mode, recorded, call, reapply, dropped >>
    BY <1>4 DEF CommandSucceeds
  <2>2. InEffect' /\ NeverStripped'  BY <2>1, CommandKeepsEffect
  <2>3. step \in {"update", "create", "lookup", "recreate"}  BY <2>1, CommandReplaces
  <2>4. RolePutBack'
    <3>1. CASE Replaces  BY <3>1, <2>1, CommandReplaces DEF RolePutBack
    <3>2. CASE step = "update" /\ ~Replaces
      <4>1. step' = "create"  BY <1>4, <3>2 DEF CommandSucceeds, Replaces, TypeOK
      <4>2. QED  BY <4>1 DEF RolePutBack
    <3>3. CASE step \in {"lookup", "recreate"}
      <4>1. role' = role  BY <2>1, <3>3, CommandReplaces
      <4>2. QED  BY <2>1, <3>3, <4>1 DEF EffectInv, RolePutBack
    <3>4. QED  BY <2>3, <3>1, <3>2, <3>3 DEF Replaces
  <2>5. UserPutBack'
    <3> SUFFICES ASSUME call = "apply", step' = "return", mode = "atlas" \/ reapply
                 PROVE  user' = "present"
      BY <2>1 DEF UserPutBack, Restores
    <3>1. CASE step \in {"update", "create"} /\ mode = "atlas"
      <4>1. role' = "present"
        BY <1>4, <2>1, <3>1, CommandReplaces DEF CommandSucceeds, Replaces, TypeOK
      <4>2. QED  BY <2>1, <3>1, <4>1, CommandTypes
    <3>2. CASE step \in {"update", "create"} /\ mode # "atlas"
      <4>1. mode = "mongodb" /\ reapply  BY <3>2, ModesAssumption DEF TypeOK
      <4>2. step' \in {"create", "lookup"}
        BY <1>4, <3>2, <4>1 DEF CommandSucceeds, Replaces, AfterSet, TypeOK
      <4>3. QED  BY <4>2
    <3>3. CASE step = "lookup"
      <4>1. user # "absent"  BY <1>4, <3>3 DEF CommandSucceeds, Replaces
      <4>2. user = "present"  BY <4>1 DEF EffectInv, NeverStripped, TypeOK
      <4>3. QED  BY <4>2, <2>1, CommandKeepsEffect
    <3>4. CASE step = "recreate"
      BY <2>1, <3>4 DEF Command, Update, Create, Lookup, Recreate
    <3>5. QED  BY <2>3, <3>1, <3>2, <3>3, <3>4
  <2>6. QED  BY <2>2, <2>4, <2>5 DEF EffectInv
<1>5. CASE CommandFails
  <2>1. step' = "update" /\ UNCHANGED << user, role, perms, recorded, dropped >>
    BY <1>5, FailureTypes DEF CommandFails
  <2>2. QED  BY <2>1 DEF EffectInv, InEffect, RolePutBack, UserPutBack, NeverStripped
<1>6. CASE ReplyLost
  <2>1. Command /\ step' = "update" /\ UNCHANGED << mode, recorded, dropped >>
    BY <1>6, FailureTypes DEF ReplyLost
  <2>2. InEffect' /\ NeverStripped'  BY <2>1, CommandKeepsEffect
  <2>3. QED  BY <2>1, <2>2 DEF EffectInv, RolePutBack, UserPutBack
<1>7. CASE CommitGrants
  <2>1. /\ call = "apply" /\ step = "return" /\ step' = "update"
        /\ UNCHANGED << user, role, perms, mode >>
        /\ recorded' = desired /\ Building = recorded \cup desired
        /\ dropped' = "no" => dropped = "no" \/ (dropped = "before" /\ Restores)
    BY <1>7 DEF CommitGrants, Building
  <2>2. ASSUME dropped' = "no"
        PROVE  /\ user = "present" /\ role = "present"
               /\ PromiseOf(desired) \subseteq Reach(perms)
    <3>1. user = "present" /\ role = "present"
      BY <2>1, <2>2 DEF EffectInv, InEffect, RolePutBack, UserPutBack
    <3>2. perms = PermissionsOf(Building)  BY <2>1, <3>1 DEF SafetyInv, InPlace
    <3>3. PromiseOf(Building) \subseteq Reach(perms)
      BY <3>2, BuildingType, PermissionsAreExact
    <3>4. PromiseOf(desired) \subseteq PromiseOf(Building)  BY <2>1, PromiseGrows
    <3>5. QED  BY <3>1, <3>3, <3>4
  <2>3. InEffect' /\ NeverStripped'
    BY <2>1, <2>2 DEF EffectInv, InEffect, NeverStripped
  <2>4. QED  BY <2>1, <2>3 DEF EffectInv, RolePutBack, UserPutBack
<1>8. CASE ReturnError \/ FinishRevoke
  <2>1. step' = "update" /\ UNCHANGED << user, role, perms, recorded, dropped >>
    BY <1>8 DEF ReturnError, FinishRevoke
  <2>2. QED  BY <2>1 DEF EffectInv, InEffect, RolePutBack, UserPutBack, NeverStripped
<1>9. CASE UNCHANGED vars
  BY <1>9 DEF vars, EffectInv, InEffect, RolePutBack, UserPutBack, NeverStripped, Restores
<1>10. QED
  BY <1>1, <1>2, <1>3, <1>4, <1>5, <1>6, <1>7, <1>8, <1>9 DEF Next, CallStep

\* Unless a role is dropped while its user stays, the grants on record are in effect at
\* every moment, from the update that put back what somebody dropped.
THEOREM KeptInEffectHolds ==
    ASSUME ~RoleDropsAlone
    PROVE  Spec => []KeptInEffect
<1>1. Init => TypeOK /\ SafetyInv /\ EffectInv  BY InitTypes, InitSafety, InitEffect
<1>2. TypeOK /\ SafetyInv /\ EffectInv /\ [Next]_vars => (TypeOK /\ SafetyInv /\ EffectInv)'
  BY StepKeepsTypes, StepKeepsSafety, StepKeepsEffect
<1>3. EffectInv => KeptInEffect  BY AccessIsReach DEF EffectInv, InEffect, KeptInEffect
<1>4. QED  BY <1>1, <1>2, <1>3, PTL DEF Spec

=============================================================================
