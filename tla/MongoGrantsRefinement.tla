------------------------ MODULE MongoGrantsRefinement ------------------------
(***************************************************************************)
(* MongoGrants implements GrantLedger: every call, command, failure and    *)
(* outside drop is one step of the ledger, or leaves it alone.             *)
(***************************************************************************)
EXTENDS MongoGrantsProofs

Inv == TypeOK /\ SafetyInv /\ EffectInv

LEMMA TotalIsPromise ==
    ASSUME NEW gs \in SUBSET Grants
    PROVE  Ledger!Total(gs) = PromiseOf(gs)
BY DEF Ledger!Total, PromiseOf

LEMMA LedgerTypes == TypeOK => Offered \in SUBSET Grants
BY DEF TypeOK, Offered

\* The account is always between what the ledger demands and what it allows.
LEMMA WithinLedger == Inv => Ledger!Allowed /\ Ledger!Demanded
<1> SUFFICES ASSUME Inv PROVE Ledger!Allowed /\ Ledger!Demanded
  OBVIOUS
<1>1. TypeOK /\ SafetyInv /\ EffectInv  BY DEF Inv
<1>2. /\ recorded \in SUBSET Grants
      /\ recorded \cup pending \cup Offered \in SUBSET Grants
  BY <1>1, LedgerTypes DEF TypeOK
<1>3. Ledger!Allowed
  <2>1. Access \subseteq PromiseOf(recorded \cup pending \cup leaked
                      \cup (IF call \in {"apply", "rollback"} THEN desired ELSE {}))
    BY <1>1, BoundImpliesNoExcess DEF NoExcess
  <2>2. recorded \cup pending \cup Offered
          = recorded \cup pending \cup leaked
              \cup (IF call \in {"apply", "rollback"} THEN desired ELSE {})
    BY DEF Offered
  <2>3. Access \subseteq Ledger!Total(recorded \cup pending \cup Offered)
    BY <2>1, <2>2, <1>2, TotalIsPromise
  <2>4. QED  BY <2>3 DEF Ledger!Allowed
<1>4. Ledger!Demanded
  <2>1. dropped = "no" => PromiseOf(recorded) \subseteq Access
    BY <1>1, AccessIsReach DEF EffectInv, InEffect
  <2>2. QED  BY <2>1, <1>2, TotalIsPromise DEF Ledger!Demanded
<1>5. QED  BY <1>3, <1>4

LEMMA WithinLedgerNext == Inv' => Ledger!Allowed' /\ Ledger!Demanded'
BY WithinLedger, PTL

LEMMA InitIsLedgerInit == Init => Ledger!Init
<1> SUFFICES ASSUME Init PROVE Ledger!Init
  OBVIOUS
<1>1. Reach(PermissionsOf({})) \subseteq PromiseOf({})  BY PermissionsAreExact
<1>2. Access = {}
  BY <1>1, AccessIsReach DEF Init, PromiseOf
<1>3. Offered = {}  BY DEF Init, Offered
<1>4. QED  BY <1>2, <1>3 DEF Init, Ledger!Init

\* A command changes the access only towards the grants it builds the set from.
LEMMA CommandIsWork ==
    ASSUME Inv, Inv', Command, Offered' \subseteq Offered,
           UNCHANGED << mode, recorded, pending, dropped >>
    PROVE  Ledger!Work
<1>1. TypeOK /\ SafetyInv  BY DEF Inv
<1>2. Access' = {} \/ Access' \subseteq PromiseOf(Building)
  BY <1>1, CommandReplaces
<1>3. recorded \cup Offered \in SUBSET Grants  BY <1>1, LedgerTypes DEF TypeOK
<1>4. PromiseOf(Building) \subseteq PromiseOf(recorded \cup Offered)
  BY PromiseGrows DEF Building, Offered
<1>5. Access' \ Access \subseteq Ledger!Total(recorded \cup Offered)
  BY <1>2, <1>3, <1>4, TotalIsPromise
<1>6. QED  BY <1>5, WithinLedgerNext DEF Ledger!Work

LEMMA StepIsLedgerStep ==
    ASSUME Inv, Inv', [Next]_vars
    PROVE  [Ledger!Next]_(Ledger!vars)
<1> USE DEF service, ledger
<1>0. TypeOK /\ SafetyInv  BY DEF Inv
<1>1. CASE DropUser \/ DropRole
  <2>1. Access' = {}  BY <1>0, <1>1 DEF DropUser, DropRole, Access, TypeOK
  <2>2. /\ Offered' = Offered /\ (dropped' = "no") = FALSE
        /\ UNCHANGED << recorded, pending >>
    BY <1>1 DEF DropUser, DropRole, Drops, Offered
  <2>3. Ledger!Tamper  BY <2>1, <2>2 DEF Ledger!Tamper
  <2>4. QED  BY <2>3 DEF Ledger!Next
<1>2. ASSUME NEW request \in Requests, NEW all \in BOOLEAN, ApplyGrants(request, all)
      PROVE  Ledger!Next
  <2>1. /\ request \in SUBSET Grants /\ pending = {}
        /\ Offered' = Offered \cup request
    BY <1>2, RequestsAssumption DEF ApplyGrants, Offered
  <2>2. /\ Access' = Access /\ (dropped' = "no") = (dropped = "no")
        /\ UNCHANGED << recorded, pending >>
    BY <1>2 DEF ApplyGrants, Access
  <2>3. Ledger!StartUpdate  BY <2>1, <2>2 DEF Ledger!StartUpdate
  <2>4. QED  BY <2>3 DEF Ledger!Next
<1>3. CASE RevokeGrants
  <2>1. Access' = Access /\ Offered' = Offered /\ UNCHANGED << recorded, pending, dropped >>
    BY <1>3 DEF RevokeGrants, Access, Offered
  <2>2. QED  BY <2>1 DEF Ledger!vars
<1>4. CASE CommandSucceeds
  <2>1. Command /\ UNCHANGED << mode, recorded, pending, call, desired, dropped >>
    BY <1>4 DEF CommandSucceeds
  <2>2. Offered' \subseteq Offered  BY <1>4 DEF CommandSucceeds, Offered
  <2>3. QED  BY <2>1, <2>2, CommandIsWork DEF Ledger!Next
<1>5. CASE CommandFails
  <2>1. /\ Access' = Access
        /\ UNCHANGED << recorded, pending, dropped >>
    BY <1>5 DEF CommandFails, Access
  <2>2. Offered' \subseteq Offered
    BY <1>0, <1>5 DEF CommandFails, CallFails, Offered, TypeOK
  <2>3. Ledger!Work  BY <2>1, <2>2, WithinLedgerNext DEF Ledger!Work
  <2>4. QED  BY <2>3 DEF Ledger!Next
<1>6. CASE ReplyLost
  <2>1. Command /\ UNCHANGED << mode, recorded, pending, dropped >>
    BY <1>6 DEF ReplyLost
  <2>2. Offered' \subseteq Offered
    BY <1>0, <1>6 DEF ReplyLost, CallFails, Offered, TypeOK
  <2>3. QED  BY <2>1, <2>2, CommandIsWork DEF Ledger!Next
<1>7. CASE CommitGrants
  <2>1. /\ Access' = Access
        /\ recorded' \subseteq Offered /\ pending' = recorded \ recorded'
        /\ Offered' \subseteq Offered
        /\ dropped = "no" => dropped' = "no"
    BY <1>7 DEF CommitGrants, Access, Offered
  <2>2. Ledger!Commit  BY <2>1, WithinLedgerNext DEF Ledger!Commit
  <2>3. QED  BY <2>2 DEF Ledger!Next
<1>8. CASE ReturnError
  <2>1. /\ Access' = Access /\ Offered' \subseteq Offered
        /\ UNCHANGED << recorded, pending, dropped >>
    BY <1>8 DEF ReturnError, Access, Offered
  <2>2. Ledger!Work  BY <2>1, WithinLedgerNext DEF Ledger!Work
  <2>3. QED  BY <2>2 DEF Ledger!Next
<1>9. CASE FinishRevoke
  <2>1. /\ Access' = Access /\ Offered' = Offered /\ pending' = {}
        /\ UNCHANGED << recorded, dropped >>
    BY <1>9 DEF FinishRevoke, Access, Offered
  <2>2. Ledger!Settle  BY <2>1, WithinLedgerNext DEF Ledger!Settle
  <2>3. QED  BY <2>2 DEF Ledger!Next
<1>10. CASE UNCHANGED vars
  <2>1. Access' = Access /\ Offered' = Offered /\ UNCHANGED << recorded, pending, dropped >>
    BY <1>10 DEF vars, Access, Offered
  <2>2. QED  BY <2>1 DEF Ledger!vars
<1>11. QED
  BY <1>1, <1>2, <1>3, <1>4, <1>5, <1>6, <1>7, <1>8, <1>9, <1>10 DEF Next, CallStep

\* MongoDB and Atlas keep the ledger's promise, whatever fails, is lost or is dropped,
\* unless a role is dropped while its user stays.
THEOREM LedgerImplemented ==
    ASSUME ~RoleDropsAlone
    PROVE  Spec => ImplementsGrantLedger
<1>1. Init => Inv  BY InitTypes, InitSafety, InitEffect DEF Inv
<1>2. Inv /\ [Next]_vars => Inv'
  BY StepKeepsTypes, StepKeepsSafety, StepKeepsEffect DEF Inv
<1>3. Inv /\ Inv' /\ [Next]_vars => [Ledger!Next]_(Ledger!vars)  BY StepIsLedgerStep
<1>4. QED
  BY <1>1, <1>2, <1>3, InitIsLedgerInit, PTL DEF Spec, ImplementsGrantLedger, Ledger!Spec

=============================================================================
