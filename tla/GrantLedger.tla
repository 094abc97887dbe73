----------------------------- MODULE GrantLedger -----------------------------
(***************************************************************************)
(* What a provider that rebuilds the permission set owes to one account,   *)
(* whatever the service: a ledger of grants and the access the account has *)
(* because of it.  The access moves between what the ledger demands and    *)
(* what it allows, and nothing but an update or a revocation moves the     *)
(* ledger.  How many commands that takes, and which of them fail, is left  *)
(* to the providers.                                                       *)
(***************************************************************************)
CONSTANTS
    Grants,     \* the grants somebody may ask for
    Meaning     \* what each of them stands for, a set of things an account can do

VARIABLES
    access,     \* what the account can do
    recorded,   \* the grants on record
    pending,    \* those off the record that are still to be revoked
    offered,    \* those of the running update, and of failed ones that may have left some
    intact      \* FALSE from when somebody takes access away to when it is put back

vars == << access, recorded, pending, offered, intact >>

Total(gs) == UNION {Meaning[g] : g \in gs}

\* What the ledger allows, and what it demands.
Allowed == access \subseteq Total(recorded \cup pending \cup offered)
Demanded == intact => Total(recorded) \subseteq access

Init ==
    /\ access = {} /\ recorded = {} /\ pending = {} /\ offered = {}
    /\ intact = TRUE

\* A binding update, once the last one's revocations are done.
StartUpdate ==
    /\ pending = {}
    /\ \E request \in SUBSET Grants : offered' = offered \cup request
    /\ UNCHANGED << access, recorded, pending, intact >>

\* A command, or a failure. Access that is new is never that of a grant being revoked.
Work ==
    /\ access' \ access \subseteq Total(recorded \cup offered)
    /\ offered' \subseteq offered
    /\ Allowed' /\ Demanded'
    /\ UNCHANGED << recorded, pending, intact >>

\* An update succeeds: what it offered is on record and in effect.
Commit ==
    /\ recorded' \subseteq offered
    /\ pending' = recorded \ recorded'
    /\ offered' \subseteq offered
    /\ intact => intact'
    /\ Allowed' /\ Demanded'
    /\ UNCHANGED access

\* A revocation succeeds: what it was to revoke is gone.
Settle ==
    /\ pending' = {}
    /\ Allowed'
    /\ UNCHANGED << access, recorded, offered, intact >>

\* Somebody else on the service takes access away.
Tamper ==
    /\ access' \subseteq access
    /\ intact' = FALSE
    /\ UNCHANGED << recorded, pending, offered >>

Next == StartUpdate \/ Work \/ Commit \/ Settle \/ Tamper

Spec == Init /\ [][Next]_vars

=============================================================================
