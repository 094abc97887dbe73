---------------------------- MODULE Provisioning ----------------------------
(***************************************************************************)
(* The life of binding accounts on one managed service: GenerateAccount    *)
(* sends the statements of the provider's plan, reports what it created as *)
(* artifacts, with the account on success and with the error on failure,   *)
(* and the server gives the artifacts back to DeleteArtifact in reverse    *)
(* creation order, to undo a failed creation or to delete a binding.       *)
(*                                                                         *)
(* Accounts are handled concurrently; the calls for one account are not.   *)
(***************************************************************************)
EXTENDS AccountPlan, Integers, FiniteSets

CONSTANTS
    LeftoverNames,   \* names that may be taken before the first call
    Leftover,        \* the maker of an object no account of this server made
    MaxFaults,       \* bound on the failures the environment injects
    LostReplies      \* whether a statement may take effect and still return an error

ASSUME LeftoverAssumption == LeftoverNames \subseteq Names /\ Leftover \notin Accounts
ASSUME MaxFaultsAssumption == MaxFaults \in Nat
ASSUME LostRepliesAssumption == LostReplies \in BOOLEAN

VARIABLES
    provider,    \* the provider of the service
    catalog,     \* the objects on the service, each with the account that made it
    held,        \* the baseline privileges and credentials in effect
    status,      \* where the server is with each account
    pc,          \* the next statement of a running GenerateAccount
    artifacts,   \* the artifacts reported (or about to be) for each account
    cursor,      \* how many artifacts are still to be deleted
    inDoubt,     \* names whose CREATE returned an error after taking effect
    faults       \* failures injected so far

vars == << provider, catalog, held, status, pc, artifacts, cursor, inDoubt, faults >>

Objects == [name : Names, maker : Accounts \cup {Leftover}]
Privileges == [account : Accounts, what : GrantNames, needs : SUBSET Names]
Statuses == {"absent", "generating", "live", "rollback", "deleting", "deleted"}

TypeOK ==
    /\ provider \in Providers
    /\ catalog \subseteq Objects
    /\ held \subseteq Privileges
    /\ status \in [Accounts -> Statuses]
    /\ pc \in [Accounts -> Nat \ {0}]
    /\ artifacts \in [Accounts -> Seq(ArtifactTypes)]
    /\ cursor \in [Accounts -> Nat]
    /\ inDoubt \subseteq Names
    /\ faults \in 0 .. MaxFaults

Init ==
    /\ provider \in Providers
    /\ catalog \in SUBSET [name : LeftoverNames, maker : {Leftover}]
    /\ held = {}
    /\ status = [a \in Accounts |-> "absent"]
    /\ pc = [a \in Accounts |-> 1]
    /\ artifacts = [a \in Accounts |-> << >>]
    /\ cursor = [a \in Accounts |-> 0]
    /\ inDoubt = {}
    /\ faults = 0

-----------------------------------------------------------------------------
(* The service's answers *)

Exists(n) == \E o \in catalog : o.name = n

\* Whether the service, or the provider's own check, lets a statement of a's plan pass.
Accepted(a, s) ==
    /\ \A n \in s.needs : Exists(n)
    /\ s.kind = "create" /\ NameIsUnique(provider, s.what) => ~Exists(Name(s.what, a))
    /\ s.what = "principal_absent" => ~Exists(Name("user", a))

Created(a, s) == IF s.kind = "create"
                 THEN {[name |-> Name(s.what, a), maker |-> a]} ELSE {}

Conferred(a, s) == IF s.kind \in {"grant", "attempt"}
                   THEN {[account |-> a, what |-> s.what, needs |-> s.needs]} ELSE {}

InjectFault == faults < MaxFaults /\ faults' = faults + 1

-----------------------------------------------------------------------------
(* GenerateAccount *)

Statement(a) == Plan(provider, a)[pc[a]]

Running(a) == status[a] = "generating" /\ pc[a] <= Len(Plan(provider, a))

\* A call with the metadata of a live base; without it a derived call returns
\* before its first statement.
GenerateAccount(a) ==
    /\ status[a] = "absent"
    /\ IsBase(a) \/ status[BaseOf[a]] = "live"
    /\ status' = [status EXCEPT ![a] = "generating"]
    /\ pc' = [pc EXCEPT ![a] = 1]
    /\ UNCHANGED << provider, catalog, held, artifacts, cursor, inDoubt, faults >>

\* Mutants of the next definition: a grant is reported like an object; the newest
\* artifact goes to the front of the list.
ReportsGrants(a, s) == IF s.kind # "check" THEN Append(artifacts[a], s.what)
                                           ELSE artifacts[a]
ReportsNewestFirst(a, s) == IF s.kind = "create" THEN << s.what >> \o artifacts[a]
                                                 ELSE artifacts[a]

\* What is reported once a statement has succeeded: an artifact per created object.
Reported(a, s) == IF s.kind = "create" THEN Append(artifacts[a], s.what)
                                       ELSE artifacts[a]

StatementSucceeds(a) ==
    /\ Running(a)
    /\ LET s == Statement(a)
       IN  /\ Accepted(a, s)
           /\ catalog' = catalog \cup Created(a, s)
           /\ held' = held \cup Conferred(a, s)
           /\ artifacts' = [artifacts EXCEPT ![a] = Reported(a, s)]
           /\ pc' = [pc EXCEPT ![a] = @ + (IF s.kind = "attempt" THEN 2 ELSE 1)]
    /\ UNCHANGED << provider, status, cursor, inDoubt, faults >>

\* Mutants of the next definition: the error comes back without the artifacts, with
\* the one whose creation failed, or with the last one left out.
ReturnErrorOnly(a) ==
    /\ status' = [status EXCEPT ![a] = "rollback"]
    /\ artifacts' = [artifacts EXCEPT ![a] = << >>]
    /\ cursor' = [cursor EXCEPT ![a] = 0]
    /\ UNCHANGED << provider, pc >>
ReturnErrorReportingAttempt(a) ==
    /\ status' = [status EXCEPT ![a] = "rollback"]
    /\ artifacts' = [artifacts EXCEPT ![a] = Reported(a, Statement(a))]
    /\ cursor' = [cursor EXCEPT ![a] = Len(Reported(a, Statement(a)))]
    /\ UNCHANGED << provider, pc >>
ReturnErrorLosingLast(a) ==
    /\ status' = [status EXCEPT ![a] = "rollback"]
    /\ cursor' = [cursor EXCEPT ![a] = IF artifacts[a] = << >> THEN 0
                                       ELSE Len(artifacts[a]) - 1]
    /\ UNCHANGED << provider, pc, artifacts >>

\* The error path of every statement: the artifacts so far go back with the error.
ReturnError(a) ==
    /\ status' = [status EXCEPT ![a] = "rollback"]
    /\ cursor' = [cursor EXCEPT ![a] = Len(artifacts[a])]
    /\ UNCHANGED << provider, pc, artifacts >>

\* An attempt that fails falls through to the next statement.
FallThrough(a) ==
    /\ pc' = [pc EXCEPT ![a] = @ + 1]
    /\ UNCHANGED << provider, status, artifacts, cursor >>

\* Mutant: a failed grant is passed over like an attempt.
GrantErrorsIgnored(a) == IF Statement(a).kind \in {"attempt", "grant"} THEN FallThrough(a)
                                                                   ELSE ReturnError(a)

FailureOf(a) == IF Statement(a).kind = "attempt" THEN FallThrough(a) ELSE ReturnError(a)

\* The service or the provider's check refuses, or the statement does not get there.
StatementFails(a) ==
    /\ Running(a)
    /\ \/ ~Accepted(a, Statement(a)) /\ UNCHANGED faults
       \/ InjectFault
    /\ FailureOf(a)
    /\ UNCHANGED << catalog, held, inDoubt >>

\* The statement takes effect but its reply is lost, so it returns an error.
StatementReplyLost(a) ==
    /\ LostReplies
    /\ Running(a)
    /\ InjectFault
    /\ LET s == Statement(a)
       IN  /\ Accepted(a, s)
           /\ catalog' = catalog \cup Created(a, s)
           /\ held' = held \cup Conferred(a, s)
           /\ inDoubt' = inDoubt \cup {o.name : o \in Created(a, s)}
    /\ FailureOf(a)

ReturnAccount(a) ==
    /\ status[a] = "generating"
    /\ ~Running(a)
    /\ status' = [status EXCEPT ![a] = "live"]
    /\ UNCHANGED << provider, catalog, held, pc, artifacts, cursor, inDoubt, faults >>

-----------------------------------------------------------------------------
(* DeleteArtifact, called by the server in reverse creation order. A failed *)
(* pass may be repeated from its start: artifacts already gone are no error.*)

DeleteBinding(a) ==
    /\ status[a] = "live"
    /\ status' = [status EXCEPT ![a] = "deleting"]
    /\ cursor' = [cursor EXCEPT ![a] = Len(artifacts[a])]
    /\ UNCHANGED << provider, catalog, held, pc, artifacts, inDoubt, faults >>

Deleting(a) == status[a] \in {"rollback", "deleting"} /\ cursor[a] > 0

Target(a) == Name(artifacts[a][cursor[a]], a)

\* A type the provider drops, and nothing the account owns stands in the way.
Droppable(n) ==
    /\ n.type \in Drops(provider)
    /\ \A o \in catalog : o.maker = n.account => o.name \notin DropBlockers(provider, n)

\* Removes one object of that name, the first the service returns, and with it
\* every privilege that names it; a name that is already gone is a success.
Drop(n) ==
    /\ \/ \E o \in catalog : o.name = n /\ catalog' = catalog \ {o}
       \/ ~Exists(n) /\ UNCHANGED catalog
    /\ held' = {h \in held : n \notin h.needs}

DeleteArtifact(a) ==
    /\ Deleting(a)
    /\ Droppable(Target(a))
    /\ Drop(Target(a))
    /\ cursor' = [cursor EXCEPT ![a] = @ - 1]
    /\ UNCHANGED << provider, status, pc, artifacts, inDoubt, faults >>

\* The drop fails, before or after taking effect, and the pass starts again.
DeleteArtifactFails(a) ==
    /\ Deleting(a)
    /\ InjectFault
    /\ \/ Droppable(Target(a)) /\ LostReplies /\ Drop(Target(a))
       \/ UNCHANGED << catalog, held >>
    /\ cursor' = [cursor EXCEPT ![a] = Len(artifacts[a])]
    /\ UNCHANGED << provider, status, pc, artifacts, inDoubt >>

FinishCleanup(a) ==
    /\ status[a] \in {"rollback", "deleting"}
    /\ cursor[a] = 0
    /\ status' = [status EXCEPT ![a] = IF @ = "rollback" THEN "absent" ELSE "deleted"]
    /\ artifacts' = [artifacts EXCEPT ![a] = << >>]
    /\ UNCHANGED << provider, catalog, held, pc, cursor, inDoubt, faults >>

-----------------------------------------------------------------------------
Next ==
    \E a \in Accounts :
        \/ GenerateAccount(a)
        \/ StatementSucceeds(a)
        \/ StatementFails(a)
        \/ StatementReplyLost(a)
        \/ ReturnAccount(a)
        \/ DeleteBinding(a)
        \/ DeleteArtifact(a)
        \/ DeleteArtifactFails(a)
        \/ FinishCleanup(a)

Spec == Init /\ [][Next]_vars

\* A running call goes on to its next statement, and the server does not stop
\* in the middle of a cleanup. Nobody has to create or to delete a binding.
Progress(a) ==
    StatementSucceeds(a) \/ StatementFails(a) \/ ReturnAccount(a)
      \/ DeleteArtifact(a) \/ FinishCleanup(a)

FairSpec == Spec /\ \A a \in Accounts : WF_vars(Progress(a))

-----------------------------------------------------------------------------
(* Properties *)

TypesIn(s) == {s[i] : i \in DOMAIN s}

\* Whatever an account made and is still on the service is in its artifact list,
\* or is the object of a CREATE whose reply was lost: partial failures, retries
\* and concurrent accounts lose track of nothing else ("the artifacts created so
\* far are returned with the error so the caller can delete them").
NothingEscapes ==
    \A o \in catalog :
        o.maker # Leftover =>
            \/ o.name.type \in TypesIn(artifacts[o.maker])
            \/ o.name \in inDoubt

\* When an account has been rolled back or deleted nothing it made is left.
FailureLeavesNothing ==
    \A a \in Accounts : status[a] \in {"absent", "deleted"} =>
                            \A o \in catalog : o.maker # a

\* So it is as long as every CREATE that returned an error was without effect.
CleanUnlessInDoubt == inDoubt = {} => FailureLeavesNothing

\* A cleanup removes only what the same account's call created, never an object
\* that had the name before it (a CREATE that fails reports no artifact).
CleansOnlyItsOwn ==
    [][\A o \in catalog \ catalog' :
          /\ o.maker # Leftover
          /\ status[o.maker] \in {"rollback", "deleting"}]_vars

Creates(a) == {Plan(provider, a)[i].what :
                 i \in {j \in DOMAIN Plan(provider, a) :
                          Plan(provider, a)[j].kind = "create"}}

\* The grant at step i of the plan, or the one standing in for it, was made.
GrantInEffect(a, i) ==
    \E j \in {i - 1, i} \cap DOMAIN Plan(provider, a) :
        /\ j = i \/ Plan(provider, a)[j].kind = "attempt"
        /\ Conferred(a, Plan(provider, a)[j]) \subseteq held

\* An account handed to the application is whole: every object of its plan is
\* there and its own, and so are its baseline privileges and one credential,
\* except a privilege on a container that was deleted with the base account.
LiveIsWhole ==
    \A a \in Accounts : status[a] = "live" =>
        /\ \A t \in Creates(a) : [name |-> Name(t, a), maker |-> a] \in catalog
        /\ \A i \in DOMAIN Plan(provider, a) :
              LET s == Plan(provider, a)[i]
              IN  s.kind = "grant" /\ (\A n \in s.needs : Exists(n)) =>
                      GrantInEffect(a, i)

\* A drop waits for good for a schema that is on no artifact list, since the reply of
\* its CREATE was lost.
Stuck(a) == Deleting(a) /\ \E n \in DropBlockers(provider, Target(a)) : n \in inDoubt

\* Deleting in reverse creation order never meets an object that something else
\* still depends on, but for a schema in doubt.
DropNeverBlocked == \A a \in Accounts : Deleting(a) => Droppable(Target(a)) \/ Stuck(a)

\* Every call of GenerateAccount ends, with an account or with everything undone,
\* and every deletion ends.
CallsComplete ==
    \A a \in Accounts :
        status[a] \in {"generating", "rollback", "deleting"} ~>
            status[a] \in {"live", "absent", "deleted"} \/ Stuck(a)

=============================================================================
