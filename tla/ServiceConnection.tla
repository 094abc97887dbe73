-------------------------- MODULE ServiceConnection --------------------------
(***************************************************************************)
(* The admin connection of one service object: InitializeService, which is *)
(* called again when the config of the service is changed, and             *)
(* CloseService.  An initialisation opens a handle, makes sure the service *)
(* behind it can be used, and only then replaces what the object had.      *)
(***************************************************************************)
EXTENDS ServiceAuth, FiniteSets

CONSTANTS
    ServiceKinds,  \* the kinds of service under check
    MaxInits       \* bound on the calls of InitializeService

ASSUME ServiceKindsAssumption == ServiceKinds \subseteq KeyedKinds \cup UrlKinds
ASSUME BoundAssumption == MaxInits \in Nat

VARIABLES
    kind,
    config,   \* the config in use: that of initialisation number config.of, 0 for none
    conn,     \* the handle in use, named after the initialisation that opened it; 0 for none
    open,     \* the handles that are open
    step,     \* what InitializeService is at
    given,    \* the config the running call was given
    inits,
    before,   \* history: config, conn and open when the last call began
    outcome,  \* history: how the last call ended
    replaced, \* history: handles whose place another one took while they were open
    closed    \* history: handles in use when CloseService was called

object == << config, conn >>
vars == << kind, object, open, step, given, inits, before, outcome, replaced, closed >>

NoConfig == [of |-> 0, method |-> Unset]
NothingGiven == [keys |-> {}, named |-> Unset]

HasHandle == kind # "atlas"

\* The order of an initialisation: the config is checked, the connection opened, and
\* then the service behind it. The Atlas client has no connection to open, and the
\* connections that check the authorization and the reach of MongoDB are closed at once.
Steps ==
    CASE kind \in {"clickhouse", "sqlserver", "oracle", "snowflake"} ->
            << "config", "open", "ping" >>
      [] kind = "databricks" -> << "config", "open", "ping", "catalog" >>
      [] kind = "mongodb"    -> << "config", "open", "ping", "authorization" >>
      [] kind = "atlas"      -> << "config", "access", "reach" >>

StepNames == {"config", "open", "ping", "catalog", "authorization", "access", "reach"}

KnownMethods ==
    CASE kind = "databricks" -> Nameable(kind) \ {Unset}
      [] kind = "snowflake"  -> SnowflakeMethods
      [] kind = "atlas"      -> DOMAIN AtlasMethods
      [] OTHER               -> {"url"}

TypeOK ==
    /\ kind \in ServiceKinds
    /\ config.of \in 0 .. MaxInits /\ conn \in 0 .. MaxInits
    /\ config.method \in {Unset} \cup KnownMethods
    /\ open \subseteq 1 .. inits /\ inits \in 0 .. MaxInits
    /\ step \in {"idle"} \cup StepNames
    /\ step # "idle" => step \in {Steps[i] : i \in 1 .. Len(Steps)}
    /\ kind \in KeyedKinds => given.keys \subseteq CredentialKeys[kind]
    /\ given.named \in Nameable(kind)
    /\ outcome \in {"none", "ok", "error"}
    /\ replaced \subseteq 1 .. MaxInits /\ closed \subseteq 1 .. MaxInits

Init ==
    /\ kind \in ServiceKinds
    /\ config = NoConfig /\ conn = 0 /\ open = {}
    /\ step = "idle" /\ given = NothingGiven /\ inits = 0
    /\ before = << NoConfig, 0, {} >> /\ outcome = "none"
    /\ replaced = {} /\ closed = {}

-----------------------------------------------------------------------------

Configs == [keys : KeySets(kind), named : Nameable(kind)]

StartInit(cfg) ==
    /\ step = "idle" /\ inits < MaxInits
    /\ inits' = inits + 1
    /\ given' = cfg /\ step' = "config"
    /\ before' = << config, conn, open >> /\ outcome' = "none"
    /\ UNCHANGED << kind, object, open, replaced, closed >>

SelectedMethods == Selected(kind, given.keys, given.named)

\* The handle of the running call.
Handle == IF \E i \in 1 .. Len(Steps) : Steps[i] = "open" THEN {inits} ELSE {}

\* Mutant: the config is in place before the connection has been verified.
AssignsEarly ==
    /\ config' = IF step = "config" /\ SelectedMethods # {}
                 THEN [of |-> inits, method |-> CHOOSE m \in SelectedMethods : TRUE] ELSE config
    /\ UNCHANGED << conn, replaced >>

AssignsNothing == UNCHANGED << config, conn, replaced >>

Index == CHOOSE i \in 1 .. Len(Steps) : Steps[i] = step

\* A step of the initialisation that is not the last one.
StepPasses ==
    /\ step # "idle" /\ Index < Len(Steps)
    /\ step = "config" => SelectedMethods # {}
    /\ step' = Steps[Index + 1]
    /\ open' = IF step = "open" THEN open \cup Handle ELSE open
    /\ AssignsNothing
    /\ UNCHANGED << kind, given, inits, before, outcome, closed >>

\* The last step: the object is the new config's from now on. The handle it had is
\* not closed.
InitSucceeds ==
    /\ step # "idle" /\ Index = Len(Steps)
    /\ config' = [of |-> inits, method |-> CHOOSE m \in SelectedMethods : TRUE]
    /\ conn' = IF HasHandle THEN inits ELSE conn
    /\ replaced' = IF HasHandle THEN replaced \cup ({conn} \cap open) ELSE replaced
    /\ step' = "idle" /\ given' = NothingGiven /\ outcome' = "ok"
    /\ UNCHANGED << kind, open, inits, before, closed >>

\* Mutant: a failed check returns without closing what was opened.
LeavesOpen == open

\* A failed check closes what was opened.
ClosesOpened == open \ Handle

\* Any step may fail; a config that selects no method always does.
InitFails ==
    /\ step # "idle"
    /\ open' = ClosesOpened
    /\ step' = "idle" /\ given' = NothingGiven /\ outcome' = "error"
    /\ UNCHANGED << kind, object, inits, before, replaced, closed >>

\* What it closes is still the object's handle afterwards.
CloseService ==
    /\ step = "idle"
    /\ open' = open \ {conn}
    /\ closed' = closed \cup ({conn} \ {0})
    /\ before' = << config, conn, open' >>
    /\ UNCHANGED << kind, object, step, given, inits, outcome, replaced >>

Next ==
    \/ \E cfg \in Configs : StartInit(cfg)
    \/ StepPasses \/ InitSucceeds \/ InitFails
    \/ CloseService

Spec == Init /\ [][Next]_vars

-----------------------------------------------------------------------------
(* Properties                                                               *)

\* An initialisation that fails, at whatever step, leaves a service that was in use as
\* it was: config, connection and open handles are those of before.
FailedInitChangesNothing ==
    step # "idle" \/ outcome = "error"
        => << config, conn >> = << before[1], before[2] >>
             /\ (step = "idle" => open = before[3])

\* The config in use and the connection in use are of the same initialisation, and that
\* connection is open unless the service was closed; every other handle that is open is
\* one that a later initialisation took the place of.
OneConnectionInUse ==
    /\ HasHandle => conn = config.of
    /\ conn \in open \cup closed \cup {0}
    /\ step = "idle" => open \subseteq {conn} \cup replaced

\* A config with exactly the keys of a method the comments describe selects that method,
\* whether it names the method or leaves it to be inferred: no method hides another one.
Selects(line) ==
    /\ Selected(kind, given.keys, given.named) = {line.method}
    /\ line.keys \subseteq Given(kind, given.keys, line.method)

DocumentedMethodsWork ==
    step = "config" /\ kind \in KeyedKinds
        => \A line \in Documented[kind] :
             given.keys = line.keys /\ given.named \in line.named => Selects(line)

\* The same with the keys that the comments say may go with the method.
DocumentedOptionsWork ==
    step = "config" /\ kind \in KeyedKinds
        => \A line \in Documented[kind] :
             (/\ line.keys \subseteq given.keys
              /\ given.keys \subseteq line.keys \cup line.optional
              /\ given.named \in line.named) => Selects(line)

=============================================================================
