----------------------- MODULE ServiceConnectionProofs -----------------------
(***************************************************************************)
(* Theorems about ServiceConnection: a failed initialisation changes and   *)
(* leaks nothing, and the config and the connection in use belong together.*)
(***************************************************************************)
EXTENDS ServiceConnection, TLAPS

\* A call that has come this far has opened its handle, if its kind of service has one.
HandleChecks == {"ping", "catalog", "authorization"}

AtStep == step # "idle" => \E i \in 1 .. Len(Steps) : Steps[i] = step

\* Handles are named after initialisations that have begun.
HandlesKnown ==
    /\ kind \in KeyedKinds \cup UrlKinds
    /\ inits \in Nat /\ open \subseteq 1 .. inits /\ conn \in 0 .. inits
    /\ AtStep

\* What was there when the running call began is there still, beside its own handle.
NothingLost ==
    step # "idle" =>
        /\ << config, conn >> = << before[1], before[2] >>
        /\ before[3] \subseteq open /\ open \subseteq before[3] \cup Handle
        /\ conn # inits /\ inits \notin before[3]
        /\ before[3] \subseteq {conn} \cup replaced
        /\ step \in HandleChecks => inits \in open

AfterFailure ==
    step = "idle" /\ outcome = "error"
        => config = before[1] /\ conn = before[2] /\ open = before[3]

ConnInv == HandlesKnown /\ NothingLost /\ AfterFailure /\ OneConnectionInUse

-----------------------------------------------------------------------------
(* The order of the steps                                                   *)

LEMMA Kinds ==
    KeyedKinds \cup UrlKinds = {"databricks", "snowflake", "atlas", "clickhouse",
                                "sqlserver", "oracle", "mongodb"}
BY DEF KeyedKinds, UrlKinds

LEMMA StepsIs ==
    ASSUME kind \in KeyedKinds \cup UrlKinds
    PROVE  /\ kind \in {"clickhouse", "sqlserver", "oracle", "snowflake"}
                => Steps = << "config", "open", "ping" >>
           /\ kind = "databricks" => Steps = << "config", "open", "ping", "catalog" >>
           /\ kind = "mongodb" => Steps = << "config", "open", "ping", "authorization" >>
           /\ kind = "atlas" => Steps = << "config", "access", "reach" >>
BY Kinds DEF Steps

\* Where a call is, and what its handle is.
LEMMA StepCases ==
    ASSUME kind \in KeyedKinds \cup UrlKinds
    PROVE  /\ Len(Steps) \in Nat /\ Len(Steps) >= 1 /\ Steps[1] = "config"
           /\ \A i \in 1 .. Len(Steps) : Steps[i] # "idle"
           /\ \A i \in 1 .. Len(Steps) : i < Len(Steps) /\ Steps[i + 1] \in HandleChecks
                                 => Steps[i] = "open" \/ Steps[i] \in HandleChecks
           /\ HasHandle => Handle = {inits} /\ Steps[Len(Steps)] \in HandleChecks
           /\ ~HasHandle => Handle = {} /\ \A i \in 1 .. Len(Steps) : Steps[i] # "open"
<1>1. CASE kind \in {"clickhouse", "sqlserver", "oracle", "snowflake"}
  <2>1. Steps = << "config", "open", "ping" >>  BY <1>1, StepsIs
  <2>2. Len(Steps) = 3 /\ Steps[1] = "config" /\ Steps[2] = "open" /\ Steps[3] = "ping"
    BY <2>1
  <2>3. QED  BY <1>1, <2>2 DEF HasHandle, Handle, HandleChecks
<1>2. CASE kind = "databricks"
  <2>1. Steps = << "config", "open", "ping", "catalog" >>  BY <1>2, StepsIs
  <2>2. /\ Len(Steps) = 4 /\ Steps[1] = "config" /\ Steps[2] = "open"
        /\ Steps[3] = "ping" /\ Steps[4] = "catalog"
    BY <2>1
  <2>3. QED  BY <1>2, <2>2 DEF HasHandle, Handle, HandleChecks
<1>3. CASE kind = "mongodb"
  <2>1. Steps = << "config", "open", "ping", "authorization" >>  BY <1>3, StepsIs
  <2>2. /\ Len(Steps) = 4 /\ Steps[1] = "config" /\ Steps[2] = "open"
        /\ Steps[3] = "ping" /\ Steps[4] = "authorization"
    BY <2>1
  <2>3. QED  BY <1>3, <2>2 DEF HasHandle, Handle, HandleChecks
<1>4. CASE kind = "atlas"
  <2>1. Steps = << "config", "access", "reach" >>  BY <1>4, StepsIs
  <2>2. Len(Steps) = 3 /\ Steps[1] = "config" /\ Steps[2] = "access" /\ Steps[3] = "reach"
    BY <2>1
  <2>3. QED  BY <1>4, <2>2 DEF HasHandle, Handle, HandleChecks
<1>5. QED  BY <1>1, <1>2, <1>3, <1>4, Kinds

LEMMA StepsAreNames ==
    ASSUME kind \in KeyedKinds \cup UrlKinds, NEW i \in 1 .. Len(Steps)
    PROVE  Steps[i] \in StepNames
<1>1. CASE kind \in {"clickhouse", "sqlserver", "oracle", "snowflake"}
  <2>1. Steps = << "config", "open", "ping" >>  BY <1>1, StepsIs
  <2>2. QED  BY <2>1 DEF StepNames
<1>2. CASE kind = "databricks"
  <2>1. Steps = << "config", "open", "ping", "catalog" >>  BY <1>2, StepsIs
  <2>2. QED  BY <2>1 DEF StepNames
<1>3. CASE kind = "mongodb"
  <2>1. Steps = << "config", "open", "ping", "authorization" >>  BY <1>3, StepsIs
  <2>2. QED  BY <2>1 DEF StepNames
<1>4. CASE kind = "atlas"
  <2>1. Steps = << "config", "access", "reach" >>  BY <1>4, StepsIs
  <2>2. QED  BY <2>1 DEF StepNames
<1>5. QED  BY <1>1, <1>2, <1>3, <1>4, Kinds

\* Checking the config is never all there is to an initialisation.
LEMMA LastIsNotConfig ==
    ASSUME kind \in KeyedKinds \cup UrlKinds
    PROVE  Steps[Len(Steps)] # "config"
<1>1. CASE kind = "atlas"
  <2>1. Steps = << "config", "access", "reach" >>  BY <1>1, StepsIs
  <2>2. QED  BY <2>1
<1>2. CASE kind # "atlas"  BY <1>2, StepCases DEF HasHandle, HandleChecks
<1>3. QED  BY <1>1, <1>2

LEMMA IndexIs ==
    ASSUME HandlesKnown, step # "idle"
    PROVE  Index \in 1 .. Len(Steps) /\ Steps[Index] = step
BY DEF HandlesKnown, AtStep, Index

-----------------------------------------------------------------------------

LEMMA ConnInit == Init => ConnInv
BY ServiceKindsAssumption
DEF Init, ConnInv, HandlesKnown, AtStep, NothingLost, AfterFailure, OneConnectionInUse,
    NoConfig

LEMMA ConnStart ==
    ASSUME ConnInv, NEW cfg, StartInit(cfg)
    PROVE  ConnInv'
<1> USE DEF ConnInv
<1>1. /\ kind' = kind /\ open' = open /\ conn' = conn /\ config' = config
      /\ replaced' = replaced /\ closed' = closed /\ inits' = inits + 1
      /\ step' = "config" /\ before' = << config, conn, open >> /\ outcome' = "none"
  BY DEF StartInit, object
<1>2. HandlesKnown'
  <2>1. Steps' = Steps /\ kind \in KeyedKinds \cup UrlKinds
    BY <1>1 DEF Steps, HandlesKnown
  <2>2. 1 \in 1 .. Len(Steps) /\ Steps[1] = "config"  BY <2>1, StepCases
  <2>3. AtStep'  BY <1>1, <2>1, <2>2 DEF AtStep
  <2>4. QED  BY <1>1, <2>1, <2>3 DEF HandlesKnown
<1>3. NothingLost'
  <2>1. inits + 1 \notin open /\ conn # inits + 1  BY DEF HandlesKnown
  <2>2. open \subseteq {conn} \cup replaced
    BY DEF OneConnectionInUse, StartInit
  <2>3. QED  BY <1>1, <2>1, <2>2 DEF NothingLost, HandleChecks
<1>4. AfterFailure'  BY <1>1 DEF AfterFailure
<1>5. OneConnectionInUse'
  BY <1>1 DEF OneConnectionInUse, HasHandle
<1>6. QED  BY <1>2, <1>3, <1>4, <1>5

LEMMA ConnStepPasses ==
    ASSUME ConnInv, StepPasses
    PROVE  ConnInv'
<1> USE DEF ConnInv
<1>1. /\ kind' = kind /\ conn' = conn /\ config' = config /\ replaced' = replaced
      /\ closed' = closed /\ inits' = inits /\ before' = before /\ outcome' = outcome
      /\ step # "idle" /\ Index < Len(Steps) /\ step' = Steps[Index + 1]
      /\ open' = IF step = "open" THEN open \cup Handle ELSE open
  BY DEF StepPasses, AssignsNothing
<1>2. /\ kind \in KeyedKinds \cup UrlKinds
      /\ Steps' = Steps /\ Handle' = Handle /\ HasHandle' = HasHandle
  BY <1>1 DEF HandlesKnown, Steps, Handle, HasHandle
<1>3. Index \in 1 .. Len(Steps) /\ Steps[Index] = step  BY <1>1, IndexIs
<1>4. /\ Len(Steps) \in Nat /\ Index + 1 \in 1 .. Len(Steps)
      /\ step' # "idle"
      /\ step' \in HandleChecks => step = "open" \/ step \in HandleChecks
  BY <1>1, <1>2, <1>3, StepCases
<1>5. Handle \subseteq {inits} /\ (step = "open" => Handle = {inits})
  BY <1>1, <1>2, <1>3, StepCases
<1>6. HandlesKnown'
  <2>1. AtStep'  BY <1>1, <1>2, <1>4 DEF AtStep
  <2>2. inits \in 1 .. inits
    BY <1>1 DEF HandlesKnown, NothingLost
  <2>3. QED  BY <1>1, <1>2, <1>5, <2>1, <2>2 DEF HandlesKnown
<1>7. NothingLost'
  BY <1>1, <1>2, <1>4, <1>5 DEF NothingLost
<1>8. AfterFailure'  BY <1>4 DEF AfterFailure
<1>9. OneConnectionInUse'
  BY <1>1, <1>2, <1>4 DEF OneConnectionInUse
<1>10. QED  BY <1>6, <1>7, <1>8, <1>9

LEMMA ConnInitSucceeds ==
    ASSUME ConnInv, InitSucceeds
    PROVE  ConnInv'
<1> USE DEF ConnInv
<1>1. /\ kind' = kind /\ closed' = closed /\ inits' = inits /\ open' = open
      /\ step # "idle" /\ Index = Len(Steps) /\ step' = "idle" /\ outcome' = "ok"
      /\ config'.of = inits /\ conn' = (IF HasHandle THEN inits ELSE conn)
      /\ replaced' = (IF HasHandle THEN replaced \cup ({conn} \cap open) ELSE replaced)
  BY DEF InitSucceeds
<1>2. kind \in KeyedKinds \cup UrlKinds /\ HasHandle' = HasHandle
  BY <1>1 DEF HandlesKnown, HasHandle
<1>3. Steps[Index] = step  BY <1>1, IndexIs
<1>4. HasHandle => Handle = {inits} /\ step \in HandleChecks
  BY <1>1, <1>2, <1>3, StepCases
<1>5. ~HasHandle => Handle = {}  BY <1>2, StepCases
<1>6. HandlesKnown'
  BY <1>1, <1>2 DEF HandlesKnown, AtStep
<1>7. NothingLost' /\ AfterFailure'  BY <1>1 DEF NothingLost, AfterFailure
<1>8. OneConnectionInUse'
  <2>1. conn' \in open' \cup closed' \cup {0}
    BY <1>1, <1>4 DEF NothingLost, OneConnectionInUse
  <2>2. open' \subseteq {conn'} \cup replaced'
    BY <1>1, <1>4, <1>5 DEF NothingLost
  <2>3. QED  BY <1>1, <1>2, <2>1, <2>2 DEF OneConnectionInUse
<1>9. QED  BY <1>6, <1>7, <1>8

LEMMA ConnInitFails ==
    ASSUME ConnInv, InitFails
    PROVE  ConnInv'
<1> USE DEF ConnInv
<1>1. /\ kind' = kind /\ closed' = closed /\ inits' = inits /\ open' = open \ Handle
      /\ conn' = conn /\ config' = config /\ replaced' = replaced /\ before' = before
      /\ step # "idle" /\ step' = "idle" /\ outcome' = "error"
  BY DEF InitFails, ClosesOpened, object
<1>2. kind \in KeyedKinds \cup UrlKinds /\ HasHandle' = HasHandle
  BY <1>1 DEF HandlesKnown, HasHandle
<1>3. Handle \subseteq {inits}  BY <1>2, StepCases
<1>4. open' = before[3]  BY <1>1, <1>3 DEF NothingLost
<1>5. HandlesKnown'  BY <1>1, <1>2 DEF HandlesKnown, AtStep
<1>6. NothingLost'  BY <1>1 DEF NothingLost
<1>7. AfterFailure'  BY <1>1, <1>4 DEF AfterFailure, NothingLost
<1>8. OneConnectionInUse'
  <2>1. conn' \in open' \cup closed' \cup {0}
    BY <1>1, <1>3 DEF OneConnectionInUse, NothingLost
  <2>2. open' \subseteq {conn'} \cup replaced'  BY <1>1, <1>4 DEF NothingLost
  <2>3. QED  BY <1>1, <1>2, <2>1, <2>2 DEF OneConnectionInUse
<1>9. QED  BY <1>5, <1>6, <1>7, <1>8

LEMMA ConnClose ==
    ASSUME ConnInv, CloseService
    PROVE  ConnInv'
<1> USE DEF ConnInv
<1>1. /\ kind' = kind /\ inits' = inits /\ open' = open \ {conn}
      /\ closed' = closed \cup ({conn} \ {0})
      /\ conn' = conn /\ config' = config /\ replaced' = replaced
      /\ before' = << config, conn, open' >>
      /\ step = "idle" /\ step' = "idle" /\ outcome' = outcome
  BY DEF CloseService, object
<1>2. HasHandle' = HasHandle  BY <1>1 DEF HasHandle
<1>3. HandlesKnown'  BY <1>1 DEF HandlesKnown, AtStep
<1>4. NothingLost' /\ AfterFailure'  BY <1>1 DEF NothingLost, AfterFailure
<1>5. OneConnectionInUse'  BY <1>1, <1>2 DEF OneConnectionInUse
<1>6. QED  BY <1>3, <1>4, <1>5

LEMMA ConnStutter ==
    ASSUME ConnInv, UNCHANGED vars
    PROVE  ConnInv'
BY DEF vars, object, ConnInv, HandlesKnown, AtStep, NothingLost, AfterFailure,
       OneConnectionInUse, HasHandle, Handle, Steps

LEMMA ConnNext == ConnInv /\ [Next]_vars => ConnInv'
<1> SUFFICES ASSUME ConnInv, [Next]_vars PROVE ConnInv'
  OBVIOUS
<1>1. ASSUME NEW cfg \in Configs, StartInit(cfg) PROVE ConnInv'
  BY <1>1, ConnStart
<1>2. CASE StepPasses  BY <1>2, ConnStepPasses
<1>3. CASE InitSucceeds  BY <1>3, ConnInitSucceeds
<1>4. CASE InitFails  BY <1>4, ConnInitFails
<1>5. CASE CloseService  BY <1>5, ConnClose
<1>6. CASE UNCHANGED vars  BY <1>6, ConnStutter
<1>7. QED  BY <1>1, <1>2, <1>3, <1>4, <1>5, <1>6 DEF Next

LEMMA ConnInvariant == Spec => []ConnInv
BY ConnInit, ConnNext, PTL DEF Spec

-----------------------------------------------------------------------------

\* For any kinds of service and any number of initialisations: one that fails, at
\* whatever step, leaves config, connection and open handles as they were.
THEOREM FailureChangesNothing == Spec => []FailedInitChangesNothing
<1>1. ConnInv => FailedInitChangesNothing
  BY DEF ConnInv, NothingLost, AfterFailure, FailedInitChangesNothing
<1>2. QED  BY <1>1, ConnInvariant, PTL

\* The config and the connection in use are of the same initialisation, the connection
\* is open unless the service was closed, and every other open handle was replaced.
THEOREM ConnectionsBelong == Spec => []OneConnectionInUse
<1>1. ConnInv => OneConnectionInUse  BY DEF ConnInv
<1>2. QED  BY <1>1, ConnInvariant, PTL

-----------------------------------------------------------------------------
(* Types: a call that has passed its config has a method to go by            *)

MethodKnown == step \notin {"idle", "config"} => SelectedMethods # {}

TypeInv == TypeOK /\ MethodKnown

LEMMA HintsAre ==
    /\ DOMAIN DatabricksHints = 1 .. 6 /\ DOMAIN SnowflakeHints = 1 .. 5
    /\ DatabricksHints[1] = Hint({"token"}, "pat")
    /\ DatabricksHints[2] = Hint({"client_id", "client_secret"}, "oauth-m2m")
    /\ DatabricksHints[3] = Hint({"azure_client_id", "azure_client_secret"},
                                 "azure-client-secret")
    /\ DatabricksHints[4] = Hint({"azure_use_msi"}, "azure-msi")
    /\ DatabricksHints[5] = Hint({"google_service_account"}, "google-id")
    /\ DatabricksHints[6] = Hint({"google_credentials"}, "google-credentials")
    /\ SnowflakeHints[1] = Hint({"private_key", "malformed_key"}, "snowflake_jwt")
    /\ SnowflakeHints[2] = Hint({"oauth_client_id", "oauth_client_secret",
                                 "oauth_token_url"}, "oauth_client_credentials")
    /\ SnowflakeHints[3] = Hint({"token"}, "oauth")
    /\ SnowflakeHints[4] = Hint({"workload_identity_provider"}, "workload_identity")
    /\ SnowflakeHints[5] = Hint({"password"}, "snowflake")
BY DEF DatabricksHints, SnowflakeHints

\* A config is refused, or selects methods the provider knows.
LEMMA SelectsKnown ==
    ASSUME kind \in KeyedKinds \cup UrlKinds, NEW keys, NEW named \in Nameable(kind)
    PROVE  Selected(kind, keys, named) \subseteq KnownMethods
<1>1. CASE kind = "databricks"
  <2>1. Nameable(kind) = {Unset, Other, "azure-msi"}
                           \cup {h.method : h \in {DatabricksHints[i] : i \in 1 .. 6}}
    BY <1>1 DEF Nameable
  <2>2. KnownMethods = Nameable(kind) \ {Unset}  BY <1>1 DEF KnownMethods
  <2>3. CASE named # Unset
    <3>1. Selected(kind, keys, named) \subseteq {named}
      BY <1>1, <2>3 DEF Selected, Methods, MethodNamed, UrlKinds
    <3>2. QED  BY <2>2, <2>3, <3>1
  <2>4. CASE named = Unset
    <3>1. Selected(kind, keys, named) \subseteq Inferred(kind, keys)
      BY <1>1, <2>4 DEF Selected, Methods, UrlKinds
    <3>2. Inferred(kind, keys) \subseteq {DatabricksHints[i].method : i \in 1 .. 6}
      BY <1>1, HintsAre DEF Inferred, Hints
    <3>3. \A i \in 1 .. 6 : DatabricksHints[i].method # Unset
      <4>1. \A i \in 1 .. 6 : i = 1 \/ i = 2 \/ i = 3 \/ i = 4 \/ i = 5 \/ i = 6  OBVIOUS
      <4>2. /\ DatabricksHints[1].method = "pat"
            /\ DatabricksHints[2].method = "oauth-m2m"
            /\ DatabricksHints[3].method = "azure-client-secret"
            /\ DatabricksHints[4].method = "azure-msi"
            /\ DatabricksHints[5].method = "google-id"
            /\ DatabricksHints[6].method = "google-credentials"
        BY HintsAre DEF Hint
      <4>3. Unset \notin {"pat", "oauth-m2m", "azure-client-secret", "azure-msi",
                          "google-id", "google-credentials"}
        BY DEF Unset
      <4>4. QED  BY <4>1, <4>2, <4>3
    <3>4. QED  BY <2>1, <2>2, <3>1, <3>2, <3>3
  <2>5. QED  BY <2>3, <2>4
<1>2. CASE kind = "snowflake"  BY <1>2 DEF Selected, KnownMethods
<1>3. CASE kind = "atlas"
  BY <1>3 DEF Selected, KnownMethods, Methods, Configured
<1>4. CASE kind \in UrlKinds
  <2>1. kind \notin KeyedKinds  BY <1>4 DEF UrlKinds, KeyedKinds
  <2>2. KnownMethods = {"url"}  BY <1>4 DEF UrlKinds, KnownMethods
  <2>3. Methods(kind, keys, named) = {"url"}  BY <1>4 DEF UrlKinds, Methods
  <2>4. QED  BY <2>2, <2>3 DEF Selected
<1>5. QED  BY <1>1, <1>2, <1>3, <1>4, Kinds DEF UrlKinds

LEMMA TypesInit == Init => TypeInv
<1> SUFFICES ASSUME Init PROVE TypeInv
  OBVIOUS
<1>1. Unset \in Nameable(kind)
  BY DEF Nameable
<1>2. TypeOK
  BY <1>1, BoundAssumption DEF Init, TypeOK, NoConfig, NothingGiven
<1>3. MethodKnown  BY DEF Init, MethodKnown
<1>4. QED  BY <1>2, <1>3 DEF TypeInv

LEMMA TypesStart ==
    ASSUME ConnInv, TypeInv, NEW cfg \in Configs, StartInit(cfg)
    PROVE  TypeInv'
<1>1. /\ kind' = kind /\ open' = open /\ conn' = conn /\ config' = config
      /\ replaced' = replaced /\ closed' = closed /\ inits' = inits + 1 /\ inits < MaxInits
      /\ step' = "config" /\ outcome' = "none" /\ given' = cfg
  BY DEF StartInit, object
<1>2. kind \in KeyedKinds \cup UrlKinds /\ Steps' = Steps /\ KnownMethods' = KnownMethods
  BY <1>1 DEF ConnInv, HandlesKnown, Steps, KnownMethods
<1>3. 1 \in 1 .. Len(Steps) /\ Steps[1] = "config"  BY <1>2, StepCases
<1>4. cfg.named \in Nameable(kind) /\ (kind \in KeyedKinds => cfg.keys \subseteq CredentialKeys[kind])
  <2>1. cfg.named \in Nameable(kind) /\ cfg.keys \in KeySets(kind)  BY DEF Configs
  <2>2. kind \in KeyedKinds => kind \notin UrlKinds  BY DEF KeyedKinds, UrlKinds
  <2>3. QED  BY <2>1, <2>2 DEF KeySets
<1>5. TypeOK'
  BY <1>1, <1>2, <1>3, <1>4, BoundAssumption DEF TypeInv, TypeOK, StepNames
<1>6. MethodKnown'  BY <1>1 DEF MethodKnown
<1>7. QED  BY <1>5, <1>6 DEF TypeInv

LEMMA TypesStepPasses ==
    ASSUME ConnInv, TypeInv, StepPasses
    PROVE  TypeInv'
<1>1. /\ kind' = kind /\ conn' = conn /\ config' = config /\ replaced' = replaced
      /\ closed' = closed /\ inits' = inits /\ outcome' = outcome /\ given' = given
      /\ step # "idle" /\ Index < Len(Steps) /\ step' = Steps[Index + 1]
      /\ step = "config" => SelectedMethods # {}
  BY DEF StepPasses, AssignsNothing
<1>2. /\ kind \in KeyedKinds \cup UrlKinds
      /\ Steps' = Steps /\ KnownMethods' = KnownMethods /\ SelectedMethods' = SelectedMethods
  BY <1>1 DEF ConnInv, HandlesKnown, Steps, KnownMethods, SelectedMethods
<1>3. Index \in 1 .. Len(Steps)  BY <1>1, IndexIs DEF ConnInv
<1>4. Len(Steps) \in Nat /\ Index + 1 \in 1 .. Len(Steps)  BY <1>1, <1>2, <1>3, StepCases
<1>5. ConnInv'  BY ConnStepPasses
<1>6. open' \subseteq 1 .. inits  BY <1>1, <1>5 DEF ConnInv, HandlesKnown
<1>7. step' \in StepNames
  BY <1>1, <1>2, <1>4, StepsAreNames
<1>8. TypeOK'
  BY <1>1, <1>2, <1>4, <1>6, <1>7 DEF TypeInv, TypeOK
<1>9. MethodKnown'  BY <1>1, <1>2 DEF TypeInv, MethodKnown
<1>10. QED  BY <1>8, <1>9 DEF TypeInv

LEMMA TypesInitSucceeds ==
    ASSUME ConnInv, TypeInv, InitSucceeds
    PROVE  TypeInv'
<1>1. /\ kind' = kind /\ closed' = closed /\ inits' = inits /\ open' = open
      /\ step # "idle" /\ Index = Len(Steps) /\ step' = "idle" /\ outcome' = "ok"
      /\ config' = [of |-> inits, method |-> CHOOSE m \in SelectedMethods : TRUE]
      /\ conn' = (IF HasHandle THEN inits ELSE conn)
      /\ replaced' = (IF HasHandle THEN replaced \cup ({conn} \cap open) ELSE replaced)
      /\ given' = NothingGiven
  BY DEF InitSucceeds
<1>2. kind \in KeyedKinds \cup UrlKinds /\ KnownMethods' = KnownMethods
  BY <1>1 DEF ConnInv, HandlesKnown, KnownMethods
<1>3. step # "config"
  <2>1. Steps[Index] = step  BY <1>1, IndexIs DEF ConnInv
  <2>2. QED  BY <1>1, <1>2, <2>1, LastIsNotConfig
<1>4. config'.method \in KnownMethods
  <2>1. SelectedMethods # {}  BY <1>1, <1>3 DEF TypeInv, MethodKnown
  <2>2. SelectedMethods \subseteq KnownMethods
    BY <1>2, SelectsKnown DEF TypeInv, TypeOK, SelectedMethods
  <2>3. QED  BY <1>1, <2>1, <2>2
<1>5. config'.of \in 0 .. MaxInits /\ conn' \in 0 .. MaxInits
  BY <1>1 DEF TypeInv, TypeOK
<1>6. replaced' \subseteq 1 .. MaxInits
  <2>1. open \subseteq 1 .. MaxInits  BY BoundAssumption DEF TypeInv, TypeOK
  <2>2. QED  BY <1>1, <2>1 DEF TypeInv, TypeOK
<1>7. Unset \in Nameable(kind)  BY DEF Nameable
<1>8. TypeOK'
  BY <1>1, <1>2, <1>4, <1>5, <1>6, <1>7 DEF TypeInv, TypeOK, NothingGiven
<1>9. MethodKnown'  BY <1>1 DEF MethodKnown
<1>10. QED  BY <1>8, <1>9 DEF TypeInv

LEMMA TypesInitFails ==
    ASSUME ConnInv, TypeInv, InitFails
    PROVE  TypeInv'
<1>1. /\ kind' = kind /\ closed' = closed /\ inits' = inits /\ open' \subseteq open
      /\ conn' = conn /\ config' = config /\ replaced' = replaced
      /\ step' = "idle" /\ outcome' = "error" /\ given' = NothingGiven
  BY DEF InitFails, ClosesOpened, object
<1>2. Unset \in Nameable(kind) /\ KnownMethods' = KnownMethods
  BY <1>1 DEF Nameable, KnownMethods
<1>3. TypeOK'  BY <1>1, <1>2 DEF TypeInv, TypeOK, NothingGiven
<1>4. MethodKnown'  BY <1>1 DEF MethodKnown
<1>5. QED  BY <1>3, <1>4 DEF TypeInv

LEMMA TypesClose ==
    ASSUME ConnInv, TypeInv, CloseService
    PROVE  TypeInv'
<1>1. /\ kind' = kind /\ inits' = inits /\ open' \subseteq open /\ conn' = conn
      /\ config' = config /\ replaced' = replaced /\ given' = given
      /\ step = "idle" /\ step' = "idle" /\ outcome' = outcome
      /\ closed' = closed \cup ({conn} \ {0})
  BY DEF CloseService, object
<1>2. KnownMethods' = KnownMethods  BY <1>1 DEF KnownMethods
<1>3. closed' \subseteq 1 .. MaxInits
  <2>1. conn # 0 => conn \in 1 .. MaxInits  BY BoundAssumption DEF TypeInv, TypeOK
  <2>2. closed \subseteq 1 .. MaxInits  BY DEF TypeInv, TypeOK
  <2>3. QED  BY <1>1, <2>1, <2>2
<1>4. TypeOK'  BY <1>1, <1>2, <1>3 DEF TypeInv, TypeOK
<1>5. MethodKnown'  BY <1>1 DEF MethodKnown
<1>6. QED  BY <1>4, <1>5 DEF TypeInv

LEMMA TypesKept == ConnInv /\ TypeInv /\ [Next]_vars => TypeInv'
<1> SUFFICES ASSUME ConnInv, TypeInv, [Next]_vars PROVE TypeInv'
  OBVIOUS
<1>1. ASSUME NEW cfg \in Configs, StartInit(cfg) PROVE TypeInv'
  BY <1>1, TypesStart
<1>2. CASE StepPasses  BY <1>2, TypesStepPasses
<1>3. CASE InitSucceeds  BY <1>3, TypesInitSucceeds
<1>4. CASE InitFails  BY <1>4, TypesInitFails
<1>5. CASE CloseService  BY <1>5, TypesClose
<1>6. CASE UNCHANGED vars
  BY <1>6 DEF vars, object, TypeInv, TypeOK, MethodKnown, SelectedMethods, KnownMethods, Steps
<1>7. QED  BY <1>1, <1>2, <1>3, <1>4, <1>5, <1>6 DEF Next

\* The types, for any kinds of service and any number of initialisations: in particular
\* the method in use is one the provider knows.
THEOREM ConnectionTypes == Spec => []TypeOK
<1>1. TypeInv => TypeOK  BY DEF TypeInv
<1>2. QED  BY <1>1, TypesInit, TypesKept, ConnInvariant, PTL DEF Spec

-----------------------------------------------------------------------------
(* Selection of a method                                                     *)

\* The first hint there is decides.
LEMMA FirstHintDecides ==
    ASSUME NEW k, NEW keys, NEW N \in Nat, DOMAIN Hints(k) = 1 .. N, NEW n \in 1 .. N,
           Hints(k)[n].keys \cap keys # {},
           \A j \in 1 .. N : j < n => Hints(k)[j].keys \cap keys = {}
    PROVE  Inferred(k, keys) = {Hints(k)[n].method}
<1> DEFINE hits == {i \in DOMAIN Hints(k) : Hints(k)[i].keys \cap keys # {}}
<1>1. n \in hits  OBVIOUS
<1>2. {h \in hits : \A j \in hits : h <= j} = {n}
  <2>1. \A j \in hits : n <= j  OBVIOUS
  <2>2. \A h \in hits : (\A j \in hits : h <= j) => h = n
    <3>1. SUFFICES ASSUME NEW h \in hits, \A j \in hits : h <= j PROVE h = n
      OBVIOUS
    <3>2. h <= n /\ n <= h  BY <1>1, <2>1, <3>1
    <3>3. QED  BY <3>2
  <2>3. QED  BY <1>1, <2>1, <2>2
<1>3. Inferred(k, keys) = {Hints(k)[i].method : i \in {h \in hits : \A j \in hits : h <= j}}
  BY DEF Inferred
<1> HIDE DEF hits
<1>4. QED  BY <1>2, <1>3

LEMMA DatabricksInfers ==
    /\ Inferred("databricks", {"token"}) = {"pat"}
    /\ Inferred("databricks", {"client_id", "client_secret"}) = {"oauth-m2m"}
    /\ Inferred("databricks", {"azure_client_id", "azure_client_secret", "azure_tenant_id"})
         = {"azure-client-secret"}
    /\ Inferred("databricks", {"azure_use_msi"}) = {"azure-msi"}
    /\ Inferred("databricks", {"google_service_account"}) = {"google-id"}
    /\ Inferred("databricks", {"google_credentials"}) = {"google-credentials"}
<1> DEFINE H == Hints("databricks")
<1>1. /\ DOMAIN H = 1 .. 6
      /\ H[1].keys = {"token"} /\ H[1].method = "pat"
      /\ H[2].keys = {"client_id", "client_secret"} /\ H[2].method = "oauth-m2m"
      /\ H[3].keys = {"azure_client_id", "azure_client_secret"}
      /\ H[3].method = "azure-client-secret"
      /\ H[4].keys = {"azure_use_msi"} /\ H[4].method = "azure-msi"
      /\ H[5].keys = {"google_service_account"} /\ H[5].method = "google-id"
      /\ H[6].keys = {"google_credentials"} /\ H[6].method = "google-credentials"
  BY HintsAre DEF Hint, Hints
<1> HIDE DEF H
<1>2. ASSUME NEW keys, NEW n \in 1 .. 6, H[n].keys \cap keys # {},
             \A j \in 1 .. 6 : j < n => H[j].keys \cap keys = {}
      PROVE  Inferred("databricks", keys) = {H[n].method}
  <2>1. H = Hints("databricks") /\ 6 \in Nat  BY DEF H
  <2>2. DOMAIN Hints("databricks") = 1 .. 6  BY <1>1, <2>1
  <2>3. QED  BY <1>2, <2>1, <2>2, FirstHintDecides
<1>3. \A j \in 1 .. 6 : j = 1 \/ j = 2 \/ j = 3 \/ j = 4 \/ j = 5 \/ j = 6  OBVIOUS
<1>4. ASSUME NEW keys, NEW m,
             \/ keys = {"token"} /\ m = "pat"
             \/ keys = {"client_id", "client_secret"} /\ m = "oauth-m2m"
             \/ /\ keys = {"azure_client_id", "azure_client_secret", "azure_tenant_id"}
                /\ m = "azure-client-secret"
             \/ keys = {"azure_use_msi"} /\ m = "azure-msi"
             \/ keys = {"google_service_account"} /\ m = "google-id"
             \/ keys = {"google_credentials"} /\ m = "google-credentials"
      PROVE  Inferred("databricks", keys) = {m}
  <2>1. CASE keys = {"token"} /\ m = "pat"
    <3>1. H[1].keys \cap keys # {} /\ \A j \in 1 .. 6 : ~(j < 1)  BY <1>1, <2>1
    <3>2. QED  BY <1>1, <1>2, <2>1, <3>1
  <2>2. CASE keys = {"client_id", "client_secret"} /\ m = "oauth-m2m"
    <3>1. H[2].keys \cap keys # {} /\ H[1].keys \cap keys = {}  BY <1>1, <2>2
    <3>2. \A j \in 1 .. 6 : j < 2 => j = 1  OBVIOUS
    <3>3. QED  BY <1>1, <1>2, <2>2, <3>1, <3>2
  <2>3. CASE /\ keys = {"azure_client_id", "azure_client_secret", "azure_tenant_id"}
             /\ m = "azure-client-secret"
    <3>1. /\ H[3].keys \cap keys # {}
          /\ H[1].keys \cap keys = {} /\ H[2].keys \cap keys = {}
      BY <1>1, <2>3
    <3>2. \A j \in 1 .. 6 : j < 3 => j = 1 \/ j = 2  OBVIOUS
    <3>3. QED  BY <1>1, <1>2, <2>3, <3>1, <3>2
  <2>4. CASE keys = {"azure_use_msi"} /\ m = "azure-msi"
    <3>1. /\ H[4].keys \cap keys # {}
          /\ H[1].keys \cap keys = {} /\ H[2].keys \cap keys = {} /\ H[3].keys \cap keys = {}
      BY <1>1, <2>4
    <3>2. \A j \in 1 .. 6 : j < 4 => j = 1 \/ j = 2 \/ j = 3  OBVIOUS
    <3>3. QED  BY <1>1, <1>2, <2>4, <3>1, <3>2
  <2>5. CASE keys = {"google_service_account"} /\ m = "google-id"
    <3>1. /\ H[5].keys \cap keys # {} /\ H[4].keys \cap keys = {}
          /\ H[1].keys \cap keys = {} /\ H[2].keys \cap keys = {} /\ H[3].keys \cap keys = {}
      BY <1>1, <2>5
    <3>2. \A j \in 1 .. 6 : j < 5 => j = 1 \/ j = 2 \/ j = 3 \/ j = 4  OBVIOUS
    <3>3. QED  BY <1>1, <1>2, <2>5, <3>1, <3>2
  <2>6. CASE keys = {"google_credentials"} /\ m = "google-credentials"
    <3>1. /\ H[6].keys \cap keys # {} /\ H[4].keys \cap keys = {} /\ H[5].keys \cap keys = {}
          /\ H[1].keys \cap keys = {} /\ H[2].keys \cap keys = {} /\ H[3].keys \cap keys = {}
      BY <1>1, <2>6
    <3>2. \A j \in 1 .. 6 : j < 6 => j = 1 \/ j = 2 \/ j = 3 \/ j = 4 \/ j = 5  OBVIOUS
    <3>3. QED  BY <1>1, <1>2, <2>6, <3>1, <3>2
  <2>7. QED  BY <1>4, <2>1, <2>2, <2>3, <2>4, <2>5, <2>6
<1>5. QED  BY <1>4

LEMMA SnowflakeInfers ==
    /\ Inferred("snowflake", {"private_key"}) = {"snowflake_jwt"}
    /\ Inferred("snowflake", {"oauth_client_id", "oauth_client_secret", "oauth_token_url"})
         = {"oauth_client_credentials"}
    /\ Inferred("snowflake", {"token"}) = {"oauth"}
    /\ Inferred("snowflake", {"workload_identity_provider"}) = {"workload_identity"}
    /\ Inferred("snowflake", {"password"}) = {"snowflake"}
<1> DEFINE H == Hints("snowflake")
<1>1. /\ DOMAIN H = 1 .. 5
      /\ H[1].keys = {"private_key", "malformed_key"} /\ H[1].method = "snowflake_jwt"
      /\ H[2].keys = {"oauth_client_id", "oauth_client_secret", "oauth_token_url"}
      /\ H[2].method = "oauth_client_credentials"
      /\ H[3].keys = {"token"} /\ H[3].method = "oauth"
      /\ H[4].keys = {"workload_identity_provider"} /\ H[4].method = "workload_identity"
      /\ H[5].keys = {"password"} /\ H[5].method = "snowflake"
  BY HintsAre DEF Hint, Hints
<1> HIDE DEF H
<1>2. ASSUME NEW keys, NEW n \in 1 .. 5, H[n].keys \cap keys # {},
             \A j \in 1 .. 5 : j < n => H[j].keys \cap keys = {}
      PROVE  Inferred("snowflake", keys) = {H[n].method}
  <2>1. H = Hints("snowflake") /\ 5 \in Nat  BY DEF H
  <2>2. DOMAIN Hints("snowflake") = 1 .. 5  BY <1>1, <2>1
  <2>3. QED  BY <1>2, <2>1, <2>2, FirstHintDecides
<1>3. Inferred("snowflake", {"private_key"}) = {"snowflake_jwt"}
  <2> DEFINE keys == {"private_key"}
  <2>1. H[1].keys \cap keys # {} /\ \A j \in 1 .. 5 : ~(j < 1)  BY <1>1
  <2>2. QED  BY <1>1, <1>2, <2>1
<1>4. Inferred("snowflake", {"oauth_client_id", "oauth_client_secret", "oauth_token_url"})
        = {"oauth_client_credentials"}
  <2> DEFINE keys == {"oauth_client_id", "oauth_client_secret", "oauth_token_url"}
  <2>1. H[2].keys \cap keys # {} /\ H[1].keys \cap keys = {}  BY <1>1
  <2>2. \A j \in 1 .. 5 : j < 2 => j = 1  OBVIOUS
  <2>3. QED  BY <1>1, <1>2, <2>1, <2>2
<1>5. Inferred("snowflake", {"token"}) = {"oauth"}
  <2> DEFINE keys == {"token"}
  <2>1. H[3].keys \cap keys # {} /\ H[1].keys \cap keys = {} /\ H[2].keys \cap keys = {}
    BY <1>1
  <2>2. \A j \in 1 .. 5 : j < 3 => j = 1 \/ j = 2  OBVIOUS
  <2>3. QED  BY <1>1, <1>2, <2>1, <2>2
<1>6. Inferred("snowflake", {"workload_identity_provider"}) = {"workload_identity"}
  <2> DEFINE keys == {"workload_identity_provider"}
  <2>1. /\ H[4].keys \cap keys # {} /\ H[3].keys \cap keys = {}
        /\ H[1].keys \cap keys = {} /\ H[2].keys \cap keys = {}
    BY <1>1
  <2>2. \A j \in 1 .. 5 : j < 4 => j = 1 \/ j = 2 \/ j = 3  OBVIOUS
  <2>3. QED  BY <1>1, <1>2, <2>1, <2>2
<1>7. Inferred("snowflake", {"password"}) = {"snowflake"}
  <2> DEFINE keys == {"password"}
  <2>1. /\ H[5].keys \cap keys # {} /\ H[4].keys \cap keys = {} /\ H[3].keys \cap keys = {}
        /\ H[1].keys \cap keys = {} /\ H[2].keys \cap keys = {}
    BY <1>1
  <2>2. \A j \in 1 .. 5 : j < 5 => j = 1 \/ j = 2 \/ j = 3 \/ j = 4  OBVIOUS
  <2>3. QED  BY <1>1, <1>2, <2>1, <2>2
<1>8. QED  BY <1>3, <1>4, <1>5, <1>6, <1>7

\* What the comments say, field by field.
LEMMA DocumentedLines ==
    /\ \A line \in Documented["databricks"] :
          /\ line.named = {Unset, line.method}
          /\ \/ line.keys = {"token"} /\ line.method = "pat"
             \/ line.keys = {"client_id", "client_secret"} /\ line.method = "oauth-m2m"
             \/ /\ line.keys = {"azure_client_id", "azure_client_secret", "azure_tenant_id"}
                /\ line.method = "azure-client-secret"
             \/ line.keys = {"azure_use_msi"} /\ line.method = "azure-msi"
             \/ line.keys = {"google_service_account"} /\ line.method = "google-id"
             \/ line.keys = {"google_credentials"} /\ line.method = "google-credentials"
    /\ \A line \in Documented["snowflake"] :
          \/ /\ line.named = {Unset, line.method}
             /\ \/ line.keys = {"private_key"} /\ line.method = "snowflake_jwt"
                \/ /\ line.keys = {"oauth_client_id", "oauth_client_secret",
                                   "oauth_token_url"}
                   /\ line.method = "oauth_client_credentials"
                \/ line.keys = {"token"} /\ line.method = "oauth"
                \/ /\ line.keys = {"workload_identity_provider"}
                   /\ line.method = "workload_identity"
                \/ line.keys = {"password"} /\ line.method = "snowflake"
          \/ /\ line.named = {"programmatic_access_token", "pat"}
             /\ line.keys = {"token"} /\ line.method = "programmatic_access_token"
    /\ \A line \in Documented["atlas"] :
          \/ line.keys = {"public_key", "private_key"} /\ line.method = "api_key"
          \/ line.keys = {"client_id", "client_secret"} /\ line.method = "service_account"
<1>1. /\ Documented["databricks"] =
           {Inferable({"token"}, {}, "pat"),
            Inferable({"client_id", "client_secret"}, {}, "oauth-m2m"),
            Inferable({"azure_client_id", "azure_client_secret", "azure_tenant_id"}, {},
                      "azure-client-secret"),
            Inferable({"azure_use_msi"}, {"azure_client_id"}, "azure-msi"),
            Inferable({"google_service_account"}, {}, "google-id"),
            Inferable({"google_credentials"}, {}, "google-credentials")}
      /\ Documented["snowflake"] =
           {Inferable({"private_key"}, {}, "snowflake_jwt"),
            Inferable({"oauth_client_id", "oauth_client_secret", "oauth_token_url"}, {},
                      "oauth_client_credentials"),
            Inferable({"token"}, {}, "oauth"),
            Line({"token"}, {}, "programmatic_access_token",
                 {"programmatic_access_token", "pat"}),
            Inferable({"workload_identity_provider"}, {}, "workload_identity"),
            Inferable({"password"}, {}, "snowflake")}
      /\ Documented["atlas"] =
           {Line({"public_key", "private_key"}, {}, "api_key", {Unset}),
            Line({"client_id", "client_secret"}, {}, "service_account", {Unset})}
  BY DEF Documented
<1>2. ASSUME NEW keys, NEW optional, NEW method, NEW named
      PROVE  /\ Line(keys, optional, method, named).keys = keys
             /\ Line(keys, optional, method, named).method = method
             /\ Line(keys, optional, method, named).named = named
             /\ Inferable(keys, optional, method) = Line(keys, optional, method, {Unset, method})
  BY DEF Line, Inferable
<1>3. ASSUME NEW keys, NEW optional, NEW method
      PROVE  /\ Inferable(keys, optional, method).keys = keys
             /\ Inferable(keys, optional, method).method = method
             /\ Inferable(keys, optional, method).named = {Unset, method}
  BY DEF Line, Inferable
<1>4. ASSUME NEW line \in Documented["databricks"]
      PROVE  /\ line.named = {Unset, line.method}
             /\ \/ line.keys = {"token"} /\ line.method = "pat"
                \/ line.keys = {"client_id", "client_secret"} /\ line.method = "oauth-m2m"
                \/ /\ line.keys = {"azure_client_id", "azure_client_secret",
                                   "azure_tenant_id"}
                   /\ line.method = "azure-client-secret"
                \/ line.keys = {"azure_use_msi"} /\ line.method = "azure-msi"
                \/ line.keys = {"google_service_account"} /\ line.method = "google-id"
                \/ line.keys = {"google_credentials"} /\ line.method = "google-credentials"
  BY <1>1, <1>3
<1>5. ASSUME NEW line \in Documented["snowflake"]
      PROVE  \/ /\ line.named = {Unset, line.method}
                /\ \/ line.keys = {"private_key"} /\ line.method = "snowflake_jwt"
                   \/ /\ line.keys = {"oauth_client_id", "oauth_client_secret",
                                      "oauth_token_url"}
                      /\ line.method = "oauth_client_credentials"
                   \/ line.keys = {"token"} /\ line.method = "oauth"
                   \/ /\ line.keys = {"workload_identity_provider"}
                      /\ line.method = "workload_identity"
                   \/ line.keys = {"password"} /\ line.method = "snowflake"
             \/ /\ line.named = {"programmatic_access_token", "pat"}
                /\ line.keys = {"token"} /\ line.method = "programmatic_access_token"
  <2>1. CASE line = Line({"token"}, {}, "programmatic_access_token",
                         {"programmatic_access_token", "pat"})
    BY <2>1 DEF Line
  <2>2. CASE line # Line({"token"}, {}, "programmatic_access_token",
                         {"programmatic_access_token", "pat"})
    BY <1>1, <1>3, <2>2
  <2>3. QED  BY <2>1, <2>2
<1>6. ASSUME NEW line \in Documented["atlas"]
      PROVE  \/ line.keys = {"public_key", "private_key"} /\ line.method = "api_key"
             \/ line.keys = {"client_id", "client_secret"} /\ line.method = "service_account"
  BY <1>1 DEF Line
<1>7. QED  BY <1>4, <1>5, <1>6

\* The documented keys of a method, with no name or its own, select that method alone.
LEMMA DocumentedSelects ==
    ASSUME NEW k \in KeyedKinds, NEW line \in Documented[k], NEW named \in line.named
    PROVE  /\ Selected(k, line.keys, named) = {line.method}
           /\ line.keys \subseteq Given(k, line.keys, line.method)
<1>1. CASE k = "databricks"
  <2>1. named = Unset \/ (named = line.method /\ named # Unset)
    BY <1>1, DocumentedLines
  <2>2. DatabricksRequires(line.method) \subseteq line.keys
    BY <1>1, DocumentedLines DEF DatabricksRequires
  <2>3. Inferred(k, line.keys) = {line.method}
    BY <1>1, DocumentedLines, DatabricksInfers
  <2>4. Methods(k, line.keys, named) = {line.method}
    BY <1>1, <2>1, <2>3 DEF Methods, MethodNamed, UrlKinds
  <2>5. Selected(k, line.keys, named) = {line.method}
    BY <1>1, <2>2, <2>4 DEF Selected
  <2>6. QED  BY <1>1, <2>5 DEF Given
<1>2. CASE k = "snowflake"
  <2>1. /\ line.method \in SnowflakeMethods
        /\ SnowflakeRequires(line.method) = line.keys
    BY <1>2, DocumentedLines DEF SnowflakeMethods, SnowflakeRequires
  <2>2. \/ named # Unset /\ MethodNamed(k, named) = line.method
        \/ named = Unset /\ Inferred(k, line.keys) = {line.method}
    <3>1. line.method # Unset /\ line.method # "pat"  BY <1>2, DocumentedLines DEF Unset
    <3>2. CASE line.named = {Unset, line.method}
      <4>1. Inferred(k, line.keys) = {line.method}
        <5>1. line.method # "programmatic_access_token"
          <6>1. "pat" # Unset  BY DEF Unset
          <6>2. "pat" \notin line.named  BY <3>1, <3>2, <6>1
          <6>3. QED  BY <1>2, <6>2, DocumentedLines
        <5>2. QED  BY <1>2, <5>1, DocumentedLines, SnowflakeInfers
      <4>2. QED  BY <3>1, <3>2, <4>1 DEF MethodNamed
    <3>3. CASE line.named = {"programmatic_access_token", "pat"}
      <4>1. line.method = "programmatic_access_token"
        BY <1>2, <3>1, <3>3, DocumentedLines
      <4>2. QED  BY <1>2, <3>3, <4>1 DEF MethodNamed, Unset
    <3>4. QED  BY <1>2, <3>2, <3>3, DocumentedLines
  <2>3. Methods(k, line.keys, named) = {line.method}
    BY <1>2, <2>2 DEF Methods, UrlKinds
  <2>4. Selected(k, line.keys, named) = {line.method}
    BY <1>2, <2>1, <2>3 DEF Selected
  <2>5. QED  BY <1>2, <2>1, <2>4 DEF Given
<1>3. CASE k = "atlas"
  <2>1. /\ DOMAIN AtlasMethods = {"api_key", "service_account"}
        /\ AtlasMethods["api_key"] = {"public_key", "private_key"}
        /\ AtlasMethods["service_account"] = {"client_id", "client_secret"}
    BY DEF AtlasMethods
  <2>2. line.method \in DOMAIN AtlasMethods /\ AtlasMethods[line.method] = line.keys
    BY <1>3, <2>1, DocumentedLines
  <2>3. Configured(line.keys) = {line.method}
    <3>1. \A m \in DOMAIN AtlasMethods : AtlasMethods[m] \cap line.keys # {} <=> m = line.method
      BY <1>3, <2>1, DocumentedLines
    <3>2. QED  BY <2>2, <3>1 DEF Configured
  <2>4. Selected(k, line.keys, named) = {line.method}
    BY <1>3, <2>2, <2>3 DEF Selected, Methods
  <2>5. QED  BY <1>3, <2>2, <2>4 DEF Given
<1>4. QED  BY <1>1, <1>2, <1>3 DEF KeyedKinds

\* No method hides another one: a config with exactly the keys the comments describe for
\* a method selects it, whether the method is named or inferred.
THEOREM DocumentedMethodsSelected == Spec => []DocumentedMethodsWork
<1>1. DocumentedMethodsWork
  BY DocumentedSelects DEF DocumentedMethodsWork, Selects
<1>2. QED  BY <1>1, PTL

=============================================================================
