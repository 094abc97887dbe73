----------------------------- MODULE ServiceAuth -----------------------------
(***************************************************************************)
(* How a service config selects the method its admin connection            *)
(* authenticates with.  A config is the set of its credential keys that    *)
(* are not empty, and the method it names, if any.                         *)
(***************************************************************************)
EXTENDS Naturals, Sequences

Unset == ""
Other == "other"   \* any method name the provider does not know

\* The kinds of service whose config has keys for credentials. The others have them
\* in the service URL.
KeyedKinds == {"databricks", "snowflake", "atlas"}
UrlKinds == {"clickhouse", "sqlserver", "oracle", "mongodb"}

\* Only the keys that select or complete a method; malformed_key stands for a
\* private_key of a Snowflake service that cannot be parsed.
CredentialKeys ==
    [databricks |-> {"token", "client_id", "client_secret", "azure_client_id",
                     "azure_client_secret", "azure_tenant_id", "azure_use_msi",
                     "google_service_account", "google_credentials"},
     snowflake  |-> {"private_key", "malformed_key", "oauth_client_id", "oauth_client_secret",
                     "oauth_token_url", "token", "workload_identity_provider", "password"},
     atlas      |-> {"public_key", "private_key", "client_id", "client_secret"}]

KeySets(kind) ==
    IF kind \in UrlKinds THEN {{"url"}}
    ELSE {keys \in SUBSET CredentialKeys[kind] :
            kind = "snowflake" => ~({"private_key", "malformed_key"} \subseteq keys)}

-----------------------------------------------------------------------------
(* A method is inferred from the first of these keys that is there           *)

Hint(keys, method) == [keys |-> keys, method |-> method]

\* Mutant: the managed identity is inferred from its client id.
DatabricksHintsMsiFirst ==
    << Hint({"token"}, "pat"),
       Hint({"client_id", "client_secret"}, "oauth-m2m"),
       Hint({"azure_use_msi", "azure_client_id"}, "azure-msi"),
       Hint({"azure_client_secret"}, "azure-client-secret"),
       Hint({"google_service_account"}, "google-id"),
       Hint({"google_credentials"}, "google-credentials") >>

DatabricksHints ==
    << Hint({"token"}, "pat"),
       Hint({"client_id", "client_secret"}, "oauth-m2m"),
       Hint({"azure_client_id", "azure_client_secret"}, "azure-client-secret"),
       Hint({"azure_use_msi"}, "azure-msi"),
       Hint({"google_service_account"}, "google-id"),
       Hint({"google_credentials"}, "google-credentials") >>

SnowflakeHints ==
    << Hint({"private_key", "malformed_key"}, "snowflake_jwt"),
       Hint({"oauth_client_id", "oauth_client_secret", "oauth_token_url"},
            "oauth_client_credentials"),
       Hint({"token"}, "oauth"),
       Hint({"workload_identity_provider"}, "workload_identity"),
       Hint({"password"}, "snowflake") >>

Hints(kind) == IF kind = "databricks" THEN DatabricksHints ELSE SnowflakeHints

\* The method of the first hint; none, if there is no hint.
Inferred(kind, keys) ==
    LET hits == {i \in DOMAIN Hints(kind) : Hints(kind)[i].keys \cap keys # {}}
    IN  {Hints(kind)[i].method : i \in {h \in hits : \A j \in hits : h <= j}}

-----------------------------------------------------------------------------
(* What each method requires, and what the driver is then given              *)

\* A method outside the table is passed on to the Databricks SDK, which knows more.
DatabricksRequires(method) ==
    CASE method = "pat"                 -> {"token"}
      [] method = "oauth-m2m"           -> {"client_id", "client_secret"}
      [] method = "azure-client-secret" -> {"azure_client_id", "azure_client_secret",
                                            "azure_tenant_id"}
      [] method = "google-id"           -> {"google_service_account"}
      [] method = "google-credentials"  -> {"google_credentials"}
      [] OTHER                          -> {}

SnowflakeMethods == {"snowflake", "snowflake_jwt", "oauth", "programmatic_access_token",
                     "oauth_client_credentials", "workload_identity"}

SnowflakeRequires(method) ==
    CASE method = "snowflake"                  -> {"password"}
      [] method = "snowflake_jwt"              -> {"private_key"}
      [] method \in {"oauth", "programmatic_access_token"} -> {"token"}
      [] method = "oauth_client_credentials"   -> {"oauth_client_id", "oauth_client_secret",
                                                   "oauth_token_url"}
      [] method = "workload_identity"          -> {"workload_identity_provider"}
      [] OTHER                                 -> {}

\* The methods of an Atlas service: an API key or a service account, never both.
AtlasMethods == [api_key |-> {"public_key", "private_key"},
                 service_account |-> {"client_id", "client_secret"}]

Configured(keys) == {m \in DOMAIN AtlasMethods : AtlasMethods[m] \cap keys # {}}

\* Snowflake's pat is short for programmatic_access_token.
MethodNamed(kind, named) ==
    IF kind = "snowflake" /\ named = "pat" THEN "programmatic_access_token" ELSE named

Methods(kind, keys, named) ==
    IF kind = "atlas" THEN Configured(keys)
    ELSE IF kind \in UrlKinds THEN {"url"}
    ELSE IF named = Unset THEN Inferred(kind, keys) ELSE {MethodNamed(kind, named)}

\* Mutant: a method that is named is taken for one that is known.
SelectsAnyNamed(kind, keys, named) ==
    {m \in Methods(kind, keys, named) :
        kind = "snowflake" => SnowflakeRequires(m) \subseteq keys}

\* The method a config selects: none, if the config is refused.
Selected(kind, keys, named) ==
    {m \in Methods(kind, keys, named) :
        /\ kind = "databricks" => DatabricksRequires(m) \subseteq keys
        /\ kind = "snowflake" => m \in SnowflakeMethods /\ SnowflakeRequires(m) \subseteq keys
        /\ kind = "atlas" => Configured(keys) = {m} /\ AtlasMethods[m] \subseteq keys}

\* The credentials the driver gets: with Databricks all there are, and the SDK goes by
\* the method.
Given(kind, keys, method) ==
    CASE kind = "databricks" -> keys \cup {k \in {"azure_use_msi"} : method = "azure-msi"}
      [] kind = "snowflake"  -> SnowflakeRequires(method)
      [] kind = "atlas"      -> AtlasMethods[method]
      [] OTHER               -> keys

\* The names a config may force, with those that are not known.
Nameable(kind) ==
    CASE kind = "databricks" -> {Unset, Other, "azure-msi"}
                                  \cup {h.method : h \in {DatabricksHints[i] : i \in 1 .. 6}}
      [] kind = "snowflake"  -> {Unset, Other, "pat"} \cup SnowflakeMethods
      [] OTHER               -> {Unset}

-----------------------------------------------------------------------------
(* What the comments of snowflake_auth.go, databricks_auth.go and initAtlas  *)
(* say: which keys select which method, and which others may go with them.   *)
(* Only a test, TestAuthConfigPat, says that pat is a name of a method.       *)

Line(keys, optional, method, named) ==
    [keys |-> keys, optional |-> optional, method |-> method, named |-> named]

Inferable(keys, optional, method) == Line(keys, optional, method, {Unset, method})

Documented ==
    [databricks |->
       {Inferable({"token"}, {}, "pat"),
        Inferable({"client_id", "client_secret"}, {}, "oauth-m2m"),
        Inferable({"azure_client_id", "azure_client_secret", "azure_tenant_id"}, {},
                  "azure-client-secret"),
        Inferable({"azure_use_msi"}, {"azure_client_id"}, "azure-msi"),
        Inferable({"google_service_account"}, {}, "google-id"),
        Inferable({"google_credentials"}, {}, "google-credentials")},
     snowflake |->
       {Inferable({"private_key"}, {}, "snowflake_jwt"),
        Inferable({"oauth_client_id", "oauth_client_secret", "oauth_token_url"}, {},
                  "oauth_client_credentials"),
        Inferable({"token"}, {}, "oauth"),
        Line({"token"}, {}, "programmatic_access_token",
             {"programmatic_access_token", "pat"}),
        Inferable({"workload_identity_provider"}, {}, "workload_identity"),
        Inferable({"password"}, {}, "snowflake")},
     atlas |->
       {Line({"public_key", "private_key"}, {}, "api_key", {Unset}),
        Line({"client_id", "client_secret"}, {}, "service_account", {Unset})}]

=============================================================================
