# Verification of the OpenRun binding providers

TLA+ models of the six binding-provider executables in `src/`, checked with TLC, with their
safety properties proved with TLAPS. A provider gives an application an account on a managed service
(ClickHouse, Databricks, SQL Server, Oracle, Snowflake, MongoDB, MongoDB Atlas). The OpenRun
server calls it through the SDK interface `binding.ServiceBinding`: `GenerateAccount`,
`DeleteArtifact`, `ApplyGrants`, `RevokeGrants`, and the calls without state of their own.

## Inventory

| Component | State | Operations | What is hard | What makes it correct |
|---|---|---|---|---|
| Account provisioning, all providers | objects on the service, artifact list in memory, the server's account record | `GenerateAccount`, `DeleteArtifact` | every statement commits on its own; failures at any statement, before or after it took effect; names taken by leftovers; deletion order | nothing made is lost track of; a failure leaves nothing; only own objects are deleted; a live account is whole; cleanups end |
| SQL grants, five providers | privileges on the service, the ledger of applied grants, tables of the base account | `ApplyGrants`, `RevokeGrants`, `applyPerms` | grants overlap; tables come and go between lookup and statement; deferred grants; batch fails half way and is undone; each service's own rules for `*` | no access beyond the grants; recorded grants are in effect; nothing desired is forgotten |
| MongoDB and Atlas grants | the custom role or Atlas roles array, the user, the ledger | `ApplyGrants`, `RevokeGrants`, `setUserGrants`, `restoreSelfHostedUser` | user or role dropped behind the server's back; rollback of a half-done update; lost replies | the same two, at every moment; revocations get through |
| SQL Server schema cascade | objects of one schema, and the references between them | `DeleteArtifact`, `dropSchemaCascade` | lists and then drops while an application creates; foreign keys, schema-bound views, sequences in defaults; retries after failures half way | the order is never the reason for a refusal; what comes off the list is gone; it completes once the application stays away |
| Atlas user propagation | a deadline | `waitForAtlasUser` | late propagation, cancellation | reports the artifact however the wait ends |
| Name resolution and quoting | what the lookup found, until the statement runs | `tableSpecific`, `resolveTableOrView`, `resolveTable`, `applyObjectPerm`, `trySoftGrant`, `quote...Ident` | case folding on lookup and again on quoting; objects renamed between lookup and statement, and between grant and revocation | the object found is the object granted; a revocation reaches what the grant reached |
| Service connections | admin handle, configuration | `InitializeService`, `CloseService` | repeated and failed initialisation | a failed one changes nothing; config and handle belong together |
| Authentication configuration | none | `snowflakeAuthConfig`, `databricksAuthConfig` | many combinations of keys | exactly one method, or an error |
| Atlas Admin API client | none | four REST calls | 404, 409, lost replies | covered by its callers |
| URLs, identifiers, passwords; health checks; `RunCommand`; executables | none | pure or plain I/O | - | not modelled |
| SDK and server (not in the repository) | account metadata, applied grants | calls the above | - | external, see below |

The components meet in the account map (`GenerateAccount` returns it, the grants read schema,
role or user from it), in the artifact list (returned with the account or with the error, given
back in reverse order to `DeleteArtifact`), and on the managed service itself. Calls for
different accounts run concurrently; calls for one account do not.

`PROJECT.json` lists the hazards line by line, with the properties that cover each one, or the reason why none does.

## Modules

| Module | Models | Used by |
|---|---|---|
| `AccountPlan` | the statements of each provider's `GenerateAccount`, as data, and the artifact types `DeleteArtifact` knows | `Provisioning` |
| `Provisioning` | executing a plan, its error paths, artifacts, rollback and deletion | `MCProvisioning`, `ProvisioningProofs`, `ProvisioningWholeProofs` |
| `SchemaCascade` | the deletion of one SQL Server base account, statement by statement | `MCSchemaCascade`, `SchemaCascadeProofs` |
| `SqlGrants` | `applyPerms` of the five SQL providers under the SDK's incremental bookkeeping | `MCSqlGrants`, `SqlGrantsProofs` |
| `NameResolution` | the lookup and the naming of one table, which `SqlGrants` takes as exact | `MCNameResolution`, `NameResolutionProofs` |
| `GrantLedger` | what a provider that rebuilds permissions owes to an account (abstract) | `MongoGrants` |
| `MongoGrants` | the rebuild of the complete permission set on MongoDB and Atlas | `MCMongoGrants`, `MongoGrantsProofs` |
| `ServiceAuth` | how a service config selects its authentication method | `ServiceConnection` |
| `ServiceConnection` | `InitializeService` and `CloseService` of one service object | `MCServiceConnection`, `ServiceConnectionProofs` |
| `ProvisioningProofs`, `ProvisioningWholeProofs`, `SqlGrantsProofs`, `NameResolutionProofs`, `MongoGrantsProofs`, `MongoGrantsRefinement`, `SchemaCascadeProofs`, `ServiceConnectionProofs` | theorems | |

### Provisioning

A plan is a sequence of statements: a *check* only reads, a *create* makes an object that is
reported as an artifact, a *grant* confers a baseline privilege or credential, an *attempt* (the
OAuth secret of `createAccountCredential` in `auto`) is a grant whose failure falls through to the
next statement. `needs` are the objects the service insists on. The final check of most plans is
the account URL, which can fail after everything was made. The seven `...Plan` operators are the
seven `GenerateAccount` functions, with the base and the derived variant.

State: `catalog` (objects on the service with the account that made them), `held` (privileges),
`status` (the server's view), `pc` (next statement), `artifacts` and `cursor` (the list and how much
of it is still to be deleted). Actions: `GenerateAccount`, `StatementSucceeds`, `StatementFails`
(refused by the service or failed before taking effect), `StatementReplyLost` (took effect, returned
an error), `ReturnAccount`, `DeleteBinding`, `DeleteArtifact`, `DeleteArtifactFails`, `FinishCleanup`.
`inDoubt` and `faults` are bookkeeping of the model.

The service refuses a second object of the same name, except that Databricks lets two principals
share a display name (`databricks_binding.go:196`), and SQL Server refuses to drop a user that owns
a schema. The server deletes artifacts in reverse creation order (`clickhouse_binding.go:240`,
`sqlserver_binding.go:185`) and retries a failed deletion.

### SchemaCascade

`Provisioning` drops a schema in one step. Here that step is what the code does: `CheckSchema`, then
for foreign keys, views, tables and sequences in turn (`After`) one catalog query (`List`) and one
statement per row (`DropNext`), then `DROP SCHEMA`; `DROP USER`; and for the login a query and a
`DROP LOGIN`. The application of the account is connected at first. As long as it has its session it
creates views, tables and sequences, gives tables foreign keys (to themselves too) and defaults from a
sequence, binds views to tables or views, and drops what nothing refers to. SQL Server refuses to
drop what is referred to, a schema that is not empty, a user that owns a schema, and a login that
is connected. A refusal or a failure ends the call with the artifact still on the server's list, and
it is called again.

### SqlGrants

One derived account on the tables of its base. `BeginGrant` is the head of one turn of the loop in
`applyPerms`: the lookup of the table (or Oracle's listing of all of them), with the list of
statements that result; `RunStatement` and `StatementFails` are one `ExecContext` each, so that
tables can be created and dropped between any two of them. `RejectGrant` is `create:<table>`,
refused in its turn. `...Statements` give each provider's statements for a grant, in order;
`ScopesOf` says what a statement means to the service: ClickHouse's `db.*` is every name, with
table grants that survive `DROP TABLE`; Snowflake's `ALL` is what exists at that moment and its
`FUTURE` confers privileges when a table is created; Oracle has only tables. `Tolerated` is Oracle's
treatment of ORA-00942 and ORA-01927.

Privileges are `select`, `write` (INSERT, UPDATE, DELETE, which the code always names together),
`create`, `alter` and `usage`; `Access` is what the account can do with them on the service.
Views and sequences are left out. Views are looked up like tables, but Snowflake and Oracle grant SELECT
alone on them, and their `*` has statements for views and sequences besides those for tables. `lapsed` and `late`
are history: a grant whose table was dropped since, and a table created after a grant looked.
`suspect` marks the time after a failed call, when its undo may have taken privileges that
recorded grants need, and `leaked` the grants of updates whose undo failed.

### NameResolution

One grant on one table, from the lookup to the revocation. A name is a word and the case it is
written in; `Queries` lists each provider's catalog queries in order, and in each the spellings
it looks for in order: Snowflake asks for tables and then for views, each as written and then in upper
case; Oracle as written and then in upper case; Databricks in lower case; ClickHouse and SQL Server
as written (SQL Server under a case-sensitive collation; under the others all spellings are one).
`Quoted` is Snowflake's quoting, which uppercases plain names. Privileges stay with a renamed object
and go with a dropped one, except on ClickHouse, which keeps them by name and revokes without a
lookup. `renamed` and `shadowed` are history and guard nothing: what was renamed since it was granted (a new grant that
reaches it takes it off again), and spellings of the target that are held while the lookup prefers another
one; a revocation has no way of finding these. An object that was granted under any other name is in
neither.

### MongoGrants

One derived account whose permission set is replaced as a whole: `perms` is the content of the
custom role, or of the Atlas user's roles array. A call is at a command (`step`): `update`
(`updateRole`, `PATCH`), `create` after not found (`createRole`, `POST`), and for
`reapplyAll` on self-hosted servers `lookup` and `recreate` of the user; a failure of the last two
starts the `rollback` of the role to what was recorded. `DropUser` and `DropRole` are somebody else
on the service, at any moment; dropping a role takes it from its users (`stripped`).
`dropped` is history: `no` again once an update that restores has succeeded and nothing was dropped
while it ran.

`GrantLedger` says the same without commands, steps, roles and users: the ledger moves by updates and
revocations alone; access stays between what the ledger demands and what it allows; what is being
revoked never comes back; an update is on record only when it is in effect; only somebody else can take recorded access
away. `Ledger` in `MongoGrants` is the refinement mapping: `access` is `Access`, `offered` are the
grants of the running update with those a failed one may have left, `intact` is `dropped = "no"`.

### ServiceAuth and ServiceConnection

A config is the set of credential keys that are not empty and the method it names, if any;
`Selected` is the method `databricksAuthConfig`, `snowflakeAuthConfig` or `initAtlas` ends up with, or
none when it is refused. `Documented` is what the comments in `snowflake_auth.go` and
`databricks_auth.go` say, and that Snowflake's `pat` is short for `programmatic_access_token` (`TestAuthConfigPat`). `ServiceConnection` runs `InitializeService` step by step (`Steps`, in the
order of each provider), each of which may fail; the fields of the service object are assigned at the end.
The handle that was there is not closed by that, and `CloseService` closes the one in
use and leaves it in place (`replaced` and `closed` say which). Calls for one service object do
not overlap.

### What is assumed of the SDK and the server

They are not in the repository; these are read off their use in `src/` and are marked external:

- `ApplyGrantsIncrementalSafe` runs the desired grants that are not recorded (all desired ones with
  `reapplyAll`), and on an error revokes the new ones (`clickhouse/security_int_test.go`: "an invalid
  later grant must not leave a preceding full:* in effect"). After success the ledger is what was
  recorded and is still desired, with what `fn` returned as done. It is not assumed to grant
  anything again after an undo.
- `RevokeThenRegrant` revokes, then grants what is kept. `ApplyGrantsRebuild` hands over the applied
  and the desired grants together; grants no longer desired are revoked after the commit
  (`mongodb_binding.go:429-434`). A revocation that failed is tried again, before the next update.
- The SDK ignores the result of a call that returned an error (`mongodb_binding.go:452`).
- The order of the grants in a batch is left open.

## Properties and runs

`provisioning` (one base and one derived account on each provider, two names possibly taken
beforehand, two faults, replies may be lost): `NothingEscapes`, `CleanUnlessInDoubt`, `LiveIsWhole`,
`DropNeverBlocked`, `CleansOnlyItsOwn`, `CallsComplete`. Two accounts are all that interact (a derived account only
meets its base, and names embed the account id); two faults let a creation fail and then its
cleanup; `CredentialType` is `auto`, which has the statements of the other two. The one thing that can go wrong is shown
by the exceptions: a CREATE that took effect and whose reply was lost (`inDoubt`) leaves an object that no artifact
names, so that no rollback deletes it, and if it is a SQL Server schema, its user cannot be dropped either
(`Stuck`). The code has no way of telling, and says only that the artifacts created so far are
returned.

`grants` (all five providers, two tables, six sets of desired grants that overlap in every way: rule and table,
read and full, create and full, one refused; one fault, two table changes): `NoExcess`: the
account can never do more than its grants stand for. `RecordedInEffect`: recorded
grants are in effect at every moment, save for what a revocation in progress shares with them or a dropped
table took. `AppliedOrWaiting`: what is desired and not recorded
waits for its table. One table is named by grants and one only by `*`; two changes drop and
recreate a table, the shortest history in which a privilege can come back. Tables change in
the middle of calls, except on Snowflake, where `grants_future_grant` shows what happens. `NoExcess` excuses what a
`REVOKE` that Oracle refused has left; `grants_overlap` checks the comment that calls it harmless.
`grants_regrant_lost` checks that grants survive `DROP TABLE` on ClickHouse.

`cascade` (three names for objects of the three classes, three references, one fault or lost reply):
`NoRefusalOfItsOwn`: no DROP of the cascade is refused unless the application interferes or has bound a view to a view;
`OffTheListIsGone`; `DeletionFinishes`: once the application stays away, the deletion completes. Three
objects are enough for a chain through all classes (view, table, sequence) and for a cycle of foreign keys.
Views over schema-bound views are excused in both: the code drops views in the order the catalog returns
them, and may be refused again and again.

`names` (five providers; three words in lower and in upper case: one that matches the others as a LIKE pattern,
a plain one, and one that needs quotes; two objects, four changes, one failure): `NeverAnotherTable`, `AppliedIsHeld`, `RevokedIsGone`, `RevocationCompletes`.
`NeverAnotherTable` exempts only what was renamed after its grant, so that a statement which went to the object the
lookup found, renamed in between, violates it, and so does a lookup that takes all a wildcard matches for the target:
these are its two mutants. On ClickHouse the GRANT names the target itself and has nothing to confuse. Two objects are the one granted and the one that
takes its place; four changes create both, rename one and drop one. What `RevokedIsGone` excuses through `renamed` and
`shadowed` is real: on every provider but ClickHouse
a table renamed after its grant keeps the privilege after the revocation, which finds nothing under the
name, is skipped, and counts as done. On Snowflake a table stored under a plain lower-case name makes revocations fail for
good (`Unwritable`); `names_quoted` shows what it does to grants.

`mongo` (two collections and a system collection, seven sets of desired grants, two faults,
three drops, lost replies): `NoExcess` and `KeptInEffect` in the middle of calls too,
`ImplementsGrantLedger`, and `RevokesComplete`. Two faults fail an update and then its rollback; three drops lose the user
before, during and after a call. A role is dropped only after its user;
`mongo_role_dropped` shows why.

`service` (seven kinds of service, two initialisations, every combination of credential keys and method named):
`FailedInitChangesNothing`, `OneConnectionInUse`, `DocumentedMethodsWork`. Two initialisations are one that
is in use and one that takes its place or fails. `service_msi` adds the keys that the comments say may go with a method.

Every property has a mutant (`NeverAnotherTable` two) in `PROJECT.json` that a plausible slip in the code would give and that
the run then refutes. The mutants are operators marked `Mutant` in the modules; nothing else
uses them.

### Fairness

`Provisioning!FairSpec`: a running call goes on to its next statement (the providers are
straight-line code that always returns), and the server does not stop in the middle of a cleanup;
nobody has to create or delete a binding. `MongoGrants!FairSpec` and `NameResolution!FairSpec`: a call goes on, and the server
runs `RevokeGrants` for what it has committed to revoke (`mongodb_binding.go:433`).
`SchemaCascade!FairSpec`: a call goes on and the server calls `DeleteArtifact` again after a failure. That
the application stays away is a premise of `DeletionFinishes` and not assumed. None asks for
anything of the environment, whose faults, drops and changes are bounded and may not happen at all.

## Findings

| Run | What the code does |
|---|---|
| `grants_future_grant` | Snowflake: a table created between GRANT ON ALL and GRANT ON FUTURE is covered by neither, and the grant is recorded (in a revocation it keeps the privileges) |
| `grants_overlap` | Oracle: read and full on one table revoked together; the second REVOKE is refused as a whole, the error is swallowed, write access stays |
| `grants_regrant_lost` | ClickHouse: a kept grant whose table is absent during a revocation is revoked with the others, not granted again, and stays on record |
| `mongo_role_dropped` | MongoDB: a role dropped on its own is recreated by reapply-all but not given back to its user |
| `names_quoted` | Snowflake: the grant on a table with a plain lower-case name goes to the one in upper case |
| `service_msi` | Databricks: a config for a user-assigned managed identity is taken for an Entra ID service principal and refused |

## Proofs

Every invariant and every action property that a run shows to hold is a theorem, for every value of
the constants that satisfies the named assumptions, and so is the implementation of
`GrantLedger`. An assumption beyond those is a hypothesis of the theorem, named below, and there is a run
that shows why it is needed, or in the case of `~LostReplies` an exception in the property. Each inductive
invariant was checked with TLC on the constants of its run before it was proved.

`ProvisioningProofs` proves, for any set of accounts, leftovers and bound on faults, from the named
assumptions of `AccountPlan` and `Provisioning` only:

- `TypeCorrect`: `Spec => []TypeOK`. `PlanType` shows every plan to be a sequence of statements.
- `Invariance`: `Spec => []IInv`. `NothingEscapes` and `FailureLeavesNothing` are not inductive: a
  deletion by name could remove another account's object, or leave a second object of the same
  name. `IInv` adds that objects carry the name of their maker's account (`MakersUseTheirNames`);
  that no two objects share a name (`OneObjectPerName`), which on Databricks, where the service
  allows it, rests on the check before the creation still being true when the creation runs
  (`PrincipalStillAbsent`); that a reported type is an object of the account's own
  (`ReportedIsOwn`); that what the cleanup has passed is gone (`CleanedSoFar`); that an account
  with nothing running reports nothing (`NothingReportedYet`); and that a name is in doubt
  only if replies can be lost (`DoubtNeedsLoss`).
- `NothingEscapesAlways`, `CleanupRemovesOnlyItsOwn`, `CleanUnlessInDoubtAlways`, and
  `FailureLeavesNothingIfToldSo`, which drops the exception and assumes `~LostReplies` instead.

`ProvisioningWholeProofs` adds:

- `LiveAccountsAreWhole`: `Spec => []LiveIsWhole`. At the moment an account goes live the property
  speaks of statements long past, so `WholeInv` says for every statement before `pc` that what it was
  for is there (`DoneSoFar`): the object under the account's own name and maker, the privilege
  of a grant or of the attempt standing in for it, or else a needed object of the base that is gone. Nothing
  takes these away: a drop by name goes for the target's own account (`IInv` again), and names
  embed the account. The one shared container is the base's, whose account can be deleted under a
  derived one but is never rolled back (`BaseStands`), so that what is gone stays gone (`Gone`).
  `LiveHasRun` ends the argument. `PlanSteps` and `AttemptThenGrant` are what is needed of the plans: statements need only objects
  of the account or its base, and an attempt is followed by the grant it stands in for, with the same needs.
- `DropsAreNotBlocked`: `Spec => []DropNeverBlocked`. `OrderInv` adds that reported types are ones
  `DeleteArtifact` knows (`ReportedDrops`) and that on SQL Server the user is reported before the
  schema it owns (`UserBeforeSchema`, from the places of the two in the plan, `SqlServerCreates`). In reverse order the
  schema is then behind the cursor by the time the user is dropped, and gone by `CleanedSoFar`; a schema that is
  on no list is in doubt by `NothingEscapes`, which is the exception the property makes.

`SqlGrantsProofs` proves, for any finite set of tables, any grants and requests, any bounds on faults and changes, with
or without lost replies:

- `SqlTypes`: `Spec => []TypeOK`, from what each provider's statement lists contain (`Fits`).
- `AppliedOrWaitingForTable`: `Spec => []AppliedOrWaiting`. In the middle of a call, what is desired and not on record is
  still to do, done, at work, or waiting (`Waiting`).
- `NothingInExcess`: `Spec => []NoExcess`, assuming `StableOnSnowflake`, that Snowflake's tables do not change
  in the middle of a call (`grants_future_grant` shows what happens if they do). `NoExcess` says
  what the account can do on the tables there are; a table that comes back brings privileges with it. `AccountedFor` is
  about every privilege instead, future ones and those on absent tables included: it is in the footprint of a grant that
  may be in effect, or the running undo or revocation still has a statement for it. `LedgerInv` gives
  what the calls' bookkeeping guarantees: the statements left are all of one grant of the pass (`InPass`),
  a refused kind of grant never reaches the record (`Ledger`), and except on ClickHouse no privilege outlives its table
  (`OnTables`).
- `RecordedGrantsInEffect`: `Spec => []RecordedInEffect`, with the same assumption. `InForce` says of each grant
  whose privileges are known to be there (`Vouched`: on record with no failed call since, or gone over by
  the running pass) that each privilege it needs is held or still to be granted by a statement left, or falls under
  one of the property's exceptions; `Lapsing` keeps the one for dropped tables exact.

`NameResolutionProofs` proves, for any words, any wildcards they contain, any number of objects, changes and failures:

- `NameTypes` and `AppliedHasReached`: `TypeOK` and `AppliedIsHeld`, from `LookupInv`: ids are never used again
  (`Identified`), and a call has either found a spelling of its target or stands before one of its queries (`Calls`).
- `NothingElseIsGranted`: `Spec => []NeverAnotherTable`. A statement names a spelling, whatever became of the object that was
  found under it (`Calls`, and `SpellingsAreNames` for Snowflake's quoting), so what it reaches bears one when it runs; after that
  only a renaming can change the name, and that puts it into `renamed`. ClickHouse has `NamesHeld` instead.
- `RevocationLeavesNothing`: `Spec => []RevokedIsGone`. A revocation looks the target up afresh, so the property rests on where
  the lookup would lead at every earlier moment: what is held, and neither renamed nor shadowed (`Due`), bears a spelling by
  `NeverAnotherTable`, and so is what the queries, run now, would reach (`DueIsReached`). While a revocation runs, changes come between its queries and its statement; `OnCourse` says that
  what it has found, or what the query left would find, still names what has to be revoked. ClickHouse revokes by name
  and has `NamesHeld` instead.
- `FoundIsGranted`: `Spec => AppliedToFound`, assuming that Snowflake is not among the providers: `names_quoted` shows that its quoting
  breaks the property, and the theorem that nothing else does.

`MongoGrantsProofs` proves, for any grants, requests and bounds on faults and drops, from the named
assumptions of `MongoGrants` only:

- `TypeCorrect`: `Spec => []TypeOK`.
- `PermissionsAreExact`: `MongoPrivileges` and `AtlasRoles` give exactly what a set of valid grants
  stands for; the placeholder role gives nothing because no binding has its collection
  (`CollectionsAssumption`). Together with `PromiseGrows` it carries the rest.
- `NoExcessHolds`: `Spec => []NoExcess`, under lost replies and roles dropped on their own too.
  `NoExcess` is not inductive: a commit and a rollback forget grants, which is right only if the
  call has replaced the permission set by then. `SafetyInv` says so (`InPlace`), bounds the access
  before that without the grants of the running call (`Before`), and adds that what is recorded or put in
  place is valid.
- `KeptInEffectHolds`: `Spec => []KeptInEffect`, assuming `~RoleDropsAlone`: the run
  `mongo_role_dropped` shows that it cannot do without. `EffectInv` adds that an update during
  which nobody drops anything has put the role and the user back by the time it returns.

`MongoGrantsRefinement` proves `LedgerImplemented`: `Spec => ImplementsGrantLedger`, again assuming
`~RoleDropsAlone`. The initial states map to initial states by `PermissionsAreExact` on no grants; each
action of `MongoGrants` maps to the action of `GrantLedger` of the same intent, or to `Work`, whose bounds
on the new access are `NoExcess` and `KeptInEffect` of the next state, from the invariants
above, and whose claim that nothing being revoked comes back is that a command only ever puts in place what is recorded or
desired.

`SchemaCascadeProofs` proves, for any names and bounds, with or without lost replies:

- `CascadeTypes`: `Spec => []TypeOK`.
- `OrderIsSound`: `Spec => []NoRefusalOfItsOwn`. `CascadeInv` says which classes can refer to which
  (`References`), that a call is at a step of the artifact at the head of the list (`InStep`), and, as long as the
  application keeps still, that the queue is all that is left of its class and the classes before it are
  gone (`Swept`). An object of the class being dropped could then only be held by one of a class already gone, or, for
  views, by another view, which is the exception the property makes. It assumes nothing of how earlier attempts ended:
  every call starts from what it lists.
- `SuccessMeansGone`: `Spec => OffTheListIsGone`, from `InStep` and the types.

`ServiceConnectionProofs` proves, for any kind of service and any number of initialisations:

- `FailureChangesNothing`: `Spec => []FailedInitChangesNothing`. Its `ConnInv` compares the state with the one the
  running call began in: until the last step the call has added nothing but its own handle, which is
  open at the steps that close it on failure (`NothingLost`), and a failure has put everything back (`AfterFailure`).
- `ConnectionsBelong`: `Spec => []OneConnectionInUse`, which needs that handles are never reused
  (`HandlesKnown`).
- `ConnectionTypes`: `Spec => []TypeOK`. That the method in use is one the provider knows needs that no call passes its config without
  a method (`MethodKnown`), and `SelectsKnown`: the hints, the tables and the checks of all kinds of service
  agree on the names of the methods.
- `DocumentedMethodsSelected`: `Spec => []DocumentedMethodsWork`. It is a fact about the configs and not about the history: the first
  hint with a key decides (`FirstHintDecides`), and the documented keys of a method meet its own hint first.

Only model-checked: liveness (`CallsComplete`, `RevokesComplete`, `DeletionFinishes`, `RevocationCompletes`), which is
out of the prover's reach, and the six violations, which are counterexamples of the small instances.

## Not modelled

- Wording, URLs, identifiers, passwords, logging; health checks and `RunCommand` (plain I/O).
- Plugin transport, SDK and server beyond the assumptions above.
- Loss of the artifact list when a provider process dies in the middle of `GenerateAccount`: the list
  is only in memory, and what the server does then is not visible in the repository.
- Time: the interval and the deadline of `waitForAtlasUser`. The wait is one step of the plan that may fail after
  the user was created, however it ends.
- Names taken while an account is being created: other objects of a name are there beforehand or not at all.
- Snowflake's tables changing in the middle of a revocation, where `ON ALL` and `ON FUTURE` leave the same window as
  in a grant (`grants_future_grant`).
- Views and sequences in grants (the name resolution of views is in `NameResolution`); the collation of SQL Server; foreign keys from another schema into the
  one being dropped; concurrent calls for one account or one service object.

## Plan

1. An abstract specification of what a binding owes to an account (`Provisioning` without statements: objects and a
   report), implemented by `Provisioning` under `~LostReplies`.
2. That `SqlGrants` implements an abstract ledger, as `MongoGrants` does, with deferral as the difference.
3. That the calls of `SchemaCascade` implement the steps `DeleteArtifact` and `DeleteArtifactFails` of `Provisioning`
   on SQL Server.
