# go-users: formal models

TLA+ models of the parts of go-users in which several requests, commands or
listeners meet over shared rows, the TLC runs that check them, and TLAPS proofs of
every safety property the runs check, for every value of the constants. `src/` below is the
root of the repository.
`PROJECT.json` maps every definition to the lines it stands for.

    tlc -workers 2 -config reset_any.cfg MCPasswordReset     # any run of the table below
    tlapm PasswordResetProofs.tla                             # any of the *Proofs modules

## 1. Inventory

go-users is a library. A host builds `service.Service` once and calls commands
and queries from as many goroutines (and processes) as it has requests. The
commands keep no state of their own: all state is in tables, reached through
repositories that issue one SQL statement per call and open no transaction. So
between any two repository calls of one command, any other command may run, the
process may die, and a call may fail or may take effect and lose its reply. After
a write a command logs an activity record and calls a hook, both unordered with
respect to other commands. That is where this code is hard, and what the
models are about.

| Component | State | Operations | Hard part | What makes it correct | Status |
|---|---|---|---|---|---|
| Password reset (`command/password_reset_{request,confirm}.go`, `passwordreset/`) | `user_password_reset` rows: status, used_at, expires_at, updated_at as claim stamp | issue and record a link; confirm: resolve, validate, claim, write password, finalize, release, read back | claim taken over after its TTL, lost replies, crash between password and finalization, read-modify-write of the status | a link changes a password only for those who claimed it, one finalizer, "ok" means written and closed, a closed token stays closed | `PasswordReset`, `OneTimeReset`; proved |
| Onboarding tokens (`command/invite.go`, `registration_request.go`, `token_validation.go`, `tokens/`) | `user_tokens` rows, the pending user and its metadata | invite or register, validate, consume, expire | racing consumers, three writes without a transaction, expiry between validation and statement | one consumer, the row tells the truth, a delivered link is backed | `UserTokens`, `OneTimeToken`; proved |
| User account (`command/user_*.go`, `lifecycle.go`, `password_reset.go`, `bootstrap_password.go`, `adapter/goauth/`) | one user record: status, password hash, temporary-password markers | create, transition, update, change password, bootstrap a temporary one | whole-record read-modify-write in the adapter, stale policy checks, markers and password written apart | status moves along the policy, no password lost, a temporary password is always marked, but for what a command missed | `UserAccount`; proved |
| Bulk user commands (`command/bulk_*.go`) | none | import and transition many users | stop or go on after a failure, repeat an import that broke off | the results name every user dealt with | `CrudServices`; proved |
| Role registry (`registry/`, `command/role_*.go`) | `custom_roles`, `user_custom_roles` | create, update, delete, assign, unassign, list assignments | check then act, cascade without events, write-back of a copy | assignments name roles of their scope, system roles stay, listeners agree | `RoleRegistry`, `NamedRoles`; proved |
| Preferences (`preferences/`, `command/preference_*.go`, `query/preference_query.go`) | `user_preferences` rows per level and key, with a version | upsert, delete, bulk forms, resolve over levels | find then update, resolution without a snapshot, partly failed bulk commands | a resolved value was in force, versions tell writes apart, bulk results are complete | `Preferences`; proved |
| Activity enrichment (`command/activity_enrichment.go`, `activity/enrichment_*.go`) | `data` of `user_activity` rows | page, resolve names, merge missing keys, stamp | runs overlap each other and the log; paging over a filter that the run itself changes; two SQL dialects | data is only added, nothing is skipped, runs end | `ActivityEnrichment`; proved but for "runs end" |
| Activity log, feed, statistics (`activity/bun_repository.go`, `query/activity_queries.go`, `crudsvc/activity_service.go`) | `user_activity` | log, list, count | a page and its count are two statements, offsets while records arrive, filters in two SQL dialects | a client that reads to the end misses nothing it may see | `ActivityFeed`; proved; `Log` also in `ActivityEnrichment` |
| Activity access policy, sanitizer (`activity/access_policy.go`, `filter_helpers.go`, `sanitizer.go`) | none | narrow a filter, mask a record | combinations of role, scope and channel; applied by the service and again by the query | never wider than the role allows, however often applied | `ActivityFeed`; proved |
| Profiles (`profile/`, `command/profile_upsert.go`) | `user_profiles`, primary key the user alone | patch, query | read, patch, write back of the whole row; lookup by scope, key without it | a patch is lost only to one that overlapped it; refused only where the key is taken | `Profiles`; proved |
| Schema registry (`pkg/schema/`, `pkg/telemetry/validation/`) | providers, listeners and watchers behind locks | register, subscribe, attach, notify | snapshots delivered outside the lock, watchers called under one | every change is heard, feeds end with the newest document, calls return | `SchemaRegistry`; proved but for "calls return" |
| CRUD services with scope guard and CRUD guard (`crudsvc/`, `crudguard/`, `scope/`, `pkg/authctx/`, `query/`) | none | create, update, delete, show and list users, roles and preferences, singly or in batches | three scopes that may differ (payload, service, command), checks made twice, batches that fail in the middle | what is changed is what was allowed, tenants stay apart, support agents see themselves only, outcomes are true | `CrudServices`; proved |
| Service facade, secure links, feature gate, migrations, examples | none, or start-up only | wire, generate | none of its own | | not modelled, reasons in section 7 |

Interactions: commands call the scope guard first, then repositories, then the
activity sink and the hooks. Reset and invite call the link manager (external)
for a link with an id and an expiry, and the account repository for the user.
The reset confirmation calls `UserPasswordResetCommand`, whose own interleavings
are in `UserAccount`; in `PasswordReset` its write is one step that may fail,
fail after taking effect, or be cut short. Enrichment works on the rows that
every other command logs.

## 2. Plan

Done, in this order: `PasswordReset` with its abstract specification and its
proofs (a takeover-with-fence protocol, the most delicate code), `UserTokens`
(same row discipline, simpler), `UserAccount` (what both write to),
`RoleRegistry`, `Preferences`, `ActivityEnrichment`; then `Profiles` (small, and its
lookup and its key disagree), `SchemaRegistry` (the only locks and callbacks of the
library), `CrudServices` (who may do what, in which scope, through two layers of checks)
and `ActivityFeed` (what may be seen, and whether paging shows it all).

The proofs followed in the order of what they say about the system: `PasswordReset`,
`UserTokens`, `RoleRegistry`, `Profiles`, `SchemaRegistry`, `UserAccount`,
`CrudServices`, `ActivityFeed`, `Preferences`, `ActivityEnrichment`.

The abstract specifications came last: `OneTimeToken`, which `UserTokens` implements, and
`NamedRoles`, which `RoleRegistry` implements. Section 7 lists what the plan leaves out.

## 3. Modules

Common conventions. An action is one repository call, one clock reading or one
hook call, with the branching that follows it; `pc` (or `place`) is where the
goroutine stands. `Faults` selects what may go wrong: "error" (a statement fails
without effect, or with one where the code cannot know), "lost_reply" (it took effect and the caller sees an
error), "crash" (the goroutine stops for good and rows stay as they are). Every
operation runs at most once, so states are finite without further bounds; retries
are further operations. Time is a natural number, 0 is Go's zero time, and the
clock is bounded by `MaxTime`. A refused scope check is a command that does not
start. Definitions called "Bug: ..." in a comment are defective variants of the definition after
them; no specification uses them, they show that the properties notice such a defect.
Each module states one type invariant, `TypeOK`; TLC has checked it on the
instances below, the proofs cover every instance, and no configuration lists it.
In `Preferences` and `ActivityEnrichment` the common names carry a prefix (`PreferenceSpec`,
`EnrichmentTypeOK`) or another word (`Failures`, `MaxClock`, `step`), so that one module
of proofs can extend them together with another model.

**`PasswordReset`**. `links` is the request command's progress per token,
`resets` the table (`updatedAt` doubles as the claim stamp and fence, as in
`passwordreset/bun_repository.go`), `seen`/`stamp`/`answer` the locals of
`Execute` in `password_reset_confirm.go`. `wrote`, `owner` and `finalizers` only
record history for the properties. `Start .. ReadBack` follow `Execute`:
`GetResetByJTI`, `ValidateResetRecord` (with the two-step, unguarded
`UpdateResetStatus` for late tokens), `StampClaim` (the clock is read before the
statement), `ClaimReset` (conditional UPDATE), `ResetPassword`/`ResetPasswordFails`,
`ReleaseResetClaim`, `FinalizeReset` (both fenced by the stamp), `ReadBack` after a
failed finalize. `Prompt` says whether a live claimant may outlast the claim TTL.

**`OneTimeReset`** is what a link promises: a door opens once and closes once,
only requests let in write, each once, and "yes" is said only of a write and a closed door.
`PromiseKept` is refinement under `DoorOf`/`StageOf`.

**`UserTokens`**. `onboard`/`users` follow the issuing command (user, row,
metadata, delivery; a failure stops it and nothing is undone), `tokens` is the
table, `Updatable` the WHERE clause of `UpdateTokenStatus`, and the requests
validate or consume. The repository reads its clock (`ReadClock`) before the statement that compares
it (`Consume`): the expiry may pass between the two.

**`OneTimeToken`** is what such a link promises: a token is opened once and ends once,
redeemed by one request that saw it open and then found it in time, or lapsed after its time;
a redeemer that found it in time may redeem it late, because the repository's clock reading and its statement are two steps; nobody comes with
it before it is on record and its user stands ready; "ok", "valid" and "expired" are said only of a token
of which they were so. `TokenPromiseKept` is refinement under `Registered`, `Over`, `Ready` and `StageOf`: a status
is a state of the register, the clock is only the set of tokens whose time is over, and
the record a request holds only whether it saw the token open.

**`UserAccount`**. One user record; `form` is a command's copy, `current` what
the adapter's `Update` re-reads. Commands of every kind overlap as they like, and the
adapter writes whole records, so they undo each other. The properties say exactly how:
the history `missed` collects, for each command, what others changed since it last looked
(at the password before it writes it back, at the markers before it sets a password, at
the status before it writes one, and at the status its event will name), and a property
may fail only by a command that missed just that. A command that misses nothing breaks
nothing, and neither does a failure or a crash. `putBack` holds the commands that wrote
a password back since one was last set, `marksBy` the one that last touched the markers.
An update is the one command that needs no overlap: its caller sends a whole record
(`Edit`) with any metadata, of which the adapter keeps none, so it may erase the markers or
set them, and a status or none, in which case the policy is not asked. Whether the store writes
empty metadata over stored ones, and what it makes of an empty status, is left open (`Stored`).

**`RoleRegistry`**. The two tables, the copy each operation works on, and a
`mirror` kept by a listener of `AfterRoleChange`. Deleting a role cascades to its
assignments without events; `listed` is what `ListAssignments` returns, its names read by
a second statement; `overlapped` remembers roles on which operations that
write ever met, for the two properties that only promise something without that.

**`NamedRoles`** is what the registry promises however operations overlap: a role lives at most once and
keeps its scope, living roles of a scope differ in name, members hold living roles of that scope, and
a call takes effect at one moment before it returns, or never; "ok" is said only of what took
effect or was so already. `RolePromiseKept` is refinement under `LifeOf`, `EntryOf` and
`StageOf`: copies, reads and statements disappear, and a role is live exactly while its row exists.
System marks and events are not part of it; they have properties of their own.

**`Preferences`**. `rows` per level and key, `left` the keys (levels) still to be
dealt with, `existing` the row found, `outcome` the bulk result, `layers` what a
resolution read. A level is its priority. A value is the call that wrote it and the
fields it has (`has`), perhaps none: the resolver merges field by field
(`Effective`; `preferences/resolver_test.go`), one level deep here, while a stored row takes the
place of the whole default of its key at the system level (`Layer`). `history` remembers, per
running resolution, every answer one state would have given, and which fields each change since left.

**`ActivityEnrichment`**. `data` per record (which writer gave each key, and the
stamp), and per run the cursor, the page as read, the resolver answers of the
tenant in hand, and the row fetched for the merge. `ListByQuery` is the PostgreSQL
listing, `ListByScan` the scan used elsewhere, one statement per step. `owed` is a
run's debt for `RunCompletes`. A run that is over forgets its locals.

**`Profiles`**. `row` is the one row a user can have. A patch reads it in the
scope asked for, patches the copy, looks again in the scope of the copy and
updates or creates, as `profile_upsert.go` and `UpsertProfile` do; a create that
meets a row is refused by the key. `writes` is the order in which patches were stored, `base`
how many were when a patch first read, `effect` what its statement made of the values. A patch sets
some fields and clears others, with an empty string or map. Whether an empty field is written over a
stored one is left open (`Written`), as it depends on the repository library.

**`SchemaRegistry`**. `providers`/`listeners` are the registry, `watchers`, `readers`,
`writers` the notifier and its lock (a waiting writer keeps new readers out, as in
`sync.RWMutex`). `StoreProvider` takes the snapshot and the list of listeners
under the lock, `CallListener` delivers one at a time outside it, `Publish` and
`CallWatcher` go through the notifier. A watcher may attach another from inside the call. Feeds keep
snapshots as `examples/web/schema_feed.go` does.

**`CrudServices`**. A request goes through its items; `Enforce` is the service's check
(adapter, actor, requested scope, action), `EnforceCommand` that of the command or query behind it, then
comes one write or read and one activity record. `scope` and `cmd` are what each
check resolved; `pins` says whether the host's resolver keeps actors in their
tenant. A preference is asked for at a level: that of a user, a tenant, or the system, whose one row
(`PrefKey`) no scope reaches. `Refuse`, `RefuseCommand` may follow at every check, since the host's policy may refuse. `granted`
and `effects` record what was allowed and what happened. Bulk commands start
without the adapter. Interleavings within one row are those of `UserAccount`, `RoleRegistry` and
`Preferences`; here a write is one step.

**`ActivityFeed`**. `BuildFilterFromActor`, `ApplyChannelOptions`, `ApplyStats` and
`Sanitize` are the access policy as operators, applied by `Filters` as often as the
code does; `Matches` is the WHERE clause in both dialects. `SelectRows` and
`CountRows` are the two statements of a page, in the order the table is asked. A client goes
on at `NextOffset` until a page is the last; one of `Index`, which returns rows and a total only, is
taken to know the limit and do the same. Properties compare with `Within`, `IsOwn` and `OpenChannel`,
stated from the documentation of the policy and not from its code, and `Countable`, which says
what statistics are about.

## 4. Runs

| Run | Shows | Bounds | States |
|---|---|---|---|
| `reset_any` | `SpentMeansWritten`, `OneFinalizer`, `FenceNamesOwner`, `PromiseKept` under every fault and claimants of any speed | 1 token, 3 requests, token TTL 3, claim TTL 1, clock to 5 | 575 k |
| `reset_prompt` | `ExclusiveOwnership`, `OneSuccess`, `WrittenHolderCloses` with prompt claimants | 2 requests, TTL 4 and 2, clock to 5, lost replies and crashes | 31 k |
| `token_any` | `OneConsumer`, `SettledInTime`, `TokenPromiseKept` | 1 token, 3 requests, TTL 2, clock to 4, every fault | 733 k |
| `account_any` | `TemporaryIsMarked`, `PermanentIsUnmarked`, `PasswordIsLastWritten`, `LogNamesRealChange`, `StatusFollowsPolicy` | 3 overlapping commands of any kind, 2 target states, every fault | 2.6 M |
| `role_any` | `AssignmentsHaveRoles`, `MirrorAgrees`, `SystemRolesStay`, `RolePromiseKept` | 3 operations, 2 roles, 2 scopes, 1 member, 1 name | 1.15 M |
| `preference_any` | `ResolvedWasEffective`, `VersionsTellWritesApart`, `BulkTellsEachKey`, `ChangesAreAnnounced` | 3 calls, 2 levels, 2 keys, values of 2 fields, at most 4 keys and levels to deal with in all | 1.6 M |
| `enrichment_any` | `RecordsOnlyGain` for two overlapping runs | 2 records, pages of 1, crashes | 2.2 M |
| `enrichment_pages` | `RunCompletes`, `RunEnds` across pages and tenants | 1 run, 4 records of 2 tenants, pages of 2, errors | 382 k |
| `profile_any` | `PatchLostOnlyToOverlap`, `RefusedMeansTaken` | 3 patches or queries in any scope, 2 tenants, 1 organisation, 1 field, every fault | 4.3 M |
| `schema_any` | `EveryChangeHeard`, `FeedAgrees`, `CallsReturn` | 4 calls of any kind, 1 resource, feeds of 2 | 208 k |
| `crud_any` | `ChangesAuthorised`, `TenantsApart`, `SupportKeepsToItself`, `OutcomesTellTheTruth`, `BatchesSeeToEveryUser` | any request of up to 2 items beside a short one on the same table, 2 users, 2 tenants, every fault | 3.9 M |
| `feed_any` | `ShownIsAllowed`, `SecretsMasked`, `PagesMissNothing`, `StatsAreExact` | one request of any role under any policy with one record of any kind; or pages of 2 over up to 3 records while they are logged | 3.9 M |

Why these bounds are enough for what they look at. Rows are independent of each
other (no statement touches two tokens, users or preference rows), so one row and
three operations on it show every pairwise interference with a third party
in between: an overtaken claimant, the one that overtook it, and a late expirer.
The clock reaches past the token's expiry with a takeover before it. Two roles,
because a name is unique within a scope and a role may take the name another
gave up. Two levels and two keys, because merging looks at pairs of levels and a
bulk command must go on after a first failure; every writer of `preference_any`
is given key 1, as operations without a common key do not disturb each other. Levels and
fields meet in a resolution of several levels only: without one every value has all its
fields and one level suffices.
Pages of two out of four records, because a page boundary, a full last page and
a short one then all occur, with tenants alternating inside a page. One display
name stands for both in the enrichment runs: they are treated alike by every
line of the code. Faults are divided between the enrichment runs (crashes with
two runs, failing statements with one) to keep them within minutes.

Three patches of one profile: the one lost, the one it is lost to, and one between. One field:
a patch that names nothing stands for a patch of another field, since each field is treated alone.
Four calls of the schema registry: a listener and two registrations that race, or
two validations around a watcher that attaches another; one resource suffices, as
two snapshots of one already differ. Two items of a batch: one that goes well
before one that does not, and the reverse. In `crud_any` the second request is one of
seven short ones, and stays at its side of one table, because requests on different tables meet
nowhere. Everyone's credentials name the first tenant, payloads the other or
none: the actor's own tenant in a payload adds nothing to a missing one. Batches of preferences are of
the user and the system level, single requests of every one. `feed_any` has three families of initial states:
a view of a single record, in which every pair of a policy option with a role and a
filter occurs; pages over a log that grows; records logged through the
service. Channel rules are varied with one of the other policy options at a time,
because they touch different fields of the filter. Calls, operations and tenants are interchangeable and are
symmetric where no liveness property is checked.

All runs turn deadlock checking off: operations run once, so every behaviour ends
in a state without a successor, which is not a defect of the code.

### Fairness

Safety runs assume none. `FairSpec` of `PasswordReset` assumes weak fairness of
each request's `Execute`: a goroutine that has started is scheduled; nobody is obliged to
issue, present or retry a link, and crashes stay possible. `EnrichmentSpec`
assumes weak fairness of each run's own work: the loop of
`run` is scheduled and its calls return (with or without an error). Starting a
run, logging records and the clock are not fair. `Spec` of `SchemaRegistry` assumes weak
fairness of each call that has started: goroutines are scheduled, listeners
return, and a lock that stays free is granted; nothing is assumed of calls that
wait for a lock another one keeps.

## 5. Proofs

A module of proofs, `XProofs` for `X` or one for two neighbours, proves its theorems for every
set the constants may be (requests, tokens, roles, tenants, fields, policies), every bound, and
every combination of faults. A theorem named `PHolds` states property `P` of the table of runs.

| Module | Theorems | Beyond the module's own assumptions on constants |
|---|---|---|
| `PasswordResetProofs` | `TypeCorrect`, `SpentMeansWrittenHolds`, `SuccessMeansSpentHolds`, `OneFinalizerHolds`, `FenceNamesOwnerHolds`, `ClosedStaysClosedHolds`; `PromiseHolds`: every behaviour is one of `OneTimeReset` | nothing |
| | `ExclusiveOwnershipHolds` | `Prompt` |
| | `OneSuccessHolds` | `Prompt`, and "error" is not among the faults |
| `UserTokensProofs` | `TypeCorrect`, `OneConsumerHolds`, `SettledInTimeHolds`, `LinkIsBackedHolds`, `SettledForGoodHolds`; `TokenPromiseHolds`: every behaviour is one of `OneTimeToken` | nothing |
| `RoleRegistryProofs` | `TypeCorrect`, `AssignmentsHaveRolesHolds`, `SystemRolesStayHolds`, `MirrorAgreesHolds`; `RolePromiseHolds`: every behaviour is one of `NamedRoles` | nothing |
| `ProfilesPreferencesProofs` | `TypeCorrect`, `PatchLostOnlyToOverlapHolds`, `RefusedMeansTakenHolds` (`Profiles`) | nothing |
| | `PreferenceTypeCorrect`; `ResolvedEffective`, `VersionsDiffer`, `BulkCommandsTellEachKey`, `ChangesAnnounced`, which state `ResolvedWasEffective`, `VersionsTellWritesApart`, `BulkTellsEachKey`, `ChangesAreAnnounced` | nothing |
| `SchemaRegistryProofs` | `TypeCorrect`, `EveryChangeHeardHolds`, `FeedAgreesHolds` | nothing |
| `UserAccountProofs` | `TypeCorrect`, `LogNamesRealChangeHolds`, `StatusFollowsPolicyHolds`, `PasswordIsLastWrittenHolds`, `TemporaryIsMarkedHolds`, `PermanentIsUnmarkedHolds` | nothing |
| `CrudServicesProofs` | `TypeCorrect`, `ChangesAuthorisedHolds`, `TenantsApartHolds`, `SupportKeepsToItselfHolds`, `OutcomesTellTheTruthHolds`, `BatchesSeeToEveryUserHolds` | nothing |
| `ActivityProofs` | `TypeCorrect`, `ShownIsAllowedHolds`, `SecretsMaskedHolds`, `StatsAreExactHolds`, `PagesMissNothingHolds` (`ActivityFeed`) | nothing |
| | `EnrichmentTypeCorrect`, `RecordsOnlyGainHolds`, `RunCompletesHolds` | nothing |

The assumptions of the modules themselves are bounds on clocks and sizes: a token's TTL
and the clock's bound are positive, a batch has room for one item (`MaxItems`), feeds
keep one snapshot, the default page is not empty and not longer than the longest,
what other parts log are records (`Elsewhere`), a backfill's batch is not empty and its
clock can tick; and names that stand for something else are not among the sets given (a call is
not called "default", a run not "log").

All safety proofs have the same build: an inductive invariant of named conjuncts, first checked by
TLC as an invariant on the run's instance, then proved; lemmas that say once what any
step may do to one row, one request or the log, and that everyone else stays as they
were; and per conjunct or per step a lemma over these.

### `PasswordReset`

The argument. None of the properties is inductive: whether a finalization hits
the right row depends on the meaning of its stamp. `SafeInv` adds what the code
relies on without saying it: a stamp is taken once and is not zero (`StampPlace`);
a row is created once and never deleted (`CreatedOnce`); a row that reads
"processing" carries the stamp of its last claimant (`OwnerStamped`); a request
past the password write did write (`WrittenFirst`); a finalized row is closed
(`FinalizedClosed`). Two lemmas carry the case analysis once: `RowStep` says what
any step may do to one row (keep, create, expire, claim, release, finalize),
`LocalStep` where any step may take one request. Every conjunct then has a short
lemma over these two.

Exclusive ownership additionally needs `PromptInv`: prompt claimants are inside
their TTL (`InTime`), so nobody's claim is stale (`NoTakeover`), so a holder's row
carries the holder's stamp or was expired over its head (`HolderClaims`). Refinement
maps row moves to door moves (`DoorStep`) and local moves to stage moves (`OwnMaps`).

`SuccessMeansSpent` (a caller is told "ok" only of a spent token) and
`ClosedStaysClosed` (a closed token is never touched again) are proved and not listed in a run.

### `UserTokens`

The WHERE clause of the update names the status alone. That it lets one request through, and with a
stamp before the expiry, follows because whoever consumed a token left it used (`ConsumedIsUsed`), the
expiry a request validated is still the row's (`SeenIsOfRow`), and the clock was on the side of
the expiry that the request saw (`LateIsLate`; `StampedBefore`: the stamp is not after the reading the statement compares). `IssueOrder` orders the
writes of the issuing command; a request answers last (`AnsweredLast`).

The refinement adds what callers are told: a record read as expired was late (`SeenLate`), a stamp
lies in the past (`StampsPast`), only who came to consume is at the statement (`ModeFits`), and a link presented was delivered (`Presented`), so
that the row a redeemer found in time is the row it redeems. With that each step of
a request is a move of one token and one stage (`OwnMoves`), and each such move a step of
`OneTimeToken` or none (`MoveMaps`); `RecordMaps`, `UserMaps` and `TickMaps` map the issuing command and the
clock. `LinkIsBacked` (a delivered link has its user, row and metadata) and `SettledForGood` (used and
expired are final) are proved and not listed in a run: of the status,
the promise says the same.

### `RoleRegistry`

`SafeInv`: a role is created once and its row and the copies of it keep the scope
it was created in (`RowsOriginal`, `CopiesOriginal`), so an assignment, written in the scope of a copy,
is in the role's (`HoldsCopy`, `AssignedToRole`); where changes of a role never overlapped, at most one is
in flight and its copy is the row (`Alone`, `CopyFresh`). `MirrorInv` adds, change by change,
what a listener lacks until the event is sent.

The refinement needs no more than `SafeInv`. A statement of operation `p` changes one entry of the register at
most (`OneEntry`) and is the moment at which the call takes effect (`TookIs`); a step that leaves the tables
alone only moves the stage of its call (`TellsMap`). Each action then has a lemma of its own (`CreateMaps`,
`RenameMaps`, ...). An update writes a copy that may be old, yet what it writes back is
the role's own scope, since that never changes (`CopiesOriginal`).

### `Profiles`, `SchemaRegistry`

A stored patch set and cleared what it names, or the store kept a value it was to clear (`Told`). What it
made of its fields is in the row (`Kept`) and in every copy read since (`Carried`), unless a
later patch names the field; so a copy that is written back loses only what was stored after
it was read. `Fresh` says that without such a store a copy is the row, or of a scope the row does not
answer to.

In the registry, what a listener should hear it heard, or a registration that is
delivering still has the listener on its list (`Owing`, `Listed`). What is being delivered is the document served, or
was being delivered when the newest snapshot was taken (`DeliversAgreeing`); a feed begins
with such a document, or its listener is yet to hear the newest (`FeedsAgree`).

### `UserAccount`

Commands overlap as they like. `StatusSeen`, `FirstSeen`, `PasswordSeen` and `MarksSeen` say of a
command, from its look to its write, that what it looked at is still so or that it missed a
change of just that. `Watched` carries them through the steps of others: whoever changes the
status, the password or the markers adds to what those past their look have missed. Two
invariants use them: `StatusInv` for what is moved and logged (`Reportable` keeps the event's
edge allowed by the policy), `SecretsInv` for the password and its markers. There `SetByCommand`
says that a password, stored or held in an adapter's copy, is of a change or a bootstrap, and a
bootstrap that has marked the record ends with its password, with an error, or in a crash
(`Stops`, `ErrorIsFinal`), which is what excuses markers beside a permanent password.

### `CrudServices`

Every step of a request is one of eleven moves (begin, check, take effect, log, show, refuse, ...), and
the invariant says of a request, for each place it may stand at, what was granted:
`AccessGiven` by the first check, `WriteGranted` by the second, for the very target and scope
of the item (`ScopesFit`). A preference written is in the tenant authorised or is the system's row
(`Identified`: no other row is without user and tenant). `EffectsFit`, `EffectsPast`, `LogPast` tie what happened to the
items passed, `Truthful` the outcomes to what happened.

### `ActivityFeed`

However often the policy is applied there is at most one filter (`FiltersType`), the same on every
page. `FilterAllows` shows that what it matches is within `Within`, `IsOwn` and `OpenChannel`;
`FilterFinds` that it matches whatever is `Wanted`; `StatsAllow` and `StatsFind` say the same two things of
statistics and `Countable`. `ViewInv` carries this to what clients hold.
Paging rests on the rank of a record, the number of newer ones the request finds. `PageRanks`, about finite sets
alone, says that the page of `l` after `o` holds exactly the records of ranks `o` to
`o + l - 1`, those of equal times apart; ranks only grow while records are logged. So a
record not yet shown ranks behind all pages read (`Ahead`, `Beyond`), a count tells that there is
another page as long as one is left (`Counts`, `More`), and without logging a record shown ranks
before the page (`Behind`, `OnPage`).

### `Preferences`

A call works through its list from the front (`TasksOK`). With that, what a bulk command has told
so far is exactly about the keys it has come to the end of, and a call of the refused mode never
writes (`BulkInv`).

A row's id names the call that created it, and that call can create no second row for the key
(`IdsInv`), so a row deleted and created again is told from the old one. Where upserts never
overlapped on a row, at most one is between its two statements, the row is as it found it or
deleted, and no record returned for the row is ahead of it (`AloneInv`): so a version grows with
every write and no two records returned share one.

A resolution reads level after level. `ResolveInv` looks at the answer it would give if it read the
rest of its levels now (`Known`): that one was in force as a whole at some moment since it began if
one level at most moved, and field by field if the levels are asked for in ascending order and no
change removed the field (`Agrees`). A layer already read that did not move is still the table's, so a single
moved level is either behind the reader, who then saw the moment before, or ahead, who sees
the moment after. Where several moved and all left the field, the highest of the levels read that has the
field decides: nothing above it had it when it was read.

### `ActivityEnrichment`

Records gain because two runs with one record in hand overlap (and the property allows for it), and a run
alone with its record holds the row as it is, under a stamp no older than the row's (`HolderInv`).
Keys the logging command set are never taken for another's: a copy has a key as logged exactly if
the row has, and a page has no more as logged than the table (`LoggedInv`). What a step may then do
to a record is `Gains`, shown step by step. All of it holds in both dialects; away from PostgreSQL
a key may vanish, under overlap only.

That a run leaves nothing behind is `OwedInv`: whatever the run has to see to is done (`Met`), or its
record is still to come (`StillAhead`): on the page, or older than the cursor while there are
pages left. `SeenInv` says that a page shows no more than the table, so a record that
is passed over as complete is complete; what is done stays done because records only gain. That
the cursor never steps over a record rests on lemmas about `Newest`, the newest so many of a set
of records: what it leaves out is older than all it takes, and then it took as many as it may. So what
a page leaves out is below the least record scanned, where the next one begins, whether the
filter is part of the statement or applied to what it returned, and a page that is not
full is the last. When the run sums up nothing is ahead.

### Only model-checked

The liveness properties `WrittenHolderCloses`, `RunEnds` and `CallsReturn`: fairness and
ENABLED are outside the prover.

## 6. What the models found

The code does something its own comments or docs rule out. No run is spent on these;
each can be read at the line given.

- Validation uses `After`, the statements `expires_at > ?`. At the instant of expiry a lone
  confirmation is told that another one is in progress (`password_reset_confirm.go:273`,
  against `command/errors.go:64`), and a lone consumer that the token was
  already used (`token_validation.go:322`, against `command/errors.go:62`).
- A password change that looked before a bootstrap marked the user leaves the
  markers beside a permanent password (`password_reset.go:103`, against
  `adapter/goauth/repository.go:147`). `PermanentIsUnmarked` names the case; a bootstrap cut short
  between its two writes, and an update whose caller sends the markers, leave them too.
- An update erases the markers of a temporary password, without any overlap, if its caller sends
  metadata without them: `crudsvc/user_service.go:185` passes the caller's record on and
  `preserveAuthManagedFields` (`adapter/goauth/repository.go:225`) keeps no metadata. The expiry of the temporary
  password goes with them. `TemporaryIsMarked` names the case.
- The adapter's `Update` (`adapter/goauth/repository.go:82-87`) and the marking by a bootstrap
  write a whole record: a password set between its read and its write is lost
  (`PasswordIsLastWritten`), and so is a status: an archived user can come back, beside the
  policy that allows no way out (`StatusFollowsPolicy`). Two
  transitions, or a transition and an update, may also write over each other between the check
  and the write.
- `from_state` of a lifecycle event is the status of the command's first read
  (`command/lifecycle.go:101`), not the one the state machine moved from, where another command
  changed it in between (`LogNamesRealChange`).
- `DeleteRole` deletes a role that was marked as system after it looked
  (`registry/bun_registry.go:193`, against its comment at line 187).
  `SystemRolesStay` excludes the overlap.
- On PostgreSQL the filter for machine activity, `NOT (data ->> 'k' = 'true' OR ...)`
  (`activity/bun_repository.go:300-322`), is unknown for a record that lacks a key,
  so with machine activity hidden the records of people disappear unless they carry every
  key. `activity/bun_repository_test.go:117` expects such a record, on SQLite.
  Elsewhere the text of the data is searched, which sees an actor's type only if it is its first field.
- docs/SERVICE_REFERENCE.md:223 says that a profile upsert merges contact and
  metadata; the code and docs/PROFILES_PREFERENCES.md:20 replace them.
  docs/GUIDE_PROFILES_PREFERENCES.md:118, "only specified fields are updated", fails for
  patches that overlap. docs/PROFILES_PREFERENCES.md:20, "empty string = clear", holds only if the
  repository library writes empty fields: if it leaves them out of its UPDATE, a
  clearing patch is answered and announced as done and nothing is cleared (`Written`;
  `PatchLostOnlyToOverlap` names the case).
- `WithPolicyStatsSelfOnly(true)` drops an admin's own user and actor filter too
  (`activity/access_policy.go:131-134`; its comment, at line 104, speaks of non-admin roles). Under any
  policy, statistics drop the request's wish to leave out machines (line 135).

Limits that the properties name in their premises:

- `ExclusiveOwnership` needs prompt claimants. A claimant slower than the claim
  TTL is overtaken and both write a password
  (`passwordreset/bun_repository.go:154-168`); the promise that survives is
  `PromiseKept`.
- Versions of preferences are equal for two upserts that both found the row
  before either wrote it; docs/GUIDE_PROFILES_PREFERENCES.md ("Version Tracking") leaves the
  comparison to applications, and a comparison made before the upsert cannot see this overlap.
- A resolution may mix fields of moments that never met when two levels change while it runs
  (`preferences/resolver.go:109`), and a single field when it is removed or the levels are
  not read by priority; its version may belong to another
  level when levels are asked for out of priority order
  (`preferences/resolver.go:417-434` takes the last found, the merge the
  strongest). Keys are compared without case by the store but with case by the
  resolver (`resolver.go:196`), which the model does not distinguish.
- Overlapping enrichment runs may overwrite each other's keys, and away from
  PostgreSQL lose them, because missing keys are computed on a row read earlier.
  A stale record with nothing missing is stamped again.
- A user has one profile row: patches in a second tenant are refused by the key.
- A watcher that attaches another from inside `Notify` waits for itself, and
  everybody who needs the notifier waits with it (`pkg/schema/notifier.go:36`).
  A feed may end with an older document when registrations overlap.
- A record logged between the two statements of a page can end paging early. Statistics ignore
  channel rules, and without `WithPolicyStatsSelfOnly` anybody may count anybody's records. Channel names
  and data keys of a policy are lower-cased (`activity/filter_helpers.go:288-302`), those of records
  are not: the rules reach only records logged in lower case, as all of the model are. `Index` masks twice when the queries carry the policy too.
- A preference's level comes from the payload (`crudsvc/preference_service.go:107-116`, `:214-227`) or the query
  (`:149`), and the system level's row ignores the scope (`preferences/bun_repository.go:339-340`): whoever may write
  or list preferences in one tenant writes or lists the defaults of all, and a support agent who
  names itself writes them. Only a host's policy can prevent it, and it is not told the level. `ChangesAuthorised` and `TenantsApart` name that row as
  the one exception; docs/GUIDE_PROFILES_PREFERENCES.md:222 calls it "platform-wide defaults".
- The row policy of preferences compares the user id only, so a row of the tenant level that is
  named by its own id is let through. The user inventory pages before the service sifts, so a
  support agent's page may be empty. A listing of assignments names a role deleted
  between its two statements with an empty name (`registry/bun_registry.go:317-385`). A dry-run import does not look whether a
  user exists.

## 7. Not modelled

- The service facade: it wires repositories into commands once, at start-up.
- Secure links and the feature gate: external libraries; the models use only
  that a link carries an id and an expiry, and that a closed gate stops a command.
- Migrations: file lists handed to an external runner. The constraints they
  create are part of the models.
- Activity mappers, configuration and session ids: they build records.
- Wording, formatting, parsing of query parameters, locale normalisation, examples.
- Organisations in `CrudServices` and `ActivityFeed`, and the labels of a scope: treated as tenants are.
- The feed's cursor pagination, which no query uses.
- `ConsumeReset` and `ClearTemporaryPassword`: no command calls them.
- The optional cache in front of the preference store: external, with its own
  invalidation; `Preferences` models the repository without it.
