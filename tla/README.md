# Pkgly in TLA+

Pkgly is an artifact manager: a Rust server (axum, sqlx on Postgres) that hosts,
proxies and merges package repositories of ten formats, keeps artifacts on a local
disk or in S3, and runs background work (webhook deliveries, mirror refreshes,
retention, usage accounting) beside the requests. Several servers may share one
database. This directory models the parts where concurrent requests, background
tasks, crashes and failed calls meet shared state, checks them with TLC on small
instances and proves part of the results for every instance with TLAPS.

Contents: [inventory](#inventory) · [modules](#modules) · [runs](#runs) ·
[fairness](#fairness) · [proofs](#proofs) · [findings](#findings) ·
[refuted statements](#refuted-statements) · [further hazards](#further-hazards) ·
[not modelled](#not-modelled) · [plan](#plan)

## Inventory

Hard behaviour is marked in *italics*; `PROJECT.json` lists the most consequential cases
line by line under `hazards`, and [further hazards](#further-hazards) the rest.

| component | state | operations | correct means |
|---|---|---|---|
| **Webhook queue** `app/webhooks/mod.rs` | tables `webhooks`, `webhook_deliveries`; one `Notify` and one loop per server | enqueue per package event, claim under a lease, POST, finalize, edit webhooks, start and stop | an outcome is recorded once; at most five attempts; settled rows stay settled; *a row whose worker died or outlived its lease is taken over, the late worker changes nothing*; every row settles |
| **Maintenance runs** `repository/deb/{scheduler,refresh_status}.rs`, `repository/retention`, `app/scheduler.rs` | advisory lock on a pooled connection; status row | due check, lock, mark started, run, report, release; manual refresh request | runs of one repository do not overlap; *the lock outlives neither run nor crash for ever*; a due repository runs; `in_progress` tells the truth |
| **S3 storage and disk cache** `crates/storage/src/s3` | bucket; content and sidecar files; index, LRU order, byte count, generations, failed deletions; load and publish locks | open, stat, save, append, delete, batch delete, move, invalidate, recover | *no read older than a finished mutation, whatever GETs, evictions, damage and restarts do*; exact accounting; a restart restores what memory held; no request waits for ever |
| **S3 staging**, listings | staged appends under a byte budget; manifest listing cache | append, finish, cancel, list, invalidate | *the budget is neither exceeded nor leaked by failures*; a listing is not older than the last finished push |
| **Local storage** `crates/storage/src/local`, `fs` | files; a metadata file beside each; a queue of metadata updates; hashes known in advance | save, open, stat, move, delete, attach metadata, background update | *the hashes beside a file are those of its content; what was attached stays attached* |
| **Docker registry, object accounting** `repository/docker`, `app/storage_usage.rs`, `docker_object.rs` | manifests, tags and blobs in the storage; table `docker_objects` with revisions | push, upload, pull, delete, list with backfill, reconcile | *rows describe the storage although both change in separate steps*; guards keep newer rows; drift is repaired; blobs in use stay |
| **Docker uploads** | in-memory hash state per upload; chunk file or S3 staging | start, append chunk, complete, cancel | *the digest checked is that of the bytes stored*; an upload that is over leaves nothing behind |
| **Hosted repositories** (npm, Cargo, Go, Helm, Python, NuGet, Ruby, Composer, Maven, Debian) | files, index files, catalog rows | publish, read, delete, tag, deprecate, yank | *an index lists what is stored, after concurrent publications and failures between file, index and rows* |
| **Proxy repositories** | cached files, catalog rows, time stamps | look up, fetch, save, catalogue, expire, evict, refresh | a cached artifact is what upstream sent; *cache and catalog name the same artifacts*; *a tag is no older than its time to live* |
| **Virtual repositories** | ordered members and target in memory and in two tables; resolution cache | resolve, merge, publish to a member, edit, reload | the first member in order that has it answers, *whatever the upstreams of the others do*; *memory is what the database configures*, its target one of its members |
| **Catalog** `projects`, `project_versions`, `package_files` | tables | find or insert, update, delete, list, retention | agrees with the storage; *a listed file has its version* |
| **Accounts** `app/authentication`, `app/api/user*`, `repo_http/repo_auth.rs` | users, permissions, tokens, resets; redb sessions; token caches | sign in and out, administer users, passwords, tokens, authorize | *a deactivated user is signed out, an administrator remains, cached rights are stale for a bounded time* |
| **OAuth2, SSO, JWKS, settings** | login states in memory and table; key cache; settings in memory and table | authorize, callback, SSO login, rotate keys, change settings | *a state completes one login, a principal has one account, a retired key is not trusted for long* |
| Site registry | maps of loaded storages and repositories | load, reload, remove | *a request never uses a removed storage* |
| Storage usage | cached totals | due check, recompute, store | totals refresh when due |
| Search, e-mail, logging, formats, CLI, web interface | none shared | | |

Interactions: every repository handler calls the storage of its repository
(`DynStorage`), then the catalog, then enqueues webhook rows. The background
scheduler (`app/scheduler.rs`) drives refreshes, retention and usage; the usage
refresh drives the Docker reconciliation. Postgres is the only channel between
servers; the S3 cache, the upload state and the wake-up permit are private to a
process.

## Modules

| module | models | extended by |
|---|---|---|
| `DeliveryQueue` | what the webhook queue promises: bounded attempts, final outcomes | instantiated by `WebhookDelivery` |
| `WebhookDelivery` | the table, the loops and the enqueues | `MCWebhookDelivery`, `WebhookDeliveryProofs` |
| `MaintenanceLock` | refresh and retention runs of one repository | `MCMaintenanceLock`, `MaintenanceLockProofs` |
| `S3ObjectCache` | objects of a bucket behind the disk cache of one server | `MCS3ObjectCache`, `S3ObjectCacheProofs` |
| `DockerRegistry` | hosted images and `docker_objects` | `MCDockerRegistry`, `DockerRegistryProofs` |
| `RepositoryState` | requests, storage, tables and faults every repository shares | `Catalog` |
| `Catalog` | the statements on projects, versions and file rows | `PackageDeletion` |
| `PackageDeletion` | deletion through the API and by retention | the hosted modules, `ProxyCache` |
| `ProxyCache` | look-up, fetch, save, catalogue and evict | the proxy modules |
| `NpmHosted`, `NpmProxy`, `MavenHosted`, `MavenProxy`, `CargoHosted`, `GoHosted`, `GoProxy`, `HelmHosted` | one format and role each | `Repositories` |
| `Python`, `Nuget`, `Ruby`, `Php`, `Deb` | the hosted repository and the proxy of a format | `Repositories` |
| `DockerProxy` | manifests and blobs pulled through | `Repositories` |
| `BlobUploads` | chunked uploads over local files or S3 staging | `Repositories` |
| `LocalFiles` | local files and the metadata beside them | `Repositories` |
| `VirtualRepository` | npm, Python and NuGet virtual repositories | `Repositories` |
| `Repositories` | a repository of any kind: `Init`, `Next` and what each kind promises | `MCRepositories`, `RepositoriesProofs` |
| `RepositoriesProofs` | proofs: the kind and the file rows of the catalog | `UploadsProofs`, `LocalVirtualProofs` |
| `UploadsProofs` | proofs: `BlobUploads` over `Repositories` | |
| `LocalVirtualProofs` | proofs: `LocalFiles` and `VirtualRepository` over `Repositories` | |
| `Accounts` | users, sessions, passwords, tokens, authorization | `ExternalLogin` |
| `ExternalLogin` | OAuth2, SSO, signing keys, settings, over `Accounts` | `MCAccounts`, `AccountsProofs` |

`PROJECT.json` maps every definition to the lines it translates. Definitions whose
comment begins with *Mutant* are deliberate faults, used by nothing but the mutation
runs that show each property can fail.

### WebhookDelivery

`row` is `webhook_deliveries`, `worker` the delivery loop of each server with its
`ClaimedDelivery`, `wake` the permit of `notify_new_work`, `todo` the webhooks an
`enqueue_snapshot` in progress has yet to insert (the INSERTs are not one
transaction). One action per await: `EnqueueSelect`, `EnqueueInsert`, `Woken` or
`Poll`, `Claim` (the `FOR UPDATE SKIP LOCKED` statement is atomic), `Post`,
`Finalize` (`WHERE id AND claim_token`), an error variant for each database call
(a failing UPDATE may have been applied), `Stop`, `Start` and `Tick`. Times are
minutes relative to NOW(), so equal situations at different times are one state;
`MaxLate` bounds how late a due row is remembered to be. The retry delays are those
of the code. Headers, payloads and the HTTP client are left out; an answer is 2xx,
retryable or a refusal.

### MaintenanceLock

An advisory lock belongs to a connection and nests: `held` counts it per connection,
`free` is the pool. A runner is a server's scheduler or a manual request; the
scheduler decides from the status row before it takes the lock and does not look
again. Every early return is an action: `AlreadyRunning`, `GiveUp`,
`MarkStartedError` (closes the connection), `MarkFinishedError`, `ReleaseError`.
`Cancel` drops the future of a request (the connection returns to the pool with the
lock on it), `SessionLost` ends the session under a run, `Crash` ends a process,
`Reap` is the pool closing an old connection. A cron schedule is abstracted to an
interval; what a run does to packages is one step (`Work`).

### S3ObjectCache

A body is the number of the mutation that produced it, so *older* is *smaller*.
Requests go through the awaits of the code: lookup, open, removal of a damaged
entry, load lock, generation capture, GET, publication (content, sidecar, index,
deletion of replaced files), invalidation. `FreshReads` compares what a read returns
with `known`, the latest version left by a mutation that had returned when the read
began. Two things are outside it and say so: a mutation in flight (a reader may see
the new body and a later one the old, until the writer publishes), and an update cut
off half way (`interrupted`: a cancelled request, a crash or a lost answer between
the bucket and the cache), after which the code makes no promise until the entry is
replaced. Generations are compared only for equality, so `Bump` reuses values nobody
holds; this keeps the state space finite without a bound on mutations beyond
`MaxVersion`. The loop of `publish` that evicts until the cache fits is one operator, the
shortest prefix of the recency list whose removal is enough (`Fits`, `Trim`).
Directories, listings, multipart copies and staged moves are not here.

### DockerRegistry

A manifest or blob is named by its digest and is its own path; a tag is a path whose
content is a manifest. `store` is the storage, `rows` the table. Every statement of
`docker_object.rs` is an operator on `rows` (`Upsert`, `InsertMissing`,
`UpsertIfRevision`, `UpdateSizeIfRevision`, `DeletePathsIfRevisions`, `DeletePaths`,
`NeedsBackfill`), every await of a request, of a listing's backfill and of a
reconciliation pass a separate action. `stale` is a history variable: for each reader
of revisions the paths whose row changed after it read them. Conforming clients are
assumed (a push by digest carries the body of that digest, which `put_manifest` does
not compare). One image name; the catalog rows a push records and the flush threshold
of a batch deletion are left out; the order in which pending paths are visited is
left open. Revisions are unbounded (`RevisionSpan = 0`) in the safety runs and wrap
in the liveness runs, where an unbounded pass count needs a finite state space. A row
inserted again starts at revision 0, as in the code.

### RepositoryState, Catalog, PackageDeletion, ProxyCache

A behaviour of `Repositories` is the life of one repository whose `kind` is chosen at
first. A request (`job[c]`) is a *plan*, the sequence of steps its handler has still to
take, one per await that reads or writes shared state. An action takes the head of a
plan: it may go on, end the request with a status, or put steps in front. So a handler
reads as its list of steps, handlers share steps (`CatalogSteps`, `DeletionSteps`,
`ProxySteps`), and between any two of them another request, a failure (`StepFails`), a
crash (`Restart`) or a change of the world can happen. Steps whose errors the code only
logs end with the step `"logged"`, to which `Abort` jumps.

`store` is the storage, `projects`, `rows` and `files` are the catalog tables,
`upstream` is what a proxy's upstream serves, and `aux` is what only that kind keeps
(dist-tags, a cached index, side files, queues). A path is a sequence of segments, a
body a model value, a checksum the body it is the checksum of. Version numbers are their order.

Most handlers lock nothing, so some interleavings do damage by design. Two history
variables keep these apart from mistakes. A request adds to `reads` what it begins to
rely on, a writer that changes something another request relies on puts it into `raced`,
and a request that fails or is cut off puts what it was working on into `broken`.
The properties of this part are stated for what is in neither: *nothing but an overlap
on that very resource, or a fault in a request about it, has the effect*. That is the
strongest statement the code satisfies; the statements without the excuse are refuted
(see [refuted statements](#refuted-statements)).

Requests start after the permission check, which `Accounts` models. Bodies arrive in one
step. `Packages` has one element in the instances, since projects share no state but
ids, and the ids are modelled.

### The formats

| module | notes |
|---|---|
| `NpmHosted` | the version row is inserted before the tarball is saved; dist-tags are a column that is inferred while NULL; a document is put together from three reads |
| `NpmProxy` | a cached document is never refreshed and catalogues every version it lists |
| `MavenHosted`, `MavenProxy` | the version comes from the POM, the directory from the path; after the POM is saved everything is best effort; a cached POM spawns a prefetch task |
| `CargoHosted` | check, archive, index (read, append, save), row; a deletion leaves the index line |
| `GoHosted`, `GoProxy` | three files, a list and two aliases, rewritten without a lock; the proxy's entries expire and are deleted by their reader |
| `HelmHosted` | the chart is saved before the catalog is asked; the index is cached in memory with a time to live |
| `Python` | a version is a directory and one row; the proxy keeps a copy under `packages/` |
| `Nuget` | refusal by file existence; the proxy writes the row again at every hit |
| `Ruby` | publications and yanks rebuild all index files from the catalog; the proxy appends upstream ranges to its cached index |
| `Php` | documents pass through one temporary name; the proxy finds archives through the record of the document |
| `Deb` | the indexes are made from the catalog at every request; the mirror refresh stores indexes, then packages |
| `DockerProxy` | tag, digest and side file; revalidation after the time to live; schema 1 manifests are asked for again |

### BlobUploads and LocalFiles

A content is the sequence of its chunks and a hash is the content it hashes, so *the
hash vouches for the bytes* is an equation. With S3, staged parts take units of a budget
that spooled request bodies share. `LocalFiles` has the background task that brings
the metadata beside an overwritten file up to date: it reads, hashes, and replaces the
metadata as a whole, while requests attach metadata, move or delete the file.

### VirtualRepository

The configuration and the member table are in the database, the member list, the publish
target and the two caches in memory. An administrative request writes the configuration,
then the table, then reloads; the general configuration endpoint, the deletion of a
member and a restart are actions too. A reload reads the configuration and the table
(`ReloadConfig`, `SyncMembers`; an empty table is filled in a further step, `SeedMembers`)
and writes the memory under two locks, one after the other: `AssignMembers` the members,
`AssignTarget` the publish target. Reloads are not serialised, so those of two requests
may interleave at every one of these steps. `whole` records whether the members and the
target last written are of one reload.

Members are other repositories: the model has their files and lets them change by
themselves (`MemberChanges`). A member serves a file, refuses, does not have it, or is a
proxy whose upstream fails while it is asked (`HitUpstreamFails`, `AskUpstreamFails`,
`MergeUpstreamFails`). What becomes of that failure is the format's: the npm and Python
proxies answer 404 and are passed over, the NuGet proxy answers 502, which the resolver
takes for a hit and remembers, and which a merged NuGet list cannot read. An error that is
no answer (a connection that fails in the NuGet proxy) ends the request (`StepFails`). A
proxy asks its upstream only for what it does not keep: `kept` are its files, `lists` the
version lists the NuGet proxy stores and answers ever after.

### Accounts and ExternalLogin

The same plans over users, sessions, tokens and resets, with a clock. Each step is one
statement or one transaction of the session store. `changed` records when rights were
last taken, so that *stale for at most the lifetime of a cache entry* can be said. Names
and addresses are a base and a number, which is all the code's *numbered name* loop needs.
The identity provider is external: it publishes and retires keys and answers with the
claims a request carries. Ids are given out in order and never reused. `origin` of a user
is the principal an account was made for, until somebody renames the account; it is
there for `AccountPerPrincipal` and no step reads it. An account of a principal without an
address gets one made up from its name, `name@sso.local`; nobody's own address is in that
domain (`ExternalAssumption`, and the inputs of `Starts`). Overlaps on a name or an
address are recorded for names and addresses that are read and found free (`Relies`) and
later taken (`Touch`).

## Runs

Bounds are chosen so that the scenario in question, and one more step of every actor
around it, fits. Deadlock is checked except in the Docker, repository and account runs,
where clients that have used up their requests may stop.

| run | instance | shows |
|---|---|---|
| `webhook_delivery` | two servers, one row, three attempts, one fault, a lease of two minutes | exclusive claims, every POST accounted for, duplicates only through faults, justified and final outcomes, the row settles, refinement of `DeliveryQueue` and of its liveness. Three attempts have a first, a middle and a last, and a token is left for a takeover; that the claims of several rows do not mix is in the theorems, which hold for any set of rows |
| `maintenance_lock` | two servers, one of them with requests, pools of two, three faults | no overlapping runs, status covers a run, a due repository runs, `in_progress` is cleared. Three faults allow a leak, a re-lock of the leaked connection and a crash |
| `refresh_leak` | the same, one fault | *refuted:* `AlreadyRunning` means a run is in progress |
| `s3_cache` | one key, a writer and a reader (the writer also reads), two versions of which one does not fit, one fault | fresh reads, kept files, restart restores, every request returns |
| `s3_eviction` | two keys, one writer, a cache of two bytes | exact accounting through evictions and moves |
| `docker_accounting` | a tag, two manifests, a layer, one client with three requests, a listing and a pass, empty or legacy storage, S3 | without deletions rows are exact whenever no request runs, and no guard lets a newer row be overwritten |
| `docker_repair` | an index over a legacy image, two requests with deletions, one failure, unlimited passes, local storage | presence and sizes become right for good |
| `docker_shared_blobs` | two tags whose images share a layer | *refuted:* deletion keeps shared blobs |
| `hosted_repositories` | ten hosted formats, uploads and local files; two requests at a time, two or three in all (four for uploads and files), two versions of which one is a pre-release, two bodies, both storage backends where they differ, one fault | `ListingAgrees`, `CataloguedIsStored`, `IndexesCurrent`, `UploadsExact`, `LocalMetaCurrent` |
| `proxy_repositories` | nine proxies, and hosted NuGet for `ArtifactsStable`; two or three requests, one fault or one change of the world | `CacheCatalogued`, `ProxiedGenuine`, `ArtifactsStable` |
| `virtual_repositories` | npm, Python and NuGet virtual repositories; two requests; npm with a fault, NuGet with two faults or a change of a member, Python with a change or, for one request, a fault and a change | `VirtualConfigured`, `VirtualAnswers`. Two requests are two reloads, or a reload and a reader; a fault is a failed step, an upstream that fails a member, or a restart; NuGet needs two, the failure that caches a member and one at the member cached |
| `accounts` | sixteen workloads, each a few operations that meet on the same rows; two requests at a time, up to three in all, a fault, a clock of up to two units | `SessionsFollowUsers`, `AdminRemains`, `OneTimeCodes`, `AccountPerPrincipal`, `SettingsPersisted`, `AuthCachesBounded` |

A repository run has one workload per kind (`Workloads(_)` in `MCRepositories`) rather
than one bound for all: what takes three requests to go wrong (publish, delete, publish
again) gets three in the formats where it can, and a fault and a change of the world are
explored apart where together they would only multiply. Two requests at a time meet in
every pair of handlers of a format; a third concurrent one would need a third party to a
race, and no property relates more than two. These runs stop when the requests are
used up, so deadlock is not checked there.

`ListingAgrees`, `IndexesCurrent`, `UploadsExact`, `LocalMetaCurrent`, `CacheCatalogued`,
`ProxiedGenuine`, `VirtualConfigured`, `VirtualAnswers`, `OneTimeCodes` and
`AuthCachesBounded` are conjunctions of named parts, one or two per format, defined at
the end of each module. Their mutant in `PROJECT.json` breaks one part; further
operators marked *Mutant* stand beside the definitions of each format and break the
corresponding part under the same configuration.

One branch of the virtual repositories takes three requests and is not reached in
`virtual_repositories`: a table that is empty at a reload (every member deleted) while the
configuration still lists members that exist, so that `SeedMembers` succeeds. It was
checked apart with three requests of the npm repository, and the theorem covers it.

`AccurateWhenQuiet` has one client because two racing pushes of a tag already break
it (`MCDockerReferences.cfg`), and no deletions because a backfill that runs beside one
re-inserts the row it removed; `docker_repair` shows the next pass removes it again.

Two further behaviours of the models have no run of their own. Two pushes of a new
tag can both pass the `allow_tag_overwrite` check (`CheckTag` twice, then `SaveFile`
twice), which `docs/docs/repositoryTypes/docker/configs.md:11` rules out. And with
deletions a guard can match a later incarnation of a row, because revisions restart
at 0; the next pass repairs the sizes.

## Fairness

- Webhooks: weak fairness of `Tick`, of `Start` (a supervisor restarts a stopped
  server) and of each loop's own steps. The tokio interval keeps polling; nothing is
  assumed of wake-ups or of the endpoint. Faults are finite in number.
- Maintenance: weak fairness of the scheduler, of a started run, of time and of
  `Reap`: sqlx closes idle connections and those older than their maximum lifetime.
  Without `Reap` a leaked lock would block the repository for ever. No request has to
  come.
- S3: strong fairness of the steps of a request, because tokio's mutexes are first
  come, first served and S3 calls have time-outs.
- Repositories and accounts: none. A client may hang up or a request hang anywhere, and
  the properties of this part are safety properties.
- Docker: weak fairness of the reconciliation alone, which the background scheduler
  starts again and again. Clients and listings may hang for ever in any state.

## Proofs

`tlapm` checks 24,464 obligations in eight modules. Their theorems hold for every value of
the constants that satisfies the named assumptions, so for any number of servers, rows,
connections, keys, images, requests and faults. Each inductive invariant was checked by
TLC on the instances above (with every workload of its kind) before it was proved.

**WebhookDeliveryProofs.** `ClaimExclusive` is not inductive: that a token is current
says nothing about the other workers until one knows that a token was handed out once
and that rows carry a token exactly while processing. `IndInv` adds `WorkerShape`,
`RowShape`, `TokensUnique` and `ClaimFresh` to `TypeOK`. From it follow `TypeCorrect`,
`ClaimsAreExclusive`, `SettledRowsAreFinal` (a settled row has no token, and the guard
compares tokens) and `RefinesQueue` (enqueueing maps to `Enqueue`, a guarded UPDATE to
`Attempt`, everything else stutters). `OutcomesAreJustified` adds what a worker holds
after its POST: the outcome it is about to record is one an endpoint gave for this row.
The counting theorems `PostsAreAccounted` and `DuplicatesArePaidFor` follow the sets of
workers that hold an outcome, or hold a row without a valid lease, through each step: a
step adds or removes at most one worker of one row, and a worker whose lease runs out
under it has used up a fault. Assumptions: finitely many servers, ids are naturals,
`None` is no token, id or outcome, one to five attempts, a positive lease. That tokens
are fresh is part of `Claim`, the model of `Uuid::new_v4`.

**MaintenanceLockProofs.** `MutualExclusion` rests on the lock, the lock on
connections, and leaked connections hold it with nobody running. `IndInv` says that a
run owns its connection and the connection is of its server's pool
(`OwnConnection`), a run with a live session holds the lock (`HoldsLock`), at most one
connection does (`SingleHolder`), and only runs in progress are `broken`.
`TypeCorrect`, `RunsExclude` and `StatusIsTruthful` follow: a run reports while it still
holds the lock, so nobody's report can fall into another's run. Assumptions: requesters
are servers, pools and intervals are positive.

**S3ObjectCacheProofs.** `TypeCorrect` includes that the recency list names each indexed
key once and no other, which every loop over it needs. `EntriesAreBounded` is the
loop of `publish` over that list: what it leaves has at most `max_entries` entries.
`SidecarsAgree` (`RestartRestores`): the publish lock admits one publisher, and between
publications each sidecar is the index entry (`SidecarsFollow`), except where an update
was cut off. `ServedFilesAreNeverDeleted` adds that two entries never share a content file
and that a file in the making is nobody's. `ReadsAreFresh` is the long one. Its invariant
follows a version from the bucket to the reader: `IndexFresh` (an indexed version is the
bucket's or a mutation that will invalidate it is in flight), `KnownBehind`, and for each
step of a reader and a writer what the captured generation says about the version held
(`ReaderOK`, `WriterOK`): as long as the generation is current, nothing newer has been
published or announced. Its hypothesis `OneWriter` says that one request at a time
mutates; it cannot be dropped, because with two the cache keeps the body published last,
not the one written last (`MCS3Writers.cfg`, `s3/mod.rs:2787`).

**DockerRegistryProofs.** `TypeCorrect` includes that each step works on objects of the
kind it handles (`WellPlaced`). `GuardsAreSafe` proves the action property `GuardsHold`:
whoever holds a revision, a backfill's capture, a pass's snapshot or its list of drift,
holds one that is at most the row's, and less once the row has changed since
(`CaptureBehind`, `FoundBehind`, `SnapBehind`); so a matching guard proves that nothing
happened. Its hypothesis `NothingDeleted` (no deletions, and revisions that do not wrap)
is needed: a row inserted again starts at revision 0, and a guard can match it
(`docker_object.rs:43`). `RepairsKeepAccuracy` (`AccurateWhenQuiet`) assumes `OneAtATime`
besides, one client and no failure, since two racing pushes of a tag break it
(`MCDockerReferences.cfg`); a listing and a reconciliation run beside the client in any
order. Its invariant says what each of the three knows: the client which rows it is about
to write, the repairers that an observation with a current revision is still true.

**AccountsProofs.** A request is a plan, so the proofs begin with plans: `WellPlanned` says
which step can follow which and that a step which skips finds its target ahead. Each request
arrives with such a plan (`RequestArrived`) and each step leaves one (`PlansLeft`,
`PlanSkips`). `Shape` holds the plans together with the types of the tables. On that rest
two kinds of invariants. `Relying` says that whoever is about to count, end sessions or sign
in has, among its `reads`, what that is based on; a write of somebody else to it therefore
puts it into `raced`. The others say what may be assumed of the tables at each step unless
the resource was `raced` or `broken`:

- `AdminInv`: unless a count was overtaken or an administrator demoted (`Calm`), somebody
  is an active administrator, and a request that has counted and not yet written is right that
  another one than its user remains. So of two requests that count, the first one to write
  spoils the other's count. `AdministratorsRemain`.
- `SessionInv`: every session's user is active (`Followed`) but for those a deactivation or
  deletion in progress is about to remove (`Clears`), and a login that has admitted its user
  has read the row as active (`Admitted`). `SessionsFollow`.
- `SettingInv`: memory and table of a setting differ only while an update of it is between
  the two. `SettingsPersist`.
- `ResetInv` and `StateInv`: a password has been set by a reset token once, and only if the token
  is marked or its request is about to mark it; a state has been exchanged once, and then it is
  neither in memory nor in the table unless its request is about to delete the row; a state
  nobody has taken lives in the table as long as in memory. `StateIds` adds
  that states in the making have ids nobody else has. `CodesWorkOnce`.
- `PrincipalInv`: names are unique, an account that was provisioned has the first name
  of its principal, and whoever has the address made up for that name has the name
  (`RowsInv`); a request that looks for the name has found nobody with the verified address
  (`Seeks`), and one that makes an account neither name nor address (`Makes`).
  `OneAccountEach`. The exception for renamed accounts cannot be dropped: the principal without an
  address is then found by neither, its made-up address stays taken, and every login
  makes another numbered account. It takes four requests (sign in, rename, sign in, sign in)
  and TLC finds it when the exception is left out.
- `CachesInv` follows what is copied from the tables into requests and from there into the
  caches. A copy of a token has the expiry of its row, and no later row gets its id
  (`TokensInv`). A copy of a user's row still has his rights, or these changed so lately that
  the copy may be used until its entry ends (`Fair`): at most `CacheTtl` ahead for an entry, one
  tick for a request that has just read one (`RightsInv`). Cached signing keys were in use
  when they were fetched (`KeysInv`). Steps are told apart by three questions only: what one
  does to tokens, rights and keys (`Leaves`), whether it keeps the caller (`Holding`) and, at
  five steps, which action it is (`DoesAt`). Every write of rights says so in `changed` or
  leaves them alone (`RightsKept`), which is what makes `CachesAnswerInTime`
  (`AuthCachesBounded`) an action property of the whole module. It counts on a repository
  request being authenticated within one tick (`Ticks`): a bound of five minutes is not
  measured in the milliseconds between two awaits.

Assumptions: lifetimes are naturals and positive where the code's are, `Clients` are numbers,
`StateTtl` is at most `PruneAge`, and nobody's own address is made up (`AccountsAssumption`,
`ExternalAssumption`). Nothing is assumed of the workloads but that their bounds are
numbers, so the theorems hold for any mix of operations, any number of them at a time and
any faults. The excuses are part of the properties, since the code has no lock or
transaction around these steps; what the theorems add to the runs is that no number of
requests, in no order, gets there without such an overlap or fault.

**RepositoriesProofs.** A repository keeps its kind and its storage (`KindKept`), and
`FileRowsKept` states `FileRowsHaveVersions`, the first half of `ListingAgrees`: a file row
that names a version names one that exists. It is the foreign key with its cascade, but the
statements that rely on it are spread over the formats: a deletion that drops versions, an
upsert under a version another request is deleting, an eviction, a publication that rewrites
a row. `RowsInv` adds the shapes of the rows, which the provers need to follow an update of
one field. Most steps of most formats leave the catalog alone, and one lemma says so of
each; the others go through the operators of `Catalog` and `PackageDeletion`, one lemma
each. The modules below build on it: in them a step of another kind is excluded by the kind.

**UploadsProofs.** `UploadsKeepTheirWord` (`UploadsExact`): a blob has the content its
digest names, an upload that is over leaves nothing behind, the charged units are the staged
chunks. `UploadInv` is per upload: it is `Disturbed` (another request overtook one of its
requests, or one of them failed) or `Sound`: the hashed bytes are the stored ones but for
the chunk a request is between writing and hashing (`HashFollows`), one request closes it
and what it moves is what it verified (`ClosedOnce`), and the units recorded are the chunks
staged (`UnitsExact`). The invariant is not inductive for one upload alone: `Fresh` adds
that an upload nobody began has left no trace. Two corrections of the model came from here.
Identifiers are fresh (`Named`), as `Uuid::new_v4` makes them. And `UploadsLeaveNothing` has
a second excuse, `SpoiltDigest`: with S3, when a disturbed upload has put a wrong content
under a digest, the completion of a *sound* upload of that digest finds a destination that
is not its own and fails after it closed the upload, so its staged chunks stay. It takes
seven requests; no run of the chosen size reached it, the proof could not do without it, and
TLC confirmed it.

**LocalVirtualProofs.** Local files: `LocalMetaIsCurrent` (`LocalMetaCurrent`). `LocalInv`
says of each path that it was overtaken (`Overtook`: another request or update touched it in
between, a step failed, an update was lost with the process) or is `FileSound`: the
metadata's hash is the content's unless an update of the path is queued or a deletion is
between file and metadata (`MetaFollows`), the repository data are those last attached
(`PutFollows`), and what an update (`UpdatesFollow`) or a request (`MemoryFollows`) is about
to write back is what it would read again. That the background task overwrites the metadata
as a whole is why the last two are needed.

Virtual repositories: `VirtualIsConfigured` (`VirtualConfigured`) and the action
property `VirtualAnswersRight` (`VirtualAnswers`). The configuration is one resource
with four copies: the stored one, the member table, the memory, and what a request
carries from one to the next. `ConfigSound` says for each step of a request that stores
one which copies already agree (`ConfigFollows`), and that all do when no request is at
such a step; it holds unless the configuration was `Spoilt` (overlapping requests, a
failure, a deleted member, a member of another format, the generic endpoint, a failed
start). Of the target, `TargetSound` says that it is an enabled hosted member of the
list in memory while the memory is `whole`, and that the reload which wrote the members
last (`writer`, at most one) carries a target that is valid for them, so that its
`AssignTarget` makes the memory whole again if no other reload wrote in between. Nothing
but an overlap of two reloads makes the target invalid; that such an overlap does is the
refuted `VirtualTargetAlwaysValid`. For the answers, a request that asks the members has written down
who had the file when it began; `GetFollows` and `ListFollows` say that each of them was
overtaken, has failed because of its upstream, or is `Available` still (`OnList` for
lists): loaded, readable, holding the file and yet to be asked. So when no member is
left nobody whose upstream works had it all along, and the one that answers comes before
the others by priority and name. An error of a member is an answer only in the step in
which the upstream of a member asked in its turn fails, and only NuGet's; `CachesOnly`
is what every step of a reader leaves alone.

In the last three modules nothing is assumed but `RepositoryAssumption` (clients are
numbers, bounds are naturals, versions positive): the theorems hold for any number of
clients, packages, versions, uploads and bodies, any mix of requests and any faults. The
three members of a virtual repository (a hosted one, a proxy and one of another format) are
part of the model.

Only model-checked: liveness and the fair refinement (fairness and ENABLED are out of the
prover's reach); `Accounting` of `S3ObjectCache`, whose byte count is a sum over the entries
and so an induction over data; `GuardsHold` and `AccurateWhenQuiet` outside their
hypotheses, where they are false; and of the repositories `CataloguedIsStored`, the second half of
`ListingAgrees`, `IndexesCurrent`, `CacheCatalogued`, `ProxiedGenuine` and
`ArtifactsStable`, which speak of every format at once and need an invariant of its own for
each.

## Findings

Each of the two runs that expect a violation quotes the line it refutes in
`PROJECT.json`.

1. `refresh_leak`: a client that hangs up during a manual mirror refresh leaves the
   advisory lock on a pooled connection; refreshes answer 409 *Refresh already
   running* until the pool recycles it (`management.rs:465`).
2. `docker_shared_blobs`: deleting a manifest deletes every blob it references,
   others' too (`packages.rs:837`); `docker/index.md` says they are preserved.

## Refuted statements

These are definitions of the modules too, stating what a document, a comment or the
name of a setting says. TLC refutes each when it replaces the properties of the
configuration named.

| statement | configuration | what happens |
|---|---|---|
| `OncePerInterval` | `MCRetentionTwice.cfg` | due is decided before the lock and not re-checked, so two servers run retention twice in a row (`retention/scheduler.rs:102`); `retention.md:23` says at most once every 24 hours |
| `FreshReads`, two writers | `MCS3Writers.cfg` | of two overwrites the one whose PUT came first can reach the cache last, which then serves the overwritten body (`s3/mod.rs:2787`); `s3.md:14` says overwrites invalidate |
| `ReferencesRepaired` | `MCDockerReferences.cfg` | two pushes of a tag write storage and table in opposite orders; the row keeps the wrong references and no reconciliation repairs them (`metadata.rs:302`) |
| `HelmPublishedKept` | `MCHosted.cfg` | without overwriting, a refused publication has already replaced the chart and then removes it (`helm/hosted.rs:929`); `helm/index.md:12` |
| `DigestVerified` | `MCHosted.cfg` | a chunk that fails after part of it was stored, or two chunks at a time, separate the hash from the bytes, and the completion verifies the hash (`docker/handlers.rs:461`); `docker/standard.md:71` says the digest is verified |
| `PhpDistRecovered` | `MCProxies.cfg` | an archive whose record is gone is looked up in the cached document, which was rewritten and has lost the upstream's address (`php/proxy.rs:586`); the comment at `php/proxy.rs:463` describes the recovery |
| `VirtualStarts` | `MCVirtual.cfg` | the general configuration endpoint stores a publish target that is no member; the next start fails on it, for all repositories (`management.rs:679`, `site.rs:473`) |
| `VirtualTargetAlwaysValid` | `MCVirtual.cfg` | a reload writes the members under one lock and the publish target under another, and nothing serialises reloads: of two that overlap one may write the members last and the other the target (`npm/virtual/mod.rs:122-130`, `python/virtual/mod.rs:282-290`, `nuget/virtual.rs:165-166`), so that publications go to a member the list holds as disabled until the next reload; `npm/virtual.md:26` says the target *must reference an enabled hosted member* |
| `DownloadsResolve` | `MCVirtual.cfg` | a NuGet proxy whose upstream fails answers 502 (`nuget/proxy.rs:266-272`); the resolver takes it for a hit, remembers the member for the path and returns it (`virtual/resolver.rs:158-166`) though a later member has the file; `nuget/index.md:73` says downloads resolve through the members |
| `PagesAreUnions` | `MCVirtual.cfg` | a Python proxy whose upstream is unreachable answers 404 (`python/proxy.rs:422-433`), so a package page is answered, and kept in the cache, without that member's links (`python/virtual/mod.rs:470-482`); `python/virtual.md:20` says the page unions the links of all enabled members |

Two documented refusals have no counterpart in the code at all and so no run:
`maven/routes.md:355` and `python/routes.md:555` announce 409 for a version that
exists; neither handler looks. `sso/index.md:68` announces a fall-back from JWKS to
headers; the code answers 401.

## Further hazards

Beside those in `PROJECT.json`, with what answers them.

| where | hazard | answer |
|---|---|---|
| `app/webhooks/mod.rs:940` | finalize returns an error although the UPDATE was applied, or was not | `PostsAccounted`, `ImplementsQueue` |
| `app/webhooks/mod.rs:479` | an INSERT of the enqueue loop fails after earlier ones succeeded: some webhooks get the event, others never do, and no retry exists | no promise is made about it: the callers log the error and go on; the model contains the step (EnqueueError) |
| `repository/retention/status.rs:98` | the status row is written on a second pooled connection while the first one holds the lock; with every connection of the pool holding a lock, all of them time out | the model has one repository, so at most one lock connection per pool; needs one lock per repository |
| `storage/src/s3/mod.rs:3424` | a reader that misses and fetches the new body while an overwrite is in flight returns it, and a later reader still gets the old one from the cache until the writer publishes | reads during an unfinished mutation are not ordered by the code; FreshReads is about finished ones |
| `repository/docker/handlers.rs:1142` | the immutable-tag check and the save are two awaits: two pushes of a new tag both pass it and the later one replaces the manifest | the model has the race (CheckTag, then SaveFile of another client); a tag written twice by racing pushes contradicts docs/docs/repositoryTypes/docker/configs.md:11 and is described in the README |
| `core/src/database/entities/docker_object.rs:43` | revisions restart at 0 when a row is inserted again, so a guard can match a different incarnation of the row | `DriftRepaired` |
| `app/api/repository/packages.rs:837` | a deletion that fails between the erased objects and the rows leaves rows of objects that are gone | `DriftRepaired` |
| `repository/docker/handlers.rs:461` | a chunk whose body breaks off is stored in part before its hash is updated; the client resumes, and the completion verifies a hash the stored bytes do not have | `UploadsExact` |
| `repository/docker/handlers.rs:1470` | a restart forgets the running hash of an open upload but not its chunks: the completion must not be accepted | `UploadsExact` |
| `storage/src/s3/mod.rs:3040` | a move whose deletion of the source failed is retried: a destination of the same size counts as moved, whatever it holds | sizes are not told apart in BlobUploads, where a content is its sequence of chunks; a blob's path names its content, so the shortcut is right for blobs |
| `repository/docker/handlers.rs:1575` | a hash registered for a path whose upload then fails to move stays in the process-wide map and is taken for the next file saved at that path | `LocalMetaCurrent` |
| `storage/src/local/mod.rs:83` | updates queued in memory are lost with the process: the hashes beside an overwritten file stay those of the old content | `LocalMetaCurrent` |
| `repository/cargo/hosted.rs:398` | publish, delete, publish again: the deletion leaves the line in the index, so the republication is refused after it replaced the archive | `IndexesCurrent` |
| `repository/go/ext.rs:242` | the list and the aliases of the latest version are rewritten by every publication from what it read earlier: two of them may leave an alias of the older version | `IndexesCurrent` |
| `repository/helm/hosted.rs:929` | the chart is saved before the catalog is asked whether the version may be overwritten: a refused publication has replaced the chart | HelmPublishedKept states the setting's promise (docs/docs/repositoryTypes/helm/index.md:12) and TLC refutes it on MCHosted.cfg; described in the README |
| `repository/ruby/hosted.rs:712` | a yank counts the remaining versions and deletes the project in a later statement: a version published in between goes with it | `CataloguedIsStored`, `ListingAgrees`, `IndexesCurrent` |
| `repository/php/hosted.rs:213` | every upload of a package writes its document to the same temporary name before moving it: one request can move the other's document into place, or find its own gone | `IndexesCurrent` |
| `repository/deb/hosted.rs:201` | the package is saved before the catalog is asked for the version: a refused upload has replaced the file the index describes | the state is reached in Deb (DebSavePackage, then DebExists); documented as a refusal, without a promise about the file |
| `repository/nuget/hosted.rs:206` | a publication that fails after it saved the archive is refused with 409 ever after, though the catalog does not know the version | the state is reached in Nuget by StepFails after the archive is saved; nothing in the repository promises that a retry succeeds |
| `repository/maven/utils.rs:157` | the version comes from the POM and the directory from the path: a POM deployed in another version's directory makes the row of one version describe the files of another | `IndexesCurrent`, `CataloguedIsStored` |
| `app/api/repository/packages.rs:239` | deleting one file of a version deletes the version row when the path is derived by stripping the last segment, although other files of the version stay: their rows must not keep naming it, and the version must not come back without its row | `ListingAgrees`, `CataloguedIsStored` |
| `repository/maven/proxy.rs:293` | the prefetch of a POM runs after the reply and catalogues the version, though the POM may have been deleted by then | `CacheCatalogued` |
| `repository/go/proxy.rs:290` | an expired entry is deleted from the storage by whoever reads it, HEAD included, and its row stays until the next download | the row of an expired archive is excluded from CataloguedIsCached by name; the catalog of a Go proxy records what was once cached |
| `repository/docker/proxy.rs:1182` | a manifest refetched in the modern form is compared with the digest header of the first response | `ProxiedGenuine` |
| `repository/ruby/proxy.rs:289` | a range of the upstream's index is appended to the cached file if it starts where the file ended when it was read: two requests extend it at once | `ProxiedGenuine` |
| `repository/php/proxy.rs:301` | documents are written to one temporary name and moved: concurrent requests for one package move each other's | PhpProxyTmp and PhpProxyMove have the shared name; the documents of one package differ only in age and the loser answers with an error, which nothing forbids |
| `repository/php/proxy.rs:586` | an archive whose record was deleted is looked up through the cached document, which no longer holds the upstream's address | PhpDistRecovered states the intent of the comment at php/proxy.rs:463 and TLC refutes it on MCProxies.cfg; described in the README |
| `repository/deb/proxy_refresh.rs:193` | a package the index lists and the upstream withdrew is skipped: the refresh succeeds and the mirror lacks it | `ProxiedGenuine` |
| `repository/virtual/resolver.rs:129` | a cached member answers although a member of higher priority has the package by now, or the cached member answers not-found | `VirtualAnswers` |
| `app/api/repository/virtual.rs:334` | two administrators save configuration and members in separate statements: the table of one and the configuration of the other may end up together | `VirtualConfigured` |
| `repository/npm/virtual/mod.rs:87` | the reload reads the members and assigns them later: an older list may be assigned last | `VirtualConfigured` |
| `repository/python/virtual/mod.rs:401` | a merged index made before a publication is put in the cache after it, and served for its time to live | VirtualAnswers is about merging, not about pages from the cache, whose age the time to live bounds by design; the model has the step (CachedPage) |
| `repository/nuget/virtual.rs:359` | the body of a member's refusal is parsed as a listing, and one private member turns the merged listing into an error | MergeMember answers 500 as the code does; VirtualAnswers is about lists that are answered, and no line of the repository says what a refusal should do |
| `app/api/repository/management.rs:679` | the general configuration route stores the configuration of a virtual repository without the checks of its own route; a target that is no member is found only at the next start, which then fails for the whole server | VirtualStarts states that the server starts again; TLC refutes it on MCVirtual.cfg; described in the README |
| `app/api/user_management.rs:472` | a deletion that fails after the sessions were removed, or before, leaves a user who is signed out, or sessions without a user | `SessionsFollowUsers`, `AdminRemains` |
| `app/api/user_management.rs:302` | e-mail and name are two UPDATEs: when the second fails the first stays although the reply is an error | the model has the step (StepFails between them); no property is about the reply |
| `app/api/user/password_reset.rs:184` | the token is marked as used after the password was set: a failure between the two, or a second request with the token, sets the password again | `OneTimeCodes` |
| `app/api/user/sso.rs:333` | an account of a principal without an e-mail is renamed: its made-up address stays taken under the old name, so every later login makes another numbered account, and after twenty is refused with 409 | `AccountPerPrincipal` names the case |
| `app/api/user/sso.rs:336` | two names that share their first 22 characters have the same made-up address: the second principal meets the collision at every attempt and gets no account | names in the model differ in their base, which stands for those characters |
| `core/src/database/entities/user/auth_token.rs:149` | a token and its scopes are inserted in separate statements: a failure leaves a token that may do less than it was made for | fewer scopes only refuse more; the model has the steps |
| `app/api/user/oauth.rs:516` | roles granted through the role engine live in memory: after a restart a user without mapped roles is denied until roles are mapped again | no line promises that they persist; the roles in memory are part of ExternalLogin |
| `app/webhooks/mod.rs:358` | blank secret headers are filled in from a row read before the UPDATE: a concurrent rotation of the secret is undone | the configuration of webhooks is not modelled |

## Not modelled

`PROJECT.json` gives the reason for each part. Of the modelled parts these operations are
left out:

- Docker: cross-repository mounts, the catalog rows of a push, tag listings;
- Helm's OCI routes, RubyGems' quick gemspecs, Go's sum database, npm logins;
- storage: directory listings, multipart copies, the manifest listing cache of S3;
- accounts: profile pages and read-only listings.

Whole parts: webhook configuration, the storage usage scheduler and the site registry
(maps behind a lock; what matters of them is in the modules that use them); formats and
search (parsing without state), e-mail (fire and forget), HTTP plumbing, logging, the
command line client, the web interface, export and import.

## Plan

Done: the queue with its abstract specification, the maintenance runs, the S3 cache, the
Docker registry, the repositories of every format and role, uploads and local files, the
virtual repositories, accounts and external logins; proofs of every safety property of the
first four but `Accounting`, of the accounts, and of uploads, local files and virtual
repositories.

What is left, most important first. No module reachable from these declares a RECURSIVE
operator, and their constants have named assumptions.

1. `CataloguedIsStored` and the second half of `ListingAgrees`: per version, what each
   request that is between its files and its rows may assume, as in `UploadsProofs`;
   `RowsInv` is the base.
2. `DockerDigestsGenuine` of `DockerProxy`, and the other parts of `ProxiedGenuine`, one
   format at a time.

Runs are few: those of one module are merged where their instances allow, and a refuted
statement keeps its definition and configuration when its run gives way to another.
