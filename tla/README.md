# Verification of the Nginx Proxy Manager backend with DDNS

This directory models and verifies the backend of this repository: a Node.js
service that turns rows of a database into nginx configuration files, and
into the configuration of one `ddns-updater` child process. The frontend and
the container are not modelled.

The backend is one JavaScript thread. Everywhere below, the code between two
`await`s is one step, and what happens outside the thread (a query, a file
operation, a child process, a timer, certbot, nginx itself) is interleaved with
those steps. What a request holds across an `await` is state of the model.

Contents: 1 inventory, 2 plan, 3 modules and their correspondence to the code,
4 runs and bounds, 5 fairness, 6 proofs, 7 where the code and its documentation
differ, 8 what is not modelled.

## 1. Inventory

Sources are under `src/backend/`.

| Component | State | Operations | Hard behaviour | What makes it correct | Module |
|---|---|---|---|---|---|
| DDNS manager, `internal/ddns-manager.js` | `currentProcess`, `reloadTimer`, `binaryAvailable`, `config.json` | `start`, `stop`, `reload` | a debounced stop-and-start whose steps interleave with a second one, with exits of the child, and with the shutdown | one child at a time; the one that runs has the latest rows; no mutation is lost by the debouncing, though one is by a query that fails; `stop` always returns | `DdnsManager` |
| DDNS runtime status, same file | `lastRunData`, the columns it is seeded from | cache, persistence, `deriveState` | patches nobody waits for; restarts | what is shown is what happened | `DdnsStatus` |
| DDNS one-shot run, same file | a temporary file, a child | `trigger` | two timers racing the child's exit | always answers, leaves nothing behind | `DdnsTrigger` |
| DDNS CRUD, `internal/ddns-config.js`, `internal/ddns-config-builder.js`, `models/ddns_config.js` | table `ddns_configs` | create, update, delete, enable, disable, trigger | read, validate and patch with awaits between; redaction on every read | a deleted row stays so; `config.json` follows the table and carries credentials | `DdnsConfig` |
| Process life cycle, `index.js` | `httpServer`, `shuttingDown` | start-up with retry, shutdown | a signal at any point of a reload or of the start-up | a signal ends the process, and no updater is left behind | `Backend` |
| nginx writer, `internal/nginx.js` | files in `/data/nginx`, the running nginx | `configure`, `reload`, `bulkGenerateConfigs`, `deleteConfig` | test, generate, test again, roll back; one bad file blocks every other host | no broken file outlives the request that wrote it, unless the backend aborts; nginx serves the files | `NginxHosts`, `SiteFiles` |
| Hosts, `internal/{proxy-host,redirection-host,dead-host,stream,host}.js`, and the default site of `internal/setting.js` | host tables, settings | create, update, delete, enable, disable | a row read before several awaits is what is written afterwards; a hostname is checked and then claimed | an answered request has done what it was asked; the file, the row and the `nginx_online` mark agree | `NginxHosts` |
| Certificates, `internal/certificate.js` | table, files, running certbot | create, renew and its timer, upload, delete | hosts taken down and put back around a request that may fail at any step; one certbot at a time | hosts in use come back whatever certbot does; a listed certificate has its files; no answer to a challenge is left | `Certificates` |
| Access lists, `internal/access-list.js` | lists, items, clients, htpasswd files | create, update, delete | multi-step update without a transaction | the htpasswd file is that of the list; no host uses a deleted list | `AccessLists` |
| Page passwords, `internal/proxy-host-password.js` | rows, htpasswd file, page | `syncAll`, `deleteAll` | diff, insert, patch, delete, then files made from queries of their own | the files agree with the rows | `PagePasswords` |
| Two-factor, `internal/{2fa,token}.js` | `auth.meta` | setup, enable, disable, verify, regenerate | the meta read is what is written back some awaits later | a factor that is stored is whole, and is the one the user was told of | `Accounts` |
| Users, `internal/user.js` | user, auth, permission tables | create, delete, set password, set permissions | rows linked by ids of different tables | a password is the one last set | `Accounts` |
| IP ranges, `internal/ip_ranges.js` | a file, a counter, a lock | `fetch` at start-up and by a timer | failed fetches, refused reloads, a reload skipped on the first one | nginx has the ranges last written | `IpRanges` |
| Legacy migration, `migrations/20260718000001_*`, `20260718000002_*` | two tables | `up` of both | splitting comma-separated columns, run again after a failure | every domain has one row when the old table goes | `LegacyMigration` |
| Audit log, reports, access control, tokens, routes, set-up, schema migrations, configuration | rows, keys | append, read, check | none that interleaves | section 8 | none |

How they interact:

- `ddns-config.js` patches its table and then calls `reload()` of
  `ddns-manager.js`, which debounces for a second and reads the table back
  through a callback (`loadRows`) injected at boot; the manager writes runtime
  columns back through another (`dbPatcher`), which nobody waits for.
- `index.js` runs migrations and setup, fetches the IP ranges, then
  `preloadFromDatabase` and `startAllEnabled`, then listens; on SIGTERM or SIGINT
  it awaits `stopAll()` and closes the server.
- The host modules patch a row and call `internalNginx.configure`, which patches
  the row again (`meta.nginx_online`), writes a file, and calls `reload()`.
  `nginx -t` reads every host's file, so all requests meet in the file system
  even when their rows are different.
- Certificates, access lists and page passwords change files that host files
  refer to, and render host files again from rows they have read themselves.
- Two-factor and passwords live in the same row of `auth`.

The places where this is hard to test are the `hazards` of `PROJECT.json`, each
at its line, with the properties that would catch it.

## 2. Plan

The order in which the modules were written, the most important behaviour first;
all of them exist.

1. `DdnsManager`, `DdnsService` (what it promises), `Backend` (its composition
   with the life of the process); proofs in `DdnsManagerProofs`, `BackendProofs`.
2. `DdnsConfig`, `DdnsTrigger`, `DdnsStatus`; `DdnsTriggerProofs`,
   `DdnsStatusProofs`.
3. `NginxHosts`, `MCNginxHosts`, `NginxHostsProofs`: requests of all kinds of
   hosts, and of the default site, over one nginx.
4. `SiteFiles`, and over it `Certificates`, `AccessLists` and `PagePasswords`,
   composed in `Sites`; `SitesProofs`.
5. `Accounts`, `AccountsProofs`; `IpRanges`; `LegacyMigration`; composed, with
   the DDNS rows and their status, in `Records`; `RecordsProofs`, which holds the
   proofs about `DdnsConfig`, `IpRanges` and `LegacyMigration` too.

What would be next, should this grow:

- the claim of a hostname by two requests (`host.js:105`), whose only invariant
  the code does not keep;
- failing queries in `NginxHosts` (`nginx.js:57`);
- a refinement from `NginxHosts` with one request at a time to a service in
  which each request is one step.

## 3. Modules

### DdnsManager

| Model | Code (`internal/ddns-manager.js`) |
|---|---|
| `db`, `owed` | the enabled rows, as the number of mutations committed; handlers of `ddns-config.js` between their patch and their call of `reload()` |
| `reloadTimer`, `TimerFires(j)` | `reloadTimer` and its callback |
| activation `j \in Job` of the reload body, with `pc`, `rows`, `target`, `killTimer` | the locals of `startAllEnabled`, `reload`, `start` and `stop` across their awaits; `Boot` is the activation of the boot, `Halt` that of `stopAll` |
| `currentProcess`, `killed` | the entry of the current child and `ChildProcess.killed` |
| `procState`, `procRows` | the operating system's view of a child, and the snapshot it read from `config.json` |
| `LoadRows`, `LoadFails`, `ReloadStops` (`StopNothing`, `StopCurrent`), `WriteConfig`, `WriteFails`, `Spawn`, `SpawnFails` | the reload body from query to spawn, one action per await |
| `KillTimerFires` | the 5 s escalation, which tests `killed` |
| `Exits` in `Terminates`, `Crashes` | the exit event: the handler `start()` installed, then that of `stop()` |
| `StopAll` | `stopAll()` |

A slot of `Job` or `Proc` is reused as soon as it is free, so the number of
activations and children over a run is unbounded, and only those at once are.
`LoadFails` is the query of a reload that is refused: the error is logged, the
old child goes on with the rows it had, and nothing is armed. `refused` is a
history: the last reload to read the rows was refused them. A write of
`config.json` that fails leaves the file as it was here, and may leave it empty
in `DdnsConfig`; after either no child runs.
`DdnsService` has none of this: mutations are committed, a snapshot of them is
published, never an older one and never under a running updater, and one updater
serves the published snapshot. `ImplementsService` maps `published` to
`config.json` and `served` to what the live child read.

### Backend

`startup` is how far the chain of promises of `appStart()` is, with its catch
and retry; `shutdown` is how far `gracefulShutdown()` is. `Signal` runs up to the
await in `stopAll()`; `BackendExits` is an exit event that may resume it. After
the exit, only children go on. `calm` is a history variable: no reload was
pending at the signal and none was asked for since.

### DdnsConfig

Each row has a provider and three fields that stand for the classes the builder
tells apart: a token, Cloudflare's key with email, and an option. `Parsed` is
`$parseDatabaseJson` of the model, which empties credentials in every row any
query returns; `Merge` and `Valid` are `mergeProviderConfig` and the validation;
`Settings` is `buildConfig` over what `fetchEnabledRows` returns. A handler holds
in `seen` the row it read (`Get`) until it patches it (`PatchUpdate`,
`PatchDelete`, `PatchEnabled`) and then asks for the reload (`AskReload`). The
manager's reload is one step here, with its steps in `DdnsManager`: `Reload`, or
`ReloadFails`, when its query, the lookup of the binary or the write of the file
fails (`gaveUp`, until a handler asks again).

### DdnsTrigger

One `pc` per call of `trigger()`: the temporary file is written, the child
spawned and the 60 s timer set, SIGTERM, SIGKILL 5 s later with the answer, and
the removal of the file. A child may exit at any of these points or never. The
name of the file is the row and the millisecond.

### DdnsStatus

`lastRunData` is the cache, `rows` the columns it is seeded from and persisted
to, `writes` the patches sent and not applied. `Seed` is `seedCacheFromRow`,
`Marked` the exit handler, `Start` the part of `start()` that seeds the cache
and looks for the binary, `Shown` is `deriveState`, and `Restart` any end of the
process followed by a boot, whose preload may fail. `child` is the updater this
process started; one that an earlier process left alive (`backend_orphan`) is
outside the module, as it is to the code: the new process has no handle on it and
shows nothing of it. `LoadFails` is a refused query, after which nothing is
seeded. `ordered` distinguishes one
database connection, which applies patches in order, from a pool.

### NginxHosts

Hosts have a row, a file, and what the running nginx has loaded of them. A
request is a record: its step, operation, host, the configuration it would
render, and the requests for the same host it has met. `Create`, `Get`,
`PatchUpdate`, `PatchEnable`, `PatchDisable` are the handlers up to the second
read of the row, after which `Refetch` is that of redirection hosts and streams,
`RefetchProxy` that of proxy hosts, which leaves a disabled one alone, and
`RefetchDead` that of dead hosts, which goes on with the row it read first.
`Rendered` is the `if enabled` of the templates: the file of a disabled host is
`Empty`, one without a server. `Test`, `Write`, `WriteFails`, `Retest`,
`MarkOnline` and `MarkOffline` are `configure()`; `Remove` is `deleteConfig()`;
`Reload` and `Signal` are `reload()`, whose `nginx -s reload` parses the files
before it signals; `Erase` stands for the two calls of `renameConfigAsError()`,
which `configure()` does not await; `NginxReloads` is the master process, which
keeps its configuration when a file is broken. `TestPasses` is `nginx -t`: no
file of any host is in `Broken`.

The default site (`Site`) is one more host: `RefetchSite` removes its file
without a first test, `TestSite` tests what was written, `GiveUp` is the catch
of `setting.update`, and `TestUndone`, `Reload` and `Signal` the undo it starts and
does not wait for. That chain has no catch and ends in a `throw`: whether its
test fails, its reload does, or both pass, the backend aborts (`Abort`), and the
requests in flight end where they are. A broken file one of them had written then
stays (`Stray`).

Three assumptions: whether nginx accepts a host's configuration depends on that
configuration alone (in reality also on name resolution), queries succeed, and a
file that `deleteFile` is asked to remove goes (the code swallows its failure).
Certificate files, which a host's file may name, are in `SiteFiles`.

### SiteFiles, Certificates, AccessLists, PagePasswords, Sites

`SiteFiles` has the tables that are joined when a proxy host is rendered, and the
files nginx has of them. `RenderedRow(i, row, expand)` is `generateConfig` for a
row fetched with the relations `expand`: each module renders hosts from the
relations its own query asks for, which is what differs between them. The
requests that save a host are one step here (`SaveHost`, or `SaveHostFails` when
the old file is gone and the new one cannot be written), since `NginxHosts` has
theirs. Every write may fail and leave the file as it was or empty: when one of
`bulkGenerateConfigs` does (`GenerateFails`), some files are rendered and the
request ends or turns back. Removals by `deleteFile` succeed, as in `NginxHosts`.

- `Certificates` is `create` from the insert of the row to the expiry date, one
  action per await: `TakeDown` (`disableInUseHosts`), `UserFound`/`UserGone`/
  `RequestConfFails`, `FirstReload`, `RunCertbot`, `Issued`/`ChallengeFails`,
  `SecondReload`, `Reinstate`/`ReinstateFails` (`enableInUseHosts`), `Record`, and
  on any failure `Undo` and `LastReload`, or `UndoFails`. Renewals and deletions contend for certbot, of which one instance
  runs.
- `AccessLists` is `create`, `update` (`DeleteItems`, `InsertItems`, `Refetch`,
  `AppendItem` for each openssl, `RenderHosts`, `ReloadUpdated`) and `delete`
  (`MarkDeleted`, `ReleaseHosts`, `StripHosts`, `ReloadDeleted`, `Unlink`), with
  `BuildFails`, `RenderFails` and `StripFails` for their writes. `create` reads the
  hosts without their certificates and does not reload. The first openssl or
  append that fails answers the request with an error and the others go on adding
  their lines: such a request (`drain`) still counts as met by the next one. An
  item created without a password is never continued from, so that its request
  hangs (457); the items here have one.
- `PagePasswords` is `syncAll` (`LoadRows`, `WriteRow`, `QueryForFiles`,
  `BuildHtpasswd`, `QueryForPage`, `RenderPage`, `ReloadPages`) and the deletion of
  a proxy host, with `deleteAll` in it (`DeleteRows`, whose query may fail unnoticed,
  `DeleteFiles`). `BuildHtpasswdFails`, `RenderPageFails` and `DeleteFilesFails` are
  the failures: those the code swallows (a removal, a template that cannot be
  read), after which the request goes on no longer `clean`, and those that end it.
- `Sites` composes them. Page passwords meet the others in `reload()` alone, so a
  behaviour accepts their requests, or those of the others (`pages`). A handler
  works on one request at a time. What nginx serves is in `NginxHosts` only.

### Accounts

Users, rows of `auth` and permissions; the id of a row is its place in its table.
`CreateUser`, `InsertAuth` and `Grant` are `create`: `Grant` gives the permissions
to the id the insert of the password returned, as the code does. A request of the
second factor reads the meta (`ReadSecondFactor`) and writes it back changed
(`StartSetup`, `Enable`, `Disable`, `RegenerateBackupCodes`, `LoginWithCode`).
`told` and `given` are histories: what the user was last told.

### IpRanges

`FetchRanges` takes the lock `interval_processing`, `ServiceAnswers` is one of the
three services in turn, `FetchFails` any error up to the write, `WriteRangesFails`
a write that fails and may leave the file empty, `GenerateRanges` the write with the test of `iteration_count`, `ReloadRanges` the reload, refused
or not. `OtherReload` is the reload of any request about a host, and
`BackendRestarts` a restart at any step.

### LegacyMigration

`StartMigration` is the test for an earlier one and the split of the four
columns, `InsertConfig` one insert, `RecordMigration` the return of `up`,
`DropLegacy` the next migration with the commit of the batch, and
`MigrationFails` a failure or an end of the process anywhere between, which
undoes what the database can undo (`transactional`).

### Records

Five modules that share no state and are small (`DdnsConfig`, `DdnsStatus`,
`Accounts`, `LegacyMigration`, `IpRanges`) are checked in one run: `part` says
which of them moves, and the others stay in an initial state. Nothing is gained
by interleaving them.

In every module, an operator commented `Bug:` is a defect the code does not
have; no specification uses it. Each shows what a property is for: with it in
place of the operator it stands before, the property named in `mutants` of
`PROJECT.json` is violated.

## 4. Runs and bounds

| Run | Question | Bounds and what they allow |
|---|---|---|
| `ddns_serial` | When stopping and starting the child takes less than the debounce second: is there one child, with the latest rows when things settle, does `stop()` return, is every mutation served, does the manager implement `DdnsService`? | 3 mutations: one before, one during and one after a reload; 2 process slots, so that a second child could exist; all faults (query, write, spawn, crash, missing binary) |
| `ddns_overlap` | What still holds when a reload may start while another runs | 2 reloads at once, 3 process slots, 3 mutations, all faults |
| `backend` | Does a signal at any point of boot, reload or service end the process, after the child it stops, and leave no child when nothing was pending? | 2 mutations, 2 process slots, all faults, any number of start-up retries |
| `ddns_trigger` | Does a one-shot run always answer, with no child, no file left, and a configuration for its child? | 2 calls, 2 rows, 2 instants: same row at two instants, two rows at one |
| `nginx_hosts` | Whatever two requests do at once: who owns a broken file, does an answered request hold, does nginx serve the files? | 4 hosts (a proxy host, a dead host, one of another kind, the default site), 2 handlers, two good configurations and a bad one, 3 requests: one that creates and two that overlap, on its host or another. Handlers and good configurations are interchangeable, hence the symmetry |
| `sites` | Whatever step of certbot, openssl or nginx, and whatever write, fails, and whatever another request does meanwhile: do hosts come back, do files follow rows, is a deleted list unused? | 2 hosts, 2 certificates and 1 list, each there from the start or created in the run, 2 users of the list, 2 secrets, so that a password can change, 2 handlers, 3 requests: two that overlap and one that prepares them or follows. Runs about page passwords start without lists and certificates. Hosts, certificates, users and handlers are interchangeable |
| `records`, DDNS rows | Does `config.json` follow the table under two concurrent handlers and failing reloads; does a deleted row stay deleted? | 1 row, since handlers of different rows share only the reload; 2 handlers; all three classes of provider and all combinations of present and absent fields |
| `records`, status | Is what is shown of a row what happened, across restarts, reordered or refused patches, and a failed preload? | 1 row, 1 call (a call holds nothing but its row); 2 answers and 2 patches in flight, enough for a reordering |
| `records`, accounts | Are second factors whole, and as told; are passwords as given? | 2 clients, 2 passwords, 3 requests: one that sets up and two that overlap; an administrator with a second factor or without |
| `records`, migration | Is every domain of a live row in one new row when the old table goes? | 2 rows, 2 domains, any 3 listings of them in the four columns, any row deleted, any number of failed attempts |
| `records`, ranges | Has nginx the ranges of the file? | 4 fetches: the first is exempt, two more can fail in two ways before one that does not; any number of restarts |
| `ddns_two_updaters`, `ddns_stubborn`, `backend_orphan`, `ddns_config_empty`, `nginx_hosts_dead` | Five statements of the code's comments that the code does not meet (section 7) | the smallest of the above in which the counterexample exists |

The largest, `nginx_hosts`, `sites` and `records`, have 2.1, 1.2 and 0.8 million
distinct states and take one to two and a half minutes each.

`CHECK_DEADLOCK FALSE` is in the runs whose mutations, rows or requests are
bounded and in which nothing is left to do once they are used up. The
one-shot run has no such end, and deadlock is checked there.

What the passing runs show, beyond types:

- Every wait in `stop()` is for a child that is alive, signalled, and waited for
  by nobody else (`StopsAwaitTheirOwnProcess`), and the process called current
  has never been signalled (`CurrentIsUnsignalled`), even when reloads overlap:
  the entry is taken out before the signal is sent. So `stop()` returns if
  signalled children exit (`StopReturns`).
- The debouncing loses nothing: `NoLostReload` gives, at every moment, who will
  read a committed mutation, and `EventuallyRead` that somebody does, unless the
  reload that was to read it had its query refused. Then nobody reads it until
  another mutation asks, and the properties say so.
- Without overlap there is one child, what it serves when all is quiet is the
  table unless the last query was refused (`QuietIsCurrent`), and a failed write
  or spawn leaves no child rather than an old one (`ImplementsService`,
  `EventuallyServed`).
- The shutdown waits for the child it stops (`ExitAwaitsStop`), ends
  (`ShutdownCompletes`), and leaves no child when no reload was pending
  (`CalmExitLeavesNoChild`).
- `config.json` differs from what the rows call for only while a reload is due, or
  after one that failed and until the next is asked for (`ConfigFollowsTable`); a
  deleted row stays so (`DeletedStaysDeleted`).
- A one-shot run answers whether or not its child can be terminated
  (`TriggerAnswers`), and leaves neither its file nor a child that was not killed
  (`NothingLeft`). Unlike `stop()`, its escalation does not test `killed`.
- The outcome shown for a one-shot run is that run's (`OutcomeMatchesInstant`),
  a restart does not blank it (`ShownIsStored`), and a process that reports the
  binary missing runs nothing (`MissingMeansDown`), whatever is reordered or
  refused.
- A broken file never loses the request that wrote it and is about to test it or
  take it away (`BrokenHasOwner`), unless the backend aborts: so only an abort
  makes a host unconfigurable for good because of another. When requests end and
  no such file is left, nginx serves the files (`ServesFiles`): a reload lost to a
  broken file is made up for by whoever takes that file away. And a request that
  meets no other for its host has done what it answered (`AnswerHolds`),
  whatever happens to other hosts meanwhile. The update of a dead host is
  excepted.
- A certificate request that fails at any step leaves no answer to a challenge
  (`RequestConfHasOwner`), no row without its files (`ListedHasFiles`), and no
  host without its file (`OutageHasOwner`). That last one names what the code does
  leave out (`LosesFile`): the hosts of an owner who is gone, and those for which a
  write fails on the way back, in a list's rendering or in their own saving.
- After a request that met no other and swallowed no failure, a list's htpasswd
  file has exactly its users (`HtpasswdFollowsItems`) and a host's page files are
  those its row calls for, or none once it is deleted, even if its password rows
  could not be (`PagesFollowRows`); no host uses a deleted list, except one that was given it
  afterwards (`DeletedListUnused`).
- A second factor on record is one that requests made one after the other could
  have left, although they overlap (`FactorIsWhole`); where they do not overlap
  it is the one the user was told of, whatever is done to the password in the
  same row (`FactorAsTold`), and the password is the one given
  (`PasswordAsGiven`).
- The migration loses and doubles no domain (`LegacyPreserved`), and nginx has
  the last ranges between fetches (`RangesApplied`), with the exceptions of
  section 7.

## 5. Fairness

- `DdnsManager`: weak fairness of the lookup of the binary, of a handler's call
  of `reload()`, of the debounce timer, of each activation's next step, of the
  exit of a signalled child that does not ignore SIGTERM, and of a child's read
  of its configuration. An event loop runs every callback that is due, and file
  operations and queries return. Requests and crashes are promised by nobody.
  Weak fairness is enough: a callback that is due stays due until it runs. The
  two guards that the model adds wait for something that is itself fair: a free
  activation (`TimerFires`) and a free process slot (`Spawn`).
- `Backend`: weak fairness of the closing phase (the server closes or ten seconds
  pass) and of the exit of a signalled child. Nothing else: in particular the
  reloads may stand still.
- `DdnsTrigger`: weak fairness of each call's own steps. The child is not
  promised to exit, which is what the timers are for.
- All other modules: safety only. Their requests wait for nginx, certbot, openssl
  or a remote service, to none of which the code gives a time limit of its own.

## 6. Proofs

The theorems hold for every value of the constants: any number of activations,
child slots, rows, hosts, certificates, users and requests in flight, and any
bound on mutations and requests. They rest on the named assumptions of the
modules (`JobAssumption`, `ProcAssumption`, `IdAssumption`, `HostsAssumption`,
`SitesAssumption`, `ConfAssumption`, `AccountAssumption` and so on, each of which
TLC evaluates in a run) and, where stated, on `~Overlap`, `~SameInstant` or
`~LateErase`. Each is an invariant, or follows from one, by the three facts
`Init => I`, `I /\ [Next]_vars => I'` and `I => property`.

**DdnsManagerProofs**

- `TypeCorrect`. `owed` is within bounds only because `owed <= db`: a handler
  owes a reload for a mutation it committed.
- `StopsAwait`, `CurrentUnsignalled`. Inductive together with "a process that
  has been signalled is alive": a slot that `start()` fills is then unsignalled,
  so a later `stop()` takes a process nobody waits for.
- `ReloadNeverLost`. `NoLostReload` is inductive: the duty to read a mutation
  passes from the handler to the timer, to the activation, to its snapshot, and
  only a refused query ends it.
- `SerialSingle`, if reloads do not overlap. `SerialInv`: one activation at a
  time; it has given up `currentProcess` before it waits, writes or spawns; and
  every child is current or waited for (`NoOrphan`). So none is left at a spawn.
- `SerialImplements`, if reloads do not overlap. `FreshInv` adds that what an
  activation holds is not older than `config.json`; each action is then a
  commit, a publication, the start or the end of serving, or a stutter.
- `SerialQuiet`, if reloads do not overlap. A snapshot older than the table is
  owed a reload, which is what `NoLostReload` says of it, and `config.json` is
  behind the table only then, or on its way, or after a refused query
  (`LatestInv`).

**BackendProofs**

- `BackendTypeCorrect`; `SingleUntilSignal`: until the signal, the steps of the
  process leave the invariant of `SerialSingle` alone.
- `StopIsAwaited`: the shutdown is past its wait only when the child it took is
  gone; the exit handler of that child is the one step that lets it go on.
- `CalmLeavesNoChild`: with no reload pending at the signal and none asked for
  since, the only activation is that of `stopAll`, and every child is current or
  waited for by it.

**RecordsProofs**, of the composition in `Records` and of three of its parts

- `ConfigFollows`. The invariant is the property with the types of rows and
  handlers; the lemmas say when a change of a row does not change `Settings`
  (a row created disabled, an update refused), which are the cases in which the
  code asks for no reload. `gaveUp` is set where a reload fails and nowhere else.
- `DeletedForGood`. No patch writes `state`, except the deletion; a reload can
  only drop what is deleted.
- `RangesAreApplied`. `RangesInv` counts: a fetch in flight has not counted yet,
  nor written before its last step, so a file is this process's first exactly
  when `iteration_count` says so, and any other write is followed by a reload.
- `LegacyIsPreserved`. `MigrationInv`: once an attempt has read the old table,
  what is due is in the new one, once, or among what is left to insert
  (`OneEach`); an attempt finds an empty table unless a failed one left its rows.
- `PartsAreKept`: a behaviour of `Records` is a behaviour of each of its five
  parts, so their theorems hold of what the run `records` checks;
  `RecordsTypeCorrect` follows.

**DdnsTriggerProofs**

- `TypeCorrect`; `NothingIsLeft`: inductive with "a call past its timers has a
  child that is doomed or gone".
- `ConfigIsFound`, if no two calls for one row read the same millisecond: names
  in use are then distinct, so nobody else's clean-up removes the file.

**DdnsStatusProofs**

- `MissingIsDown`. `DownInv`: a child of this process that runs, and a reload past
  the look at the binary, mean that the binary is there, and it does not go away.
- `StatusTypeCorrect`, `OutcomeIsItsOwn`. `OutcomeInv`: every instant that is
  anywhere (in the cache, in a column, in a patch in flight, in a row a reload
  has fetched) is the place in `answers` of a run of that row with the outcome
  beside it, and null instants come with no outcome.
- `ShownStaysStored`. `StoredInv`: an outcome in the cache, or in the rows that
  a reload has fetched and will put there, is in the column or in a patch still
  to be applied (`Kept`); where patches keep their order, the patches of a row
  carry later and later runs (`InOrder`), so the last one wins.

**NginxHostsProofs**

- `TypeCorrect`. A request about to write a file holds a configuration: a row has
  one exactly while it is live, and `enable` holds it from its first step.
- `BrokenOwned`. An action property, by cases of the step that leaves a broken file
  without an owner: between the write of a broken file and its removal the writer
  has two steps, each of which goes on as its owner, removes the file, or is of an
  undo that aborts; no step of another request writes that file without owning it.
- `FilesServed`, if the erasure that is not awaited is over before the reload.
  `ServeInv`: requests for one host know of each other (`MetInv`); nothing is
  claimed of a host with a request in flight (`AnswerInv`); an erasure is over
  before its request is (`EraseInv`); and while a file is not served as it is a
  reload is to come or a file is broken (`LoadInv`): the test before the reload
  fails, or nginx ignores it, only because of a broken file, and whoever takes that
  away, its writer or, after an abort, a later request, reloads nginx itself.
- `AnswersHold`, if that erasure is over before the reload. `DoneInv`: `Progress`
  says, step by step, how far a request that has met no other has come: it holds
  what the row calls for, then has written it, then has marked the row online or
  taken the file away; so at its reload `DoneFor` holds of what it will answer,
  and no later step but those of a request for the same host changes it.

**SitesProofs**, of the composition in `Sites`

- `RequestConfIsOwned`: inductive with the types; each way out of the steps that
  own the file goes through `Issued` or `Undo`.
- `ListedHaveFiles`: with `RevokedIsDeleted`, by which the files that certbot
  deletes are of rows already deleted.
- `OutagesAreOwned`. An action property, step by step, from `OutageInv`: hosts are
  held only at the steps from `TakeDown` to `Reinstate` or `Undo` (`ReadsHeld`),
  what is held renders to a file, and a request that deletes a host's file has
  deleted its row (`SyncsOK`); a `BulkGenerateConfigs` that succeeds puts back every
  host it holds, so only the failures in `LosesFile` lose one.
- `DeletedIsUnused`. `ReleasePending`: from the moment a list is marked deleted
  until its hosts are released, the request that releases them is at work.
- `HtpasswdFollows`, `PagesFollow`. `ListInv` and `PagesInv`, of the same shape:
  requests for one list, or one host, know of each other; nothing is settled
  while one is at work; and what a request that met no other has done so far is
  what the rest of it builds on (`EditProgress`, `SyncProgress`), such as the
  items it has still to append to those of the table. A request that swallows a
  failure gives its claim up (`PagesGivenUp`).
- `SitesTypeCorrect`: certbot runs for one request at most, the one that started
  it (`CertbotOK`); ids of page passwords stay within the requests accepted,
  because each row inserted had a request of its own (`RowIdsOK`, by counting the
  requests that may still insert one).

**AccountsProofs**

- `FactorsAreWhole`. `FactorInv`: what a request holds was read whole and allowed
  its operation, so whichever is written last is whole; the lemmas on the row of
  the lowest id show that a request writes the row it read.
- `FactorsAsTold`, `PasswordsAsGiven`. `HistoryInv`: a row that is appended is its
  user's last, so what a request read as the first row stays the first
  (`RowsHeld`); requests of one kind for one user know of each other (`TasksMet`);
  so what a request that met no other has read is still so when it writes
  (`AloneHolds`), although requests of the other kind write the same row meanwhile.
- `AccountTypeCorrect`: ids stay within the requests accepted, by counting those
  that may still insert a row of auth (`AuthsBounded`).

Only model-checked: liveness under fairness (`StopReturns`, `EventuallyRead`,
`EventuallyServed`, `ShutdownCompletes`, `TriggerAnswers`), which TLAPS does not
prove. Every other property of a passing run is stated by a theorem. No module
declares a RECURSIVE operator, and nothing here is defined by induction over data.

## 7. Where the code and its documentation differ

Five runs are expected to be violated; each checks what a comment says, and
`findings` in `PROJECT.json` quotes it.

- `ddns_two_updaters` (`SingleUpdater`): a `stop()` that takes more than the
  debounce second lets a second reload start; it finds nothing to stop, and both
  spawn a child.
- `ddns_stubborn` (`StopReturns`): the SIGKILL is sent only if `killed` is false,
  and it is true since the SIGTERM.
- `backend_orphan` (`ExitLeavesNoChild`): a reload armed or in flight at the
  signal spawns a child after `stopAll()`.
- `ddns_config_empty` (`ConfigHasCredentials`): rows are redacted on every read,
  so `config.json` has empty credentials.
- `nginx_hosts_dead` (`RecreatesConfig`): the update of a dead host configures
  the row as it was before the update.

Seen while modelling, and part of the modules, with no run of their own:

- `ddns-config.js`: two updates of one row, one of the provider and one of its
  fields, each validated against the row it read, can store a row that is not
  valid (line 150). An update merges into the redacted row, so credentials the
  request leaves out are overwritten with empty ones (line 138; the comment at
  135-136 says they are kept). Nothing prevents two rows of one provider and
  domain (line 103).
- `ddns-manager.js`: a reload whose query is refused is logged and forgotten: the
  old child goes on with rows that were deleted or disabled, until another
  mutation asks (lines 317-319). A child that a process leaves alive is unknown to
  the next one, which may show its rows as stopped, or the binary as missing,
  while it runs. With overlapping reloads, the one that holds older rows may
  be the last to write `config.json`, for good (line 314). `start()` seeds the
  cache from rows fetched before the wait in `stop()`, so the one-shot run shown
  can be an earlier one for a while (line 162). Two triggers of one row within a
  millisecond share their file, and the first to end removes it (lines 324 and
  338). The error set by the exit handler is not persisted and is lost at a
  restart (line 242). `updateLastRun` has no caller, so `running-ok` can come
  only from the columns of rows migrated from the older table (line 468).
  `deriveState` calls every row running while the child is up, those it was not
  started with included (lines 128-129). If the preload fails, `dbPatcher` is
  never injected.
- `routes/ddns.js`: `/:ddnsID` comes before `/status`, and the status route counts
  every cached id as running where the README's example counts one.
- `nginx.js`: `renameConfigAsError` unlinks the file before it renames it, so no
  `.err` file is ever left, and it is not awaited (lines 86 and 389): with
  `LateErase` TRUE, i.e. if its two calls came after the reload, TLC violates
  `AnswerHolds` (a host is marked online and its file is taken away). Line 37
  passes FALSE where its comment says that the `.err` file is deleted. A failed
  patch of `meta` (lines 57 and 79-83) leaves a broken file, after which no host
  can be configured. A good host is marked offline when its second test fails on
  another's broken file.
- Hosts: an update in flight configures a host that was disabled or deleted
  meanwhile, and `enable` writes the configuration it read before its patch. A
  proxy host that an update disables keeps the file it had, and is served
  (`proxy-host.js:251-254`). The update of a dead host also patches the payload
  before its normalisation (`dead-host.js:161`). The check that a hostname is
  free and its claim are apart (`host.js:105`), and its `LIKE` is case-sensitive
  on PostgreSQL.
- `setting.js`: when the default site fails, the request is answered 200 with
  nothing, and it is undone by a promise nobody waits for, which ends with an
  error in any case: the backend aborts (`--abort_on_uncaught_exception`). If
  another request had just written a broken file, that file stays: every
  `configure()` then fails its first test, that of the same host included, and
  only the deletion or disabling of that host removes it.
- `certificate.js`: nothing reloads nginx after "6. Re-instate previously disabled
  hosts" (line 133), and the files put back are rendered from rows without their
  relations: no TLS, a list denies everyone, no page passwords. When the owner
  has no e-mail address the hosts are not put back at all (145-150), nor are those
  for which a write fails in a catch block (163, 183), nor any when the backend
  ends in between: nothing looks for missing files at a
  start. Deleting a certificate in use makes `nginx -t` fail for every host.
- `access-list.js`: a deletion renders the hosts without their certificate, an
  update without their page passwords; two updates at once mix their users in
  one file, as does an update after one that failed, whose remaining users are
  still being added (471). Nothing checks that the list or the certificate a host names exists.
- `proxy-host-password.js`: the host's file is not rendered again after its
  passwords, and `create` of a proxy host configures it before they are stored
  (`proxy-host.js:86-102`). A `syncAll` that overlaps the deletion of its host
  leaves rows and files. Failures to remove a file, to read the template of the page, or
  to delete the rows of a deleted host are swallowed (303, 350, 362, 393): the
  files and the rows may differ although the request is answered well.
- Templates: `proxy_host.conf` names a password file for every host, and has a
  location after the end of the server block (69-77).
- `user.js`: "Create permissions row as well" (line 50) gives them to the id of a
  row of `auth` (line 54), which is not the user's after a user without a
  password. Two `setPassword` of a user without a row insert two. Two
  administrators can delete each other. Overlapping requests of the second
  factor lose each other's changes: a backup code used in one of two logins at
  once is accepted again.
- `ip_ranges.js`: the first file a process writes is never applied, whichever
  fetch it is (`iteration_count`, line 111; "apply them to nginx", line 55). The
  status of an answer is not looked at, so an error page empties a service's
  ranges. A service that never answers holds the lock, and the start-up, for
  good.
- Legacy migration: on MySQL, where a table definition commits, a failed attempt
  keeps the rows it inserted, the next takes them for a finished migration (lines
  38-42), and the migration after it drops the old table in the same start-up;
  against "existing user configurations are preserved" (line 7) and "Keeping the
  old table around for one release" (18-20). A domain listed for both versions
  becomes an IPv4 row, where the comment (81-83) says that `ip6` took precedence.

## 8. What is not modelled

- Of `NginxHosts`: hostnames, ports of streams, and failing queries; whether
  nginx accepts a configuration is given, so what its grammar makes of the
  templates is not examined.
- Of certificates: uploads (their validation is openssl's, and two files are
  written), downloads, the reachability test; certificates of redirection and
  dead hosts, which take the same steps; the clock and the expiry dates, by which
  the timer chooses what to renew.
- Of access lists: client addresses, which are only rendered; `pass_auth` and
  `satisfy`.
- Of page passwords: more than one domain per host; the steps of a host's own
  update, which is one step in `SiteFiles`.
- Of users: names, e-mail addresses and roles after creation, the avatar.
- Of `DdnsConfig`: list queries and authorisation, which change no state that the
  properties are about; domain names.
- Of `DdnsManager`: the output streams of the child (their last error line is in
  `DdnsStatus`), and the number of ids in the cache.
- `lib/access.js`: a pure function of a user, permissions and a JSON schema,
  evaluated by a library. `models/token.js` signs and checks, and stores nothing.
- HTTP routes and JSON schemas (dispatch and shapes, no state), schema migrations
  and initial setup (run once, in order), configuration loading, the audit log
  and reports (append-only or read-only), the container image.
- The frontend: most of the repository's lines. It keeps no state that another
  actor shares; what it sends are the requests modelled here.
