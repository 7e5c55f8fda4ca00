# A TLA+ verification of mijiaAPI_V2

mijiaAPI_V2 is a Python SDK for Xiaomi's Mijia cloud (`mijiaAPI_V2/`), a local
FastAPI gateway around it (`server/`), the gateway's Vue admin page (`web/`)
and an Android app that embeds both (`android/`).  This directory models the
parts of it in which threads, processes, browser callbacks and a lossy network
meet, model-checks them with TLC, and proves the main results with TLAPS for
every value of the constants.

Files: `<Component>.tla` models a component, `MC<Component>.tla` with the
`MC*.cfg` files instantiates it for TLC, `*Proofs.tla` hold the theorems (one
module for the components of a kind), and `PROJECT.json` ties definitions, runs, mutants, hazards and
theorems to lines of the source.  Definitions carry the names of the code
(`begin_login_attempt` is `BeginLogin`, `_sync_progress` is `syncProgress`).

    tlc -workers 2 -config MCMijiaRuntime.cfg MCMijiaRuntime
    tlapm MijiaRuntimeProofs.tla

## 1. Inventory

| Component | State it keeps | Operations | Hard because | Correct when |
|---|---|---|---|---|
| Account runtime, `server/mijia_runtime.py` | credential file, generation and login sequence, shared API client, login jobs, synced registry | QR login, commit, removal, refresh, control, sync | login, refresh and sync threads make network calls without the lock; writes fail or the process dies between them | rows, clients and results of one account never meet another account; every job and task ends |
| Sync task, same file | sync lock, progress record, run threads, cleanup threads | start, progress, end, delayed cleanup | the lock is released before the cleanup; the record outlives its run | a run under way can be read about; no older record comes back |
| Credential timer, same file | enabled, generation, pending `threading.Timer` | start, stop, callback | a timer that fired cannot be cancelled | exactly one chain while on, none while off |
| Audit trail, `server/store.py`, `server/audit_journal.py` | table `audit_log`, recovery files | record, replay, quarantine, purge, look up | two processes share the directory; crashes between insert and unlink | a reported event is never lost; files drain; receipts are found |
| Control path, `server/control_operations.py`, `mijiaAPI_V2/services/device_service.py`, `infrastructure/http_client.py` | results so far, attempt count, receipt | validate, send part by part, retry, settle | the cloud may execute what was never answered | nothing is executed twice; a receipt claims what is known |
| Page: sync, `web/src/composables/useSyncProgress.ts` | refs, poll timer, generation | start, recover, resume, poll | answers in any order, lost or refused | the button comes back; only the right run is shown |
| Page: device control, `web/src/composables/useDeviceControl.ts` | dialog, sequence, outcomes, busy flags | open, close, read, submit, read back, acknowledge | the dialog changes while requests are under way | no false success or failure; controls come back |
| API keys, `server/store_api_keys.py` | table, validation cache with a generation | create, validate, disable, rotate, delete | a key is revoked while a validation hashes, which then refills the cache | a request is refused once the revocation has returned |
| Administrator sessions, `server/store_auth.py`, `routers/admin_auth.py` | accounts, sessions, cache with a generation, lock-out | login, refresh, logout, change and reset of the password | the same, and refresh and login work in separate transactions, the command line in a process of its own | an ended session stays ended |
| Admission of requests, `server/app.py`, `server/store.py`, `routers/admin_auth.py` | `runtime_config`, its map with a short life, the first administrator | middleware, first set-up, `set_config` | the map is loaded while a change commits; two set-ups hash at once | each request is judged by the last change; one administrator |
| Registry, `server/store_registry.py` | homes, devices, scenes with permissions | snapshot, list, update, batch, clear | the cloud moves devices and a fetch fails during a sync; a permission is set from a list read earlier | a permission holds for the device it was meant for, and survives the sync |
| Configuration file, `server/config_watcher.py`, `server/config.py` | file, time noted, loop | start, stop, compare, read | a write between noting the time and reading; a loop that outlives `stop()` | an edit is read |
| SDK caches and client, `infrastructure/cache_manager.py`, `api_client.py`, `repositories/` | memory, Redis and file tiers | read with back-fill, control, refresh | several threads fill and drop the tiers without a lock | what follows a refresh sees nothing older |
| Page: QR login, `web/src/composables/useMijiaLogin.ts` | shown job, timer, generation | start, poll, remove | polls of an earlier job answer late | only the last login's success is told |
| Page: session, `web/src/composables/useAdminSession.ts` | signed in, refresh timer, cookie | refresh, login, logout | a refresh in flight at the logout sets a cookie | a logout is final, an ended session is noticed |
| Page: scenes, `web/src/composables/useSceneControl.ts` | dialog, outcomes | select, run, acknowledge | selection changes while a run is in flight | a scene whose result is unknown is not run again |
| Page: permissions, `web/src/App.vue` | rows, pending ids, batch | switch, save, batch, load | switches run ahead of their requests, loads replace rows under a save | a row at rest shows what the server enforces |
| Android app, `ServerService.java`, `mijia_android/runtime.py` | service fields and statics, server, stop flag | bind, start, stop, destroy | a stop arrives anywhere in the start | a stopped server exits |
| Release mirror, `deploy/scripts/sync_gitee_releases.py` | attachments on both sides | read, download, upload, verify | uploads given up are stored later; the source is edited meanwhile | "verified" is true |
| Credential files, `mijiaAPI_V2/infrastructure/credential_store.py`, `factory.py` | sealed file, key file, environment | save, load, refresh, open a client, delete | several processes share the directory; the key file is opened, then written, and one may die between | a saved credential can be unsealed |
| Device specifications, `repositories/device_spec_repository.py`, `infrastructure/cache_manager.py`, `domain/models.py` | memory and file entries, map of models to types, its lock | fetch, parse, keep, validate | half-written files, entries of older releases, several threads, publications that change | only what a published specification declares is sent |
| Publication, `deploy/scripts/publish_gitee_release.py` | attachments of the release | find or create, list, delete, upload | an attempt ends between a delete and its upload; an upload given up is stored later | a publication that returned is complete |
| Rate limiter, update checker, command line, protocol, presentation | see `PROJECT.json` | | | |

How they interact.  The page calls the gateway over HTTP; every call may be
lost in either direction.  The routers call `MijiaRuntime`, which shares the
credential file and the registry between request threads, login threads, the
sync thread and the timer, under `_credential_lock`, `_refresh_lock`,
`_sync_lock` and the timer lock.  Every control writes its receipt through the
audit trail.  The runtime builds an SDK client for the stored credential; the
SDK caches the inventory in tiers and talks to the cloud with retries.  Before
a handler runs, the middleware judges the request by the cached configuration
and the guards by the cached validation of its key or session; those caches are
told of a change by the call that made it, and of changes by the command line,
another process, only by the life of their entries.  The Android app runs the
same gateway on a thread of its foreground service.

`PROJECT.json` lists all components (also those left out, with the reason) and
40 hazards at their lines, each with the properties that would catch it.

## 2. What is modelled

### MijiaRuntime, AccountOwnership

`MijiaRuntime` has one action per lock block of `server/mijia_runtime.py`.
`commit_login_credential` and `delete_credential` hold the lock over several
durable writes, so they are several actions with `holder` and `step` between
them: an I/O error or a crash may fall between any two.  Network calls
(`FetchFails`, `ScanConfirmed`, `ExchangeReturns`, `SyncFetched`, ...) are
actions outside the lock.  `Crash` forgets the memory (generation, sequence,
jobs, client, tasks) and keeps the file and the registry.

- A login job goes idle, fetching (`BeginLogin` has cancelled the others),
  registered (`RegisterJob`, or `RejectJob` when a newer attempt exists),
  started, polling, scanned, commit, and is settled in a step of its own
  (`SettleJob`) after the credential lock was released.
- A task is a refresh (by hand or by timer), a control request or a sync.  All
  three go through `_refresh_credential` when the credential expires: the
  refresh lock, the check of the stored token, the exchange, the check again.
- `registry` is the set of accounts that own rows.  A snapshot replaces the
  rows of the homes fetched; which rows remain is open.

`AccountOwnership` is what all this promises: one account, rows of that account
only, and a removed account comes back only through a login that began after
the removal: an attempt begins once, an open one is chosen before it stores
anything, and nothing is open when an account is forgotten.  The refinement
maps the file to `account`, the jobs with the present attempt to `open`, the
thread in the middle of a commit to `storing`, and the jobs used since the
restart to `begun`.

`LoginJobs` is what the runtime promises the login page: jobs given out, at most
one open, one that is over stays over until a restart forgets it.  The mapping
(`shownJobs`) counts a job as given out once `start` has looked whether its
attempt is still the latest.  The one exception is the code's: `start` writes
"failed" over a canceled job when its thread cannot be started
(`mijia_runtime.py:204`).

### SyncServer, SyncProgress

`SyncServer` is `sync_all`, the background run and `_clear_progress_if_task`:
the lock, the seeded record, the thread start (which may fail), the end of the
run, the release of the lock and the cleanup that wakes later, as separate
actions.  The record is reduced to run and status.  `SyncProgress` adds the page: up to three HTTP
calls of the kinds start, recover, resume and poll, each sent, served, then
answered, refused, denied or lost; the composable's refs and generation; the
poll timer; other pages that start runs; the end of a session; restarts.

### RefreshTimer

The timer lock's blocks as actions; `Fire` is the `threading.Timer` that can
no longer be cancelled.  Timers that are over are used again.

### AuditTrail

`add_audit` with its fallback to a file, replays of the server process (under
the journal lock) and of a second process (`server.cli`, no common lock), visit
by visit: read, insert (`INSERT OR IGNORE`), unlink; quarantine of damaged
files; `purge_expired_audit`; `get_audit_event` as two questions.  `Crash`
stops the server process anywhere.

### ControlOperation, DeviceControl

`ControlOperation` follows one control from the router to the cloud: the parts
of a batch one after another, the attempts of each part (a connection that
failed before anything was sent is tried again, nothing else is), the three
things that can happen to a sent request (executed, rejected, lost) and to its
reply, and the receipt `run_audited_control` and the batch build from it.
`DeviceControl` is the dialog on top: open, close, switch, `refreshState` with
its sequence, `submit` with the read-back loop of a write, the unknown outcome
and its acknowledgement.  Requests of API clients share the control path.

### ApiKeys, AdminSessions

Validations of a key or a session token, step by step: the cache is read under
its lock, the row and the hash without it, and the answer or the refill happens
under the lock again, only when the generation is unchanged; if not, the
validation starts over, three times at most.  The generation itself is a
counter that only is compared: a validation carries `current`, whether it is
still the one it noted, and `same`, whether the entry it read is still there.
A change of a key commits first and invalidates in a later step (`KeyCommits`,
`KeyOpReturns`); another process changes rows without invalidating
(`KeyChangedElsewhere`).
`SecretAdmission` is what both promise, without caches, generations and locks:
a request asks with a secret, sees it in force or is turned away, and is let in
only if no call that returned has ended the secret since.  "In force" is an
active row, or a live session within its time, so that changes of other
processes count; "seen" are the steps between the look at the row and the
answer.  `AdminSessions` adds login (check, purge, insert in
three connections) with its lock-out, refresh (invalidate, check, extend),
logout, the change of the password, which spares the session it was made with,
and the reset by the command line.  Expiry and the lives of cache entries are
steps that may happen at any time.

### CredentialFile

`FileCredentialStore` and the factory as programs use them, each program a
process: log in and save, load, load and refresh, open a client, delete.  A save
asks for the secret (environment, key file, or a new key file, opened and
written in two steps) and then replaces the sealed file at once; a load looks
for the file, reads it, asks for the secret, unseals.  A process may be killed
at any step.  Directories from before, with plain files or without their key
file, are initial states.

### DeviceRules, DeviceSpecs

`DeviceRules` is the parsing of a published specification and the validation of
a property's value or an action's arguments, as operators; `SettingDeclared` and
`CallDeclared` say, from the published form alone, what may be set and called.
`DeviceSpecs` is the way of the specification to that validation: memory, file,
download, each tier filled in steps, entries of another schema dropped, half a
file a miss; the map of models to types with its lock and second look; days,
expiry, restarts, new publications.

### RequestAdmission

The middleware of `app.py`: the unlocked look at the map and its age, the load
under `_config_map_lock`, the decision, and the handlers that change what it
reads: `set_config`, the first set-up (its check before the hash, then the
transaction that looks again) and `init --admin` of the command line.  One flag,
`ALLOW_LAN_ACCESS`, stands for the network policy.

### Registry

What `MijiaRuntime` keeps as a set of owners, in detail: a sync enumerates the
homes and then the devices home by home, while the cloud moves devices and
dissolves homes; the snapshot removes the rows of homes no longer listed,
inserts or updates what was found, and prunes homes that were enumerated.
Permissions are set one by one (look-up and write in separate connections) or
in a batch, from a list read earlier.

### ConfigWatcher

The edition of the file stands for time and content.  The loop compares, notes
the time and reads the file in three steps; `stop` returns while the loop may
still make a round.  Such a loop never meets another of the same watcher: each
life of the application makes its own (`app.py:293`), with its own noted time,
and nobody starts one again that was stopped.

### SdkCache

Memory and Redis tiers of the short-lived entries (the list, a device found in
it, its properties), with `get` in its steps (test, take, ask Redis, copy up,
fetch, keep) and the client's controls and refreshes with what they drop.  A
value is the version of the cloud it was fetched from.  `sdkFloor` notes what an
operation that no other call overlapped made visible.

### LoginPage, SessionPage, SceneControl, PermissionPage

The composables and App.vue with every answer late, lost or refused.  In
`LoginPage` the generation and the job's id decide which answers count, and the
server is the contract `LoginJobs` that the runtime is shown to implement: what
other pages, removals and restarts do to the jobs is any step of it; in
`SessionPage` a request carries the cookie of the moment it is sent, and timers
whose handle was overwritten still fire (`pgStrays`).  `SceneControl` gives each
result to the scene it was sent for.  `PermissionPage` has the switch that shows
its value ahead of the request and takes it back on failure, `updateDevice`,
the batch, and loads that replace the rows while a save keeps the old row
object (`listed`).  `ppDoubt` lists the rows that an answer lost, a change by
others, or a list applied after a change it was read before left open: a load
that is overtaken by nothing settles a row, whatever else is under way.

### AndroidService

Callbacks of the service on the main thread, the thread of each start with the
two looks at `stopping`, `runtime.py` with `_server`, `_stop_requested` and
`should_exit`, and the thread of each stop.  An object may be destroyed while its
thread runs, and another made: `active` is static and `runtime.py` has one of
each of its variables, so that the threads of several objects meet there.
`anCrossed` notes the starts for which a thread of another object overwrote one
of them (`Crosses`): took the server's place or withdrew it, forgot a stop that
was asked, or cleared `active` at its end.

### ReleaseMirror

One attempt after another from a fresh inventory: select, download, compare,
verify what is there, upload what is not, final inventory, metadata.  An answer
that is no list counts as an empty inventory (`Listed`).  An upload
given up may be stored later, whole or damaged; maintainers edit the source at
any time.

### ReleasePublish

The other way to Gitee: an attempt finds or creates the release, lists the
attachments (a page, or nothing when the answer is no list), and for each file
deletes the attachment of its name and uploads it.  Attempts fail anywhere and
are run again; between them files are built anew, some perhaps empty.

### Compositions for TLC

`MCAccess`, `MCServices`, `MCStorage` and `MCLiveness` put small components that share no
state side by side: the variable `scene` chooses one, the others stay in their
initial states, so that their states add up instead of multiplying, and a run
keeps one question.  Every behaviour of a component in the run is one of its own
specification, and the other way round.  In `MCLiveness` the fair
actions of each component are numbered, and `Weak(i)` and `Strong(i)` are the
i-th ones of all scenes: since a behaviour stays in its scene, `WF(Weak(i))` is
the fairness the component's module states.

## 3. Runs

| Run | Question | Bounds | States |
|---|---|---|---|
| `account` | ownership, controls, refreshes and truth of login jobs; both refinements | 2 users, 3 tokens, 2 jobs, 2 tasks, 2 attempts | 995k |
| `runtime_liveness` | jobs and tasks end | 1 user, 2 tokens, 2 jobs, 1 task | 116k |
| `access` | who may do what: keys and sessions as admission without a cache, configuration, registry, permission page | 2 keys, 2 tokens, 1 validation each, 2 administrator calls on keys and 1 on sessions, 2 failures to the lock-out; 2 requests; 2 devices, 2 homes, 2 row ids; 2 rows, 2 loads, 2 requests of the page at a time | 1.0M |
| `services` | SDK cache, Android service, mirror, scenes | 2 cache calls, 2 versions of the cloud; 2 starts, 2 stops; 2 names, 2 revisions, 2 copies; 2 scenes | 2.8M |
| `liveness` | what must happen in the end: sync button, timer, audit queue, session, login, watcher | 2 runs, 2 calls, 2 clicks; 3 timers, 6 generations; 2 events, 1 process; 2 sessions, 1 stray timer; 2 logins; 3 edits | 63k |
| `sync_page` | safety of run, record and page | 2 runs, 3 calls, 3 clicks | 289k |
| `sync_own_run` | the comment on `task_id` (**violated**) | | |
| `storage` | what is kept: nothing reported is lost, saved credentials can be read, only declared controls are sent, publications are complete | 2 events, 2 processes, 1 lookup; 2 processes, 3 credentials, 5 secrets; 2 threads, 2 specifications, 1 day; 2 files, 2 builds, 4 attachments, pages of 2 | 2.8M |
| `audit_receipt` | the documented lookup (**violated**) | | |
| `control_page` | control path and dialog | 2 requests, 2 attempts, 2 parts, 1 device, 2 reads, 2 opens | 302k |
| `control_verified` | the documented check (**violated**) | | |
| `control_reads_latest` | the docstring of `control_device` (**violated**) | 1 call, no Redis | |

Why these bounds are enough.  A wrong interleaving of the runtime needs two
accounts, one attempt that is superseded and one that supersedes it, and two
tasks that started before: more users, jobs or tasks only repeat this.
`MaxSequence` bounds the attempts of one process; a crash starts counting
again.  A second run is what makes an old record, an old cleanup or an
old answer possible.  Three timers give a stopped, a running and a new one.
Two events suffice for an order between files (one damaged, one good).
In `control_page` the code's three attempts and five reads are two
each: the first, one in the middle and the last behave alike, and two tell
"again" from "the last time".  With two devices the same run has 980k states
and takes four minutes; it is left at one device because devices
share only the dialog, and the theorems hold for any number.

In `access` one validation meets two administrator calls: each compares with the
generation on its own, so a second one only adds refills of the same kind (its
recheck is the same), and the theorems have any number.  Two keys are needed to
rotate.  Two requests are one that loads the map and one that changes it, or
two first set-ups.  Two homes are a device's old and new one; two row ids
suffice for a row that is pruned and comes back.  Two rows let a batch meet a
single save, and of the page's saves and loads two are under way at a time
(`FewRequests`); the page alone without this bound has 926k states (up to the
exchange of rows and of loads) and holds as well.  One session operation is
under way at a time, so that what meets a half-way refresh in the run is the
command line's reset; `EndedSessionsStayOut` and `ReplacedSessionsEnd` have any
number.  In
`services` two calls are what "overlapped" needs; two starts and two stops let a
stop meet either start, and up to five service objects (each of them alone with
three starts and two stops, or two and three, has six million states and holds
as well); two names with two revisions make a damaged, an
outdated and a missing attachment.  In `liveness` three edits put one before, one
during and one after a round of the loop, one stray timer stands for any number
(they do the same), and two logins are the one that is outdated and the one
that outdates it.

In `storage` two processes are what a race for the key file takes; three
credentials let a second save and a refresh follow the first.  One control per
thread is enough, since the request is only looked at when the specification is
there; the second specification narrows a range and swaps two inputs, so that
an entry of the first is told from one of the second.  Two attachments to a
page and two files make a listing that does not show all there is.

Symmetry is used only in runs whose temporal properties are action properties
or refinements of safety, on sets whose members the model never orders.

Deadlock is checked in `account`, `runtime_liveness`, `access` and
`storage`.  It is not in the others: clicks, generations, edits, starts,
copies, requests and openings are bounded, and when they are used up the system
rightly rests.

### Fairness

- Runtime (`FairSpec`): threads run, network calls return or time out (all
  have timeouts).  Strong fairness for jobs and tasks stands for locks that
  are free again and again: Python's locks are not first-come, but the holder
  never waits for a thread that waits.  The removal needs weak fairness
  only, it holds its lock.  Two refreshers that compete for the refresh lock are in
  `account` (safety), not in the liveness instance, which has one task.
- Sync page: the server's threads run, timers fire, and a call that is
  repeated forever is not lost every time (strong fairness of `Serve` and of
  an answered `Continue`).  `ButtonComesBack` is checked without refused access
  (`Denies = FALSE`) and without failing thread starts (`ThreadsFail = FALSE`)
  because it does not hold with them, see below.
- Timer: its thread runs.
- Audit: the replay is called every ten seconds, and neither the database nor
  the directory fails every time.
- Session page: timers fire; a refresh or logout that is asked again and
  again is served, and its answer arrives, in the end.  `EndedSessionIsNoticed`
  excludes a page restored from local storage before its first refresh
  (`pgRestored`): when the public state cannot be read, that refresh is not
  asked and no timer stands in for it (`App.vue:283`).
- Login page: timers fire, and a poll repeated forever is not lost forever.
  `ToldSuccessIsTheLatest` is a safety property; it is in this run because the
  instance is.  The same holds of `LogoutIsFinal` and `OneChain`.
- Watcher: its loop runs.
- Controls: the page's own steps and answers of state reads proceed (calls
  end, if only by an error).  Nothing is assumed of the user, the
  server or the cloud.

### What the violated runs show

1. `sync_own_run`: the composable's comment promises that only the progress of
   the run it started is applied.  A refresh whose GET was served before the
   click applies the previous run's record after the POST returned; the page
   shows it as finished and no longer follows the new run.
2. `audit_receipt`: `get_audit_event` may ask the database before a replay
   inserts the event and the journal after it unlinked the file, and answers
   "not found" for a receipt that the guide says is found.  The next request
   finds it.
3. `control_verified`: a state read that the server answered before the control
   unlocks the acknowledgement of an unknown outcome, where the guide asks for
   the latest state.
4. `control_reads_latest`: without a home id, `control_device` drops the device's
   entries and then looks the device up to learn its home; the look-up copies
   the entry out of the list, which is still cached from before the control,
   and only the list is dropped afterwards.  One call and nobody else suffice.
   The next `get_device` returns the state from before the control until the
   entry expires, where the docstring promises the latest.

Met while modelling, and no documented promise:

- a sync thread that cannot be started leaves a record "running" that nothing
  ends (`mijia_runtime.py:503`), a 403 while polling leaves the button disabled
  until the user refreshes (`useSyncProgress.ts:152`), and a failed start
  recovered by an old completed record ends without a message
  (`useSyncProgress.ts:205`);
- a login that checked the old password before a change of it opens its session
  after the change ended the others (`store_auth.py:127`);
- a stop that was asked before a start arrived posts its `stopSelf` after it, and
  the service is destroyed under the thread of that start
  (`ServerService.java:138-149`).  If another start then makes a new object, its
  thread resets `_stop_requested` (`runtime.py:18`), takes `_server` or clears
  `active` at its end, which all objects share: the first server is not told to
  exit, and nobody is left to tell it.  `StopIsHeeded` excuses exactly these
  starts (`anCrossed`), and without the excuse TLC finds it violated;
- a list that was read before a permission was stored and is applied after it shows
  the old permission, and of two loads that overtake each other the older one is
  shown, until the next load (`App.vue:266`);
- a device that moves between two homes while a sync enumerates them may be found
  in neither: its row is pruned, and it comes back with "read"
  (`store_registry.py:323`).  The decision is lost, to the safe side
  (`GrantsAreMeant`);
- an attachment stored twice by an upload that was given up makes the mirror's
  later attempts fail until somebody removes one (`sync_gitee_releases.py:94`):
  nothing false is reported;
- the page's 401 of an earlier session signs a new one out of the page
  (`useAdminSession.ts:174`), and saving the alias of a row writes back the
  permission the row shows (`App.vue:588`);
- the map of models to types is kept in the process for good once it was found,
  although `device_spec_repository.py:43` gives it 24 hours: a model that is
  listed later stays unknown, however long the process runs, until somebody
  calls `clear_model_type_mapping_cache` or restarts it, and then up to a day
  more while the file holds;
- `publish_gitee_release.py:185` lists attachments without asking for a page,
  where `sync_gitee_releases.py:156` knows of Gitee's default of 20: an attachment
  past it is not deleted before the new one is uploaded, and both stay
  (`pbUnseen`);
- a key file left empty by a crash between its opening and its writing refuses
  every save until somebody removes it, and two processes that both find no key
  file may seal with a secret the other overwrites (`cfClash`), after which the
  saved credential cannot be read;
- `save_credential` of the login provider says that it deletes when given none,
  and raises; `create_api_client_from_file` reports a file it could not unseal
  as not found;
- an edited configuration file that cannot be parsed is not tried again until
  the next edit (`config.py:53`), and an edit between the first reading and the
  start of the watcher counts as read (`config_watcher.py:45`).

### Mutants

Every property of a passing run has a mutant: an operator next to a mapped
definition (`CancelPendingOnly`, `KeyFillsAnyway`, `LoopReadsThenNotes`, ...)
that changes it as a plausible bug would.  With the mutant in place TLC finds
the property violated in the same run.

## 4. What is proved

All proofs are for any finite or infinite sets in the constants; they assume
only the named assumptions beside the constants (distinct model values, a
positive number of attempts and so on).

- `MijiaRuntimeProofs`.  The inductive invariant is built in layers.  `TypeOK`
  and `Shape` (what each program counter implies of a job or task) come first.
  `LockInv` says what the file and registry look like at each write of the two
  long lock blocks; without it `RegistryOwned` is not inductive, since the rows
  of another account are legal exactly while the file is empty.  `TaskInv`
  adds that a task of the present generation belongs to the stored account.
  Together they are `OwnerInv`, which gives
  `RegistryIsOwned` and `ControlIsOwned`.  `RefreshInv` adds mutual exclusion
  of the refresh lock (`RefreshIsCurrent`).  `JobInv` adds that at most one job
  holds the present attempt and that a committed, not yet settled job still has
  its account stored unless it was cancelled; this gives `ScanningIsTheLatest`,
  `CanceledIsFinal`, `SuccessIsStored` and, with the refinement mappings,
  `RuntimeImplementsOwnership` and `RuntimeServesLogins`; that one login is open
  at a time (`OneLoginIsOpen`) then follows from the contract alone.
  `LocksAreReleased` is the part of `TasksReturn` that is no liveness: whoever
  holds the credential or refresh lock is in a step that goes on to release it,
  so no thread waits for one that has left.
- `SyncServerProofs`.  The server's own invariant: the lock names the run that
  is under way and the record is at least as new.  The page's specification is
  shown to implement the server's (`PageUsesServer`), so the results carry over
  to the composition without looking at the page again.  `SyncingStaysAttended`
  is about the page: `PageInv` says that a timer or a poll of the present
  generation is there exactly while the page polls, and that no call is of a
  generation to come; each function of the composable either polls on in its
  generation or begins another one in which nothing is left to wait for.
- `StorageProofs`.  `ReceiptKept` from: an event in a replay's hand past its
  insert is in the table, and one reported is in the table or has a file.
  `SavedStaysReadableAlways`: each secret a process holds for sealing is the
  environment's or what the key file holds (`EnvironmentSeals`, `KeyFileSeals`),
  since a key file is only made where none is; from it also
  `SecretsOutliveSaves`: while two do not make the key at once, the secret a
  saved file needs is never replaced.  `PublicationsAreComplete`: ids are given
  once (`IdsAreGivenOnce`), and what an attempt took off its list is stored with
  the content of the build, once unless something was not seen (`PublishedSoFar`,
  `OnceSoFar`); a delete cannot take it, since it names an id from before.
  `OnlyDeclaredIsEverSent`: every entry in memory, in a file of the present
  schema or in a thread's hand is of a specification that was served
  (`EntriesAreSound`), and what the parsed form accepts the published form
  declares, a lemma on `DeviceRules` for any specification, value and
  arguments.  `ListIsDownloadedOnce`: the map is read and filled under its lock.
- `DeviceControlProofs`.  The control path alone, by the count of a part's
  requests (done + in transit is at most the acknowledged ones plus one, and
  equal to them except while waiting); then the page, whose outcomes refer to a
  control that is over and whose facts are stable.
- `CredentialsProofs`.  `KeyInv`: types, the row of a key under change exists,
  keys noted as revoked are off in the table and the cache, and
  (`TrustedKeysStand`) a validation whose generation is still current and that
  is to recheck, answer or refill holds a key that was not revoked.
  `RevokedKeysStayOut` needs the last part: a validation half way is harmless
  exactly because its generation is outdated when it gets there.
  `KeysAreAdmitted` goes further: validations implement `SecretAdmission`, so
  that a request is let in only with a key that was active at some moment of
  its last try, whichever process turned it off.  Every step maps to a step of
  the abstract one or a stutter; a change of rows maps to `Changes`, and a
  retry to `AskAgain`.  `SesInv` is
  the same for tokens, where a revoked row never lives again although refresh
  works in three steps; from it `ReplacedSessionsEnd`, `EndedSessionsStayOut` and
  `SessionsAreAdmitted`.
- `AccessProofs`.  `CfgInv`: at most one administrator; the loader holds the
  lock; while a change is settled the cached map, and what a loader read, is
  that change (`SettledIsCached`); a request that is due a value and has read
  the map has read that value (`DueIsRead`).  From it `OneAdministratorEver` and
  `AdmissionIsCurrent`.  `RegInv`: a row id names one device for ever
  (`IdsName`), and what an update is about to write is meant for the device it
  will reach (`UpdateIsMeant`); from it `GrantsStayMeant` and
  `DecisionsOutliveSyncs`.  `PpInv`: the answer of a save, a batch or a load will
  find the row as the page assumes, unless the row is in doubt (`SaveKnows`,
  `BulkKnows`), what a load may vouch for is as it read it (`CleanIsCurrent`), and a batch has the rows for itself; from it
  `RowsAreTrue`.
- `PagesProofs`.  `ScenesRunOnce`: a scene that was run and not acknowledged is
  shown busy or unknown.  `LogoutStaysFinal`: a logout that was sent is alone,
  since it waited for the refresh.  `LatestIsTold`: the job shown is the latest
  or none.
- `ServicesProofs`.  `TimerKeepsOneChain`: the pending timer is the live one, and
  a generation of the past is never live again.  `UndisturbedChangesAreSeen`:
  each cache tier has a floor below which it holds nothing, a call carries
  nothing below the floor of where it will put it, and a call that met no other
  has cleared what it is about to raise; the floors of the list are never
  behind those of the device, which it is read with.  `StopsAreHeeded`: each
  object has one thread of a start at a time, of its present generation
  (`OneRunEach`); a start that no thread of another object crossed counts as
  active, was told to stop if its object is gone, and its server is the one
  that is published (`Uncrossed`); and a stop that came after both its looks at
  the flag left `_stop_requested` set, or `should_exit`, or is still to call
  (`StopsArePassedOn`).  Any number of objects may overlap.
  `VerifiedIsFaithful`: what an attempt took off its plan is on the mirror, from
  which nothing is removed.

`ScanningIsTheLatest`, `CanceledIsFinal`, `RevokedKeysStayOut`,
`EndedSessionsStayOut` and `ProgressOnlyMovesOn` state properties that no run
lists any more: the runs check the refinement or invariant that implies them.
`SecretsStay`, `ListDownloadedOnce` and `LocksAreOwned` are proved beside them;
TLC finds them true on the instances of `storage` and `account` as well.

Only model-checked: the liveness properties (`TasksReturn`, `LoginJobsFinish`,
`ButtonComesBack`, `ChecksGoOn`, `QueueDrains`, `ControlsComeBack`,
`EndedSessionIsNoticed`, `EditsAreRead`), since liveness under fairness is
beyond the prover.

## 5. Assumptions and what is left out

- A credential is a user and a token; a token in use is not issued again.
  Expiry is open: a credential read may be fresh or expiring.
- A lock block that makes one durable write is atomic; SQLite transactions are
  atomic, and a file is replaced atomically (temporary file and rename).
- `RejectedByCloud` takes an error code of the cloud for the whole request, or a
  4xx, to mean that nothing was executed; the cloud is external.
- A batch part (20 items in the code) is one item; results within a part
  are not told apart.
- A key, session token or row id is one value with its hash and row; ids (UUIDs,
  random tokens) are not issued twice.  Hashing is an opaque step between two
  others.
- `DeviceControl` covers one lifetime of the page's memory: a reload or the end
  of a session (App.vue:116-120) begins a new one.  Drafts are left out; what
  the server validates a control against is in `DeviceSpecs`, apart from it.
- The audit journal's limit per replay, temporary files and redaction are left
  out; a replay visits all the files it listed unless a failure ends it.
- `Registry` leaves out slugs, aliases and hidden flags, and the rows of scenes,
  which are reconciled and authorised like devices.  The use of a permission,
  with the gap between its check and the dispatch (`mijia_runtime.py:729`), is
  not composed with it.
- `SdkCache` leaves out the file tier (entries that live longer than five minutes;
  those of specifications are in `DeviceSpecs`), statistics and scenes.  Lives are not
  timed: an entry may expire at any moment.
- `CredentialFile`: the sealing is a pair of credential and secret, and AES-GCM
  tells a wrong secret (external).  The environment's secret does not change
  while processes run.
- `DeviceRules` has one service and numbers in halves; `DeviceSpecs` has one
  device, and Redis is left to `SdkCache`.  A written file may be half there, not
  wrong: a foreign entry is one the schema rejects.
- `ReleasePublish`: the files given to one attempt differ in name, and nobody else
  edits the attachments of the release.
- `AndroidService` leaves out the health thread, the wake lock, the notification
  and the addresses it shows.
- Rate limiter and update checker: each is one dictionary or record under one
  lock for the whole operation, the updater's network call included; there is
  no interleaving to check, and their boundaries are within a unit test's
  reach.
- Not modelled at all, and why: see the components of `PROJECT.json` with
  status `not_modelled`.  In short: byte-level protocol, most data classes and
  translations (sequential, reached by unit tests), presentation and build
  tooling.

## 6. Plan

Done, in this order: the account runtime and its abstract specification; the
sync task and its page; the timer; the audit trail; controls and their page;
keys, sessions and admission with their proofs; the registry; the SDK cache; the
other pages; the watcher, the Android service and the mirror; the proofs of all
their safety properties; the credential files, the specifications and the
publication, with theirs; the contracts `LoginJobs` (between the runtime and the
login page) and `SecretAdmission` (over keys and sessions).

What would be worth doing next:

1. `Registry` refined into the ownership of `MijiaRuntime`, and composed with the
   control path so that a permission taken away and a control in flight meet.
2. A contract between `SessionPage` and `AdminSessions` as `LoginJobs` is one, in
   place of the server part the page restates.
3. The health thread of the Android service and its address book.
