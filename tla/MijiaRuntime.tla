---------------------------- MODULE MijiaRuntime ----------------------------
(***************************************************************************)
(* The account lifecycle of server/mijia_runtime.py: QR login jobs, the    *)
(* removal of the account, token refreshes, control requests and resource  *)
(* synchronisation, all sharing one credential file and one registry.      *)
(*                                                                         *)
(* Every `with self._credential_lock` block is one action, except the two  *)
(* that write several durable things in a row (commit_login_credential and *)
(* delete_credential): those hold the lock over several actions, so that   *)
(* an I/O error or a crash can fall between two writes.  Network calls are *)
(* made without the lock: everything may happen before the next block.     *)
(***************************************************************************)
EXTENDS Naturals

CONSTANTS Users,        \* Xiaomi accounts (Credential.user_id)
          Tokens,       \* service tokens; one that is in use is not issued again
          Jobs,         \* LoginJob ids (uuid4), each used once per process
          Tasks,        \* threads that run a refresh, a control call or a sync
          Admin,        \* the thread that runs delete_credential
          None,         \* no credential, no client
          Nobody,       \* a free lock
          MaxSequence   \* bound on _login_sequence within one process

ASSUME ConstantsAssumption ==
  /\ None \notin Users \cup Jobs \cup [user : Users, token : Tokens]
  /\ Admin \notin Jobs
  /\ Nobody \notin Jobs \cup Tasks \cup {Admin}

VARIABLES
  credentialFile,       \* configs/credential.json: a credential or None
  registry,             \* accounts that own rows of the synced registry tables
  accountGeneration,    \* self._account_generation
  loginSequence,        \* self._login_sequence
  apiClient,            \* account of the shared MijiaAPI object, or None
  holder,               \* thread in the middle of a multi-write lock block
  step,                 \* the write that thread makes next
  refreshLock,          \* owner of self._refresh_lock
  job,                  \* LoginJobManager._jobs and the thread of each job
  task                  \* the running refresh, control and sync threads

durable == <<credentialFile, registry>>
memory  == <<accountGeneration, loginSequence, apiClient>>
shared  == <<durable, memory, holder, step, refreshLock>>
vars    == <<shared, job, task>>

Credential == [user : Users, token : Tokens]
Attempt    == [generation : Nat, sequence : Nat]
Active     == {"pending", "scanning"}
Terminal   == {"success", "failed", "canceled"}

(* Where the code that serves a login job stands. *)
JobPc == {"idle", "fetching", "registered", "started", "polling", "scanned",
          "commit", "committed", "superseded", "broken", "done"}

JobStatus == {"none"} \cup Active \cup Terminal

JobRecord == [pc : JobPc, status : JobStatus,
              attempt : Attempt, user : Users \cup {None}]

NewJob == [pc |-> "idle", status |-> "none",
           attempt |-> [generation |-> 0, sequence |-> 0], user |-> None]

TaskPc == {"idle", "require", "queued", "exchange", "save", "fallback",
           "build", "ready", "snapshot"}

TaskRecord == [pc : TaskPc, kind : {"refresh", "control", "sync"},
               generation : Nat, credential : Credential \cup {None},
               targets : SUBSET Users, client : Users \cup {None}]

NoTask == [pc |-> "idle", kind |-> "refresh", generation |-> 0,
           credential |-> None, targets |-> {}, client |-> None]

Init ==
  /\ credentialFile = None
  /\ registry = {}
  /\ accountGeneration = 0
  /\ loginSequence = 0
  /\ apiClient = None
  /\ holder = Nobody
  /\ step = "none"
  /\ refreshLock = Nobody
  /\ job = [j \in Jobs |-> NewJob]
  /\ task = [t \in Tasks |-> NoTask]

----------------------------------------------------------------------------
(* Helpers. *)

CurrentAttempt == [generation |-> accountGeneration, sequence |-> loginSequence]

(* A faulty variant that forgets that a newer attempt supersedes a job. *)
IsCurrentGenerationOnly(j) == job[j].attempt.generation = accountGeneration

IsCurrentLoginAttempt(j) == job[j].attempt = CurrentAttempt

UsedTokens ==
  { c.token : c \in ({credentialFile} \cup {task[t].credential : t \in Tasks})
                      \ {None} }

(* A faulty variant: the jobs that are being scanned are skipped. *)
CancelPendingOnly ==
  [j \in Jobs |-> IF job[j].status = "pending"
                  THEN [job[j] EXCEPT !.status = "canceled"]
                  ELSE job[j]]

(* LoginJobManager.cancel_pending: every job that is not finished. *)
CancelPending ==
  [j \in Jobs |-> IF job[j].status \in Active
                  THEN [job[j] EXCEPT !.status = "canceled"]
                  ELSE job[j]]

JobAt(j, pc) == job' = [job EXCEPT ![j].pc = pc]
JobShows(j, pc, s) == job' = [job EXCEPT ![j].pc = pc, ![j].status = s]

(* Every task captures the account generation in its first lock block. *)
NewTask(pc, kind, c, owners) ==
  [pc |-> pc, kind |-> kind, generation |-> accountGeneration,
   credential |-> c, targets |-> owners, client |-> None]

TaskBegins(t, r) == task' = [task EXCEPT ![t] = r]
TaskAt(t, pc) == task' = [task EXCEPT ![t].pc = pc]
TaskHolds(t, pc, c) == task' = [task EXCEPT ![t].pc = pc, ![t].credential = c]
TaskEnds(t) == task' = [task EXCEPT ![t] = NoTask]

(* A faulty variant: the result of an outdated task is accepted. *)
AnyGeneration(t) == task[t].generation <= accountGeneration

(* _check_account_generation succeeds. *)
SameGeneration(t) == task[t].generation = accountGeneration

(* _check_account_generation and _load_required_credential both succeed. *)
AccountStands(t) == SameGeneration(t) /\ credentialFile # None

StoredUserIs(u) == credentialFile # None /\ credentialFile.user = u

----------------------------------------------------------------------------
(* QR login: LoginJobManager.start and _wait_and_save. *)

BeginLogin(j) ==
  /\ holder = Nobody
  /\ job[j].pc = "idle"
  /\ loginSequence < MaxSequence
  /\ loginSequence' = loginSequence + 1
  /\ job' = [CancelPending EXCEPT ![j] =
               [pc |-> "fetching", status |-> "none", user |-> None,
                attempt |-> [generation |-> accountGeneration,
                             sequence |-> loginSequence + 1]]]
  /\ UNCHANGED <<durable, accountGeneration, apiClient, holder, step,
                 refreshLock, task>>

FetchFails(j) ==
  /\ job[j].pc = "fetching"
  /\ JobAt(j, "done")
  /\ UNCHANGED <<shared, task>>

RegisterJob(j) ==
  /\ job[j].pc = "fetching"
  /\ JobShows(j, "registered", "pending")
  /\ UNCHANGED <<shared, task>>

(* A faulty variant: the job is dropped but still shows "pending". *)
RejectJobSilently(j) ==
  /\ holder = Nobody
  /\ job[j].pc = "registered"
  /\ ~IsCurrentLoginAttempt(j)
  /\ JobAt(j, "done")
  /\ UNCHANGED <<shared, task>>

(* The attempt may have been superseded before the job was in the table. *)
RejectJob(j) ==
  /\ holder = Nobody
  /\ job[j].pc = "registered"
  /\ ~IsCurrentLoginAttempt(j)
  /\ JobShows(j, "done", "canceled")
  /\ UNCHANGED <<shared, task>>

StartThread(j) ==
  /\ holder = Nobody
  /\ job[j].pc = "registered"
  /\ IsCurrentLoginAttempt(j)
  /\ JobAt(j, "started")
  /\ UNCHANGED <<shared, task>>

(* thread.start() raised; unlike the thread, start() overwrites any status. *)
ThreadFails(j) ==
  /\ job[j].pc = "started"
  /\ JobShows(j, "done", "failed")
  /\ UNCHANGED <<shared, task>>

BeginPolling(j) ==
  /\ job[j].pc = "started"
  /\ IF job[j].status = "canceled"
     THEN JobAt(j, "done")
     ELSE JobShows(j, "polling", "scanning")
  /\ UNCHANGED <<shared, task>>

(* The long poll returns: the account u has confirmed the QR code. *)
ScanConfirmed(j, u) ==
  /\ holder = Nobody
  /\ job[j].pc = "polling"
  /\ IF IsCurrentLoginAttempt(j)
     THEN job' = [job EXCEPT ![j].pc = "scanned", ![j].user = u]
     ELSE JobAt(j, "superseded")
  /\ UNCHANGED <<shared, task>>

(* The poll times out or fails, or the callback has no serviceToken. *)
LoginFails(j) ==
  /\ job[j].pc \in {"polling", "scanned"}
  /\ JobAt(j, "broken")
  /\ UNCHANGED <<shared, task>>

(* commit_login_credential enters its lock block. *)
CommitRejected(j) ==
  /\ holder = Nobody
  /\ job[j].pc = "scanned"
  /\ ~IsCurrentLoginAttempt(j)
  /\ JobAt(j, "superseded")
  /\ UNCHANGED <<shared, task>>

CommitBegins(j) ==
  /\ holder = Nobody
  /\ job[j].pc = "scanned"
  /\ IsCurrentLoginAttempt(j)
  /\ accountGeneration' = accountGeneration + 1
  /\ apiClient' = None
  /\ holder' = j
  /\ step' = IF StoredUserIs(job[j].user) THEN "save" ELSE "delete"
  /\ JobAt(j, "commit")
  /\ UNCHANGED <<durable, loginSequence, refreshLock, task>>

SaveLogin(j) ==
  /\ holder = j
  /\ step = "save"
  /\ \E k \in Tokens \ UsedTokens :
       credentialFile' = [user |-> job[j].user, token |-> k]
  /\ holder' = Nobody
  /\ step' = "none"
  /\ JobAt(j, "committed")
  /\ UNCHANGED <<registry, memory, refreshLock, task>>

(* One of the three writes of the commit raises: fail closed. *)
CommitFails(j) ==
  /\ holder = j
  /\ holder' = Nobody
  /\ step' = "none"
  /\ JobAt(j, "broken")
  /\ UNCHANGED <<durable, memory, refreshLock, task>>

(* A faulty variant: the thread overwrites the status of a canceled job. *)
SettleJobBlindly(j, s) ==
  /\ \/ job[j].pc = "committed"  /\ s = "success"
     \/ job[j].pc = "superseded" /\ s = "canceled"
     \/ job[j].pc = "broken"     /\ s = "failed"
  /\ JobShows(j, "done", s)
  /\ UNCHANGED <<shared, task>>

(* The last block of the thread: success, or one of the except branches;   *)
(* it leaves the status of a canceled job alone.                           *)
SettleJob(j, s) ==
  /\ \/ job[j].pc = "committed"  /\ s = "success"
     \/ job[j].pc = "superseded" /\ s = "canceled"
     \/ job[j].pc = "broken"     /\ s = "failed"
  /\ IF job[j].status = "canceled" THEN JobAt(j, "done")
                                  ELSE JobShows(j, "done", s)
  /\ UNCHANGED <<shared, task>>

----------------------------------------------------------------------------
(* Removing the account: delete_credential, and the writes it shares with  *)
(* commit_login_credential.                                                *)

DeleteBegins ==
  /\ holder = Nobody
  /\ loginSequence < MaxSequence
  /\ accountGeneration' = accountGeneration + 1
  /\ loginSequence' = loginSequence + 1
  /\ job' = CancelPending
  /\ apiClient' = None
  /\ holder' = Admin
  /\ step' = "delete"
  /\ UNCHANGED <<durable, refreshLock, task>>

DeleteFile ==
  /\ step = "delete"
  /\ credentialFile' = None
  /\ step' = "clear"
  /\ UNCHANGED <<registry, memory, holder, refreshLock, job, task>>

ClearSyncedRegistries ==
  /\ step = "clear"
  /\ registry' = {}
  /\ IF holder = Admin
     THEN holder' = Nobody /\ step' = "none"
     ELSE step' = "save" /\ UNCHANGED holder
  /\ UNCHANGED <<credentialFile, memory, refreshLock, job, task>>

DeleteFails ==
  /\ holder = Admin
  /\ holder' = Nobody
  /\ step' = "none"
  /\ UNCHANGED <<durable, memory, refreshLock, job, task>>

----------------------------------------------------------------------------
(* Requests that need the account.                                         *)

(* refresh_credential, and _credential_refresh_job near the expiry.        *)
StartRefresh(t) ==
  /\ holder = Nobody
  /\ task[t].pc = "idle"
  /\ credentialFile # None
  /\ TaskBegins(t, NewTask("queued", "refresh", credentialFile, {}))
  /\ UNCHANGED <<shared, job>>

(* get_device_state, set_device_property, call_device_action,              *)
(* batch_set_properties, get_device_spec, execute_scene: the rows are      *)
(* looked up, and the generation captured, in one lock block.              *)
StartControl(t, owners) ==
  /\ holder = Nobody
  /\ task[t].pc = "idle"
  /\ owners # {}
  /\ TaskBegins(t, NewTask("require", "control", None, owners))
  /\ UNCHANGED <<shared, job>>

(* sync_all: _sync_lock admits one synchronisation at a time.              *)
StartSync(t) ==
  /\ holder = Nobody
  /\ task[t].pc = "idle"
  /\ \A s \in Tasks : task[s].kind # "sync"
  /\ TaskBegins(t, NewTask("require", "sync", None, {}))
  /\ UNCHANGED <<shared, job>>

(* AccountChangedError or a missing credential, in any lock block of a     *)
(* task that does not hold the refresh lock: the exception leaves it.      *)
AccountGone(t) ==
  /\ holder = Nobody
  /\ \/ task[t].pc \in {"require", "fallback", "build"} /\ ~AccountStands(t)
     \/ /\ task[t].pc = "queued"
        /\ refreshLock = Nobody
        /\ ~(SameGeneration(t) /\ StoredUserIs(task[t].credential.user))
     \/ task[t].pc = "snapshot" /\ ~SameGeneration(t)
  /\ TaskEnds(t)
  /\ UNCHANGED <<shared, job>>

(* _require_credential: the stored credential is far from its expiry...    *)
CredentialFresh(t) ==
  /\ holder = Nobody
  /\ task[t].pc = "require"
  /\ AccountStands(t)
  /\ TaskAt(t, "build")
  /\ UNCHANGED <<shared, job>>

(* ... or it is near and has to be refreshed first.                        *)
CredentialExpiring(t) ==
  /\ holder = Nobody
  /\ task[t].pc = "require"
  /\ AccountStands(t)
  /\ TaskHolds(t, "queued", credentialFile)
  /\ UNCHANGED <<shared, job>>

AfterRefresh(t) ==
  IF task[t].kind = "refresh" THEN TaskEnds(t)
                              ELSE TaskHolds(t, "build", None)

AfterRefreshError(t) ==
  IF task[t].kind = "refresh" THEN TaskEnds(t)
                              ELSE TaskHolds(t, "fallback", None)

(* A faulty variant: refreshes are not serialised by _refresh_lock. *)
RefreshEntryUnserialised(t) ==
  /\ holder = Nobody
  /\ task[t].pc = "queued"
  /\ SameGeneration(t)
  /\ StoredUserIs(task[t].credential.user)

(* _refresh_credential, first block, with the refresh lock taken.          *)
RefreshEntry(t) ==
  /\ holder = Nobody
  /\ refreshLock = Nobody
  /\ task[t].pc = "queued"
  /\ SameGeneration(t)
  /\ StoredUserIs(task[t].credential.user)

(* Somebody else has refreshed the token while this task waited.           *)
AlreadyRefreshed(t) ==
  /\ RefreshEntry(t)
  /\ credentialFile.token # task[t].credential.token
  /\ AfterRefresh(t)
  /\ UNCHANGED <<shared, job>>

AcquireRefresh(t) ==
  /\ RefreshEntry(t)
  /\ credentialFile.token = task[t].credential.token
  /\ refreshLock' = t
  /\ TaskAt(t, "exchange")
  /\ UNCHANGED <<durable, memory, holder, step, job>>

(* CredentialProvider.refresh: the network exchange returns or fails.      *)
ExchangeReturns(t) ==
  /\ task[t].pc = "exchange"
  /\ TaskAt(t, "save")
  /\ UNCHANGED <<shared, job>>

ExchangeFails(t) ==
  /\ task[t].pc = "exchange"
  /\ refreshLock' = Nobody
  /\ AfterRefreshError(t)
  /\ UNCHANGED <<durable, memory, holder, step, job>>

(* _refresh_credential, second block.                                      *)
StillCurrent(t) == AccountStands(t) /\ credentialFile = task[t].credential

SaveRefreshed(t) ==
  /\ holder = Nobody
  /\ task[t].pc = "save"
  /\ StillCurrent(t)
  /\ \E k \in Tokens \ UsedTokens :
       credentialFile' = [task[t].credential EXCEPT !.token = k]
  /\ refreshLock' = Nobody
  /\ AfterRefresh(t)
  /\ UNCHANGED <<registry, memory, holder, step, job>>

SaveRefreshedFails(t) ==
  /\ holder = Nobody
  /\ task[t].pc = "save"
  /\ StillCurrent(t)
  /\ refreshLock' = Nobody
  /\ AfterRefreshError(t)
  /\ UNCHANGED <<durable, memory, holder, step, job>>

(* A faulty variant: the refresh lock is kept when the result is discarded. *)
DiscardRefreshedLocked(t) ==
  /\ holder = Nobody
  /\ task[t].pc = "save"
  /\ ~StillCurrent(t)
  /\ TaskEnds(t)
  /\ UNCHANGED <<shared, job>>

DiscardRefreshed(t) ==
  /\ holder = Nobody
  /\ task[t].pc = "save"
  /\ ~StillCurrent(t)
  /\ refreshLock' = Nobody
  /\ TaskEnds(t)
  /\ UNCHANGED <<durable, memory, holder, step, job>>

(* The refresh failed but the stored credential may still be valid.        *)
Fallback(t) ==
  /\ holder = Nobody
  /\ task[t].pc = "fallback"
  /\ AccountStands(t)
  /\ \/ TaskAt(t, "build")
     \/ TaskEnds(t)
  /\ UNCHANGED <<shared, job>>

(* _api_with_generation, last block: the shared client is reused when it   *)
(* belongs to the stored user, and replaced otherwise; a reference to it   *)
(* keeps its account, since update_credential never changes the user.      *)
BuildClient(t) ==
  /\ holder = Nobody
  /\ task[t].pc = "build"
  /\ AccountStands(t)
  /\ apiClient' = credentialFile.user
  /\ task' = [task EXCEPT ![t].pc = "ready", ![t].client = apiClient']
  /\ UNCHANGED <<durable, accountGeneration, loginSequence, holder, step,
                 refreshLock, job>>

(* The control request goes out on the client, or fails: both end it.      *)
Dispatch(t) ==
  /\ task[t].pc = "ready"
  /\ task[t].kind = "control"
  /\ TaskEnds(t)
  /\ UNCHANGED <<shared, job>>

SyncFetched(t) ==
  /\ task[t].pc = "ready"
  /\ task[t].kind = "sync"
  /\ TaskAt(t, "snapshot")
  /\ UNCHANGED <<shared, job>>

SyncFails(t) ==
  /\ \/ task[t].pc = "ready" /\ task[t].kind = "sync"
     \/ task[t].pc = "snapshot" /\ holder = Nobody
  /\ TaskEnds(t)
  /\ UNCHANGED <<shared, job>>

(* replace_synced_snapshot in one transaction: rows of homes whose fetch   *)
(* failed are kept, the others are replaced by what the account has.       *)
CommitSnapshot(t, kept, fetched) ==
  /\ holder = Nobody
  /\ task[t].pc = "snapshot"
  /\ SameGeneration(t)
  /\ registry' = kept \cup fetched
  /\ TaskEnds(t)
  /\ UNCHANGED <<credentialFile, memory, holder, step, refreshLock, job>>

----------------------------------------------------------------------------
(* The process dies and is started again: only the files survive.          *)
Crash ==
  /\ accountGeneration' = 0
  /\ loginSequence' = 0
  /\ apiClient' = None
  /\ holder' = Nobody
  /\ step' = "none"
  /\ refreshLock' = Nobody
  /\ job' = [j \in Jobs |-> NewJob]
  /\ task' = [t \in Tasks |-> NoTask]
  /\ UNCHANGED durable

JobStep(j) ==
  \/ FetchFails(j) \/ RegisterJob(j) \/ RejectJob(j) \/ StartThread(j)
  \/ ThreadFails(j) \/ BeginPolling(j) \/ LoginFails(j)
  \/ \E u \in Users : ScanConfirmed(j, u)
  \/ CommitRejected(j) \/ CommitBegins(j) \/ SaveLogin(j) \/ CommitFails(j)
  \/ \E s \in Terminal : SettleJob(j, s)

RemovalStep == DeleteFile \/ ClearSyncedRegistries \/ DeleteFails

TaskStep(t) ==
  \/ AccountGone(t) \/ CredentialFresh(t) \/ CredentialExpiring(t)
  \/ AlreadyRefreshed(t) \/ AcquireRefresh(t)
  \/ ExchangeReturns(t) \/ ExchangeFails(t)
  \/ SaveRefreshed(t) \/ SaveRefreshedFails(t) \/ DiscardRefreshed(t)
  \/ Fallback(t) \/ BuildClient(t) \/ Dispatch(t)
  \/ SyncFetched(t) \/ SyncFails(t)
  \/ \E kept \in SUBSET registry, fetched \in SUBSET {task[t].client} :
       CommitSnapshot(t, kept, fetched)

Request ==
  \/ \E j \in Jobs : BeginLogin(j)
  \/ DeleteBegins
  \/ \E t \in Tasks :
       \/ StartRefresh(t) \/ StartSync(t)
       \/ \E owners \in SUBSET registry : StartControl(t, owners)

Next ==
  \/ Request
  \/ \E j \in Jobs : JobStep(j)
  \/ \E t \in Tasks : TaskStep(t)
  \/ RemovalStep
  \/ Crash

Spec == Init /\ [][Next]_vars

(* Every thread keeps running, every network call returns or times out     *)
(* (httpx timeouts, the long poll included), and a thread that waits for a *)
(* lock gets it if the lock is free again and again.                       *)
FairSpec ==
  /\ Spec
  /\ WF_vars(RemovalStep)
  /\ \A j \in Jobs : SF_vars(JobStep(j))
  /\ \A t \in Tasks : SF_vars(TaskStep(t))

----------------------------------------------------------------------------
(* Properties. *)

(* Every variable keeps its type. *)
TypeOK ==
  /\ credentialFile \in Credential \cup {None}
  /\ registry \subseteq Users
  /\ accountGeneration \in Nat
  /\ loginSequence \in Nat
  /\ apiClient \in Users \cup {None}
  /\ holder \in Jobs \cup {Admin, Nobody}
  /\ step \in {"none", "delete", "clear", "save"}
  /\ refreshLock \in Tasks \cup {Nobody}
  /\ job \in [Jobs -> JobRecord]
  /\ task \in [Tasks -> TaskRecord]

(* The stored credential and the synced registry never belong to different *)
(* accounts, not between the writes of a login or a removal, not after one *)
(* of them failed and not after a crash ("Fail closed if registry cleanup  *)
(* or credential persistence fails", commit_login_credential).             *)
RegistryOwned ==
  credentialFile # None => registry \subseteq {credentialFile.user}

(* A control request that is about to go out uses a client of the account  *)
(* that owns every device or scene the request was authorised for, however *)
(* many logins, removals and refreshes ran since the lookup.               *)
ControlReachesOwner ==
  \A t \in Tasks :
    task[t].pc = "ready" /\ task[t].kind = "control"
      => task[t].targets \subseteq {task[t].client}

(* While a token is exchanged, the file still holds the token it was       *)
(* exchanged for, unless the account changed: no two threads ever refresh  *)
(* the same token, and no refresh overwrites a newer credential.           *)
RefreshedFromStored ==
  \A t \in Tasks :
    task[t].pc \in {"exchange", "save"} /\ SameGeneration(t)
      => credentialFile = task[t].credential

(* A job that shows "scanning" is the last login attempt: starting another *)
(* login or removing the account cancels it at once (cancel_pending).      *)
ScanningIsLatest ==
  \A j \in Jobs :
    job[j].status = "scanning" => job[j].attempt.sequence = loginSequence

(* When a job reports success its account is the stored one at that very   *)
(* moment, although the commit was made some steps before.                 *)
SuccessMeansStored ==
  [][\A j \in Jobs :
       job'[j].status = "success" /\ job[j].status # "success"
         => StoredUserIs(job[j].user)]_vars

(* A job that was canceled never shows progress or success again, whatever *)
(* its thread was doing when it was canceled.                              *)
CanceledNeverRevives ==
  [][\A j \in Jobs :
       job[j].status = "canceled" => job'[j].status \notin Active \cup {"success"}]_vars

(* A login job the UI waits for always reaches a final status. *)
LoginJobsFinish ==
  \A j \in Jobs : (job[j].status \in Active) ~> (job[j].status \notin Active)

(* No refresh, control call or synchronisation waits forever. *)
TasksReturn ==
  \A t \in Tasks : (task[t].pc # "idle") ~> (task[t].pc = "idle")

(* The attempts that may still be chosen to store a credential: those that *)
(* began after the last login, removal or newer attempt.                   *)
openAttempts ==
  IF holder \in Jobs THEN {}
  ELSE {j \in Jobs : /\ job[j].pc \in {"fetching", "registered", "started",
                                        "polling", "scanned"}
                     /\ job[j].attempt = CurrentAttempt}

begunAttempts == {j \in Jobs : job[j].pc # "idle"}
storingAttempt == IF holder \in Jobs THEN holder ELSE None
storedAccount == IF credentialFile = None THEN None ELSE credentialFile.user

Ownership == INSTANCE AccountOwnership
               WITH account <- storedAccount, rows <- registry,
                    begun <- begunAttempts, open <- openAttempts,
                    storing <- storingAttempt

(* The runtime implements the account contract of AccountOwnership. *)
ImplementsOwnership == Ownership!Spec

(* What the page can learn of a job: its id is given out when start        *)
(* returns, after the look at the attempt.                                 *)
shownJobs ==
  [j \in Jobs |-> IF job[j].pc \in {"idle", "fetching", "registered"} THEN "none"
                  ELSE IF job[j].status \in Active THEN "open" ELSE job[j].status]

Contract == INSTANCE LoginJobs WITH Ids <- Jobs, shown <- shownJobs

(* Of the login jobs that were given out at most one is open, and one that *)
(* is over stays as it is, whatever logins, removals and failures overlap: *)
(* the runtime implements what LoginPage relies on.                        *)
ServesLogins == Contract!Spec

=============================================================================
