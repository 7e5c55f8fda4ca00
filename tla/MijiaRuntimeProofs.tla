------------------------- MODULE MijiaRuntimeProofs -------------------------
(***************************************************************************)
(* Theorems about MijiaRuntime, for every number of accounts, tokens,      *)
(* login jobs and tasks.                                                   *)
(***************************************************************************)
EXTENDS MijiaRuntime, TLAPS

----------------------------------------------------------------------------
(* What the helpers of the actions do to one job or task.                  *)

(* JobAt moves one job and nothing else of it. *)
LEMMA JobAtEffect ==
  ASSUME TypeOK, NEW j \in Jobs, NEW p \in JobPc, JobAt(j, p)
  PROVE  /\ job' \in [Jobs -> JobRecord]
         /\ \A i \in Jobs : i # j => job'[i] = job[i]
         /\ job'[j].pc = p
         /\ job'[j].status = job[j].status
         /\ job'[j].attempt = job[j].attempt
         /\ job'[j].user = job[j].user
BY DEF TypeOK, JobAt, JobRecord

(* JobShows moves one job and sets its status. *)
LEMMA JobShowsEffect ==
  ASSUME TypeOK, NEW j \in Jobs, NEW p \in JobPc, NEW s \in JobStatus,
         JobShows(j, p, s)
  PROVE  /\ job' \in [Jobs -> JobRecord]
         /\ \A i \in Jobs : i # j => job'[i] = job[i]
         /\ job'[j].pc = p
         /\ job'[j].status = s
         /\ job'[j].attempt = job[j].attempt
         /\ job'[j].user = job[j].user
BY DEF TypeOK, JobShows, JobRecord

(* CancelPending cancels exactly the unfinished jobs. *)
LEMMA CancelEffect ==
  ASSUME TypeOK
  PROVE  /\ CancelPending \in [Jobs -> JobRecord]
         /\ \A j \in Jobs :
              /\ CancelPending[j].pc = job[j].pc
              /\ CancelPending[j].status =
                   IF job[j].status \in Active THEN "canceled" ELSE job[j].status
              /\ CancelPending[j].attempt = job[j].attempt
              /\ CancelPending[j].user = job[j].user
BY DEF TypeOK, CancelPending, JobRecord, JobStatus, Terminal

(* TaskBegins gives one task its record. *)
LEMMA TaskBeginsEffect ==
  ASSUME TypeOK, NEW t \in Tasks, NEW r \in TaskRecord, TaskBegins(t, r)
  PROVE  /\ task' \in [Tasks -> TaskRecord]
         /\ \A s \in Tasks : s # t => task'[s] = task[s]
         /\ task'[t] = r
BY DEF TypeOK, TaskBegins

(* TaskEnds makes one task idle. *)
LEMMA TaskEndsEffect ==
  ASSUME TypeOK, NEW t \in Tasks, TaskEnds(t)
  PROVE  /\ task' \in [Tasks -> TaskRecord]
         /\ \A s \in Tasks : s # t => task'[s] = task[s]
         /\ task'[t] = NoTask
         /\ task'[t].pc = "idle"
BY DEF TypeOK, TaskEnds, TaskRecord, NoTask, TaskPc

(* TaskAt moves one task and nothing else of it. *)
LEMMA TaskAtEffect ==
  ASSUME TypeOK, NEW t \in Tasks, NEW p \in TaskPc, TaskAt(t, p)
  PROVE  /\ task' \in [Tasks -> TaskRecord]
         /\ \A s \in Tasks : s # t => task'[s] = task[s]
         /\ task'[t].pc = p
         /\ task'[t].kind = task[t].kind
         /\ task'[t].generation = task[t].generation
         /\ task'[t].credential = task[t].credential
         /\ task'[t].targets = task[t].targets
         /\ task'[t].client = task[t].client
BY DEF TypeOK, TaskAt, TaskRecord

(* TaskHolds moves one task and sets the credential it holds. *)
LEMMA TaskHoldsEffect ==
  ASSUME TypeOK, NEW t \in Tasks, NEW p \in TaskPc,
         NEW c \in Credential \cup {None}, TaskHolds(t, p, c)
  PROVE  /\ task' \in [Tasks -> TaskRecord]
         /\ \A s \in Tasks : s # t => task'[s] = task[s]
         /\ task'[t].pc = p
         /\ task'[t].kind = task[t].kind
         /\ task'[t].generation = task[t].generation
         /\ task'[t].credential = c
         /\ task'[t].targets = task[t].targets
         /\ task'[t].client = task[t].client
BY DEF TypeOK, TaskHolds, TaskRecord

(* A confirmed scan moves one job and leaves its status and attempt. *)
LEMMA ScanEffect ==
  ASSUME TypeOK, NEW j \in Jobs, NEW u \in Users, ScanConfirmed(j, u)
  PROVE  /\ job' \in [Jobs -> JobRecord]
         /\ \A i \in Jobs : i # j => job'[i] = job[i]
         /\ job'[j].status = job[j].status
         /\ job'[j].attempt = job[j].attempt
         /\ \/ job'[j].pc = "scanned" /\ job'[j].user = u
            \/ job'[j].pc = "superseded" /\ job'[j].user = job[j].user
<1>1. CASE IsCurrentLoginAttempt(j)
  <2>1. job' = [job EXCEPT ![j].pc = "scanned", ![j].user = u]
    BY <1>1 DEF ScanConfirmed
  <2> QED BY <2>1 DEF TypeOK, JobRecord, JobPc
<1>2. CASE ~IsCurrentLoginAttempt(j)
  <2>1. JobAt(j, "superseded") /\ "superseded" \in JobPc
    BY <1>2 DEF ScanConfirmed, JobPc
  <2> QED BY <2>1, JobAtEffect
<1> QED BY <1>1, <1>2

(* BuildClient gives one task a client of the stored account. *)
LEMMA BuildEffect ==
  ASSUME TypeOK, NEW t \in Tasks, BuildClient(t)
  PROVE  /\ task' \in [Tasks -> TaskRecord]
         /\ \A s \in Tasks : s # t => task'[s] = task[s]
         /\ task'[t].pc = "ready"
         /\ task'[t].kind = task[t].kind
         /\ task'[t].generation = task[t].generation
         /\ task'[t].targets = task[t].targets
         /\ task'[t].client = credentialFile.user
         /\ credentialFile.user \in Users
         /\ credentialFile # None
<1>1. credentialFile # None /\ credentialFile.user \in Users
  BY DEF TypeOK, BuildClient, AccountStands, Credential
<1>2. task' = [task EXCEPT ![t].pc = "ready", ![t].client = credentialFile.user]
  BY DEF BuildClient
<1> QED BY <1>1, <1>2, ZenonT(60) DEF TypeOK, TaskRecord, TaskPc

(* A refresh or a synchronisation begins with the present generation. *)
LEMMA RequestEffect ==
  ASSUME TypeOK, NEW t \in Tasks,
         StartRefresh(t) \/ StartSync(t)
           \/ \E owners \in SUBSET registry : StartControl(t, owners)
  PROVE  /\ task' \in [Tasks -> TaskRecord]
         /\ \A s \in Tasks : s # t => task'[s] = task[s]
         /\ task[t].pc = "idle" /\ holder = Nobody
         /\ task'[t].pc \in {"queued", "require"}
         /\ task'[t].generation = accountGeneration
         /\ task'[t].client = None
         /\ task'[t].targets \subseteq registry
         /\ task'[t].pc = "queued" => /\ task'[t].credential = credentialFile
                                      /\ credentialFile # None
         /\ UNCHANGED <<shared, job>>
<1>1. ASSUME NEW p \in {"queued", "require"}, NEW k \in {"refresh", "control", "sync"},
             NEW c \in {None, credentialFile}, NEW owners \in SUBSET registry,
             TaskBegins(t, NewTask(p, k, c, owners))
      PROVE  /\ task' \in [Tasks -> TaskRecord]
             /\ \A s \in Tasks : s # t => task'[s] = task[s]
             /\ task'[t].pc = p
             /\ task'[t].generation = accountGeneration
             /\ task'[t].client = None
             /\ task'[t].targets = owners
             /\ task'[t].credential = c
  <2>1. NewTask(p, k, c, owners) \in TaskRecord
    BY DEF NewTask, TypeOK, TaskRecord, TaskPc
  <2> QED BY <1>1, <2>1, TaskBeginsEffect DEF NewTask
<1>2. CASE StartRefresh(t)
  BY <1>1, <1>2 DEF StartRefresh
<1>3. CASE StartSync(t)
  BY <1>1, <1>3 DEF StartSync
<1>4. ASSUME NEW owners \in SUBSET registry, StartControl(t, owners)
      PROVE  /\ TaskBegins(t, NewTask("require", "control", None, owners))
             /\ task[t].pc = "idle" /\ holder = Nobody
             /\ UNCHANGED <<shared, job>>
  BY <1>4 DEF StartControl
<1> QED BY <1>1, <1>2, <1>3, <1>4

----------------------------------------------------------------------------
(* Types.  What a job or a task carries depends on where it stands.        *)

Shape ==
  /\ \A j \in Jobs : job[j].pc \in {"scanned", "commit", "committed"}
                       => job[j].user \in Users
  /\ \A j \in Jobs : holder = j => job[j].pc = "commit"
  /\ \A t \in Tasks : task[t].pc \in {"queued", "exchange", "save"}
                        => task[t].credential \in Credential
  /\ \A t \in Tasks : task[t].pc \in {"ready", "snapshot"}
                        => task[t].client \in Users

(* The places and statuses named in the actions are of their types. *)
LEMMA Literals ==
  /\ {"idle", "fetching", "registered", "started", "polling", "scanned",
      "commit", "committed", "superseded", "broken", "done"} \subseteq JobPc
  /\ {"none", "pending", "scanning"} \cup Terminal \subseteq JobStatus
  /\ Terminal = {"success", "failed", "canceled"}
  /\ {"idle", "require", "queued", "exchange", "save", "fallback",
      "build", "ready", "snapshot"} \subseteq TaskPc
BY DEF JobPc, JobStatus, TaskPc, Active, Terminal

(* Every step keeps the types and the shape of the records. *)
LEMMA TypeStep ==
  ASSUME TypeOK, Shape, [Next]_vars
  PROVE  TypeOK' /\ Shape'
<1>1. ASSUME NEW j \in Jobs, BeginLogin(j) PROVE TypeOK' /\ Shape'
  <2> DEFINE r == [pc |-> "fetching", status |-> "none", user |-> None,
                   attempt |-> [generation |-> accountGeneration,
                                sequence |-> loginSequence + 1]]
  <2>1. r \in JobRecord
    BY Literals DEF TypeOK, JobRecord, Attempt
  <2>2. job' = [CancelPending EXCEPT ![j] = r]
    BY <1>1 DEF BeginLogin
  <2>3. /\ job' \in [Jobs -> JobRecord]
        /\ job'[j] = r
        /\ \A i \in Jobs : i # j => job'[i] = CancelPending[i]
    BY <2>1, <2>2, CancelEffect
  <2>4. \A i \in Jobs : i # j => job'[i].pc = job[i].pc /\ job'[i].user = job[i].user
    BY <2>3, CancelEffect
  <2>5. TypeOK'
    BY <1>1, <2>3 DEF BeginLogin, TypeOK, durable
  <2> QED BY <1>1, <2>3, <2>4, <2>5, ConstantsAssumption DEF BeginLogin, Shape
<1>2. ASSUME DeleteBegins PROVE TypeOK' /\ Shape'
  <2>1. TypeOK'
    BY <1>2, CancelEffect DEF DeleteBegins, TypeOK, durable
  <2> QED BY <1>2, <2>1, CancelEffect, ConstantsAssumption DEF DeleteBegins, Shape
<1>3. ASSUME NEW t \in Tasks,
             StartRefresh(t) \/ StartSync(t)
               \/ \E owners \in SUBSET registry : StartControl(t, owners)
      PROVE  TypeOK' /\ Shape'
  BY <1>3, RequestEffect DEF TypeOK, Shape, shared, durable, memory
<1>4. ASSUME NEW j \in Jobs, JobStep(j) PROVE TypeOK' /\ Shape'
  <2> USE Literals DEF shared, durable, memory
  <2>1. CASE FetchFails(j) \/ StartThread(j) \/ LoginFails(j) \/ CommitRejected(j)
    BY <2>1, JobAtEffect DEF FetchFails, StartThread, LoginFails, CommitRejected,
         TypeOK, Shape
  <2>2. CASE RegisterJob(j) \/ RejectJob(j) \/ ThreadFails(j)
    BY <2>2, JobShowsEffect DEF RegisterJob, RejectJob, ThreadFails, TypeOK, Shape
  <2>3. CASE BeginPolling(j)
    BY <2>3, JobAtEffect, JobShowsEffect DEF BeginPolling, TypeOK, Shape
  <2>4. ASSUME NEW u \in Users, ScanConfirmed(j, u) PROVE TypeOK' /\ Shape'
    BY <2>4, ScanEffect DEF ScanConfirmed, TypeOK, Shape
  <2>5. CASE CommitBegins(j)
    BY <2>5, JobAtEffect DEF CommitBegins, TypeOK, Shape
  <2>6. CASE SaveLogin(j)
    <3>1. job[j].user \in Users
      BY <2>6 DEF SaveLogin, Shape
    <3>2. credentialFile' \in Credential
      BY <2>6, <3>1 DEF SaveLogin, Credential
    <3> QED BY <2>6, <3>1, <3>2, JobAtEffect, ConstantsAssumption
            DEF SaveLogin, TypeOK, Shape
  <2>7. CASE CommitFails(j)
    BY <2>7, JobAtEffect, ConstantsAssumption DEF CommitFails, TypeOK, Shape
  <2>8. ASSUME NEW s \in Terminal, SettleJob(j, s) PROVE TypeOK' /\ Shape'
    BY <2>8, JobAtEffect, JobShowsEffect DEF SettleJob, TypeOK, Shape
  <2> QED BY <1>4, <2>1, <2>2, <2>3, <2>4, <2>5, <2>6, <2>7, <2>8 DEF JobStep
<1>5. ASSUME RemovalStep PROVE TypeOK' /\ Shape'
  BY <1>5, ConstantsAssumption
     DEF RemovalStep, DeleteFile, ClearSyncedRegistries, DeleteFails,
         TypeOK, Shape, durable, memory
<1>6. ASSUME NEW t \in Tasks, TaskStep(t) PROVE TypeOK' /\ Shape'
  <2> USE Literals DEF shared, durable, memory
  <2>1. CASE AccountGone(t) \/ Dispatch(t) \/ SyncFails(t) \/ DiscardRefreshed(t)
    BY <2>1, TaskEndsEffect DEF AccountGone, Dispatch, SyncFails, DiscardRefreshed,
         TypeOK, Shape
  <2>2. CASE \/ CredentialFresh(t) \/ SyncFetched(t) \/ AcquireRefresh(t)
             \/ ExchangeReturns(t)
    BY <2>2, TaskAtEffect DEF CredentialFresh, SyncFetched, RefreshEntry, AcquireRefresh,
         ExchangeReturns, TypeOK, Shape
  <2>3. CASE Fallback(t)
    BY <2>3, TaskAtEffect, TaskEndsEffect DEF Fallback, TypeOK, Shape
  <2>4. CASE CredentialExpiring(t)
    <3>1. credentialFile \in Credential
      BY <2>4 DEF CredentialExpiring, AccountStands, TypeOK
    <3> QED BY <2>4, <3>1, TaskHoldsEffect DEF CredentialExpiring, TypeOK, Shape
  <2>5. CASE BuildClient(t)
    BY <2>5, BuildEffect, ZenonT(60) DEF BuildClient, TypeOK, Shape
  <2>6. CASE AlreadyRefreshed(t) \/ ExchangeFails(t) \/ SaveRefreshedFails(t)
    BY <2>6, TaskHoldsEffect, TaskEndsEffect
       DEF RefreshEntry, AlreadyRefreshed, ExchangeFails, SaveRefreshedFails,
           AfterRefresh, AfterRefreshError, TypeOK, Shape
  <2>7. CASE SaveRefreshed(t)
    <3>1. task[t].credential \in Credential
      BY <2>7 DEF SaveRefreshed, Shape
    <3>2. credentialFile' \in Credential
      BY <2>7, <3>1 DEF SaveRefreshed, Credential
    <3> QED BY <2>7, <3>2, TaskHoldsEffect, TaskEndsEffect
            DEF SaveRefreshed, AfterRefresh, TypeOK, Shape
  <2>8. ASSUME NEW kept \in SUBSET registry, NEW fetched \in SUBSET {task[t].client},
               CommitSnapshot(t, kept, fetched)
        PROVE  TypeOK' /\ Shape'
    <3>1. task[t].client \in Users
      BY <2>8 DEF CommitSnapshot, Shape
    <3> QED BY <2>8, <3>1, TaskEndsEffect DEF CommitSnapshot, TypeOK, Shape
  <2> QED BY <1>6, <2>1, <2>2, <2>3, <2>4, <2>5, <2>6, <2>7, <2>8 DEF TaskStep
<1>7. ASSUME Crash PROVE TypeOK' /\ Shape'
  BY <1>7, Literals, ConstantsAssumption
     DEF Crash, NewJob, NoTask, JobRecord, Attempt, TaskRecord, TypeOK, Shape, durable
<1>8. ASSUME UNCHANGED vars PROVE TypeOK' /\ Shape'
  BY <1>8 DEF vars, shared, durable, memory, TypeOK, Shape
<1> QED BY <1>1, <1>2, <1>3, <1>4, <1>5, <1>6, <1>7, <1>8 DEF Next, Request

(* Types and shape hold in every reachable state. *)
LEMMA ShapeInvariant == Spec => [](TypeOK /\ Shape)
<1>1. Init => TypeOK /\ Shape
  BY Literals, ConstantsAssumption
     DEF Init, NewJob, NoTask, JobRecord, Attempt, TaskRecord, TypeOK, Shape
<1>2. TypeOK /\ Shape /\ [Next]_vars => (TypeOK /\ Shape)'
  BY TypeStep
<1> QED BY <1>1, <1>2, PTL DEF Spec

(* The types of the state hold in every reachable state. *)
THEOREM TypeCorrect == Spec => []TypeOK
BY ShapeInvariant, PTL

(* A saved refresh replaces the token and keeps the account. *)
LEMMA SaveRefreshedEffect ==
  ASSUME TypeOK, Shape, NEW t \in Tasks, SaveRefreshed(t)
  PROVE  /\ credentialFile # None
         /\ credentialFile' # None
         /\ credentialFile'.user = credentialFile.user
<1>1. /\ credentialFile = task[t].credential
      /\ credentialFile # None
  BY DEF SaveRefreshed, StillCurrent, AccountStands
<1>2. PICK k \in Tokens : credentialFile' = [credentialFile EXCEPT !.token = k]
  BY <1>1 DEF SaveRefreshed
<1>3. credentialFile \in Credential
  BY <1>1 DEF TypeOK
<1> QED BY <1>1, <1>2, <1>3, ConstantsAssumption DEF Credential

----------------------------------------------------------------------------
(* Ownership.  The lock block of a login or a removal leaves the rows of   *)
(* one account at most, and has outdated every task before it writes; a    *)
(* task of the current generation therefore still sees the account it was  *)
(* started for.                                                            *)

LockInv ==
  /\ holder = Nobody <=> step = "none"
  /\ holder = Admin => step # "save"
  /\ step = "clear" => credentialFile = None
  /\ \A j \in Jobs : holder = j /\ step = "save"
                       => /\ registry \subseteq {job[j].user}
                          /\ credentialFile # None => StoredUserIs(job[j].user)

TaskOwned(t) ==
  task[t].pc # "idle" =>
    /\ task[t].generation <= accountGeneration
    /\ holder # Nobody => task[t].generation < accountGeneration
    /\ SameGeneration(t) /\ credentialFile # None
         => task[t].targets \subseteq {credentialFile.user}
    /\ task[t].pc \in {"ready", "snapshot"} /\ SameGeneration(t)
         => StoredUserIs(task[t].client)
    /\ task[t].pc = "ready" => task[t].targets \subseteq {task[t].client}

TaskInv == \A t \in Tasks : TaskOwned(t)

OwnerInv == TypeOK /\ Shape /\ LockInv /\ RegistryOwned /\ TaskInv

(* The steps of a job that hold no lock and write nothing that others read. *)
LEMMA JobStepFrame ==
  ASSUME NEW j \in Jobs, JobStep(j)
  PROVE  \/ UNCHANGED <<shared, task>> /\ job[j].pc # "commit"
         \/ CommitBegins(j) \/ SaveLogin(j) \/ CommitFails(j)
BY DEF JobStep, FetchFails, RegisterJob, RejectJob, StartThread, ThreadFails,
     BeginPolling, LoginFails, ScanConfirmed, CommitRejected, SettleJob

(* A step of one job leaves the others as they are. *)
LEMMA JobStepKeeps ==
  ASSUME TypeOK, NEW j \in Jobs, JobStep(j)
  PROVE  \A i \in Jobs : i # j => job'[i] = job[i]
BY JobAtEffect, JobShowsEffect, ScanEffect, Literals
   DEF JobStep, FetchFails, RegisterJob, RejectJob, StartThread, ThreadFails,
     BeginPolling, LoginFails, CommitRejected, CommitBegins, SaveLogin,
     CommitFails, SettleJob

(* Such a step keeps the number of the job and never leads back. *)
LEMMA JobStepQuiet ==
  ASSUME TypeOK, Shape, NEW j \in Jobs, JobStep(j),
         UNCHANGED <<shared, task>>, job[j].pc # "commit"
  PROVE  /\ job'[j].attempt = job[j].attempt
         /\ job'[j].pc \in {"fetching", "registered", "started", "polling", "scanned"}
              => job[j].pc \in {"fetching", "registered", "started", "polling", "scanned"}
<1> USE Literals
<1>2. CASE FetchFails(j) \/ StartThread(j) \/ LoginFails(j) \/ CommitRejected(j)
  BY <1>2, JobAtEffect DEF FetchFails, StartThread, LoginFails, CommitRejected
<1>3. CASE RegisterJob(j) \/ RejectJob(j) \/ ThreadFails(j)
  BY <1>3, JobShowsEffect DEF RegisterJob, RejectJob, ThreadFails
<1>4. CASE BeginPolling(j)
  BY <1>4, JobAtEffect, JobShowsEffect DEF BeginPolling
<1>5. ASSUME NEW u \in Users, ScanConfirmed(j, u)
      PROVE  job[j].pc = "polling" /\ job'[j].attempt = job[j].attempt
  BY <1>5, ScanEffect DEF ScanConfirmed
<1>6. ASSUME NEW s \in Terminal, SettleJob(j, s)
      PROVE  job'[j].pc = "done" /\ job'[j].attempt = job[j].attempt
  BY <1>6, JobAtEffect, JobShowsEffect DEF SettleJob
<1>7. ~CommitBegins(j) /\ ~SaveLogin(j) /\ ~CommitFails(j)
  BY ConstantsAssumption
     DEF CommitBegins, SaveLogin, CommitFails, Shape, shared
<1> QED BY <1>2, <1>3, <1>4, <1>5, <1>6, <1>7 DEF JobStep

(* Every step keeps what the writes of a lock block have already done. *)
LEMMA LockStep == ASSUME OwnerInv, [Next]_vars PROVE LockInv' /\ RegistryOwned'
<1> USE DEF OwnerInv
<1>1. ASSUME NEW j \in Jobs, BeginLogin(j) PROVE LockInv' /\ RegistryOwned'
  BY <1>1, ConstantsAssumption DEF BeginLogin, LockInv, RegistryOwned, durable
<1>2. ASSUME DeleteBegins PROVE LockInv' /\ RegistryOwned'
  BY <1>2, ConstantsAssumption DEF DeleteBegins, LockInv, RegistryOwned, durable
<1>3. ASSUME UNCHANGED <<shared, job>> PROVE LockInv' /\ RegistryOwned'
  BY <1>3 DEF LockInv, RegistryOwned, StoredUserIs, shared, durable
<1>4. ASSUME NEW j \in Jobs, JobStep(j) PROVE LockInv' /\ RegistryOwned'
  <2>1. CASE UNCHANGED <<shared, task>> /\ job[j].pc # "commit"
    <3>1. \A i \in Jobs : holder = i => job'[i] = job[i]
      BY <1>4, <2>1, JobStepKeeps DEF Shape
    <3> QED BY <2>1, <3>1 DEF LockInv, RegistryOwned, StoredUserIs, shared, durable
  <2>2. CASE CommitBegins(j)
    <3>1. job'[j].user = job[j].user
      BY <2>2, JobAtEffect, Literals DEF CommitBegins
    <3> QED BY <2>2, <3>1, ConstantsAssumption
            DEF CommitBegins, LockInv, RegistryOwned, StoredUserIs, durable
  <2>3. CASE SaveLogin(j)
    BY <2>3, ConstantsAssumption DEF SaveLogin, LockInv, RegistryOwned, durable
  <2>4. CASE CommitFails(j)
    BY <2>4, ConstantsAssumption DEF CommitFails, LockInv, RegistryOwned, durable
  <2> QED BY <1>4, <2>1, <2>2, <2>3, <2>4, JobStepFrame
<1>5. ASSUME RemovalStep PROVE LockInv' /\ RegistryOwned'
  BY <1>5, ConstantsAssumption
     DEF RemovalStep, DeleteFile, ClearSyncedRegistries, DeleteFails,
         LockInv, RegistryOwned, StoredUserIs, durable
<1>6. ASSUME NEW t \in Tasks, TaskStep(t) PROVE LockInv' /\ RegistryOwned'
  <2>1. CASE SaveRefreshed(t)
    <3>1. /\ credentialFile # None
          /\ credentialFile' # None
          /\ credentialFile'.user = credentialFile.user
      BY <2>1, SaveRefreshedEffect
    <3> QED BY <2>1, <3>1 DEF SaveRefreshed, LockInv, RegistryOwned
  <2>2. ASSUME NEW kept \in SUBSET registry, NEW fetched \in SUBSET {task[t].client},
               CommitSnapshot(t, kept, fetched)
        PROVE  LockInv' /\ RegistryOwned'
    <3>1. StoredUserIs(task[t].client)
      BY <2>2 DEF CommitSnapshot, TaskInv, TaskOwned
    <3> QED BY <2>2, <3>1 DEF CommitSnapshot, LockInv, RegistryOwned, StoredUserIs
  <2>3. CASE ~SaveRefreshed(t) /\ UNCHANGED <<durable, holder, step, job>>
    BY <2>3 DEF LockInv, RegistryOwned, StoredUserIs, durable
  <2> QED BY <1>6, <2>1, <2>2, <2>3
       DEF TaskStep, AccountGone, CredentialFresh, CredentialExpiring,
         RefreshEntry, AlreadyRefreshed, AcquireRefresh, ExchangeReturns, ExchangeFails,
         SaveRefreshedFails, DiscardRefreshed, Fallback, BuildClient,
         Dispatch, SyncFetched, SyncFails, shared
<1>7. ASSUME Crash PROVE LockInv' /\ RegistryOwned'
  BY <1>7, ConstantsAssumption DEF Crash, LockInv, RegistryOwned, durable
<1> QED BY <1>1, <1>2, <1>3, <1>4, <1>5, <1>6, <1>7, RequestEffect
        DEF Next, Request, vars

(* What the task that takes a step is afterwards, unless it has ended. *)
LEMMA TaskStepEffect ==
  ASSUME TypeOK, Shape, NEW t \in Tasks, TaskStep(t)
  PROVE  /\ \A s \in Tasks : s # t => task'[s] = task[s]
         /\ task[t].pc # "idle"
         /\ UNCHANGED <<accountGeneration, loginSequence, holder, step, job>>
         /\ \/ task'[t].pc = "idle"
            \/ /\ task'[t].pc \in {"queued", "exchange", "save", "fallback", "build"}
               /\ task'[t].generation = task[t].generation
               /\ task'[t].targets = task[t].targets
            \/ /\ task'[t].pc = "snapshot" /\ task[t].pc = "ready"
               /\ task'[t].generation = task[t].generation
               /\ task'[t].targets = task[t].targets
               /\ task'[t].client = task[t].client
            \/ /\ BuildClient(t)
<1> USE Literals DEF shared, durable, memory
<1>1. CASE \/ AccountGone(t) \/ Dispatch(t) \/ SyncFails(t) \/ DiscardRefreshed(t)
  BY <1>1, TaskEndsEffect DEF AccountGone, Dispatch, SyncFails, DiscardRefreshed
<1>2. CASE CredentialFresh(t) \/ AcquireRefresh(t) \/ ExchangeReturns(t)
  BY <1>2, TaskAtEffect DEF CredentialFresh, RefreshEntry, AcquireRefresh, ExchangeReturns
<1>3. CASE SyncFetched(t)
  BY <1>3, TaskAtEffect DEF SyncFetched
<1>4. CASE Fallback(t)
  BY <1>4, TaskAtEffect, TaskEndsEffect DEF Fallback
<1>5. CASE CredentialExpiring(t)
  BY <1>5, TaskHoldsEffect DEF CredentialExpiring, AccountStands, TypeOK
<1>6. CASE \/ AlreadyRefreshed(t) \/ ExchangeFails(t) \/ SaveRefreshedFails(t)
           \/ SaveRefreshed(t)
  BY <1>6, TaskHoldsEffect, TaskEndsEffect
     DEF RefreshEntry, AlreadyRefreshed, ExchangeFails, SaveRefreshedFails, SaveRefreshed,
         AfterRefresh, AfterRefreshError
<1>7. CASE BuildClient(t)
  BY <1>7, BuildEffect DEF BuildClient
<1>8. ASSUME NEW kept \in SUBSET registry, NEW fetched \in SUBSET {task[t].client},
             CommitSnapshot(t, kept, fetched)
      PROVE  /\ TaskEnds(t) /\ task[t].pc # "idle"
             /\ UNCHANGED <<accountGeneration, loginSequence, holder, step, job>>
  BY <1>8 DEF CommitSnapshot
<1> QED BY <1>1, <1>2, <1>3, <1>4, <1>5, <1>6, <1>7, <1>8, TaskEndsEffect DEF TaskStep

(* A step of a task changes nothing of the account of the file.             *)
LEMMA TaskStepFile ==
  ASSUME TypeOK, Shape, NEW t \in Tasks, TaskStep(t)
  PROVE  /\ credentialFile # None <=> credentialFile' # None
         /\ credentialFile # None => credentialFile'.user = credentialFile.user
<1>1. CASE SaveRefreshed(t)
  BY <1>1, SaveRefreshedEffect
<1>2. CASE UNCHANGED credentialFile
  BY <1>2
<1> QED BY <1>1, <1>2
     DEF TaskStep, AccountGone, CredentialFresh, CredentialExpiring,
       RefreshEntry, AlreadyRefreshed, AcquireRefresh, ExchangeReturns, ExchangeFails,
       SaveRefreshedFails, DiscardRefreshed, Fallback, BuildClient,
       Dispatch, SyncFetched, SyncFails, CommitSnapshot, shared, durable

(* Every step keeps the tasks of the present generation bound to the       *)
(* stored account.                                                         *)
LEMMA TaskInvStep == ASSUME OwnerInv, [Next]_vars PROVE TaskInv'
<1> USE DEF OwnerInv
<1>1. ASSUME NEW j \in Jobs, BeginLogin(j) PROVE TaskInv'
  BY <1>1 DEF BeginLogin, TaskInv, TaskOwned, SameGeneration, StoredUserIs, durable
<1>2. ASSUME DeleteBegins PROVE TaskInv'
  BY <1>2 DEF DeleteBegins, TaskInv, TaskOwned, SameGeneration, StoredUserIs,
              durable, TypeOK, TaskRecord
<1>3. ASSUME NEW t \in Tasks, UNCHANGED <<shared, job>>,
             \A s \in Tasks : s # t => task'[s] = task[s],
             holder = Nobody, task'[t].pc \in {"queued", "require"},
             task'[t].generation = accountGeneration,
             task'[t].targets \subseteq registry
      PROVE  TaskInv'
  <2>1. TaskOwned(t)'
    BY <1>3 DEF RegistryOwned, TaskOwned, SameGeneration, StoredUserIs,
                shared, durable, memory, TypeOK
  <2>2. ASSUME NEW s \in Tasks, s # t PROVE TaskOwned(s)'
    BY <1>3, <2>2 DEF TaskInv, TaskOwned, SameGeneration, StoredUserIs,
                shared, durable, memory
  <2> QED BY <2>1, <2>2 DEF TaskInv
<1>4. ASSUME NEW j \in Jobs, JobStep(j) PROVE TaskInv'
  <2>1. CASE UNCHANGED <<shared, task>>
    BY <2>1 DEF TaskInv, TaskOwned, SameGeneration, StoredUserIs,
                shared, durable, memory
  <2>2. CASE CommitBegins(j)
    BY <2>2 DEF CommitBegins, TaskInv, TaskOwned, SameGeneration, StoredUserIs,
                durable, TypeOK, TaskRecord
  <2>3. CASE SaveLogin(j) \/ CommitFails(j)
    <3>1. \A t \in Tasks : task[t].pc # "idle" => task[t].generation < accountGeneration
      BY <2>3, ConstantsAssumption DEF SaveLogin, CommitFails, TaskInv, TaskOwned
    <3> QED BY <2>3, <3>1 DEF SaveLogin, CommitFails, TaskInv, TaskOwned,
               SameGeneration, memory, durable, TypeOK, TaskRecord
  <2> QED BY <1>4, <2>1, <2>2, <2>3, JobStepFrame
<1>5. ASSUME RemovalStep PROVE TaskInv'
  <2>1. \A t \in Tasks : task[t].pc # "idle" => task[t].generation < accountGeneration
    BY <1>5, ConstantsAssumption
       DEF RemovalStep, DeleteFile, ClearSyncedRegistries, DeleteFails,
           TaskInv, TaskOwned, LockInv
  <2>2. UNCHANGED <<task, accountGeneration>>
    BY <1>5 DEF RemovalStep, DeleteFile, ClearSyncedRegistries, DeleteFails, memory
  <2> QED BY <2>1, <2>2 DEF TaskInv, TaskOwned, SameGeneration, TypeOK, TaskRecord
<1>6. ASSUME NEW t \in Tasks, TaskStep(t) PROVE TaskInv'
  <2>1. ASSUME NEW s \in Tasks, s # t PROVE TaskOwned(s)'
    BY <1>6, <2>1, TaskStepEffect, TaskStepFile
       DEF TaskInv, TaskOwned, SameGeneration, StoredUserIs
  <2>2. CASE ~BuildClient(t)
    <3>1. TaskOwned(t)'
      BY <1>6, <2>2, TaskStepEffect, TaskStepFile
         DEF TaskInv, TaskOwned, SameGeneration, StoredUserIs
    <3> QED BY <2>1, <3>1 DEF TaskInv
  <2>3. CASE BuildClient(t)
    <3>1. TaskOwned(t)'
      BY <2>3, BuildEffect
         DEF BuildClient, AccountStands, TaskInv, TaskOwned, SameGeneration,
             StoredUserIs, durable
    <3> QED BY <2>1, <3>1 DEF TaskInv
  <2> QED BY <2>2, <2>3
<1>7. ASSUME Crash PROVE TaskInv'
  BY <1>7 DEF Crash, NoTask, TaskInv, TaskOwned
<1>8. ASSUME UNCHANGED vars PROVE TaskInv'
  BY <1>8 DEF vars, TaskInv, TaskOwned, SameGeneration, StoredUserIs,
              shared, durable, memory
<1> QED BY <1>1, <1>2, <1>3, <1>4, <1>5, <1>6, <1>7, <1>8, RequestEffect
        DEF Next, Request

(* The invariant of the account: types, lock block, registry and tasks. *)
LEMMA OwnerInvariant == Spec => []OwnerInv
<1>1. Init => LockInv /\ RegistryOwned /\ TaskInv
  BY ConstantsAssumption DEF Init, LockInv, RegistryOwned, TaskInv, TaskOwned, NoTask
<1>2. OwnerInv /\ [Next]_vars => (LockInv /\ RegistryOwned /\ TaskInv)'
  BY LockStep, TaskInvStep
<1> QED BY <1>1, <1>2, ShapeInvariant, PTL DEF Spec, OwnerInv

(* The stored credential and the synced rows belong to one account, after  *)
(* every failure and crash of a login, a removal, a refresh or a sync.     *)
THEOREM RegistryIsOwned == Spec => []RegistryOwned
BY OwnerInvariant, PTL DEF OwnerInv

(* A control request is sent with a client of the account that owned its   *)
(* devices and scenes when they were looked up and authorised.             *)
THEOREM ControlIsOwned == Spec => []ControlReachesOwner
<1>1. OwnerInv => ControlReachesOwner
  BY DEF OwnerInv, TaskInv, TaskOwned, ControlReachesOwner
<1> QED BY <1>1, OwnerInvariant, PTL

----------------------------------------------------------------------------
(* Refreshes.  The refresh lock is held exactly while a token is exchanged *)
(* and saved, so within one generation nobody else replaces that token.    *)

RefreshInv ==
  \A t \in Tasks :
    /\ refreshLock = t <=> task[t].pc \in {"exchange", "save"}
    /\ task[t].pc \in {"exchange", "save"} /\ SameGeneration(t)
         => credentialFile = task[t].credential

(* Every step keeps the refresher alone with the stored credential. *)
LEMMA RefreshStep == ASSUME OwnerInv, RefreshInv, [Next]_vars PROVE RefreshInv'
<1> USE DEF OwnerInv
<1>1. ASSUME NEW j \in Jobs, BeginLogin(j) PROVE RefreshInv'
  BY <1>1 DEF BeginLogin, RefreshInv, SameGeneration, durable
<1>2. ASSUME accountGeneration' = accountGeneration + 1, UNCHANGED <<refreshLock, task>>
      PROVE  RefreshInv'
  BY <1>2 DEF RefreshInv, SameGeneration, TaskInv, TaskOwned, TypeOK, TaskRecord
<1>3. ASSUME holder # Nobody, UNCHANGED <<accountGeneration, refreshLock, task>>
      PROVE  RefreshInv'
  BY <1>3 DEF RefreshInv, SameGeneration, TaskInv, TaskOwned, TypeOK, TaskRecord
<1>4. ASSUME NEW t \in Tasks,
             StartRefresh(t) \/ StartSync(t)
               \/ \E owners \in SUBSET registry : StartControl(t, owners)
      PROVE  RefreshInv'
  BY <1>4, RequestEffect DEF RefreshInv, SameGeneration, shared, durable, memory
<1>5. ASSUME NEW j \in Jobs, JobStep(j) PROVE RefreshInv'
  <2>1. CASE UNCHANGED <<shared, task>>
    BY <2>1 DEF RefreshInv, SameGeneration, shared, durable, memory
  <2>2. CASE CommitBegins(j)
    BY <1>2, <2>2 DEF CommitBegins
  <2>3. CASE SaveLogin(j) \/ CommitFails(j)
    BY <1>3, <2>3, ConstantsAssumption DEF SaveLogin, CommitFails, memory
  <2> QED BY <1>5, <2>1, <2>2, <2>3, JobStepFrame
<1>6. ASSUME RemovalStep PROVE RefreshInv'
  BY <1>3, <1>6, ConstantsAssumption
     DEF RemovalStep, DeleteFile, ClearSyncedRegistries, DeleteFails, LockInv, memory
<1>7. ASSUME NEW t \in Tasks, TaskStep(t) PROVE RefreshInv'
  <2> USE Literals DEF shared, durable, memory
  <2>1. CASE AcquireRefresh(t)
    <3>1. credentialFile = task[t].credential
      BY <2>1 DEF RefreshEntry, AcquireRefresh, StoredUserIs, TypeOK, Shape, Credential
    <3> QED BY <2>1, <3>1, TaskAtEffect, ConstantsAssumption
            DEF RefreshEntry, AcquireRefresh, RefreshInv, SameGeneration
  <2>2. CASE ExchangeReturns(t)
    BY <2>2, TaskAtEffect DEF ExchangeReturns, RefreshInv, SameGeneration
  <2>3. CASE ExchangeFails(t) \/ SaveRefreshedFails(t) \/ DiscardRefreshed(t)
               \/ SaveRefreshed(t)
    <3>1. /\ refreshLock = t /\ refreshLock' = Nobody
          /\ \A s \in Tasks : s # t => task'[s] = task[s]
      BY <1>7, <2>3, TaskStepEffect
         DEF ExchangeFails, SaveRefreshedFails, DiscardRefreshed, SaveRefreshed, RefreshInv
    <3>2. task'[t].pc \notin {"exchange", "save"}
      BY <2>3, TaskHoldsEffect, TaskEndsEffect
         DEF ExchangeFails, SaveRefreshedFails, DiscardRefreshed, SaveRefreshed,
             AfterRefresh, AfterRefreshError
    <3> QED BY <3>1, <3>2, ConstantsAssumption DEF RefreshInv
  <2>4. ASSUME UNCHANGED <<credentialFile, refreshLock, accountGeneration>>,
               \A s \in Tasks : s # t => task'[s] = task[s],
               task[t].pc \notin {"exchange", "save"},
               task'[t].pc \notin {"exchange", "save"}
        PROVE  RefreshInv'
    BY <2>4 DEF RefreshInv, SameGeneration
  <2>5. CASE AccountGone(t) \/ Dispatch(t) \/ SyncFails(t) \/ AlreadyRefreshed(t)
    BY <2>4, <2>5, TaskEndsEffect, TaskHoldsEffect
       DEF AccountGone, Dispatch, SyncFails, RefreshEntry, AlreadyRefreshed, AfterRefresh
  <2>6. CASE CredentialFresh(t) \/ SyncFetched(t)
    BY <2>4, <2>6, TaskAtEffect DEF CredentialFresh, SyncFetched
  <2>7. CASE Fallback(t)
    BY <2>4, <2>7, TaskAtEffect, TaskEndsEffect DEF Fallback
  <2>8. CASE CredentialExpiring(t)
    BY <2>4, <2>8, TaskHoldsEffect DEF CredentialExpiring, AccountStands, TypeOK
  <2>9. CASE BuildClient(t)
    BY <2>4, <2>9, BuildEffect DEF BuildClient
  <2>10. ASSUME NEW kept \in SUBSET registry, NEW fetched \in SUBSET {task[t].client},
               CommitSnapshot(t, kept, fetched)
        PROVE  RefreshInv'
    BY <2>4, <2>10, TaskEndsEffect DEF CommitSnapshot
  <2> QED BY <1>7, <2>1, <2>2, <2>3, <2>5, <2>6, <2>7, <2>8, <2>9, <2>10 DEF TaskStep
<1>8. ASSUME Crash PROVE RefreshInv'
  BY <1>8, ConstantsAssumption DEF Crash, NoTask, RefreshInv
<1>9. ASSUME UNCHANGED vars PROVE RefreshInv'
  BY <1>9 DEF vars, RefreshInv, SameGeneration, shared, durable, memory
<1>10. ASSUME DeleteBegins PROVE RefreshInv'
  BY <1>2, <1>10 DEF DeleteBegins
<1> QED BY <1>1, <1>4, <1>5, <1>6, <1>7, <1>8, <1>9, <1>10 DEF Next, Request

(* The invariant holds in every reachable state. *)
LEMMA RefreshInvariant == Spec => []RefreshInv
<1>1. Init => RefreshInv
  BY ConstantsAssumption DEF Init, NoTask, RefreshInv
<1>2. OwnerInv /\ RefreshInv /\ [Next]_vars => RefreshInv'
  BY RefreshStep
<1> QED BY <1>1, <1>2, OwnerInvariant, PTL DEF Spec

(* No two threads exchange the same token, and no refresh overwrites a     *)
(* credential newer than the one it was exchanged for.                     *)
THEOREM RefreshIsCurrent == Spec => []RefreshedFromStored
<1>1. RefreshInv => RefreshedFromStored
  BY DEF RefreshInv, RefreshedFromStored
<1> QED BY <1>1, RefreshInvariant, PTL

(* A lock is never left behind: the refresh lock is held by a thread that  *)
(* exchanges or saves a token, and by no other; the block of writes of the *)
(* credential lock by a login that commits or by the removal, and only     *)
(* while a write is left.                                                  *)
LocksAreOwned ==
  /\ refreshLock # Nobody => task[refreshLock].pc \in {"exchange", "save"}
  /\ \A t \in Tasks : task[t].pc \in {"exchange", "save"} => refreshLock = t
  /\ holder \in Jobs => job[holder].pc = "commit"
  /\ holder = Nobody <=> step = "none"

(* Whatever fails, is removed or superseded on the way, a lock is released *)
(* with the section it guards: the safety half of "every refresh, control  *)
(* and sync call returns", which stays with TLC.                           *)
THEOREM LocksAreReleased == Spec => []LocksAreOwned
<1>1. OwnerInv /\ RefreshInv => LocksAreOwned
  BY DEF OwnerInv, TypeOK, Shape, LockInv, RefreshInv, LocksAreOwned
<1> QED BY <1>1, OwnerInvariant, RefreshInvariant, PTL

----------------------------------------------------------------------------
(* Login jobs.  Attempts are numbered once, and only the attempt with the  *)
(* last number can have a job whose thread runs and is not canceled.       *)

Begun(j) == job[j].pc # "idle"
Sequence(j) == job[j].attempt.sequence

JobOk(j) ==
  /\ Begun(j) =>
       /\ Sequence(j) <= loginSequence
       /\ holder = Admin => Sequence(j) < loginSequence
       /\ holder = j => Sequence(j) = loginSequence
       /\ job[j].pc = "fetching" => job[j].status = "none"
       /\ job[j].pc = "done" => job[j].status \notin Active
       /\ job[j].pc \in {"registered", "started"}
            => job[j].status \in {"pending", "canceled"}
       /\ job[j].pc \notin {"fetching", "registered", "started", "done"}
            => job[j].status \in {"scanning", "canceled"}
       /\ job[j].status \in Active /\ job[j].pc # "registered"
            => Sequence(j) = loginSequence
       /\ job[j].pc = "committed" /\ job[j].status # "canceled"
            => StoredUserIs(job[j].user)
  /\ ~Begun(j) => job[j].status = "none"

Unique ==
  \A i, j \in Jobs : Begun(i) /\ Begun(j) /\ Sequence(i) = Sequence(j) => i = j

JobInv == Unique /\ \A j \in Jobs : JobOk(j)

LoginInv == OwnerInv /\ JobInv

(* BeginLogin and DeleteBegins: nothing unfinished stays active. *)
LEMMA CanceledOk ==
  ASSUME LoginInv, NEW j \in Jobs, job'[j] = CancelPending[j],
         holder = Nobody, holder' \in {Nobody, Admin},
         loginSequence' = loginSequence + 1, UNCHANGED credentialFile
  PROVE  JobOk(j)' /\ Begun(j)' = Begun(j) /\ Sequence(j)' = Sequence(j)
<1> USE DEF LoginInv, OwnerInv
<1>1. /\ job'[j].pc = job[j].pc /\ job'[j].attempt = job[j].attempt
      /\ job'[j].status = IF job[j].status \in Active THEN "canceled" ELSE job[j].status
      /\ job'[j].user = job[j].user
  BY CancelEffect
<1>2. JobOk(j) /\ Sequence(j) \in Nat /\ loginSequence \in Nat
  BY DEF JobInv, TypeOK, Sequence, JobRecord, Attempt
<1> QED BY <1>1, <1>2, ConstantsAssumption DEF JobOk, Begun, Sequence, Active, StoredUserIs

(* Every step keeps the jobs in step with the login sequence. *)
LEMMA JobInvStep == ASSUME LoginInv, [Next]_vars PROVE JobInv'
<1> USE DEF LoginInv, OwnerInv
<1>a. \A j \in Jobs : Sequence(j) \in Nat /\ loginSequence \in Nat
  BY DEF TypeOK, Sequence, JobRecord, Attempt
<1>1. ASSUME NEW j \in Jobs, BeginLogin(j) PROVE JobInv'
  <2> DEFINE r == [pc |-> "fetching", status |-> "none", user |-> None,
                   attempt |-> [generation |-> accountGeneration,
                                sequence |-> loginSequence + 1]]
  <2>1. job' = [CancelPending EXCEPT ![j] = r]
    BY <1>1 DEF BeginLogin
  <2>2. /\ job'[j] = r
        /\ \A i \in Jobs : i # j => job'[i] = CancelPending[i]
    BY <2>1, CancelEffect
  <2>3. /\ holder = Nobody /\ holder' = Nobody /\ UNCHANGED credentialFile
        /\ loginSequence' = loginSequence + 1
    BY <1>1 DEF BeginLogin, durable
  <2>4. JobOk(j)' /\ Sequence(j)' = loginSequence + 1
    BY <1>a, <2>2, <2>3, ConstantsAssumption DEF JobOk, Begun, Sequence, Active
  <2>5. ASSUME NEW i \in Jobs, i # j
        PROVE  JobOk(i)' /\ Begun(i)' = Begun(i) /\ Sequence(i)' = Sequence(i)
    BY <2>2, <2>3, <2>5, CanceledOk
  <2>6. \A i \in Jobs : Begun(i) => Sequence(i) <= loginSequence
    BY DEF JobInv, JobOk
  <2> QED BY <1>a, <2>4, <2>5, <2>6 DEF JobInv, Unique
<1>2. ASSUME DeleteBegins PROVE JobInv'
  <2>1. \A i \in Jobs : job'[i] = CancelPending[i]
    BY <1>2 DEF DeleteBegins
  <2>2. \A i \in Jobs : JobOk(i)' /\ Begun(i)' = Begun(i) /\ Sequence(i)' = Sequence(i)
    BY <1>2, <2>1, CanceledOk DEF DeleteBegins, durable
  <2> QED BY <2>2 DEF JobInv, Unique
<1>3. ASSUME UNCHANGED <<loginSequence, holder, job>>,
             credentialFile # None => credentialFile' # None
                                      /\ credentialFile'.user = credentialFile.user
      PROVE  JobInv'
  BY <1>3 DEF JobInv, JobOk, Unique, Begun, Sequence, StoredUserIs
<1>4. ASSUME NEW j \in Jobs, JobStep(j) PROVE JobInv'
  <2>1. /\ \A i \in Jobs : i # j => job'[i] = job[i]
        /\ UNCHANGED loginSequence
    BY <1>4, JobStepKeeps, JobStepFrame
       DEF CommitBegins, SaveLogin, CommitFails, shared, memory
  <2>2. ASSUME Begun(j), job'[j].attempt = job[j].attempt, JobOk(j)',
               \A i \in Jobs : i # j => JobOk(i)'
        PROVE  JobInv'
    BY <2>1, <2>2 DEF JobInv, Unique, Begun, Sequence
  <2>3. JobOk(j) /\ \A i \in Jobs : JobOk(i)
    BY DEF JobInv
  <2>4. CASE UNCHANGED <<shared, task>> /\ job[j].pc # "commit"
    <3>1. ASSUME NEW i \in Jobs, i # j PROVE JobOk(i)'
      BY <2>1, <2>3, <2>4, <3>1
         DEF JobOk, Begun, Sequence, StoredUserIs, shared, memory, durable
    <3>2. holder # j /\ holder' = holder /\ UNCHANGED <<credentialFile, loginSequence>>
      BY <2>4 DEF Shape, shared, memory, durable
    <3> USE <2>3, <3>2, Literals DEF JobOk, Begun, Sequence, StoredUserIs
    <3>3. CASE FetchFails(j) \/ StartThread(j) \/ LoginFails(j) \/ CommitRejected(j)
      <4>1. CASE FetchFails(j)
        BY <2>2, <3>1, <4>1, JobAtEffect DEF FetchFails, Active
      <4>2. CASE StartThread(j)
        BY <2>2, <3>1, <4>2, JobAtEffect
           DEF StartThread, IsCurrentLoginAttempt, CurrentAttempt
      <4>3. CASE LoginFails(j)
        BY <2>2, <3>1, <4>3, JobAtEffect DEF LoginFails
      <4>4. CASE CommitRejected(j)
        BY <2>2, <3>1, <4>4, JobAtEffect DEF CommitRejected
      <4> QED BY <3>3, <4>1, <4>2, <4>3, <4>4
    <3>4. CASE RegisterJob(j)
      BY <2>2, <3>1, <3>4, JobShowsEffect DEF RegisterJob
    <3>5. CASE RejectJob(j)
      BY <2>2, <3>1, <3>5, JobShowsEffect DEF RejectJob, Active
    <3>6. CASE ThreadFails(j)
      BY <2>2, <3>1, <3>6, JobShowsEffect DEF ThreadFails, Active
    <3>7. CASE BeginPolling(j)
      BY <2>2, <3>1, <3>7, JobAtEffect, JobShowsEffect DEF BeginPolling, Active
    <3>8. ASSUME NEW u \in Users, ScanConfirmed(j, u) PROVE JobInv'
      <4>1. job[j].pc = "polling"
        BY <3>8 DEF ScanConfirmed
      <4> QED BY <2>2, <3>1, <3>8, <4>1, ScanEffect
    <3>9. ASSUME NEW s \in Terminal, SettleJob(j, s) PROVE JobInv'
      BY <2>2, <3>1, <3>9, JobAtEffect, JobShowsEffect DEF SettleJob, Active
    <3> QED BY <1>4, <2>4, <3>3, <3>4, <3>5, <3>6, <3>7, <3>8, <3>9, ConstantsAssumption
            DEF JobStep, CommitBegins, SaveLogin, CommitFails, Shape
  <2>5. CASE CommitBegins(j)
    <3>1. /\ job'[j].pc = "commit" /\ job'[j].status = job[j].status
          /\ job'[j].attempt = job[j].attempt
          /\ holder' = j /\ UNCHANGED credentialFile
      BY <2>5, JobAtEffect, Literals DEF CommitBegins, durable
    <3>2. /\ Sequence(j) = loginSequence
          /\ job[j].pc = "scanned"
      BY <2>5 DEF CommitBegins, IsCurrentLoginAttempt, CurrentAttempt, Sequence
    <3>3. JobOk(j)'
      BY <2>1, <2>3, <3>1, <3>2, ConstantsAssumption DEF JobOk, Begun, Sequence
    <3>4. ASSUME NEW i \in Jobs, i # j PROVE JobOk(i)'
      BY <2>1, <2>3, <3>1, <3>4, ConstantsAssumption
         DEF JobOk, Begun, Sequence, StoredUserIs
    <3> QED BY <2>2, <3>1, <3>2, <3>3, <3>4 DEF Begun
  <2>6. CASE SaveLogin(j)
    <3>1. /\ job'[j].pc = "committed" /\ job'[j].status = job[j].status
          /\ job'[j].attempt = job[j].attempt /\ job'[j].user = job[j].user
          /\ holder = j /\ holder' = Nobody
          /\ job[j].pc = "commit"
      BY <2>6, JobAtEffect, Literals DEF SaveLogin, Shape
    <3>2. credentialFile' # None /\ credentialFile'.user = job[j].user
      BY <2>6, <3>1, ConstantsAssumption DEF SaveLogin, Shape
    <3>3. JobOk(j)'
      BY <2>1, <2>3, <3>1, <3>2, ConstantsAssumption
         DEF JobOk, Begun, Sequence, StoredUserIs
    <3>4. ASSUME NEW i \in Jobs, i # j PROVE JobOk(i)'
      <4>1. Begun(i) => Sequence(i) # loginSequence
        BY <2>3, <3>1, <3>4 DEF JobInv, Unique, JobOk, Begun
      <4> QED BY <2>1, <2>3, <3>1, <3>4, <4>1, ConstantsAssumption
              DEF JobOk, Begun, Sequence, Active
    <3> QED BY <2>2, <3>1, <3>3, <3>4 DEF Begun
  <2>7. CASE CommitFails(j)
    <3>1. /\ job'[j].pc = "broken" /\ job'[j].status = job[j].status
          /\ job'[j].attempt = job[j].attempt
          /\ holder = j /\ holder' = Nobody /\ UNCHANGED credentialFile
          /\ job[j].pc = "commit"
      BY <2>7, JobAtEffect, Literals DEF CommitFails, Shape, durable
    <3>2. JobOk(j)'
      BY <2>1, <2>3, <3>1, ConstantsAssumption DEF JobOk, Begun, Sequence
    <3>3. ASSUME NEW i \in Jobs, i # j PROVE JobOk(i)'
      BY <2>1, <2>3, <3>1, <3>3, ConstantsAssumption
         DEF JobOk, Begun, Sequence, StoredUserIs
    <3> QED BY <2>2, <3>1, <3>2, <3>3 DEF Begun
  <2> QED BY <1>4, <2>4, <2>5, <2>6, <2>7, JobStepFrame
<1>5. ASSUME RemovalStep PROVE JobInv'
  <2>1. /\ holder # Nobody /\ holder' \in {holder, Nobody}
        /\ UNCHANGED <<loginSequence, job>>
    BY <1>5, ConstantsAssumption
       DEF RemovalStep, DeleteFile, ClearSyncedRegistries, DeleteFails, LockInv, memory
  <2>2. \A j \in Jobs : job[j].pc = "committed" => job[j].status = "canceled"
    <3> SUFFICES ASSUME NEW j \in Jobs, job[j].pc = "committed",
                        job[j].status # "canceled"
                 PROVE  FALSE
      OBVIOUS
    <3>1. Begun(j) /\ Sequence(j) = loginSequence /\ holder # Admin
      BY <1>a DEF JobInv, JobOk, Begun, Active
    <3>2. PICK i \in Jobs : holder = i
      BY <2>1, <3>1 DEF TypeOK
    <3>3. job[i].pc = "commit" /\ Begun(i) /\ Sequence(i) = loginSequence
      BY <3>2 DEF Shape, JobInv, JobOk, Begun
    <3> QED BY <3>1, <3>3 DEF JobInv, Unique
  <2> QED BY <2>1, <2>2, ConstantsAssumption
          DEF JobInv, JobOk, Unique, Begun, Sequence
<1>6. ASSUME NEW t \in Tasks, TaskStep(t) PROVE JobInv'
  BY <1>3, <1>6, TaskStepEffect, TaskStepFile
<1>7. ASSUME Crash PROVE JobInv'
  BY <1>7 DEF Crash, NewJob, JobInv, JobOk, Unique, Begun
<1> QED BY <1>1, <1>2, <1>3, <1>4, <1>5, <1>6, <1>7, RequestEffect
        DEF Next, Request, vars, shared, durable, memory

(* The invariant of the login jobs, with that of the account. *)
LEMMA LoginInvariant == Spec => []LoginInv
<1>1. Init => JobInv
  BY DEF Init, NewJob, JobInv, JobOk, Unique, Begun
<1>2. LoginInv /\ [Next]_vars => JobInv'
  BY JobInvStep
<1> QED BY <1>1, <1>2, OwnerInvariant, PTL DEF Spec, LoginInv

(* Only the last login attempt can show "scanning". *)
THEOREM ScanningIsTheLatest == Spec => []ScanningIsLatest
<1>1. LoginInv => ScanningIsLatest
  BY DEF LoginInv, JobInv, JobOk, Begun, Sequence, Active, ScanningIsLatest
<1> QED BY <1>1, LoginInvariant, PTL

(* How a step of the runtime may change the status of a job. *)
LEMMA StatusStep ==
  ASSUME LoginInv, [Next]_vars, NEW j \in Jobs, job'[j].status # job[j].status
  PROVE  \/ job'[j].status = "none"
         \/ job'[j].status \in {"canceled", "failed"}
         \/ job'[j].status \in Active /\ job[j].status # "canceled"
         \/ /\ job'[j].status = "success" /\ job[j].status # "canceled"
            /\ job[j].pc = "committed"
<1> USE DEF LoginInv, OwnerInv
<1>1. ASSUME NEW i \in Jobs, BeginLogin(i) PROVE job'[j].status \in {"none", "canceled"}
  <2> DEFINE r == [pc |-> "fetching", status |-> "none", user |-> None,
                   attempt |-> [generation |-> accountGeneration,
                                sequence |-> loginSequence + 1]]
  <2>1. job' = [CancelPending EXCEPT ![i] = r]
    BY <1>1 DEF BeginLogin
  <2>2. IF j = i THEN job'[j] = r ELSE job'[j] = CancelPending[j]
    BY <2>1, CancelEffect
  <2> QED BY <2>2, CancelEffect
<1>2. ASSUME DeleteBegins PROVE job'[j].status = "canceled"
  BY <1>2, CancelEffect DEF DeleteBegins
<1>3. ASSUME NEW i \in Jobs, JobStep(i)
      PROVE  \/ job'[j].status \in {"canceled", "failed"}
             \/ job'[j].status \in Active /\ job[j].status # "canceled"
             \/ /\ job'[j].status = "success" /\ job[j].status # "canceled"
                /\ job[j].pc = "committed"
  <2>1. j = i
    BY <1>3, JobStepKeeps
  <2>2. JobOk(j) /\ (holder = j => job[j].pc = "commit")
    BY DEF JobInv, Shape
  <2>3. CASE FetchFails(j) \/ StartThread(j) \/ LoginFails(j) \/ CommitRejected(j)
               \/ CommitBegins(j) \/ SaveLogin(j) \/ CommitFails(j)
    BY <2>3, JobAtEffect, Literals
       DEF FetchFails, StartThread, LoginFails, CommitRejected, CommitBegins,
           SaveLogin, CommitFails
  <2>4. CASE RegisterJob(j) \/ RejectJob(j) \/ ThreadFails(j)
    BY <2>2, <2>4, JobShowsEffect, Literals
       DEF RegisterJob, RejectJob, ThreadFails, JobOk, Begun, Active
  <2>5. CASE BeginPolling(j)
    BY <2>5, JobAtEffect, JobShowsEffect, Literals DEF BeginPolling, Active
  <2>6. ASSUME NEW u \in Users, ScanConfirmed(j, u) PROVE FALSE
    BY <2>6, ScanEffect
  <2>7. ASSUME NEW s \in Terminal, SettleJob(j, s)
        PROVE  \/ job'[j].status \in {"canceled", "failed"}
               \/ /\ job'[j].status = "success" /\ job[j].status # "canceled"
                  /\ job[j].pc = "committed"
    BY <2>7, JobAtEffect, JobShowsEffect, Literals DEF SettleJob
  <2> QED BY <1>3, <2>1, <2>3, <2>4, <2>5, <2>6, <2>7 DEF JobStep
<1>4. ASSUME Crash PROVE job'[j].status = "none"
  BY <1>4 DEF Crash, NewJob
<1>5. CASE UNCHANGED job
  BY <1>5
<1> QED BY <1>1, <1>2, <1>3, <1>4, <1>5, RequestEffect, TaskStepEffect
        DEF Next, Request, RemovalStep, DeleteFile, ClearSyncedRegistries,
            DeleteFails, vars

(* A canceled job never shows progress or success again. *)
THEOREM CanceledIsFinal == Spec => CanceledNeverRevives
<1>1. ASSUME LoginInv, [Next]_vars
      PROVE  [\A j \in Jobs : job[j].status = "canceled"
                => job'[j].status \notin Active \cup {"success"}]_vars
  BY <1>1, StatusStep DEF Active
<1> QED BY <1>1, LoginInvariant, PTL DEF Spec, CanceledNeverRevives

(* A job reports success only while its account is the stored one. *)
THEOREM SuccessIsStored == Spec => SuccessMeansStored
<1>1. ASSUME LoginInv, [Next]_vars
      PROVE  [\A j \in Jobs :
                job'[j].status = "success" /\ job[j].status # "success"
                  => StoredUserIs(job[j].user)]_vars
  BY <1>1, StatusStep DEF Active, LoginInv, JobInv, JobOk, Begun
<1> QED BY <1>1, LoginInvariant, PTL DEF Spec, SuccessMeansStored

----------------------------------------------------------------------------
(* The runtime implements the contract of AccountOwnership: the attempts   *)
(* of the abstract specification are those whose number is the current     *)
(* one; the thread that writes a login is the attempt that was chosen.     *)

Before == {"fetching", "registered", "started", "polling", "scanned"}

(* What is not the holder's business: nobody is storing a credential then. *)
LEMMA NobodyStores ==
  ASSUME holder \notin Jobs
  PROVE  /\ storingAttempt = None
         /\ openAttempts = {j \in Jobs : /\ job[j].pc \in Before
                                         /\ IsCurrentLoginAttempt(j)}
BY DEF storingAttempt, openAttempts, Before, IsCurrentLoginAttempt

(* While a login stores its credential no attempt is open. *)
LEMMA SomebodyStores ==
  ASSUME holder \in Jobs
  PROVE  storingAttempt = holder /\ openAttempts = {}
BY DEF storingAttempt, openAttempts

(* Whatever leaves the account, the rows and the attempts that began alone *)
(* and opens none.                                                         *)
LEMMA Closing ==
  ASSUME holder \notin Jobs, holder' \notin Jobs, openAttempts' \subseteq openAttempts,
         UNCHANGED <<storedAccount, registry, begunAttempts>>
  PROVE  Ownership!Next
BY NobodyStores DEF Ownership!Next, Ownership!Close, storingAttempt

(* A step of a job concerns an attempt that has begun and stays so.        *)
LEMMA JobStepBegun ==
  ASSUME TypeOK, Shape, NEW j \in Jobs, JobStep(j)
  PROVE  UNCHANGED begunAttempts
<1> USE Literals
<1>1. job[j].pc # "idle" /\ job'[j].pc # "idle"
  <2>1. CASE FetchFails(j) \/ StartThread(j) \/ LoginFails(j) \/ CommitRejected(j)
    BY <2>1, JobAtEffect DEF FetchFails, StartThread, LoginFails, CommitRejected
  <2>2. CASE RegisterJob(j) \/ RejectJob(j) \/ ThreadFails(j)
    BY <2>2, JobShowsEffect DEF RegisterJob, RejectJob, ThreadFails
  <2>3. CASE BeginPolling(j)
    BY <2>3, JobAtEffect, JobShowsEffect DEF BeginPolling
  <2>4. ASSUME NEW u \in Users, ScanConfirmed(j, u)
        PROVE  job[j].pc # "idle" /\ job'[j].pc # "idle"
    BY <2>4, ScanEffect DEF ScanConfirmed
  <2>5. CASE CommitBegins(j)
    BY <2>5, JobAtEffect DEF CommitBegins
  <2>6. CASE SaveLogin(j)
    BY <2>6, JobAtEffect DEF SaveLogin, Shape
  <2>7. CASE CommitFails(j)
    BY <2>7, JobAtEffect DEF CommitFails, Shape
  <2>8. ASSUME NEW s \in Terminal, SettleJob(j, s)
        PROVE  job[j].pc # "idle" /\ job'[j].pc # "idle"
    BY <2>8, JobAtEffect, JobShowsEffect DEF SettleJob
  <2> QED BY <2>1, <2>2, <2>3, <2>4, <2>5, <2>6, <2>7, <2>8 DEF JobStep
<1> QED BY <1>1, JobStepKeeps DEF begunAttempts

(* Every step of the runtime is a step of AccountOwnership or stutters. *)
LEMMA OwnershipStep ==
  ASSUME LoginInv, [Next]_vars
  PROVE  [Ownership!Next]_(Ownership!vars)
<1> USE DEF LoginInv, OwnerInv
<1>a. Nobody \notin Jobs /\ Admin \notin Jobs /\ None \notin Jobs
  BY ConstantsAssumption
<1>b. \A j \in Jobs : Sequence(j) \in Nat /\ loginSequence \in Nat
  BY DEF TypeOK, Sequence, JobRecord, Attempt
<1>c. \A j \in Jobs : IsCurrentLoginAttempt(j) => Sequence(j) = loginSequence
  BY DEF IsCurrentLoginAttempt, CurrentAttempt, Sequence
<1>d. \A j \in Jobs : Begun(j) => Sequence(j) <= loginSequence
  BY DEF JobInv, JobOk
<1>1. ASSUME NEW j \in Jobs, BeginLogin(j) PROVE Ownership!Next
  <2> DEFINE r == [pc |-> "fetching", status |-> "none", user |-> None,
                   attempt |-> [generation |-> accountGeneration,
                                sequence |-> loginSequence + 1]]
  <2>1. job' = [CancelPending EXCEPT ![j] = r]
    BY <1>1 DEF BeginLogin
  <2>2. job'[j] = r
    BY <2>1, CancelEffect
  <2>3. IsCurrentLoginAttempt(j)'
    BY <1>1, <2>2 DEF BeginLogin, IsCurrentLoginAttempt, CurrentAttempt
  <2>4. ASSUME NEW i \in Jobs, i # j
        PROVE  /\ job'[i].pc = job[i].pc
               /\ job'[i].pc \in Before => ~IsCurrentLoginAttempt(i)'
    <3>1. job'[i].pc = job[i].pc /\ job'[i].attempt = job[i].attempt
      BY <2>1, <2>4, CancelEffect
    <3>2. job'[i].pc \in Before => Sequence(i) <= loginSequence
      BY <1>d, <3>1 DEF Begun, Before
    <3> QED BY <1>1, <1>b, <3>1, <3>2
            DEF BeginLogin, IsCurrentLoginAttempt, CurrentAttempt, Sequence
  <2>5. holder = Nobody /\ holder' = Nobody /\ job[j].pc = "idle"
    BY <1>1 DEF BeginLogin
  <2>6. openAttempts' = {j}
    BY <1>a, <2>2, <2>3, <2>4, <2>5 DEF openAttempts, IsCurrentLoginAttempt, Before
  <2>7. j \notin begunAttempts /\ begunAttempts' = begunAttempts \cup {j}
    BY <2>2, <2>4, <2>5 DEF begunAttempts
  <2>8. storingAttempt = None /\ UNCHANGED storingAttempt
    BY <1>a, <2>5 DEF storingAttempt
  <2>9. Ownership!Begin(j)
    BY <1>1, <2>6, <2>7, <2>8
       DEF BeginLogin, Ownership!Begin, storedAccount, durable
  <2> QED BY <2>9 DEF Ownership!Next
<1>2. ASSUME DeleteBegins PROVE Ownership!Next
  <2>0. holder = Nobody /\ holder' = Admin
    BY <1>2 DEF DeleteBegins
  <2>1. ASSUME NEW i \in Jobs
        PROVE  /\ job'[i].pc = job[i].pc
               /\ job'[i].pc \in Before => ~IsCurrentLoginAttempt(i)'
    <3>1. job'[i].pc = job[i].pc /\ job'[i].attempt = job[i].attempt
      BY <1>2, CancelEffect DEF DeleteBegins
    <3>2. job'[i].pc \in Before => Sequence(i) <= loginSequence
      BY <1>d, <3>1 DEF Begun, Before
    <3> QED BY <1>2, <1>b, <3>1, <3>2
            DEF DeleteBegins, IsCurrentLoginAttempt, CurrentAttempt, Sequence
  <2>2. openAttempts' = {}
    BY <1>a, <2>0, <2>1 DEF openAttempts, IsCurrentLoginAttempt, Before
  <2>3. UNCHANGED begunAttempts
    BY <2>1 DEF begunAttempts
  <2> QED BY <1>2, <1>a, <2>0, <2>2, <2>3, Closing DEF DeleteBegins, storedAccount, durable
<1>4. ASSUME NEW j \in Jobs, JobStep(j) PROVE [Ownership!Next]_(Ownership!vars)
  <2>0. UNCHANGED begunAttempts
    BY <1>4, JobStepBegun
  <2>1. CASE UNCHANGED <<shared, task>> /\ job[j].pc # "commit"
    <3>0. \A i \in Jobs : i # j => job'[i] = job[i]
      BY <1>4, JobStepKeeps
    <3>1. job'[j].attempt = job[j].attempt
      BY <1>4, <2>1, JobStepQuiet
    <3>2. job'[j].pc \in Before => job[j].pc \in Before
      BY <1>4, <2>1, JobStepQuiet DEF Before
    <3>3. openAttempts' \subseteq openAttempts
      BY <2>1, <3>0, <3>1, <3>2
         DEF openAttempts, CurrentAttempt, Before, shared, memory
    <3>4. UNCHANGED <<storedAccount, storingAttempt, registry, holder>>
      BY <2>1 DEF storedAccount, storingAttempt, shared, durable
    <3>5. CASE holder \in Jobs
      BY <2>0, <3>4, <3>5, SomebodyStores DEF Ownership!vars, openAttempts
    <3>6. CASE holder \notin Jobs
      BY <2>0, <3>3, <3>4, <3>6, Closing
    <3> QED BY <3>5, <3>6
  <2>2. CASE CommitBegins(j)
    <3>1. holder = Nobody /\ holder' = j /\ job[j].pc \in Before /\ IsCurrentLoginAttempt(j)
      BY <2>2 DEF CommitBegins, Before
    <3>2. storingAttempt = None /\ j \in openAttempts
      BY <1>a, <3>1, NobodyStores
    <3>3. storingAttempt' = j /\ openAttempts' = {}
      BY <3>1 DEF storingAttempt, openAttempts
    <3>4. Ownership!Choose(j)
      BY <2>0, <2>2, <3>2, <3>3
         DEF CommitBegins, Ownership!Choose, storedAccount, durable
    <3> QED BY <3>4 DEF Ownership!Next
  <2>3. ASSUME holder = j, holder' = Nobody, job'[j].pc \notin Before,
               UNCHANGED loginSequence
        PROVE  /\ storingAttempt = j /\ openAttempts = {}
               /\ storingAttempt' = None /\ openAttempts' = {}
    <3>1. Sequence(j) = loginSequence /\ Begun(j)
      BY <2>3 DEF Shape, Begun, JobInv, JobOk
    <3>2. ASSUME NEW i \in Jobs, job'[i].pc \in Before PROVE ~IsCurrentLoginAttempt(i)'
      <4>1. i # j /\ job'[i] = job[i] /\ Begun(i)
        BY <1>4, <2>3, <3>2, JobStepKeeps DEF Begun, Before
      <4>2. Sequence(i) # loginSequence
        BY <3>1, <4>1 DEF JobInv, Unique
      <4> QED BY <2>3, <4>1, <4>2 DEF IsCurrentLoginAttempt, CurrentAttempt, Sequence
    <3>3. storingAttempt' = None /\ openAttempts' = {}
      BY <1>a, <2>3, <3>2 DEF storingAttempt, openAttempts, IsCurrentLoginAttempt, Before
    <3> QED BY <2>3, <3>3, SomebodyStores
  <2>4. CASE SaveLogin(j)
    <3>1. /\ storingAttempt = j /\ openAttempts = {}
          /\ storingAttempt' = None /\ openAttempts' = {}
      BY <2>3, <2>4, JobAtEffect, Literals DEF SaveLogin, Before, memory
    <3>2. job[j].user \in Users
      BY <2>4 DEF SaveLogin, Shape
    <3>3. storedAccount' = job[j].user
      BY <2>4, ConstantsAssumption, <3>2 DEF SaveLogin, storedAccount
    <3>4. storedAccount \in {None, job[j].user} /\ registry \subseteq {job[j].user}
      BY <2>4 DEF SaveLogin, LockInv, storedAccount, StoredUserIs
    <3>5. Ownership!Login(j, job[j].user)
      BY <2>0, <2>4, <3>1, <3>3, <3>4 DEF SaveLogin, Ownership!Login
    <3> QED BY <3>2, <3>5 DEF Ownership!Next
  <2>5. CASE CommitFails(j)
    <3>1. /\ storingAttempt = j /\ openAttempts = {}
          /\ storingAttempt' = None /\ openAttempts' = {}
      BY <2>3, <2>5, JobAtEffect, Literals DEF CommitFails, Before, memory
    <3>2. Ownership!GiveUp
      BY <2>0, <2>5, <3>1 DEF CommitFails, Ownership!GiveUp, storedAccount, durable
    <3> QED BY <3>2 DEF Ownership!Next
  <2> QED BY <1>4, <2>1, <2>2, <2>4, <2>5, JobStepFrame
<1>5. ASSUME RemovalStep PROVE [Ownership!Next]_(Ownership!vars)
  <2>0. UNCHANGED begunAttempts
    BY <1>5
       DEF RemovalStep, DeleteFile, ClearSyncedRegistries, DeleteFails, begunAttempts
  <2>1. UNCHANGED <<openAttempts, storingAttempt>>
    BY <1>5, <1>a
       DEF RemovalStep, DeleteFile, ClearSyncedRegistries, DeleteFails, memory,
           openAttempts, storingAttempt, IsCurrentLoginAttempt, CurrentAttempt
  <2>2. CASE DeleteFile
    <3>1. ASSUME holder \in Jobs PROVE openAttempts = {}
      BY <3>1, SomebodyStores
    <3>2. ASSUME holder = Admin PROVE openAttempts = {}
      <4>1. ASSUME NEW i \in Jobs, job[i].pc \in Before PROVE ~IsCurrentLoginAttempt(i)
        BY <1>b, <1>c, <3>2, <4>1 DEF JobInv, JobOk, Begun, Before
      <4> QED BY <1>a, <3>2, <4>1, NobodyStores
    <3>3. holder # Nobody
      BY <2>2 DEF DeleteFile, LockInv
    <3>4. openAttempts = {}
      BY <3>1, <3>2, <3>3 DEF TypeOK
    <3>5. Ownership!Forget
      BY <2>0, <2>1, <2>2, <3>4 DEF DeleteFile, Ownership!Forget, storedAccount
    <3> QED BY <3>5 DEF Ownership!Next
  <2>3. CASE ClearSyncedRegistries
    <3>1. Ownership!Clear
      BY <2>0, <2>1, <2>3
         DEF ClearSyncedRegistries, Ownership!Clear, storedAccount, LockInv
    <3> QED BY <3>1 DEF Ownership!Next
  <2>4. CASE DeleteFails
    BY <2>0, <2>1, <2>4 DEF DeleteFails, storedAccount, durable, Ownership!vars
  <2> QED BY <1>5, <2>2, <2>3, <2>4 DEF RemovalStep
<1>6. ASSUME NEW t \in Tasks, TaskStep(t) PROVE [Ownership!Next]_(Ownership!vars)
  <2>1. UNCHANGED <<openAttempts, begunAttempts, storingAttempt>>
    BY <1>6, TaskStepEffect
       DEF openAttempts, CurrentAttempt, begunAttempts, storingAttempt
  <2>2. UNCHANGED storedAccount
    BY <1>6, TaskStepFile DEF storedAccount
  <2>3. ASSUME NEW kept \in SUBSET registry, NEW fetched \in SUBSET {task[t].client},
               CommitSnapshot(t, kept, fetched)
        PROVE  Ownership!Next
    <3>1. StoredUserIs(task[t].client)
      BY <2>3 DEF CommitSnapshot, TaskInv, TaskOwned
    <3>2. /\ storedAccount = task[t].client /\ storedAccount # None
          /\ registry' \subseteq registry \cup {storedAccount}
      BY <2>3, <3>1, ConstantsAssumption
         DEF CommitSnapshot, storedAccount, StoredUserIs, TypeOK, Credential
    <3>3. storingAttempt = None
      BY <1>a, <2>3, NobodyStores DEF CommitSnapshot
    <3>4. Ownership!Sync
      BY <2>1, <2>2, <3>2, <3>3 DEF Ownership!Sync
    <3> QED BY <3>4 DEF Ownership!Next
  <2>4. CASE UNCHANGED registry
    BY <2>1, <2>2, <2>4 DEF Ownership!vars
  <2> QED BY <1>6, <2>3, <2>4
       DEF TaskStep, AccountGone, CredentialFresh, CredentialExpiring,
         RefreshEntry, AlreadyRefreshed, AcquireRefresh, ExchangeReturns, ExchangeFails,
         SaveRefreshed, SaveRefreshedFails, DiscardRefreshed, Fallback,
         BuildClient, Dispatch, SyncFetched, SyncFails, shared, durable
<1>7. ASSUME Crash PROVE Ownership!Next
  <2>1. openAttempts' = {} /\ begunAttempts' = {} /\ storingAttempt' = None
    BY <1>7, <1>a DEF Crash, NewJob, openAttempts, begunAttempts, storingAttempt
  <2>2. Ownership!Restart
    BY <1>7, <2>1 DEF Crash, Ownership!Restart, storedAccount, durable
  <2> QED BY <2>2 DEF Ownership!Next
<1>8. ASSUME UNCHANGED <<shared, job>> PROVE UNCHANGED Ownership!vars
  BY <1>8 DEF Ownership!vars, storedAccount, openAttempts, begunAttempts, storingAttempt,
              CurrentAttempt, shared, durable, memory
<1> QED BY <1>1, <1>2, <1>4, <1>5, <1>6, <1>7, <1>8, RequestEffect
        DEF Next, Request, vars

(* An account that was removed comes back only through a login that began  *)
(* afterwards, and rows of two accounts are never mixed.                   *)
THEOREM RuntimeImplementsOwnership == Spec => ImplementsOwnership
<1>1. Init => Ownership!Init
  BY ConstantsAssumption
     DEF Init, NewJob, Ownership!Init, storedAccount, openAttempts, begunAttempts,
         storingAttempt
<1>2. LoginInv /\ [Next]_vars => [Ownership!Next]_(Ownership!vars)
  BY OwnershipStep
<1> QED BY <1>1, <1>2, LoginInvariant, PTL DEF Spec, Ownership!Spec, ImplementsOwnership

----------------------------------------------------------------------------
(* The runtime implements the contract of LoginJobs.                       *)

Unshown == {"idle", "fetching", "registered"}

(* A step of one job shows in that job alone. *)
LEMMA ShownOfOne ==
  ASSUME NEW j \in Jobs, NEW s, \A i \in Jobs : i # j => job'[i] = job[i],
         shownJobs'[j] = s
  PROVE  shownJobs' = [shownJobs EXCEPT ![j] = s]
BY DEF shownJobs

(* A login or a removal that begins closes what is open. *)
LEMMA ShownCanceled ==
  ASSUME TypeOK, NEW i \in Jobs,
         \/ job'[i] = CancelPending[i]
         \/ job[i].pc = "idle" /\ job'[i].pc = "fetching"
  PROVE  shownJobs'[i] = Contract!Canceled[i]
<1>1. job[i].status \in JobStatus
  BY DEF TypeOK, JobRecord
<1>2. CASE job'[i] = CancelPending[i]
  <2>1. /\ job'[i].pc = job[i].pc
        /\ job'[i].status = IF job[i].status \in Active THEN "canceled" ELSE job[i].status
    BY <1>2, CancelEffect
  <2> QED BY <1>1, <2>1 DEF shownJobs, Contract!Canceled, JobStatus, Active, Terminal
<1>3. CASE job[i].pc = "idle" /\ job'[i].pc = "fetching"
  BY <1>3 DEF shownJobs, Contract!Canceled
<1> QED BY <1>2, <1>3

(* While an attempt is the current one and its job is not given out yet,   *)
(* no other job is open: starting it has canceled them, and each of those  *)
(* that came later is turned away.                                         *)
LEMMA NoneElseIsOpen ==
  ASSUME LoginInv, NEW j \in Jobs, job[j].pc = "registered", IsCurrentLoginAttempt(j),
         NEW i \in Jobs
  PROVE  shownJobs[i] # "open"
<1>1. Begun(j) /\ Sequence(j) = loginSequence
  BY DEF Begun, Sequence, IsCurrentLoginAttempt, CurrentAttempt
<1>2. ASSUME shownJobs[i] = "open" PROVE FALSE
  <2>1. job[i].status \in Active /\ job[i].pc \notin Unshown
    BY <1>2 DEF LoginInv, OwnerInv, TypeOK, JobRecord, JobStatus, Terminal, shownJobs, Unshown
  <2>2. Begun(i) /\ Sequence(i) = loginSequence
    BY <2>1 DEF LoginInv, JobInv, JobOk, Begun, Unshown
  <2> QED BY <1>1, <2>1, <2>2 DEF LoginInv, JobInv, Unique, Unshown
<1> QED BY <1>2

(* Every step of the runtime shows as one the contract allows. *)
LEMMA ContractStep ==
  ASSUME LoginInv, [Next]_vars
  PROVE  [Contract!Next]_shownJobs
<1> USE DEF LoginInv, OwnerInv
<1>a. \A i \in Jobs : job[i].status \in JobStatus
  BY DEF TypeOK, JobRecord
<1>1. ASSUME \A i \in Jobs : \/ job'[i] = CancelPending[i]
                             \/ job[i].pc = "idle" /\ job'[i].pc = "fetching"
      PROVE  Contract!Next
  <2>1. shownJobs' = Contract!Canceled
    BY <1>1, ShownCanceled DEF shownJobs, Contract!Canceled
  <2> QED BY <2>1 DEF Contract!Next, Contract!Changes, Contract!CancelAll
<1>2. ASSUME NEW j \in Jobs, BeginLogin(j) PROVE Contract!Next
  <2> DEFINE r == [pc |-> "fetching", status |-> "none", user |-> None,
                   attempt |-> [generation |-> accountGeneration,
                                sequence |-> loginSequence + 1]]
  <2>1. job' = [CancelPending EXCEPT ![j] = r] /\ job[j].pc = "idle"
    BY <1>2 DEF BeginLogin
  <2>2. /\ job'[j] = r
        /\ \A i \in Jobs : i # j => job'[i] = CancelPending[i]
    BY <2>1, CancelEffect
  <2> QED BY <1>1, <2>1, <2>2
<1>3. ASSUME DeleteBegins PROVE Contract!Next
  BY <1>1, <1>3 DEF DeleteBegins
<1>4. ASSUME NEW j \in Jobs, JobStep(j) PROVE [Contract!Next]_shownJobs
  <2>1. \A i \in Jobs : i # j => job'[i] = job[i]
    BY <1>4, JobStepKeeps
  <2>2. JobOk(j)
    BY DEF JobInv
  <2>3. ASSUME shownJobs'[j] = shownJobs[j] PROVE UNCHANGED shownJobs
    BY <2>1, <2>3 DEF shownJobs
  <2>4. ASSUME NEW s \in Contract!Over, shownJobs[j] = "open", shownJobs'[j] = s
        PROVE  Contract!Next
    <3>1. shownJobs' = [shownJobs EXCEPT ![j] = s]
      BY <2>1, <2>4, ShownOfOne
    <3> QED BY <2>4, <3>1 DEF Contract!Next, Contract!Changes, Contract!Settle
  <2>5. CASE FetchFails(j)
    BY <2>2, <2>3, <2>5, JobAtEffect, Literals DEF FetchFails, JobOk, Begun, Active, shownJobs
  <2>6. CASE RegisterJob(j)
    BY <2>3, <2>6, JobShowsEffect, Literals DEF RegisterJob, shownJobs
  <2>7. CASE RejectJob(j)
    <3>1. shownJobs[j] = "none" /\ shownJobs'[j] = "canceled"
      BY <2>7, JobShowsEffect, Literals DEF RejectJob, shownJobs, Active, Terminal
    <3>2. shownJobs' = [shownJobs EXCEPT ![j] = "canceled"]
      BY <2>1, <3>1, ShownOfOne
    <3> QED BY <3>1, <3>2 DEF Contract!Next, Contract!GivesOut, Contract!Refuse
  <2>8. CASE StartThread(j)
    <3>1. /\ job[j].pc = "registered" /\ job'[j].pc = "started"
          /\ job'[j].status = job[j].status /\ job[j].status \in {"pending", "canceled"}
      BY <2>2, <2>8, JobAtEffect, Literals DEF StartThread, JobOk, Begun
    <3>2. shownJobs[j] = "none" /\ shownJobs'[j] \in {"open", "canceled"}
      BY <3>1 DEF shownJobs, Active
    <3>3. shownJobs' = [shownJobs EXCEPT ![j] = shownJobs'[j]]
      BY <2>1, ShownOfOne
    <3>4. Contract!Canceled = shownJobs
      BY <2>8, NoneElseIsOpen DEF StartThread, Contract!Canceled, shownJobs
    <3> QED BY <3>2, <3>3, <3>4
            DEF Contract!Next, Contract!GivesOut, Contract!Refuse, Contract!Start
  <2>9. CASE ThreadFails(j)
    <3>1. /\ shownJobs'[j] = "failed" /\ shownJobs[j] \in {"open", "canceled"}
      BY <2>2, <2>9, JobShowsEffect, Literals
         DEF ThreadFails, JobOk, Begun, shownJobs, Active, Terminal
    <3>2. shownJobs' = [shownJobs EXCEPT ![j] = "failed"]
      BY <2>1, <3>1, ShownOfOne
    <3> QED BY <2>4, <3>1, <3>2
            DEF Contract!Next, Contract!Changes, Contract!NotStarted, Contract!Over
  <2>10. CASE BeginPolling(j)
    <3>1. /\ job[j].pc = "started" /\ job'[j].pc \in {"done", "polling"}
          /\ \/ job'[j].status = job[j].status
             \/ job'[j].status = "scanning" /\ job[j].status # "canceled"
      BY <2>10, JobAtEffect, JobShowsEffect, Literals DEF BeginPolling
    <3>2. job[j].status \in {"pending", "canceled"}
      BY <2>2, <3>1 DEF JobOk, Begun
    <3> QED BY <2>3, <3>1, <3>2 DEF shownJobs, Active
  <2>11. ASSUME job[j].pc \notin Unshown, job'[j].pc \notin Unshown,
                job'[j].status = job[j].status
         PROVE  UNCHANGED shownJobs
    BY <2>3, <2>11 DEF shownJobs, Unshown
  <2>12. CASE LoginFails(j) \/ CommitRejected(j) \/ CommitBegins(j)
    BY <2>11, <2>12, JobAtEffect, Literals
       DEF LoginFails, CommitRejected, CommitBegins, Unshown
  <2>13. CASE SaveLogin(j) \/ CommitFails(j)
    BY <2>11, <2>13, JobAtEffect, Literals DEF SaveLogin, CommitFails, Shape, Unshown
  <2>14. ASSUME NEW u \in Users, ScanConfirmed(j, u) PROVE UNCHANGED shownJobs
    <3>1. job[j].pc = "polling"
      BY <2>14 DEF ScanConfirmed
    <3> QED BY <2>11, <2>14, <3>1, ScanEffect DEF Unshown
  <2>15. ASSUME NEW s \in Terminal, SettleJob(j, s) PROVE [Contract!Next]_shownJobs
    <3>1. /\ job[j].pc \in {"committed", "superseded", "broken"} /\ job'[j].pc = "done"
          /\ \/ job[j].status = "canceled" /\ job'[j].status = "canceled"
             \/ job[j].status # "canceled" /\ job'[j].status = s
      BY <2>15, JobAtEffect, JobShowsEffect, Literals DEF SettleJob
    <3>2. CASE job[j].status = "canceled"
      BY <2>11, <3>1, <3>2 DEF Unshown
    <3>3. CASE job[j].status # "canceled"
      <4>1. job[j].status = "scanning"
        BY <2>2, <3>1, <3>3 DEF JobOk, Begun
      <4>2. shownJobs[j] = "open" /\ shownJobs'[j] = s
        BY <3>1, <4>1 DEF shownJobs, Active, Terminal
      <4> QED BY <2>4, <4>2 DEF Terminal, Contract!Over
    <3> QED BY <3>2, <3>3
  <2> QED BY <1>4, <2>5, <2>6, <2>7, <2>8, <2>9, <2>10, <2>12, <2>13, <2>14, <2>15 DEF JobStep
<1>5. ASSUME Crash PROVE Contract!Next
  <2>1. shownJobs' = [j \in Jobs |-> "none"]
    BY <1>5 DEF Crash, NewJob, shownJobs
  <2> QED BY <2>1 DEF Contract!Next, Contract!Changes, Contract!Restart
<1>6. ASSUME UNCHANGED job PROVE UNCHANGED shownJobs
  BY <1>6 DEF shownJobs
<1> QED BY <1>2, <1>3, <1>4, <1>5, <1>6, RequestEffect, TaskStepEffect
        DEF Next, Request, RemovalStep, DeleteFile, ClearSyncedRegistries,
            DeleteFails, vars

(* Of the login jobs that were given out at most one is open, and one that *)
(* is over stays over: what the login page (LoginPage) assumes of the      *)
(* server is what LoginJobManager and MijiaRuntime do together.            *)
THEOREM RuntimeServesLogins == Spec => ServesLogins
<1>1. Init => Contract!Init
  BY DEF Init, NewJob, Contract!Init, shownJobs
<1>2. LoginInv /\ [Next]_vars => [Contract!Next]_shownJobs
  BY ContractStep
<1> QED BY <1>1, <1>2, LoginInvariant, PTL DEF Spec, Contract!Spec, ServesLogins

(* At most one QR login that was given out can still succeed, whatever     *)
(* logins, removals and threads that cannot be started overlap.            *)
THEOREM OneLoginIsOpen == Spec => []Contract!OneOpen
<1>1. Init => Contract!OneOpen
  BY DEF Init, NewJob, Contract!OneOpen, shownJobs
<1>2. ASSUME Contract!OneOpen, [Contract!Next]_shownJobs PROVE Contract!OneOpen'
  <2>1. DOMAIN shownJobs = Jobs /\ shownJobs = [j \in Jobs |-> shownJobs[j]]
    BY DEF shownJobs
  <2>2. ASSUME NEW j \in Jobs, Contract!GivesOut(j) PROVE Contract!OneOpen'
    <3>1. CASE Contract!Start(j)
      <4>1. shownJobs' = [i \in Jobs |-> IF i = j THEN "open" ELSE Contract!Canceled[i]]
        BY <3>1 DEF Contract!Start, Contract!Canceled
      <4>2. \A i \in Jobs : Contract!Canceled[i] # "open"
        BY DEF Contract!Canceled
      <4> QED BY <4>1, <4>2 DEF Contract!OneOpen
    <3>2. CASE Contract!Refuse(j)
      BY <1>2, <2>1, <3>2 DEF Contract!OneOpen, Contract!Refuse
    <3> QED BY <2>2, <3>1, <3>2 DEF Contract!GivesOut
  <2>3. ASSUME Contract!CancelAll \/ Contract!Restart PROVE Contract!OneOpen'
    BY <2>3 DEF Contract!OneOpen, Contract!CancelAll, Contract!Restart, Contract!Canceled
  <2>4. ASSUME NEW j \in Jobs, NEW s \in Contract!Over,
               shownJobs' = [shownJobs EXCEPT ![j] = s]
        PROVE  Contract!OneOpen'
    BY <1>2, <2>1, <2>4 DEF Contract!OneOpen, Contract!Over
  <2>5. ASSUME Contract!Changes PROVE Contract!OneOpen'
    BY <2>3, <2>4, <2>5
       DEF Contract!Changes, Contract!NotStarted, Contract!Settle, Contract!Over
  <2> QED BY <1>2, <2>2, <2>5 DEF Contract!Next, Contract!OneOpen
<1>3. LoginInv /\ [Next]_vars => [Contract!Next]_shownJobs
  BY ContractStep
<1> QED BY <1>1, <1>2, <1>3, LoginInvariant, PTL DEF Spec

=============================================================================
