---------------------------- MODULE StorageProofs ----------------------------
(***************************************************************************)
(* What is kept in files and releases: no receipt is lost, a saved         *)
(* credential can be read, only declared controls are sent, a publication  *)
(* that returned is complete -- for any number of events, processes,       *)
(* threads, specifications, requests, files and attachments.               *)
(***************************************************************************)
EXTENDS AuditTrail, CredentialFile, DeviceSpecs, ReleasePublish, TLAPS

-----------------------------------------------------------------------------
(* The audit trail. *)

(* Where a replay stands says what it holds: an event while it works on    *)
(* one; and the file it is about to unlink is of an event that has reached *)
(* the database, or whose row was purged there.                            *)
ReplayHolds ==
  \A r \in Replays :
    /\ replay[r].pc \in {"insert", "unlink"} => replay[r].event \in Events
    /\ replay[r].pc = "unlink" => replay[r].event \in rows \cup old

AuditInv == TypeOK /\ ReplayHolds /\ ReceiptKept

(* The empty trail satisfies the invariant. *)
LEMMA InitInv == Init => AuditInv
  BY DEF Init, AuditInv, TypeOK, ReplayHolds, ReceiptKept, ReplayIdle, LookupIdle,
         FileState, Delivery

-----------------------------------------------------------------------------
(* The states a replay can be in, named once for the proofs. *)
ReplayType == [pc : {"idle", "scan", "insert", "unlink"},
               todo : SUBSET Events, event : Events \cup {None}]
LookupType == [pc : {"idle", "database", "journal", "answered", "missing"},
               event : Events \cup {None},
               result : {"none", "known", "stored", "queued", "error", "unreadable"}]

(* add_audit keeps the invariant: a receipt is only given for an event     *)
(* that was written.                                                       *)
LEMMA Writes ==
  ASSUME AuditInv, NEW e \in Events, Record(e) \/ AddStep(e)
  PROVE  AuditInv'
<1>1. UNCHANGED <<replay, lookup, old>> /\ rows \subseteq rows' /\ lock' = lock
  BY DEF AddStep, Record, Insert, InsertFails, SaveFile, SaveFails, stores
<1>2. TypeOK'
  BY <1>1 DEF AuditInv, TypeOK, AddStep, Record, Insert, InsertFails, SaveFile,
              SaveFails, stores, Returns, FileState, Delivery
<1>3. ReplayHolds'
  BY <1>1 DEF AuditInv, ReplayHolds
<1>4. ReceiptKept'
  BY <1>1 DEF AuditInv, TypeOK, ReceiptKept, AddStep, Record, Insert, InsertFails,
              SaveFile, SaveFails, stores, Returns
<1> QED BY <1>2, <1>3, <1>4 DEF AuditInv

(* A step that writes neither store nor receipt, and takes the replay's    *)
(* hands off every file it does not already hold.                          *)
LEMMA Moves ==
  ASSUME AuditInv, NEW r \in Replays, NEW new \in ReplayType,
         replay' = [replay EXCEPT ![r] = new],
         new.pc \in {"insert", "unlink"} => new.event \in Events,
         new.pc = "unlink" => new.event \in rows' \cup old,
         rows \subseteq rows', rows' \subseteq Events,
         UNCHANGED <<delivery, writer, old, lookup>>,
         lock' \in Local \cup {None},
         file' \in [Events -> FileState],
         \A e \in Events : file'[e] = "absent" => file[e] = "absent" \/ e \in rows \cup old
  PROVE  AuditInv'
<1>1. TypeOK'
  BY DEF AuditInv, TypeOK, ReplayType
<1>2. ReplayHolds'
  <2> SUFFICES ASSUME NEW q \in Replays
               PROVE  /\ replay'[q].pc \in {"insert", "unlink"} => replay'[q].event \in Events
                      /\ replay'[q].pc = "unlink" => replay'[q].event \in rows' \cup old
    BY DEF ReplayHolds
  <2>1. replay'[q] = IF q = r THEN new ELSE replay[q]
    BY DEF AuditInv, TypeOK
  <2> QED BY <2>1 DEF AuditInv, ReplayHolds
<1>3. ReceiptKept'
  BY DEF AuditInv, ReceiptKept
<1> QED BY <1>1, <1>2, <1>3 DEF AuditInv

(* A replay that is over is a replay of the right type. *)
LEMMA IdleType == ReplayIdle \in ReplayType /\ ReplayIdle.pc = "idle"
  BY DEF ReplayIdle, ReplayType

(* A replay keeps the invariant: it unlinks a file only after the row was  *)
(* inserted.                                                               *)
LEMMA Replaying ==
  ASSUME AuditInv, NEW r \in Replays, BeginReplay(r) \/ ReplayStep(r)
  PROVE  AuditInv'
<1> USE DEF stores
<1>t. /\ replay[r] \in ReplayType /\ replay \in [Replays -> ReplayType]
      /\ file \in [Events -> FileState] /\ rows \subseteq Events
      /\ lock \in Local \cup {None}
  BY DEF AuditInv, TypeOK, ReplayType
<1>1. CASE BeginReplay(r)
  <2> DEFINE new == [pc |-> "scan", event |-> None,
                     todo |-> {e \in Events : file[e] \in {"queued", "damaged"}}]
  <2>1. new \in ReplayType /\ new.pc = "scan"
    BY DEF ReplayType
  <2>2. replay' = [replay EXCEPT ![r] = new] /\ lock' \in Local \cup {None}
    BY <1>1, <1>t DEF BeginReplay
  <2>3. UNCHANGED <<rows, file, writer, delivery, old, lookup>>
    BY <1>1 DEF BeginReplay
  <2> HIDE DEF new
  <2> QED BY <1>t, <2>1, <2>2, <2>3, Moves
<1>2. ASSUME NEW e \in Events, QuarantineFile(r, e) \/ SkipFile(r, e)
      PROVE  AuditInv'
  <2> DEFINE new == [replay[r] EXCEPT !.todo = @ \ {e}]
  <2>1. new \in ReplayType /\ new.pc = "scan"
    BY <1>2, <1>t DEF ReplayType, QuarantineFile, SkipFile, Visits
  <2>2. replay' = [replay EXCEPT ![r] = new]
    BY <1>2, <1>t DEF QuarantineFile, SkipFile, ReplayType
  <2>3. UNCHANGED <<rows, writer, delivery, old, lookup, lock>>
    BY <1>2 DEF QuarantineFile, SkipFile
  <2>4. /\ file' \in [Events -> FileState]
        /\ \A f \in Events : file'[f] = "absent" => file[f] = "absent"
    BY <1>2, <1>t DEF QuarantineFile, SkipFile, FileState
  <2> HIDE DEF new
  <2> QED BY <1>t, <2>1, <2>2, <2>3, <2>4, Moves
<1>3. ASSUME NEW e \in Events, ReadFile(r, e)
      PROVE  AuditInv'
  <2> DEFINE new == [pc |-> "insert", event |-> e, todo |-> replay[r].todo \ {e}]
  <2>1. new \in ReplayType /\ new.pc = "insert" /\ new.event = e
    BY <1>t DEF ReplayType
  <2>2. replay' = [replay EXCEPT ![r] = new]
    BY <1>3, <1>t DEF ReadFile, ReplayType
  <2>3. UNCHANGED <<rows, file, writer, delivery, old, lookup, lock>>
    BY <1>3 DEF ReadFile
  <2> HIDE DEF new
  <2> QED BY <1>t, <2>1, <2>2, <2>3, Moves
<1>4. CASE Deliver(r)
  <2> DEFINE new == [replay[r] EXCEPT !.pc = "unlink"]
  <2>1. replay[r].event \in Events
    BY <1>4 DEF Deliver, AuditInv, ReplayHolds
  <2>2. new \in ReplayType /\ new.pc = "unlink" /\ new.event = replay[r].event
    BY <1>t DEF ReplayType
  <2>3. replay' = [replay EXCEPT ![r] = new]
    BY <1>4, <1>t DEF Deliver, ReplayType
  <2>4. /\ rows' = rows \cup {replay[r].event}
        /\ UNCHANGED <<file, writer, delivery, old, lookup, lock>>
    BY <1>4 DEF Deliver
  <2> HIDE DEF new
  <2> QED BY <1>t, <2>1, <2>2, <2>3, <2>4, Moves
<1>5. CASE Unlink(r)
  <2> DEFINE new == [replay[r] EXCEPT !.pc = "scan", !.event = None]
  <2>1. replay[r].event \in Events /\ replay[r].event \in rows \cup old
    BY <1>5 DEF Unlink, AuditInv, ReplayHolds
  <2>2. new \in ReplayType /\ new.pc = "scan"
    BY <1>t DEF ReplayType
  <2>3. replay' = [replay EXCEPT ![r] = new]
    BY <1>5, <1>t DEF Unlink, ReplayType
  <2>4. /\ file' = [file EXCEPT ![replay[r].event] = "absent"]
        /\ UNCHANGED <<rows, writer, delivery, old, lookup, lock>>
    BY <1>5 DEF Unlink
  <2>5. /\ file' \in [Events -> FileState]
        /\ \A f \in Events : file'[f] = "absent"
                               => file[f] = "absent" \/ f \in rows \cup old
    BY <2>1, <2>4, <1>t DEF FileState
  <2> HIDE DEF new
  <2> QED BY <1>t, <2>2, <2>3, <2>4, <2>5, Moves
<1>6. CASE ReplayFails(r) \/ EndReplay(r)
  <2>1. replay' = [replay EXCEPT ![r] = ReplayIdle] /\ lock' \in Local \cup {None}
    BY <1>6, <1>t DEF ReplayFails, EndReplay, Leaves
  <2>2. UNCHANGED <<file, writer, delivery, old, lookup>>
    BY <1>6 DEF ReplayFails, EndReplay
  <2>3. rows \subseteq rows' /\ rows' \subseteq Events
    BY <1>6, <1>t DEF ReplayFails, EndReplay, AuditInv, ReplayHolds
  <2> QED BY <1>t, <2>1, <2>2, <2>3, IdleType, Moves
<1> QED
  BY <1>1, <1>2, <1>3, <1>4, <1>5, <1>6 DEF ReplayStep, ReplayProceeds

(* A lookup keeps the invariant: it may set a damaged file aside, never    *)
(* remove one.                                                             *)
LEMMA LookingUp ==
  ASSUME AuditInv, NEW l \in Lookups,
         LookupStep(l) \/ \E e \in Events : BeginLookup(l, e)
  PROVE  AuditInv'
<1> USE DEF stores
<1>t. lookup \in [Lookups -> LookupType] /\ file \in [Events -> FileState]
  BY DEF AuditInv, TypeOK, LookupType
<1>1. /\ UNCHANGED <<rows, writer, delivery, old, lock, replay>>
      /\ file' \in [Events -> FileState]
      /\ \A e \in Events : file'[e] = "absent" => file[e] = "absent"
  BY <1>t DEF LookupStep, LookupDatabase, LookupJournal, EndLookup, BeginLookup, FileState
<1>2. lookup' \in [Lookups -> LookupType]
  <2>1. ASSUME NEW e \in Events, BeginLookup(l, e)
        PROVE  lookup' \in [Lookups -> LookupType]
    BY <2>1, <1>t DEF BeginLookup, LookupType
  <2>2. ASSUME NEW pc \in {"answered", "journal", "missing"},
               NEW result \in {"none", "known", "stored", "queued", "error", "unreadable"},
               LookupMoves(l, pc, result)
        PROVE  lookup' \in [Lookups -> LookupType]
    BY <2>2, <1>t, ZenonT(60) DEF LookupMoves, LookupType
  <2>3. lookup[l].result \in {"none", "known", "stored", "queued", "error", "unreadable"}
    BY <1>t DEF LookupType
  <2>4. CASE LookupDatabase(l)
    BY <2>4, <2>2, <2>3 DEF LookupDatabase
  <2>5. CASE LookupJournal(l)
    BY <2>5, <2>2, <2>3 DEF LookupJournal
  <2>6. CASE EndLookup(l)
    BY <2>6, <1>t DEF EndLookup, LookupIdle, LookupType
  <2> QED BY <2>1, <2>4, <2>5, <2>6 DEF LookupStep
<1>3. TypeOK'
  BY <1>1, <1>2 DEF AuditInv, TypeOK, LookupType
<1>4. ReplayHolds' /\ ReceiptKept'
  BY <1>1 DEF AuditInv, ReplayHolds, ReceiptKept
<1> QED BY <1>3, <1>4 DEF AuditInv

(* Ageing, retention, damage and crashes keep the invariant. *)
LEMMA Surroundings ==
  ASSUME AuditInv,
         (\E e \in Events : Ages(e) \/ Damage(e)) \/ PurgeExpiredAudit \/ Crash
  PROVE  AuditInv'
<1> USE DEF stores
<1>1. ASSUME NEW e \in Events, Ages(e)
      PROVE  AuditInv'
  BY <1>1 DEF Ages, AuditInv, TypeOK, ReplayHolds, ReceiptKept
<1>2. ASSUME NEW e \in Events, Damage(e)
      PROVE  AuditInv'
  BY <1>2 DEF Damage, AuditInv, TypeOK, ReplayHolds, ReceiptKept, FileState
<1>3. CASE PurgeExpiredAudit
  BY <1>3 DEF PurgeExpiredAudit, AuditInv, TypeOK, ReplayHolds, ReceiptKept
<1>4. CASE Crash
  <2>1. UNCHANGED <<rows, file, delivery, old>>
    BY <1>4 DEF Crash
  <2>2. TypeOK'
    BY <1>4, IdleType DEF Crash, AuditInv, TypeOK, LookupIdle, ReplayType
  <2>3. \A r \in Replays : replay'[r] = ReplayIdle \/ replay'[r] = replay[r]
    BY <1>4 DEF Crash
  <2>4. ReplayHolds'
    BY <2>1, <2>3, IdleType DEF AuditInv, ReplayHolds
  <2>5. ReceiptKept'
    BY <2>1 DEF AuditInv, ReceiptKept
  <2> QED BY <2>2, <2>4, <2>5 DEF AuditInv
<1> QED BY <1>1, <1>2, <1>3, <1>4

(* Every step keeps the invariant. *)
LEMMA StepInv == AuditInv /\ [Next]_vars => AuditInv'
<1> SUFFICES ASSUME AuditInv, [Next]_vars PROVE AuditInv'
  OBVIOUS
<1>1. CASE UNCHANGED vars
  BY <1>1 DEF vars, AuditInv, TypeOK, ReplayHolds, ReceiptKept
<1>2. CASE Next
  BY <1>2, Writes, Replaying, LookingUp, Surroundings, Zenon DEF Next
<1> QED BY <1>1, <1>2

-----------------------------------------------------------------------------
(* Every variable keeps its type, for any events, replays and lookups. *)
THEOREM AuditTypeCorrect == Spec => []TypeOK
<1>1. AuditInv => TypeOK
  BY DEF AuditInv
<1> QED BY <1>1, InitInv, StepInv, PTL DEF Spec

(* An event reported as stored or queued is in the database or in a file   *)
(* until its retention is over, however many replays of how many processes *)
(* and crashes there are.                                                  *)
THEOREM ReceiptsAreKept == Spec => []ReceiptKept
<1>1. AuditInv => ReceiptKept
  BY DEF AuditInv
<1> QED BY <1>1, InitInv, StepInv, PTL DEF Spec

-----------------------------------------------------------------------------
(* The credential file. *)

CfPcs == {"idle", "exists", "read", "ask", "take", "make", "fill", "replace", "unseal", "loaded"}
CfJobs == {"load", "refresh", "client", "save"}
CfSealed == [cred : Nat, key : Nat]
CfProcess == [pc : CfPcs, job : CfJobs, cred : Nat, key : Nat, seen : CfSealed]

CfTypeOK ==
  /\ cfEnv \in BOOLEAN /\ cfSaved \in BOOLEAN /\ cfClash \in BOOLEAN
  /\ cfKey \in Nat /\ cfFile \in CfSealed
  /\ cfIssued \in Nat /\ cfMade \in Nat /\ cfMade >= OldKey
  /\ cfExpired \in SUBSET Nat
  /\ cfRun \in [CfProcs -> CfProcess]

NoSecret == {NoKey, EmptyKey}
CfSealing == {"replace", "unseal"}

(* With the secret in the environment nobody looks at the key file.        *)
EnvironmentSeals ==
  cfEnv => /\ \A p \in CfProcs : /\ cfRun[p].pc \notin {"take", "make", "fill"}
                                 /\ cfRun[p].pc \in CfSealing => cfRun[p].key = EnvSecret
           /\ cfSaved => cfFile.key = EnvSecret

(* Without it, as long as no two processes made the key at once: one makes *)
(* it at most, and only where there was none; who is about to read it      *)
(* found one; and who seals holds the secret that is in the key file.      *)
KeyFileSeals ==
  ~cfEnv /\ ~cfClash =>
    /\ \A p, q \in CfProcs : CfMaking(p) /\ CfMaking(q) => p = q
    /\ \A p \in CfProcs :
         /\ cfRun[p].pc = "make" => cfKey = NoKey
         /\ cfRun[p].pc = "fill" => cfKey = EmptyKey /\ cfRun[p].key \notin NoSecret
         /\ cfRun[p].pc = "take" => cfKey # NoKey
         /\ cfRun[p].pc \in CfSealing => cfRun[p].key = cfKey /\ cfKey \notin NoSecret
    /\ cfSaved => cfFile.key = cfKey /\ cfKey \notin NoSecret

CfInv == CfTypeOK /\ EnvironmentSeals /\ KeyFileSeals

(* The process at rest, and one that sets out. *)
LEMMA CfRests ==
  /\ CfIdle \in CfProcess /\ CfIdle.pc = "idle"
  /\ \A job \in CfJobs : /\ [CfIdle EXCEPT !.pc = "exists", !.job = job] \in CfProcess
                         /\ [CfIdle EXCEPT !.pc = "exists", !.job = job].pc = "exists"
  /\ \A c \in Nat : /\ [CfIdle EXCEPT !.pc = "ask", !.job = "save", !.cred = c] \in CfProcess
                    /\ [CfIdle EXCEPT !.pc = "ask", !.job = "save", !.cred = c].pc = "ask"
  <1>1. CfIdle = [pc |-> "idle", job |-> "load", cred |-> 0, key |-> 0, seen |-> [cred |-> 0, key |-> 0]]
    BY DEF CfIdle, NoFile, Sealed, PlainText, NoKey
  <1>2. CfIdle \in CfProcess /\ CfIdle.pc = "idle"
    BY <1>1 DEF CfProcess, CfSealed, CfPcs, CfJobs
  <1>3. ASSUME NEW job \in CfJobs
        PROVE  /\ [CfIdle EXCEPT !.pc = "exists", !.job = job] \in CfProcess
               /\ [CfIdle EXCEPT !.pc = "exists", !.job = job].pc = "exists"
    BY <1>2 DEF CfProcess, CfPcs
  <1>4. ASSUME NEW c \in Nat
        PROVE  /\ [CfIdle EXCEPT !.pc = "ask", !.job = "save", !.cred = c] \in CfProcess
               /\ [CfIdle EXCEPT !.pc = "ask", !.job = "save", !.cred = c].pc = "ask"
    BY <1>2 DEF CfProcess, CfPcs, CfJobs
  <1> QED BY <1>2, <1>3, <1>4

(* Nothing is saved yet and nobody is under way. *)
LEMMA CfInitInv == CfInit => CfInv
  <1> SUFFICES ASSUME CfInit PROVE CfInv
    OBVIOUS
  <1>1. cfRun \in [CfProcs -> CfProcess] /\ \A p \in CfProcs : cfRun[p].pc = "idle"
    BY CfRests DEF CfInit
  <1>2. cfKey \in Nat /\ cfFile \in CfSealed
    <2>1. NoFile \in CfSealed /\ Sealed(1, PlainText) \in CfSealed /\ Sealed(1, OldKey) \in CfSealed
      BY DEF CfSealed, NoFile, Sealed, PlainText, OldKey
    <2>2. NoKey \in Nat /\ OldKey \in Nat
      BY DEF NoKey, OldKey
    <2> QED BY <2>1, <2>2 DEF CfInit
  <1>3. CfTypeOK
    <2>1. /\ cfEnv \in BOOLEAN /\ cfSaved \in BOOLEAN /\ cfClash \in BOOLEAN
          /\ cfIssued = 1 /\ cfMade = 3 /\ cfExpired = {}
      BY DEF CfInit, OldKey
    <2> QED BY <1>1, <1>2, <2>1 DEF CfTypeOK, OldKey
  <1>4. EnvironmentSeals /\ KeyFileSeals
    BY <1>1 DEF CfInit, EnvironmentSeals, KeyFileSeals, CfMaking, CfSealing
  <1> QED BY <1>3, <1>4 DEF CfInv

(* A step of one process leaves the others where they are. *)
LEMMA CfTurn ==
  ASSUME cfRun \in [CfProcs -> CfProcess], NEW p \in CfProcs, NEW run \in CfProcess, CfGoes(p, run)
  PROVE  /\ cfRun' \in [CfProcs -> CfProcess] /\ cfRun'[p] = run
         /\ \A q \in CfProcs \ {p} : cfRun'[q] = cfRun[q]
  BY DEF CfGoes

(* A step that leaves the files alone and neither makes a key nor seals    *)
(* with a secret of another origin keeps the invariant.                    *)
LEMMA CfLeavesFiles ==
  ASSUME CfInv, NEW p \in CfProcs, NEW run \in CfProcess, CfGoes(p, run),
         UNCHANGED <<cfEnv, CfFiles>>, cfIssued' \in Nat, cfExpired' = cfExpired,
         run.pc \notin {"make", "fill"},
         cfEnv => run.pc # "take" /\ (run.pc \in CfSealing => run.key = EnvSecret),
         ~cfEnv /\ ~cfClash => /\ run.pc = "take" => cfKey # NoKey
                               /\ run.pc \in CfSealing => run.key = cfKey /\ cfKey \notin NoSecret
  PROVE  CfInv'
  <1>1. /\ cfRun' \in [CfProcs -> CfProcess] /\ cfRun'[p] = run
        /\ \A q \in CfProcs \ {p} : cfRun'[q] = cfRun[q]
    BY CfTurn DEF CfInv, CfTypeOK
  <1>2. CfTypeOK'
    BY <1>1 DEF CfInv, CfTypeOK, CfFiles
  <1>3. EnvironmentSeals'
    BY <1>1 DEF CfInv, EnvironmentSeals, CfFiles
  <1>4. KeyFileSeals'
    BY <1>1 DEF CfInv, KeyFileSeals, CfFiles, CfMaking
  <1> QED BY <1>2, <1>3, <1>4 DEF CfInv

(* Logins, loads and what becomes of a credential that was loaded. *)
LEMMA CfReadersInv ==
  ASSUME CfInv, NEW p \in CfProcs,
         \/ CfLogsIn(p) \/ \E job \in {"load", "refresh", "client"} : CfOpens(p, job)
         \/ CfFinds(p) \/ CfReads(p) \/ CfUnseals(p) \/ CfUses(p) \/ CfRefreshes(p) \/ CfFails(p)
  PROVE  CfInv'
  <1>1. cfRun[p] \in CfProcess /\ cfFile \in CfSealed /\ cfIssued \in Nat /\ cfIssued + 1 \in Nat
    BY DEF CfInv, CfTypeOK
  <1>2. cfFile.cred \in Nat /\ cfFile.key \in Nat
    BY <1>1 DEF CfSealed
  <1>3. ASSUME NEW run \in CfProcess, run.pc \in {"idle", "exists", "read", "ask", "loaded"}, CfGoes(p, run),
               UNCHANGED <<cfEnv, CfFiles>>, cfIssued' \in Nat, cfExpired' = cfExpired
        PROVE  CfInv'
    BY <1>3, CfLeavesFiles DEF CfSealing
  <1>4. CASE CfLogsIn(p)
    BY <1>1, <1>3, <1>4, CfRests DEF CfLogsIn
  <1>5. ASSUME NEW job \in {"load", "refresh", "client"}, CfOpens(p, job)
        PROVE  CfInv'
    BY <1>1, <1>3, <1>5, CfRests DEF CfOpens, CfWorld, CfJobs
  <1>6. CASE CfFinds(p)
    <2>1. [cfRun[p] EXCEPT !.pc = "read"] \in CfProcess /\ [cfRun[p] EXCEPT !.pc = "read"].pc = "read"
      BY <1>1 DEF CfProcess, CfPcs
    <2>2. QED BY <1>1, <1>3, <1>6, <2>1, CfRests DEF CfFinds, CfWorld
  <1>7. CASE CfReads(p)
    <2>1. /\ [cfRun[p] EXCEPT !.pc = "loaded", !.cred = cfFile.cred] \in CfProcess
          /\ [cfRun[p] EXCEPT !.pc = "loaded", !.cred = cfFile.cred].pc = "loaded"
          /\ [cfRun[p] EXCEPT !.pc = "ask", !.seen = cfFile] \in CfProcess
          /\ [cfRun[p] EXCEPT !.pc = "ask", !.seen = cfFile].pc = "ask"
      BY <1>1, <1>2 DEF CfProcess, CfPcs
    <2>2. QED BY <1>1, <1>3, <1>7, <2>1, CfRests DEF CfReads, CfWorld
  <1>8. CASE CfUnseals(p)
    <2>1. cfRun[p].seen.cred \in Nat
      BY <1>1 DEF CfProcess, CfSealed
    <2>2. /\ [cfRun[p] EXCEPT !.pc = "loaded", !.cred = cfRun[p].seen.cred] \in CfProcess
          /\ [cfRun[p] EXCEPT !.pc = "loaded", !.cred = cfRun[p].seen.cred].pc = "loaded"
      BY <1>1, <2>1 DEF CfProcess, CfPcs
    <2>3. QED BY <1>1, <1>3, <1>8, <2>2, CfRests DEF CfUnseals, CfWorld
  <1>9. CASE CfUses(p)
    BY <1>1, <1>3, <1>9, CfRests DEF CfUses, CfWorld
  <1>10. CASE CfRefreshes(p)
    BY <1>1, <1>3, <1>10, CfRests DEF CfRefreshes
  <1>11. CASE CfFails(p)
    BY <1>1, <1>3, <1>11, CfRests DEF CfFails, CfWorld
  <1> QED BY <1>4, <1>5, <1>6, <1>7, <1>8, <1>9, <1>10, <1>11

(* What a process does with the secret it found or made. *)
LEMMA CfHolding ==
  ASSUME NEW p \in CfProcs, cfRun[p] \in CfProcess, NEW k \in Nat, CfHolds(p, k)
  PROVE  \E run \in CfProcess : CfGoes(p, run) /\ run.pc \in CfSealing /\ run.key = k
  <1> DEFINE pc == IF cfRun[p].job = "save" THEN "replace" ELSE "unseal"
             run == [cfRun[p] EXCEPT !.key = k, !.pc = pc]
  <1>1. pc \in CfSealing /\ pc \in CfPcs
    BY DEF CfSealing, CfPcs
  <1>2. run \in CfProcess /\ run.pc = pc /\ run.key = k
    <2> HIDE DEF pc
    <2> QED BY <1>1 DEF CfProcess
  <1> QED BY <1>1, <1>2 DEF CfHolds

(* A process looks where its secret comes from. *)
LEMMA CfAsksInv ==
  ASSUME CfInv, NEW p \in CfProcs, CfAsks(p)
  PROVE  CfInv'
  <1>1. cfRun[p] \in CfProcess /\ EnvSecret \in Nat
    BY DEF CfInv, CfTypeOK, EnvSecret
  <1>2. CASE cfEnv
    <2>1. PICK run \in CfProcess : CfGoes(p, run) /\ run.pc \in CfSealing /\ run.key = EnvSecret
      BY <1>1, <1>2, CfHolding DEF CfAsks
    <2>2. UNCHANGED <<cfEnv, CfFiles>> /\ cfIssued' \in Nat /\ cfExpired' = cfExpired
      BY <1>2 DEF CfAsks, CfFiles, CfWorld, CfInv, CfTypeOK
    <2> QED BY <1>2, <2>1, <2>2, CfLeavesFiles DEF CfSealing
  <1>3. CASE ~cfEnv
    <2> DEFINE pc == IF cfKey = NoKey THEN "make" ELSE "take"
    <2>1. PICK run \in CfProcess : run.pc = pc /\ CfGoes(p, run)
      <3>1. [cfRun[p] EXCEPT !.pc = pc] \in CfProcess /\ [cfRun[p] EXCEPT !.pc = pc].pc = pc
        BY <1>1 DEF CfProcess, CfPcs
      <3> QED BY <1>3, <3>1 DEF CfAsks
    <2>2. /\ cfRun' \in [CfProcs -> CfProcess] /\ cfRun'[p] = run
          /\ \A q \in CfProcs \ {p} : cfRun'[q] = cfRun[q]
      BY <2>1, CfTurn DEF CfInv, CfTypeOK
    <2>3. /\ cfClash' = (cfClash \/ (cfKey = NoKey /\ \E q \in CfProcs : CfMaking(q)))
          /\ UNCHANGED <<cfEnv, cfKey, cfFile, cfMade, cfSaved, cfIssued, cfExpired>>
      BY <1>3 DEF CfAsks, CfWorld
    <2>4. CfTypeOK'
      BY <2>2, <2>3 DEF CfInv, CfTypeOK
    <2>5. EnvironmentSeals'
      BY <1>3, <2>3 DEF EnvironmentSeals
    <2>6. KeyFileSeals'
      <3>1. SUFFICES ASSUME ~cfClash' PROVE KeyFileSeals'
        BY DEF KeyFileSeals
      <3>2. ~cfClash /\ (cfKey = NoKey => \A q \in CfProcs : ~CfMaking(q))
        BY <2>3, <3>1
      <3>3. ~CfMaking(p)
        BY DEF CfAsks, CfAt, CfMaking
      <3>4. cfRun[p].pc = "ask"
        BY DEF CfAsks, CfAt
      <3> QED BY <1>3, <2>1, <2>2, <2>3, <3>2, <3>4 DEF CfInv, KeyFileSeals, CfMaking, CfSealing
    <2> QED BY <2>4, <2>5, <2>6 DEF CfInv
  <1> QED BY <1>2, <1>3

(* The key file is read. *)
LEMMA CfTakesInv ==
  ASSUME CfInv, NEW p \in CfProcs, CfTakes(p)
  PROVE  CfInv'
  <1>1. cfRun[p] \in CfProcess /\ cfKey \in Nat /\ cfIssued' \in Nat /\ cfExpired' = cfExpired
    BY DEF CfInv, CfTypeOK, CfTakes, CfWorld
  <1>2. UNCHANGED <<cfEnv, CfFiles>>
    BY DEF CfTakes, CfWorld
  <1>3. CASE cfKey = EmptyKey
    BY <1>1, <1>2, <1>3, CfLeavesFiles, CfRests DEF CfTakes, CfSealing
  <1>4. CASE cfKey # EmptyKey
    <2>1. PICK run \in CfProcess : CfGoes(p, run) /\ run.pc \in CfSealing /\ run.key = cfKey
      BY <1>1, <1>4, CfHolding DEF CfTakes
    <2>2. ~cfEnv
      BY DEF CfInv, EnvironmentSeals, CfTakes, CfAt
    <2>3. ~cfClash => cfKey \notin NoSecret
      BY <1>4, <2>2 DEF CfInv, KeyFileSeals, CfTakes, CfAt, NoSecret
    <2> QED BY <1>1, <1>2, <2>1, <2>2, <2>3, CfLeavesFiles DEF CfSealing
  <1> QED BY <1>3, <1>4

(* The key file is opened, which empties it. *)
LEMMA CfMakesInv ==
  ASSUME CfInv, NEW p \in CfProcs, CfMakes(p)
  PROVE  CfInv'
  <1>1. cfRun[p] \in CfProcess /\ cfMade + 1 \in Nat /\ cfMade + 1 > OldKey
    BY DEF CfInv, CfTypeOK, OldKey
  <1>2. PICK run \in CfProcess : run.pc = "fill" /\ run.key = cfMade + 1 /\ CfGoes(p, run)
    <2>1. /\ [cfRun[p] EXCEPT !.pc = "fill", !.key = cfMade + 1] \in CfProcess
          /\ [cfRun[p] EXCEPT !.pc = "fill", !.key = cfMade + 1].pc = "fill"
          /\ [cfRun[p] EXCEPT !.pc = "fill", !.key = cfMade + 1].key = cfMade + 1
      BY <1>1 DEF CfProcess, CfPcs
    <2> QED BY <2>1 DEF CfMakes
  <1>3. /\ cfRun' \in [CfProcs -> CfProcess] /\ cfRun'[p] = run
        /\ \A q \in CfProcs \ {p} : cfRun'[q] = cfRun[q]
    BY <1>2, CfTurn DEF CfInv, CfTypeOK
  <1>4. /\ cfKey' = EmptyKey /\ cfMade' = cfMade + 1
        /\ UNCHANGED <<cfEnv, cfFile, cfSaved, cfClash, cfIssued, cfExpired>>
    BY DEF CfMakes, CfWorld
  <1>5. CfTypeOK'
    BY <1>1, <1>3, <1>4 DEF CfInv, CfTypeOK, EmptyKey, OldKey
  <1>6. ~cfEnv /\ cfRun[p].pc = "make"
    BY DEF CfInv, EnvironmentSeals, CfMakes, CfAt
  <1>7. EnvironmentSeals'
    BY <1>4, <1>6 DEF EnvironmentSeals
  <1>8. run.key \notin NoSecret
    BY <1>1, <1>2 DEF NoSecret, NoKey, EmptyKey, OldKey
  <1>9. KeyFileSeals'
    <2>1. SUFFICES ASSUME ~cfClash PROVE KeyFileSeals'
      BY <1>4 DEF KeyFileSeals
    <2>2. /\ cfKey = NoKey /\ ~cfSaved
          /\ \A q \in CfProcs : cfRun[q].pc \notin CfSealing
          /\ \A q \in CfProcs \ {p} : ~CfMaking(q)
      BY <1>6, <2>1 DEF CfInv, KeyFileSeals, CfMaking, NoSecret
    <2> QED BY <1>2, <1>3, <1>4, <1>8, <2>2 DEF KeyFileSeals, CfMaking, CfSealing, NoSecret, NoKey, EmptyKey
  <1> QED BY <1>5, <1>7, <1>9 DEF CfInv

(* The secret is written to it. *)
LEMMA CfFillsInv ==
  ASSUME CfInv, NEW p \in CfProcs, CfFills(p)
  PROVE  CfInv'
  <1>1. cfRun[p] \in CfProcess /\ cfRun[p].key \in Nat
    BY DEF CfInv, CfTypeOK, CfProcess
  <1>2. PICK run \in CfProcess : CfGoes(p, run) /\ run.pc \in CfSealing /\ run.key = cfRun[p].key
    BY <1>1, CfHolding DEF CfFills
  <1>3. /\ cfRun' \in [CfProcs -> CfProcess] /\ cfRun'[p] = run
        /\ \A q \in CfProcs \ {p} : cfRun'[q] = cfRun[q]
    BY <1>2, CfTurn DEF CfInv, CfTypeOK
  <1>4. cfKey' = cfRun[p].key /\ UNCHANGED <<cfEnv, cfFile, cfMade, cfSaved, cfClash, cfIssued, cfExpired>>
    BY DEF CfFills, CfWorld
  <1>5. CfTypeOK'
    BY <1>1, <1>3, <1>4 DEF CfInv, CfTypeOK
  <1>6. ~cfEnv /\ cfRun[p].pc = "fill"
    BY DEF CfInv, EnvironmentSeals, CfFills, CfAt
  <1>7. EnvironmentSeals'
    BY <1>4, <1>6 DEF EnvironmentSeals
  <1>8. KeyFileSeals'
    <2>1. SUFFICES ASSUME ~cfClash PROVE KeyFileSeals'
      BY <1>4 DEF KeyFileSeals
    <2>2. /\ ~cfSaved /\ cfRun[p].key \notin NoSecret
          /\ \A q \in CfProcs : cfRun[q].pc \notin CfSealing
          /\ \A q \in CfProcs \ {p} : ~CfMaking(q)
      BY <1>6, <2>1 DEF CfInv, KeyFileSeals, CfMaking, NoSecret
    <2> QED BY <1>2, <1>3, <1>4, <2>2 DEF KeyFileSeals, CfMaking, CfSealing, NoSecret
  <1> QED BY <1>5, <1>7, <1>8 DEF CfInv

(* A save replaces the file, or the file is deleted. *)
LEMMA CfFileInv ==
  ASSUME CfInv, NEW p \in CfProcs, CfReplaces(p) \/ CfDeletes(p)
  PROVE  CfInv'
  <1>1. cfRun[p] \in CfProcess /\ cfRun[p].cred \in Nat /\ cfRun[p].key \in Nat
    BY DEF CfInv, CfTypeOK, CfProcess
  <1>2. CASE CfReplaces(p)
    <2>1. /\ cfRun' \in [CfProcs -> CfProcess] /\ cfRun'[p].pc = "idle"
          /\ \A q \in CfProcs \ {p} : cfRun'[q] = cfRun[q]
      BY <1>2, CfTurn, CfRests DEF CfInv, CfTypeOK, CfReplaces
    <2>2. /\ cfFile' = [cred |-> cfRun[p].cred, key |-> cfRun[p].key] /\ cfSaved' = TRUE
          /\ cfRun[p].pc = "replace"
          /\ UNCHANGED <<cfEnv, cfKey, cfMade, cfClash, cfIssued, cfExpired>>
      BY <1>2 DEF CfReplaces, CfWorld, Sealed, CfAt
    <2>3. CfTypeOK'
      BY <1>1, <2>1, <2>2 DEF CfInv, CfTypeOK, CfSealed
    <2>4. EnvironmentSeals'
      BY <2>1, <2>2 DEF CfInv, EnvironmentSeals, CfSealing
    <2>5. KeyFileSeals'
      BY <2>1, <2>2 DEF CfInv, KeyFileSeals, CfMaking, CfSealing
    <2> QED BY <2>3, <2>4, <2>5 DEF CfInv
  <1>3. CASE CfDeletes(p)
    <2>1. /\ cfFile' = [cred |-> 0, key |-> 0] /\ cfSaved' = FALSE
          /\ UNCHANGED <<cfEnv, cfKey, cfMade, cfClash, cfIssued, cfExpired, cfRun>>
      BY <1>3 DEF CfDeletes, CfWorld, NoFile, Sealed, PlainText
    <2>2. CfTypeOK'
      BY <2>1 DEF CfInv, CfTypeOK, CfSealed
    <2>3. EnvironmentSeals' /\ KeyFileSeals'
      BY <2>1 DEF CfInv, EnvironmentSeals, KeyFileSeals, CfMaking
    <2> QED BY <2>2, <2>3 DEF CfInv
  <1> QED BY <1>2, <1>3

(* Every step keeps the invariant. *)
LEMMA CfNextInv == CfInv /\ [CfNext]_cfVars => CfInv'
  <1> SUFFICES ASSUME CfInv, [CfNext]_cfVars PROVE CfInv'
    OBVIOUS
  <1>1. ASSUME NEW p \in CfProcs, CfStep(p)
        PROVE  CfInv'
    BY <1>1, CfReadersInv, CfAsksInv, CfTakesInv, CfMakesInv, CfFillsInv, CfFileInv DEF CfStep
  <1>2. CASE CfLapses
    <2>1. cfExpired' \in SUBSET Nat /\ UNCHANGED <<cfEnv, cfIssued, cfRun, CfFiles>>
      BY <1>2 DEF CfLapses, CfInv, CfTypeOK
    <2> QED BY <2>1 DEF CfFiles, CfInv, CfTypeOK, EnvironmentSeals, KeyFileSeals, CfMaking
  <1>3. CASE UNCHANGED cfVars
    BY <1>3 DEF cfVars, CfInv, CfTypeOK, EnvironmentSeals, KeyFileSeals, CfMaking
  <1> QED BY <1>1, <1>2, <1>3 DEF CfNext

(* The invariant holds in every reachable state. *)
LEMMA CfInvariant == CfSpec => []CfInv
  BY CfInitInv, CfNextInv, PTL DEF CfSpec

(* The files and the processes keep their types. *)
THEOREM CredentialTypeCorrect == CfSpec => []CfTypeOK
  BY CfInvariant, PTL DEF CfInv

(* A credential whose save returned is sealed with the secret that the     *)
(* next load takes, whatever saves and loads fail or die half way, unless  *)
(* two processes made the key at once.                                     *)
THEOREM SavedStaysReadableAlways == CfSpec => []SavedStaysReadable
  <1>1. CfInv => SavedStaysReadable
    BY DEF CfInv, CfTypeOK, EnvironmentSeals, KeyFileSeals, SavedStaysReadable, CfSecret
  <1> QED BY <1>1, CfInvariant, PTL

(* A key file that has a secret keeps it, as long as no two processes made *)
(* the key at once: no save of another process replaces it.                *)
SecretsStay ==
  [][~cfEnv /\ ~cfClash /\ cfKey \notin NoSecret => cfKey' = cfKey]_cfVars

(* A secret in the key file outlives every step. *)
THEOREM SecretsOutliveSaves == CfSpec => SecretsStay
  <1>1. CfInv /\ [CfNext]_cfVars => [~cfEnv /\ ~cfClash /\ cfKey \notin NoSecret => cfKey' = cfKey]_cfVars
    <2> SUFFICES ASSUME CfInv, CfNext, ~cfEnv, ~cfClash, cfKey \notin NoSecret
                 PROVE  cfKey' = cfKey
      OBVIOUS
    <2>1. \A p \in CfProcs : ~CfMakes(p) /\ ~CfFills(p)
      BY DEF CfInv, KeyFileSeals, CfMakes, CfFills, CfAt, NoSecret
    <2> QED BY <2>1 DEF CfNext, CfStep, CfLapses, CfLogsIn, CfOpens, CfFinds, CfReads, CfAsks, CfTakes,
                     CfReplaces, CfUnseals, CfUses, CfRefreshes, CfDeletes, CfFails, CfFiles
  <1> QED BY <1>1, CfInvariant, PTL DEF CfSpec, SecretsStay

-----------------------------------------------------------------------------
(* The publication of a release. *)

Attachment == [id : Nat, name : Files, content : Nat]

PbTypeOK ==
  /\ pbBuilt \in [Files -> Nat] /\ pbBuild \in Nat
  /\ pbTagged \in BOOLEAN /\ pbRelease \in BOOLEAN
  /\ pbStored \in SUBSET Attachment /\ pbIds \in Nat
  /\ pbLate \in SUBSET [name : Files, content : Nat]
  /\ pbPc \in {"idle", "find", "tag", "create", "list", "next", "delete", "upload"}
  /\ pbExisting \in SUBSET Attachment /\ pbTodo \in SUBSET Files
  /\ pbPc \in {"delete", "upload"} => pbName \in Files \ pbTodo
  /\ pbDone \in BOOLEAN /\ pbUnseen \in BOOLEAN

(* An id is given once; what an attempt listed under an id is what is      *)
(* stored under it, if it is still stored.                                 *)
IdsAreGivenOnce ==
  /\ \A a \in pbStored \cup pbExisting : a.id <= pbIds
  /\ \A a \in pbStored \cup pbExisting, b \in pbStored : a.id = b.id => a = b

Working == pbPc \in {"next", "delete", "upload"}
AtWork(n) == pbPc \in {"delete", "upload"} /\ pbName = n
OnRelease(n) == \E a \in pbStored : a.name = n /\ a.content = pbBuilt[n]

Seeking == pbPc \in {"find", "tag", "create", "list"}

(* The files an attempt has dealt with are on the release.                 *)
PublishedSoFar ==
  /\ Seeking => pbTodo = Files
  /\ Working => \A n \in Files \ pbTodo : AtWork(n) \/ OnRelease(n)
  /\ pbDone => pbPc = "idle" /\ \A n \in Files : OnRelease(n)

(* As long as every attachment was seen: no two have one name, and those   *)
(* of a file that is still to be uploaded are among the listed ones.       *)
OnceSoFar ==
  ~pbUnseen =>
    /\ \A a, b \in pbStored : a.name = b.name => a = b
    /\ Working => \A a \in pbStored : a.name \in pbTodo => a \in pbExisting
    /\ pbPc = "delete" => \A a \in pbStored : a.name = pbName => a \in pbExisting
    /\ pbPc = "upload" => \A a \in pbStored : a.name # pbName

PbInv == PbTypeOK /\ IdsAreGivenOnce /\ PublishedSoFar /\ OnceSoFar

(* Nothing is published yet. *)
LEMMA PbInitInv == PbInit => PbInv
  <1> SUFFICES ASSUME PbInit PROVE PbInv
    OBVIOUS
  <1>1. PbTypeOK
    BY DEF PbInit, PbTypeOK
  <1>2. IdsAreGivenOnce
    BY DEF PbInit, IdsAreGivenOnce
  <1>3. PublishedSoFar /\ OnceSoFar
    BY DEF PbInit, PublishedSoFar, OnceSoFar, Working, Seeking
  <1> QED BY <1>1, <1>2, <1>3 DEF PbInv

(* What is stored gets an id of its own. *)
LEMMA PbStoring ==
  ASSUME PbTypeOK, IdsAreGivenOnce, NEW n \in Files, NEW c \in Nat, PbStores(n, c),
         pbExisting' \subseteq pbExisting
  PROVE  \E new \in Attachment :
           /\ new.name = n /\ new.content = c /\ new \notin pbStored
           /\ pbStored' = pbStored \cup {new}
           /\ pbStored' \in SUBSET Attachment /\ pbIds' \in Nat
           /\ IdsAreGivenOnce'
  <1> DEFINE new == Stored(pbIds + 1, n, c)
  <1>1. new \in Attachment /\ new.id = pbIds + 1 /\ new.name = n /\ new.content = c
    BY DEF PbTypeOK, Attachment, Stored
  <1>2. pbStored' = pbStored \cup {new} /\ pbIds' = pbIds + 1 /\ pbIds \in Nat
    BY DEF PbStores, PbTypeOK
  <1> HIDE DEF new
  <1>3. \A a \in pbStored \cup pbExisting : a.id \in Nat /\ a.id <= pbIds
    BY DEF PbTypeOK, IdsAreGivenOnce, Attachment
  <1>4. new \notin pbStored
    BY <1>1, <1>2, <1>3
  <1>5. pbStored' \in SUBSET Attachment /\ pbIds' \in Nat
    BY <1>1, <1>2 DEF PbTypeOK
  <1>6. IdsAreGivenOnce'
    <2>1. ASSUME NEW a \in pbStored' \cup pbExisting' PROVE a.id <= pbIds'
      BY <1>1, <1>2, <1>3, <2>1
    <2>2. ASSUME NEW a \in pbStored' \cup pbExisting', NEW b \in pbStored', a.id = b.id PROVE a = b
      BY <1>1, <1>2, <1>3, <2>2 DEF IdsAreGivenOnce
    <2> QED BY <2>1, <2>2 DEF IdsAreGivenOnce
  <1> QED BY <1>1, <1>2, <1>4, <1>5, <1>6

(* A step that leaves the attachments alone and is not at work after it.   *)
LEMMA PbOutsideInv ==
  ASSUME PbInv, UNCHANGED <<pbBuilt, pbStored, pbIds, pbLate, pbUnseen>>,
         pbBuild' \in Nat, pbTagged' \in BOOLEAN, pbRelease' \in BOOLEAN,
         pbPc' \in {"idle", "find", "tag", "create", "list"},
         pbExisting' \in SUBSET pbExisting, pbTodo' \in SUBSET Files,
         Seeking' => pbTodo' = Files, pbDone' \in BOOLEAN, pbDone' => pbPc' = "idle" /\ \A n \in Files : OnRelease(n)
  PROVE  PbInv'
  <1>1. PbTypeOK' /\ ~Working'
    BY DEF PbInv, PbTypeOK, Working
  <1>2. IdsAreGivenOnce'
    BY DEF PbInv, IdsAreGivenOnce
  <1>3. PublishedSoFar'
    BY <1>1 DEF PublishedSoFar, OnRelease
  <1>4. OnceSoFar'
    BY <1>1 DEF PbInv, OnceSoFar, Working
  <1> QED BY <1>1, <1>2, <1>3, <1>4 DEF PbInv

(* Builds, tags, the way to the release, failures, and the return of an    *)
(* attempt that has nothing left to do.                                    *)
LEMMA PbWayInv ==
  ASSUME PbInv,
         \/ PbTags \/ PbStarts \/ PbFinds \/ PbResolvesTag \/ PbCreates \/ PbReturns \/ PbFails
  PROVE  PbInv'
  <1>1. PbTypeOK /\ PublishedSoFar
    BY DEF PbInv
  <1>2. CASE PbTags
    <2>1. UNCHANGED <<pbBuilt, pbBuild, pbRelease, pbStored, pbIds, pbLate, pbPc, pbExisting, pbTodo, pbName,
                      pbDone, pbUnseen>> /\ pbTagged' = TRUE
      BY <1>2 DEF PbTags, pbMirror, pbAttempt, pbHistory
    <2> QED BY <2>1 DEF PbInv, PbTypeOK, IdsAreGivenOnce, PublishedSoFar, OnceSoFar, Working, Seeking, AtWork, OnRelease
  <1>3. CASE PbStarts
    BY <1>1, <1>3, PbOutsideInv DEF PbStarts, pbWorld, pbMirror, PbTypeOK, Seeking
  <1>4. CASE PbFinds
    BY <1>1, <1>4, PbOutsideInv DEF PbFinds, PbAt, PbGoes, pbWorld, pbMirror, pbHistory, PbTypeOK, PublishedSoFar, Seeking
  <1>5. CASE PbResolvesTag
    BY <1>1, <1>5, PbOutsideInv DEF PbResolvesTag, PbAt, PbGoes, PbEnds, pbWorld, pbMirror, pbHistory, PbTypeOK,
                                    PublishedSoFar, Seeking
  <1>6. CASE PbCreates
    BY <1>1, <1>6, PbOutsideInv DEF PbCreates, PbAt, PbGoes, PbEnds, pbWorld, pbMirror, pbHistory, PbTypeOK,
                                    PublishedSoFar, Seeking
  <1>7. CASE PbReturns
    <2>1. \A n \in Files : OnRelease(n)
      BY <1>1, <1>7 DEF PbReturns, PbAt, PublishedSoFar, Working, AtWork
    <2> QED BY <1>1, <1>7, <2>1, PbOutsideInv DEF PbReturns, PbEnds, pbWorld, pbMirror, PbTypeOK, Seeking
  <1>8. CASE PbFails
    BY <1>1, <1>8, PbOutsideInv DEF PbFails, PbAt, PbEnds, pbWorld, pbMirror, pbHistory, PbTypeOK, PublishedSoFar, Seeking
  <1> QED BY <1>2, <1>3, <1>4, <1>5, <1>6, <1>7, <1>8

(* New files are built while no attempt is under way. *)
LEMMA PbBuildsInv == ASSUME PbInv, PbBuilds PROVE PbInv'
  <1>1. /\ pbPc = "idle" /\ pbDone' = FALSE /\ pbBuilt' \in [Files -> Nat] /\ pbBuild' \in Nat
        /\ UNCHANGED <<pbTagged, pbRelease, pbStored, pbIds, pbLate, pbPc, pbExisting, pbTodo, pbName, pbUnseen>>
    BY DEF PbInv, PbTypeOK, PbBuilds, PbAt, pbMirror, pbAttempt
  <1> QED BY <1>1 DEF PbInv, PbTypeOK, IdsAreGivenOnce, PublishedSoFar, OnceSoFar, Working, Seeking

(* An upload that was given up is stored. *)
LEMMA PbStoresLateInv == ASSUME PbInv, PbStoresLate PROVE PbInv'
  <1>1. PbTypeOK /\ IdsAreGivenOnce /\ PublishedSoFar /\ OnceSoFar
    BY DEF PbInv
  <1>2. PICK u \in pbLate :
          /\ PbStores(u.name, u.content) /\ pbLate' = pbLate \ {u}
          /\ pbUnseen' = (pbUnseen \/ pbPc \in {"next", "delete", "upload"} \/ pbDone
                            \/ u.name \in StoredNames(pbStored))
    BY DEF PbStoresLate
  <1>3. /\ u.name \in Files /\ u.content \in Nat
        /\ UNCHANGED <<pbBuilt, pbBuild, pbTagged, pbRelease, pbPc, pbExisting, pbTodo, pbName, pbDone>>
    BY <1>1 DEF PbStoresLate, PbTypeOK, pbWorld, pbAttempt
  <1>4. PICK new \in Attachment :
           /\ new.name = u.name /\ new.content = u.content /\ new \notin pbStored
           /\ pbStored' = pbStored \cup {new}
           /\ pbStored' \in SUBSET Attachment /\ pbIds' \in Nat
           /\ IdsAreGivenOnce'
    BY <1>1, <1>2, <1>3, PbStoring
  <1>5. PbTypeOK'
    BY <1>1, <1>2, <1>3, <1>4 DEF PbTypeOK
  <1>6. PublishedSoFar'
    BY <1>1, <1>3, <1>4 DEF PublishedSoFar, OnRelease, Working, Seeking, AtWork
  <1>7. OnceSoFar'
    <2>1. SUFFICES ASSUME ~pbUnseen' PROVE OnceSoFar'
      BY DEF OnceSoFar
    <2>2. ~pbUnseen /\ ~Working /\ \A a \in pbStored : a.name # u.name
      BY <1>2, <2>1 DEF Working, StoredNames
    <2> QED BY <1>1, <1>3, <1>4, <2>2 DEF OnceSoFar, Working
  <1> QED BY <1>4, <1>5, <1>6, <1>7 DEF PbInv

(* The attachments are listed, all or some of them. *)
LEMMA PbListsInv == ASSUME PbInv, PbLists PROVE PbInv'
  <1>1. PbTypeOK /\ IdsAreGivenOnce /\ PublishedSoFar /\ OnceSoFar
    BY DEF PbInv
  <1>2. pbExisting' \subseteq pbStored
    BY DEF PbLists
  <1>3. /\ pbPc = "list" /\ pbPc' = "next" /\ pbUnseen' = (pbUnseen \/ pbExisting' # pbStored)
        /\ UNCHANGED <<pbBuilt, pbBuild, pbTagged, pbRelease, pbStored, pbIds, pbLate, pbTodo, pbName, pbDone>>
    BY DEF PbLists, PbAt, pbWorld, pbMirror
  <1>4. PbTypeOK'
    BY <1>1, <1>2, <1>3 DEF PbTypeOK
  <1>5. IdsAreGivenOnce'
    BY <1>1, <1>2, <1>3 DEF IdsAreGivenOnce
  <1>6. OnceSoFar'
    BY <1>1, <1>2, <1>3 DEF OnceSoFar, Working
  <1>7. PublishedSoFar'
    BY <1>1, <1>3 DEF PublishedSoFar, Seeking, OnRelease
  <1> QED BY <1>4, <1>5, <1>6, <1>7 DEF PbInv

(* A file is taken: its attachment is deleted first, if one was listed. *)
LEMMA PbTakesFileInv == ASSUME PbInv, PbTakesFile PROVE PbInv'
  <1>1. PbTypeOK /\ IdsAreGivenOnce /\ PublishedSoFar /\ OnceSoFar
    BY DEF PbInv
  <1>2. PICK n \in pbTodo :
          IF pbBuilt[n] = 0 THEN PbEnds
          ELSE /\ pbName' = n /\ pbTodo' = pbTodo \ {n}
               /\ pbPc' = IF n \in StoredNames(pbExisting) THEN "delete" ELSE "upload"
               /\ UNCHANGED pbExisting
    BY DEF PbTakesFile
  <1>3. /\ pbPc = "next" /\ n \in Files
        /\ UNCHANGED <<pbBuilt, pbBuild, pbTagged, pbRelease, pbStored, pbIds, pbLate, pbDone, pbUnseen>>
    BY <1>1 DEF PbTakesFile, PbAt, pbWorld, pbMirror, pbHistory, PbTypeOK
  <1>4. CASE pbBuilt[n] = 0
    BY <1>1, <1>2, <1>3, <1>4, PbOutsideInv DEF PbEnds, PbTypeOK, PublishedSoFar, Seeking
  <1>5. CASE pbBuilt[n] # 0
    <2>1. /\ pbName' = n /\ pbTodo' = pbTodo \ {n} /\ pbExisting' = pbExisting
          /\ pbPc' = IF n \in StoredNames(pbExisting) THEN "delete" ELSE "upload"
      BY <1>2, <1>5
    <2>2. PbTypeOK'
      BY <1>1, <1>3, <2>1 DEF PbTypeOK
    <2>3. IdsAreGivenOnce'
      BY <1>1, <1>3, <2>1 DEF IdsAreGivenOnce
    <2>4. PublishedSoFar'
      BY <1>1, <1>3, <2>1 DEF PublishedSoFar, Working, Seeking, AtWork, OnRelease
    <2>5. OnceSoFar'
      <3>1. SUFFICES ASSUME ~pbUnseen PROVE OnceSoFar'
        BY <1>3 DEF OnceSoFar
      <3>2. \A a \in pbStored : a.name \in pbTodo => a \in pbExisting
        BY <1>1, <1>3, <3>1 DEF OnceSoFar, Working
      <3>3. pbPc' = "upload" => \A a \in pbStored : a.name # n
        BY <2>1, <3>2 DEF StoredNames
      <3> QED BY <1>1, <1>2, <1>3, <2>1, <3>1, <3>2, <3>3 DEF OnceSoFar
    <2> QED BY <2>2, <2>3, <2>4, <2>5 DEF PbInv
  <1> QED BY <1>4, <1>5

(* Only attachments of the name are deleted, and all of those listed. *)
LEMMA PbDeletesInv == ASSUME PbInv, PbDeletes PROVE PbInv'
  <1>1. PbTypeOK /\ IdsAreGivenOnce /\ PublishedSoFar /\ OnceSoFar
    BY DEF PbInv
  <1>2. /\ pbPc = "delete" /\ pbName \in Files \ pbTodo /\ ~pbDone
        /\ pbStored' = {a \in pbStored : \A b \in pbExisting : b.name = pbName => a.id # b.id}
        /\ UNCHANGED <<pbBuilt, pbBuild, pbTagged, pbRelease, pbIds, pbLate, pbDone, pbUnseen>>
    BY <1>1 DEF PbDeletes, PbAt, pbWorld, pbHistory, PbTypeOK, PublishedSoFar
  <1>3. /\ pbStored' \subseteq pbStored
        /\ \A a \in pbStored : a.name # pbName => a \in pbStored'
        /\ \A a \in pbStored' : a.name = pbName => a \notin pbExisting
    BY <1>1, <1>2 DEF IdsAreGivenOnce
  <1>4. CASE PbEnds
    <2>1. PbTypeOK' /\ ~Working' /\ ~Seeking'
      BY <1>1, <1>2, <1>3, <1>4 DEF PbEnds, PbTypeOK, Working, Seeking
    <2>2. IdsAreGivenOnce'
      BY <1>1, <1>2, <1>3, <1>4 DEF PbEnds, IdsAreGivenOnce
    <2>3. PublishedSoFar'
      BY <1>2, <2>1 DEF PublishedSoFar
    <2>4. OnceSoFar'
      BY <1>1, <1>2, <1>3, <2>1 DEF OnceSoFar, Working
    <2> QED BY <2>1, <2>2, <2>3, <2>4 DEF PbInv
  <1>5. CASE PbGoes("upload")
    <2>1. pbPc' = "upload" /\ UNCHANGED <<pbExisting, pbTodo, pbName>>
      BY <1>5 DEF PbGoes
    <2>2. PbTypeOK'
      BY <1>1, <1>2, <1>3, <2>1 DEF PbTypeOK
    <2>3. IdsAreGivenOnce'
      BY <1>1, <1>2, <1>3, <2>1 DEF IdsAreGivenOnce
    <2>4. PublishedSoFar'
      BY <1>1, <1>2, <1>3, <2>1 DEF PublishedSoFar, Working, Seeking, AtWork, OnRelease
    <2>5. OnceSoFar'
      BY <1>1, <1>2, <1>3, <2>1 DEF OnceSoFar, Working
    <2> QED BY <2>2, <2>3, <2>4, <2>5 DEF PbInv
  <1> QED BY <1>4, <1>5 DEF PbDeletes

(* The file is uploaded, or the answer of its upload is lost. *)
LEMMA PbUploadInv == ASSUME PbInv, PbUploads \/ PbUploadFails PROVE PbInv'
  <1>1. PbTypeOK /\ IdsAreGivenOnce /\ PublishedSoFar /\ OnceSoFar
    BY DEF PbInv
  <1>2. /\ pbPc = "upload" /\ pbName \in Files \ pbTodo /\ pbBuilt[pbName] \in Nat /\ ~pbDone
        /\ UNCHANGED <<pbBuilt, pbBuild, pbTagged, pbRelease, pbDone, pbUnseen>>
    BY <1>1 DEF PbUploads, PbUploadFails, PbAt, pbWorld, pbHistory, PbTypeOK, PublishedSoFar
  <1>3. ASSUME PbStores(pbName, pbBuilt[pbName]), pbLate' = pbLate,
               \/ pbPc' = "next" /\ pbExisting' = pbExisting /\ pbTodo' = pbTodo
               \/ PbEnds
        PROVE  PbInv'
    <2>1. pbExisting' \subseteq pbExisting /\ pbTodo' \subseteq pbTodo /\ ~Seeking'
          /\ pbPc' \in {"idle", "next"} /\ (Working' => pbTodo' = pbTodo /\ pbExisting' = pbExisting)
      BY <1>3 DEF PbEnds, Seeking, Working
    <2>2. PICK new \in Attachment :
             /\ new.name = pbName /\ new.content = pbBuilt[pbName] /\ new \notin pbStored
             /\ pbStored' = pbStored \cup {new}
             /\ pbStored' \in SUBSET Attachment /\ pbIds' \in Nat
             /\ IdsAreGivenOnce'
      BY <1>1, <1>2, <1>3, <2>1, PbStoring
    <2>3. PbTypeOK'
      BY <1>1, <1>2, <1>3, <2>1, <2>2 DEF PbTypeOK
    <2>4. PublishedSoFar'
      <3>1. Working' => \A n \in Files \ pbTodo' : OnRelease(n)'
        BY <1>1, <1>2, <2>1, <2>2 DEF PublishedSoFar, Working, AtWork, OnRelease
      <3> QED BY <1>2, <2>1, <3>1 DEF PublishedSoFar
    <2>5. OnceSoFar'
      BY <1>1, <1>2, <2>1, <2>2 DEF OnceSoFar, Working
    <2> QED BY <2>2, <2>3, <2>4, <2>5 DEF PbInv
  <1>4. CASE PbUploads
    BY <1>3, <1>4 DEF PbUploads
  <1>5. CASE PbUploadFails
    <2>1. CASE PbStores(pbName, pbBuilt[pbName]) /\ pbLate' = pbLate
      BY <1>3, <1>5, <2>1 DEF PbUploadFails
    <2>2. CASE /\ pbLate' = pbLate \cup {[name |-> pbName, content |-> pbBuilt[pbName]]}
               /\ UNCHANGED <<pbStored, pbIds>>
      <3>1. PbEnds
        BY <1>5 DEF PbUploadFails
      <3>2. PbTypeOK' /\ ~Working' /\ ~Seeking'
        BY <1>1, <1>2, <2>2, <3>1 DEF PbEnds, PbTypeOK, Working, Seeking
      <3>3. IdsAreGivenOnce'
        BY <1>1, <2>2, <3>1 DEF PbEnds, IdsAreGivenOnce
      <3>4. PublishedSoFar' /\ OnceSoFar'
        BY <1>1, <1>2, <2>2, <3>2 DEF PublishedSoFar, OnceSoFar, Working
      <3> QED BY <3>2, <3>3, <3>4 DEF PbInv
    <2> QED BY <1>5, <2>1, <2>2 DEF PbUploadFails
  <1> QED BY <1>4, <1>5

(* Every step keeps the invariant. *)
LEMMA PbNextInv == PbInv /\ [PbNext]_pbVars => PbInv'
  <1> SUFFICES ASSUME PbInv, [PbNext]_pbVars PROVE PbInv'
    OBVIOUS
  <1>1. CASE PbNext
    BY <1>1, PbWayInv, PbBuildsInv, PbStoresLateInv, PbListsInv, PbTakesFileInv, PbDeletesInv, PbUploadInv DEF PbNext
  <1>2. CASE UNCHANGED pbVars
    BY <1>2 DEF pbVars, pbWorld, pbMirror, pbAttempt, pbHistory, PbInv, PbTypeOK, IdsAreGivenOnce, PublishedSoFar,
                OnceSoFar, Working, Seeking, AtWork, OnRelease
  <1> QED BY <1>1, <1>2

(* The invariant holds in every reachable state. *)
LEMMA PbInvariant == PbSpec => []PbInv
  BY PbInitInv, PbNextInv, PTL DEF PbSpec

(* Files, attachments and the attempt keep their types. *)
THEOREM PublishTypeCorrect == PbSpec => []PbTypeOK
  BY PbInvariant, PTL DEF PbInv

(* An attempt that returned left every file on the release with the        *)
(* content that was built, and once only unless an attachment was there    *)
(* that no attempt saw.                                                    *)
THEOREM PublicationsAreComplete == PbSpec => []PublishedIsComplete
  <1>1. PbInv => PublishedIsComplete
    BY DEF PbInv, PublishedSoFar, OnceSoFar, OnRelease, PublishedIsComplete
  <1> QED BY <1>1, PbInvariant, PTL

-----------------------------------------------------------------------------
(* Device specifications: what parsing and validation accept is declared. *)

RawRange == [has : SUBSET {"min", "max", "step"}, min : Int, max : Int, step : Int]

(* A number whose distance is a multiple of the step is reached by steps.  *)
LEMMA Steps ==
  ASSUME NEW d \in Nat, NEW step \in Int, step > 0, d % step = 0
  PROVE  \E k \in 0 .. d : d = k * step
  <1>1. d = step * (d \div step) + (d % step)
    BY Z3
  <1>2. d \div step \in Nat
    OBVIOUS
  <1>3. PICK k \in Nat : d = step * k
    BY <1>1, <1>2
  <1>4. k <= d
    BY <1>3, SMT
  <1> QED BY <1>3, <1>4

(* A value of a property's type is of the kind its format declares.        *)
LEMMA TypeIsDeclared ==
  ASSUME NEW format, NEW v, v.n \in Int, TypeMatches(TypeOf(format), v)
  PROVE  KindDeclared(format, v)
  BY DEF TypeMatches, TypeOf, KindDeclared, Numbers

(* A value that a range lets pass is in it, at a distance of whole steps.  *)
LEMMA RangeIsDeclared ==
  ASSUME NEW raw, raw.range \in RawRange, NEW v, v.n \in Int,
         raw.ranged, RangeMatches(ParsedProperty(raw), v)
  PROVE  RangeDeclared(raw.range, v)
  <1> DEFINE range == raw.range
             bounds == BoundsOf(range)
  <1>1. /\ Len(bounds) \in {2, 3} /\ bounds[1] <= v.n /\ v.n <= bounds[2] /\ StepMatches(bounds, v)
    BY DEF RangeMatches, ParsedProperty
  <1>2. range.min \in Int /\ range.max \in Int /\ range.step \in Int
    BY DEF RawRange
  <1>3. {"min", "max"} \subseteq range.has
    BY <1>1 DEF BoundsOf
  <1>4. bounds[1] = range.min /\ bounds[2] = range.max
    BY <1>3 DEF BoundsOf
  <1>5. ASSUME "step" \in range.has
        PROVE  \E k \in 0 .. v.n - range.min : v.n = range.min + k * range.step
    <2>1. bounds = <<range.min, range.max, range.step>>
      BY <1>3, <1>5 DEF BoundsOf
    <2>2. range.step > 0 /\ (v.n - range.min) % range.step = 0
      BY <1>1, <2>1 DEF StepMatches
    <2>3. v.n - range.min \in Nat
      BY <1>1, <1>2, <1>4
    <2>4. PICK k \in 0 .. v.n - range.min : v.n - range.min = k * range.step
      BY <1>2, <2>2, <2>3, Steps
    <2>5. k * range.step \in Int
      BY <1>2, <2>3
    <2>6. v.n = range.min + k * range.step
      BY <1>2, <2>4, <2>5
    <2> QED BY <2>6
  <1> QED BY <1>1, <1>2, <1>3, <1>4, <1>5 DEF RangeDeclared

(* A value that passes the validation of a property is declared for it.    *)
LEMMA ValidIsDeclared ==
  ASSUME NEW raw, raw.range \in RawRange, NEW v, v.n \in Int, Valid(ParsedProperty(raw), v)
  PROVE  Declared(raw, v)
  <1>1. TypeMatches(TypeOf(raw.format), v) /\ RangeMatches(ParsedProperty(raw), v)
        /\ ChoiceMatches(ParsedProperty(raw), v)
    BY DEF Valid, ParsedProperty
  <1>2. KindDeclared(raw.format, v)
    BY <1>1, TypeIsDeclared
  <1>3. raw.ranged => RangeDeclared(raw.range, v)
    BY <1>1, RangeIsDeclared
  <1>4. raw.listed => \E c \in raw.choices : c.n = v.n
    BY <1>1 DEF ChoiceMatches, ParsedProperty
  <1> QED BY <1>2, <1>3, <1>4 DEF Declared

(* What a specification is to the provers: ranges of numbers. *)
Ranged(spec) == \A p \in DOMAIN spec.props : spec.props[p].range \in RawRange

(* A setting that is let through is declared writable, with this value.    *)
LEMMA SettingsAreDeclared ==
  ASSUME NEW spec, Ranged(spec), NEW piid, NEW v, v.n \in Int, MaySet(Parsed(spec), piid, v)
  PROVE  SettingDeclared(spec, piid, v)
  <1>1. piid \in DOMAIN Parsed(spec).props /\ DOMAIN Parsed(spec).props = Readable(spec)
    BY DEF MaySet, Parsed
  <1>2. piid \in DOMAIN spec.props
    BY <1>1 DEF Readable
  <1>3. Parsed(spec).props[piid] = ParsedProperty(spec.props[piid])
    BY <1>1 DEF Parsed
  <1>4. AccessOf(spec.props[piid].access) \in {"write", "read_write"} /\ Valid(ParsedProperty(spec.props[piid]), v)
    BY <1>3 DEF MaySet, ParsedProperty
  <1>5. "write" \in spec.props[piid].access
    BY <1>4 DEF AccessOf
  <1>6. Declared(spec.props[piid], v)
    BY <1>2, <1>4, ValidIsDeclared DEF Ranged
  <1> QED BY <1>2, <1>5, <1>6 DEF SettingDeclared

(* So is a call, with every argument in the place of its input.            *)
LEMMA CallsAreDeclared ==
  ASSUME NEW spec, Ranged(spec), NEW aiid, NEW given, \A k \in DOMAIN given : given[k].n \in Int,
         MayCall(Parsed(spec), aiid, given)
  PROVE  CallDeclared(spec, aiid, Arguments(Parsed(spec), aiid, given))
  <1> DEFINE inputs == Parsed(spec).acts[aiid]
             arguments == Arguments(Parsed(spec), aiid, given)
  <1>1. aiid \in DOMAIN Parsed(spec).acts /\ DOMAIN Parsed(spec).acts = Callable(spec)
    BY DEF MayCall, Parsed
  <1>2. /\ aiid \in DOMAIN spec.acts
        /\ \A i \in DOMAIN spec.acts[aiid] : spec.acts[aiid][i] \in Readable(spec)
    BY <1>1 DEF Callable
  <1>3. inputs = [i \in DOMAIN spec.acts[aiid] |->
                   [piid |-> spec.acts[aiid][i], rule |-> ParsedProperty(spec.props[spec.acts[aiid][i]])]]
    BY <1>1 DEF Parsed
  <1>4. DOMAIN arguments = DOMAIN spec.acts[aiid]
    BY <1>3 DEF Arguments
  <1>5. ASSUME NEW i \in DOMAIN arguments
        PROVE  spec.acts[aiid][i] \in DOMAIN spec.props /\ Declared(spec.props[spec.acts[aiid][i]], arguments[i])
    <2>1. PICK k \in DOMAIN given : KeysFor(inputs[i], given) = {k} /\ Valid(inputs[i].rule, given[k])
      BY <1>3, <1>4 DEF MayCall
    <2>2. arguments[i] = given[k]
      BY <1>3, <1>4, <2>1 DEF Arguments
    <2>3. inputs[i].rule = ParsedProperty(spec.props[spec.acts[aiid][i]])
      BY <1>3, <1>4
    <2>4. spec.acts[aiid][i] \in DOMAIN spec.props
      BY <1>2, <1>4 DEF Readable
    <2> QED BY <2>1, <2>2, <2>3, <2>4, ValidIsDeclared DEF Ranged
  <1> QED BY <1>2, <1>4, <1>5 DEF CallDeclared

-----------------------------------------------------------------------------
(* Device specifications: what the caches hold and the threads carry. *)

SpPcs == {"idle", "look", "lookFile", "backfill", "check", "drop", "dropFile", "resolve", "lock", "second",
          "cached", "download", "listed", "fetch", "keep", "open", "write", "validate", "send"}
SpEntries == [state : {"none", "torn", "damaged", "ok", "old"}, of : {0} \cup DOMAIN Published]
SpMappings == [known : BOOLEAN, lists : BOOLEAN, day : Nat]
SpRequests == {NoRequest} \cup {Sent(Parsed(Published[i]), r) : i \in DOMAIN Published, r \in Requests}
SpThread == [pc : SpPcs, request : SpRequests, entry : SpEntries, map : SpMappings]

SpTypeOK ==
  /\ spSource.now \in spSource.ever /\ spSource.ever \in SUBSET DOMAIN Published
  /\ spDay \in Nat /\ spListed \in BOOLEAN
  /\ spMap \in SpMappings /\ spMapMem \in SpMappings /\ spMapFile \in SpMappings
  /\ spMem \in SpEntries /\ spFile \in [v2 : SpEntries, v1 : SpEntries]
  /\ spLock \in SpCalls \cup {Unlocked}
  /\ spRun \in [SpCalls -> SpThread]

(* Entries parsed by this release from what miot-spec has served.          *)
Fresh == {Entry("ok", i) : i \in spSource.ever}

(* Nothing else gets past the checks of an entry.                          *)
EntriesAreSound ==
  /\ spMem \in {NoEntry, Unfit} \cup Fresh
  /\ spFile.v2 \in {NoEntry, Torn, Unfit} \cup Fresh
  /\ \A t \in SpCalls :
       /\ spRun[t].pc \in {"backfill", "check"} => spRun[t].entry \in {Unfit} \cup Fresh
       /\ spRun[t].pc \in {"keep", "open", "write", "validate"} => spRun[t].entry \in Fresh

(* Who is past the lock holds it, and the map stays unknown to who found   *)
(* it unknown there.                                                       *)
ListIsGuarded ==
  \A t \in SpCalls :
    /\ spRun[t].pc \in {"second", "cached", "download"} => spLock = t
    /\ spRun[t].pc \in {"cached", "download"} => ~spMap.known

SpInv == SpTypeOK /\ EntriesAreSound /\ ListIsGuarded /\ OnlyDeclaredIsSent

(* What a thread sends was declared by a specification served so far. *)
DeclaredToBe(request) ==
  \E i \in spSource.ever :
    IF request.what = "set" THEN SettingDeclared(Published[i], request.id, request.with)
                            ELSE CallDeclared(Published[i], request.id, request.with)

LEMMA SentIsDeclared ==
  OnlyDeclaredIsSent <=> \A t \in SpCalls : spRun[t].pc = "send" => DeclaredToBe(spRun[t].request)
  BY DEF OnlyDeclaredIsSent, DeclaredToBe, SpAt

(* The thread at rest. *)
LEMMA SpRests ==
  /\ SpIdle \in SpThread /\ SpIdle.pc = "idle"
  /\ [SpIdle EXCEPT !.pc = "look"] \in SpThread /\ [SpIdle EXCEPT !.pc = "look"].pc = "look"
  /\ \A r \in SpRequests : /\ [SpIdle EXCEPT !.pc = "send", !.request = r] \in SpThread
                           /\ [SpIdle EXCEPT !.pc = "send", !.request = r].pc = "send"
                           /\ [SpIdle EXCEPT !.pc = "send", !.request = r].request = r
  <1>1. NoRequest \in SpRequests /\ NoEntry \in SpEntries /\ NoMapping \in SpMappings
    BY DEF SpRequests, NoEntry, Entry, SpEntries, NoMapping, SpMappings
  <1>2. SpIdle \in SpThread /\ SpIdle.pc = "idle"
    BY <1>1 DEF SpIdle, SpThread, SpPcs
  <1> QED BY <1>2 DEF SpThread, SpPcs

(* A thread that moves on keeps what it carries. *)
LEMMA SpMoves ==
  ASSUME NEW t \in SpCalls, spRun[t] \in SpThread, NEW pc \in SpPcs, SpPasses(t, pc)
  PROVE  \E run \in SpThread : SpGoes(t, run) /\ run.pc = pc /\ run.entry = spRun[t].entry
  <1>1. /\ [spRun[t] EXCEPT !.pc = pc] \in SpThread /\ [spRun[t] EXCEPT !.pc = pc].pc = pc
        /\ [spRun[t] EXCEPT !.pc = pc].entry = spRun[t].entry
    BY DEF SpThread
  <1> QED BY <1>1 DEF SpPasses

(* Entries that are sound are entries. *)
LEMMA SoundEntries ==
  ASSUME spSource.ever \in SUBSET DOMAIN Published
  PROVE  {NoEntry, Torn, Unfit} \cup Fresh \subseteq SpEntries
  BY DEF Fresh, NoEntry, Torn, Unfit, Entry, SpEntries

(* A step of one thread: what it carries is sound, and the lock is its own *)
(* where it touches it or the map.                                         *)
LEMMA SpTurn ==
  ASSUME SpInv, NEW t \in SpCalls, NEW run \in SpThread, SpGoes(t, run), UNCHANGED spWorld,
         spMap' \in SpMappings, spMapMem' \in SpMappings, spMapFile' \in SpMappings,
         spMem' \in {NoEntry, Unfit} \cup Fresh,
         spFile' \in [v2 : SpEntries, v1 : SpEntries], spFile'.v2 \in {NoEntry, Torn, Unfit} \cup Fresh,
         spLock' \in SpCalls \cup {Unlocked},
         run.pc \in {"backfill", "check"} => run.entry \in {Unfit} \cup Fresh,
         run.pc \in {"keep", "open", "write", "validate"} => run.entry \in Fresh,
         run.pc \in {"second", "cached", "download"} => spLock' = t,
         run.pc \in {"cached", "download"} => ~spMap'.known,
         run.pc = "send" => DeclaredToBe(run.request),
         spLock \in {t, Unlocked} \/ (spLock' = spLock /\ spMap' = spMap)
  PROVE  SpInv'
  <1>1. /\ spRun' \in [SpCalls -> SpThread] /\ spRun'[t] = run
        /\ \A q \in SpCalls \ {t} : spRun'[q] = spRun[q]
    BY DEF SpGoes, SpInv, SpTypeOK
  <1>2. spSource' = spSource /\ spDay' = spDay /\ spListed' = spListed /\ Fresh' = Fresh
    BY DEF spWorld, Fresh
  <1>3. SpTypeOK'
    <2>1. spMem' \in SpEntries
      BY SoundEntries DEF SpInv, SpTypeOK
    <2> QED BY <1>1, <1>2, <2>1 DEF SpInv, SpTypeOK
  <1>4. EntriesAreSound'
    BY <1>1, <1>2 DEF SpInv, EntriesAreSound
  <1>5. ListIsGuarded'
    BY <1>1, SpecAssumption DEF SpInv, ListIsGuarded
  <1>6. OnlyDeclaredIsSent'
    <2>1. \A q \in SpCalls : spRun'[q].pc = "send" => DeclaredToBe(spRun'[q].request)
      BY <1>1, SentIsDeclared DEF SpInv
    <2> QED BY <1>2, <2>1 DEF OnlyDeclaredIsSent, DeclaredToBe, SpAt
  <1> QED BY <1>3, <1>4, <1>5, <1>6 DEF SpInv

(* The same where only the thread moves. *)
LEMMA SpWalks ==
  ASSUME SpInv, NEW t \in SpCalls, NEW run \in SpThread, SpGoes(t, run),
         UNCHANGED <<spWorld, spMaps, spEntries, spLock>>,
         run.pc \in {"backfill", "check"} => run.entry \in {Unfit} \cup Fresh,
         run.pc \in {"keep", "open", "write", "validate"} => run.entry \in Fresh,
         run.pc \notin {"second", "cached", "download"},
         run.pc = "send" => DeclaredToBe(run.request)
  PROVE  SpInv'
  <1>1. UNCHANGED <<spWorld, spMap, spMapMem, spMapFile, spMem, spFile, spLock>>
    BY DEF spMaps, spEntries
  <1>2. /\ spMap \in SpMappings /\ spMapMem \in SpMappings /\ spMapFile \in SpMappings
        /\ spMem \in {NoEntry, Unfit} \cup Fresh
        /\ spFile \in [v2 : SpEntries, v1 : SpEntries] /\ spFile.v2 \in {NoEntry, Torn, Unfit} \cup Fresh
        /\ spLock \in SpCalls \cup {Unlocked}
    BY DEF SpInv, SpTypeOK, EntriesAreSound
  <1> QED BY <1>1, <1>2, SpTurn

(* get_spec up to the validation, where only the thread moves. *)
LEMMA SpWalksInv ==
  ASSUME SpInv, NEW t \in SpCalls,
         \/ SpAsks(t) \/ SpLooks(t) \/ SpLooksInFile(t) \/ SpChecks(t) \/ SpResolves(t)
         \/ SpTypes(t) \/ SpFetches(t) \/ SpFileFails(t) \/ SpFails(t) \/ SpSends(t)
  PROVE  SpInv'
  <1>1. /\ spRun[t] \in SpThread /\ spRun[t].entry \in SpEntries /\ spMap \in SpMappings
        /\ spMem \in SpEntries /\ spFile.v2 \in SpEntries /\ NoMapping \in SpMappings
    BY DEF SpInv, SpTypeOK, SpThread, NoMapping, SpMappings
  <1>2. ASSUME NEW run \in SpThread, SpGoes(t, run), UNCHANGED <<spWorld, spMaps, spEntries, spLock>>,
               run.pc \in {"idle", "look", "lookFile", "drop", "resolve", "lock", "listed", "fetch"}
        PROVE  SpInv'
    BY <1>2, SpWalks
  <1>3. CASE SpAsks(t)
    BY <1>2, <1>3, SpRests DEF SpAsks
  <1>4. CASE SpLooks(t)
    <2>1. CASE spMem # NoEntry
      <3>1. spMem \in {Unfit} \cup Fresh
        BY <2>1 DEF SpInv, EntriesAreSound
      <3>2. PICK run \in SpThread : SpGoes(t, run) /\ run.pc = "check" /\ run.entry = spMem
        <4>1. [spRun[t] EXCEPT !.pc = "check", !.entry = spMem] \in SpThread /\ [spRun[t] EXCEPT !.pc = "check", !.entry = spMem].pc = "check" /\ [spRun[t] EXCEPT !.pc = "check", !.entry = spMem].entry = spMem
          BY <1>1 DEF SpThread, SpPcs
        <4> QED BY <1>1, <1>4, <2>1, <4>1 DEF SpLooks
      <3> QED BY <1>4, <3>1, <3>2, SpWalks DEF SpLooks
    <2>2. CASE spMem = NoEntry
      BY <1>1, <1>2, <1>4, <2>2, SpMoves DEF SpLooks, SpPcs
    <2> QED BY <2>1, <2>2
  <1>5. CASE SpLooksInFile(t)
    <2>1. CASE SpecFile.state \notin {"none", "torn"}
      <3>1. spFile.v2 \in {Unfit} \cup Fresh
        BY <2>1 DEF SpInv, EntriesAreSound, SpecFile, NoEntry, Torn, Entry
      <3>2. PICK run \in SpThread : SpGoes(t, run) /\ run.pc = "backfill" /\ run.entry = spFile.v2
        <4>1. [spRun[t] EXCEPT !.pc = "backfill", !.entry = spFile.v2] \in SpThread /\ [spRun[t] EXCEPT !.pc = "backfill", !.entry = spFile.v2].pc = "backfill" /\ [spRun[t] EXCEPT !.pc = "backfill", !.entry = spFile.v2].entry = spFile.v2
          BY <1>1 DEF SpThread, SpPcs
        <4> QED BY <1>1, <1>5, <2>1, <4>1 DEF SpLooksInFile, SpecFile
      <3> QED BY <1>5, <3>1, <3>2, SpWalks DEF SpLooksInFile
    <2>2. CASE SpecFile.state \in {"none", "torn"}
      BY <1>1, <1>2, <1>5, <2>2, SpMoves DEF SpLooksInFile, SpPcs
    <2> QED BY <2>1, <2>2
  <1>6. CASE SpChecks(t)
    <2>1. spRun[t].entry \in {Unfit} \cup Fresh
      BY <1>6 DEF SpInv, EntriesAreSound, SpChecks, SpAt
    <2>2. CASE spRun[t].entry.state # "damaged"
      <3>1. spRun[t].entry \in Fresh
        BY <2>1, <2>2 DEF Unfit, Entry
      <3>2. PICK run \in SpThread : SpGoes(t, run) /\ run.pc = "validate" /\ run.entry = spRun[t].entry
        BY <1>1, <1>6, <2>2, SpMoves DEF SpChecks, SpPcs
      <3> QED BY <1>6, <3>1, <3>2, SpWalks DEF SpChecks
    <2>3. CASE spRun[t].entry.state = "damaged"
      <3>1. NoEntry \in SpEntries
        BY DEF NoEntry, Entry, SpEntries
      <3>2. /\ [spRun[t] EXCEPT !.pc = "drop", !.entry = NoEntry] \in SpThread
            /\ [spRun[t] EXCEPT !.pc = "drop", !.entry = NoEntry].pc = "drop"
        BY <1>1, <3>1 DEF SpThread, SpPcs
      <3> QED BY <1>2, <1>6, <2>3, <3>2 DEF SpChecks
    <2> QED BY <2>2, <2>3
  <1>7. CASE SpResolves(t)
    <2>1. CASE spMap.known
      <3>1. [spRun[t] EXCEPT !.pc = "listed", !.map = spMap] \in SpThread /\ [spRun[t] EXCEPT !.pc = "listed", !.map = spMap].pc = "listed"
        BY <1>1 DEF SpThread, SpPcs
      <3> QED BY <1>2, <1>7, <2>1, <3>1 DEF SpResolves
    <2>2. CASE ~spMap.known
      BY <1>1, <1>2, <1>7, <2>2, SpMoves DEF SpResolves, SpPcs
    <2> QED BY <2>1, <2>2
  <1>8. CASE SpTypes(t)
    <2>1. CASE spRun[t].map.lists
      <3>1. [spRun[t] EXCEPT !.pc = "fetch", !.map = NoMapping] \in SpThread /\ [spRun[t] EXCEPT !.pc = "fetch", !.map = NoMapping].pc = "fetch"
        BY <1>1 DEF SpThread, SpPcs
      <3> QED BY <1>2, <1>8, <2>1, <3>1 DEF SpTypes
    <2>2. CASE ~spRun[t].map.lists
      BY <1>2, <1>8, <2>2, SpRests DEF SpTypes
    <2> QED BY <2>1, <2>2
  <1>9. CASE SpFetches(t)
    <2>1. Entry("ok", spSource.now) \in Fresh /\ Entry("ok", spSource.now) \in SpEntries
      BY SoundEntries DEF Fresh, SpInv, SpTypeOK
    <2>2. PICK run \in SpThread : SpGoes(t, run) /\ run.pc = "keep" /\ run.entry = Entry("ok", spSource.now)
      <3>1. [spRun[t] EXCEPT !.pc = "keep", !.entry = Entry("ok", spSource.now)] \in SpThread /\ [spRun[t] EXCEPT !.pc = "keep", !.entry = Entry("ok", spSource.now)].pc = "keep" /\ [spRun[t] EXCEPT !.pc = "keep", !.entry = Entry("ok", spSource.now)].entry = Entry("ok", spSource.now)
        BY <1>1, <2>1 DEF SpThread, SpPcs
      <3> QED BY <1>1, <1>9, <3>1 DEF SpFetches
    <2> QED BY <1>9, <2>1, <2>2, SpWalks DEF SpFetches
  <1>10. CASE SpFileFails(t)
    <2>1. spRun[t].entry \in Fresh
      BY <1>10 DEF SpInv, EntriesAreSound, SpFileFails
    <2>2. PICK run \in SpThread : SpGoes(t, run) /\ run.pc = "validate" /\ run.entry = spRun[t].entry
      BY <1>1, <1>10, SpMoves DEF SpFileFails, SpPcs
    <2> QED BY <1>10, <2>1, <2>2, SpWalks DEF SpFileFails
  <1>11. CASE SpFails(t) \/ SpSends(t)
    BY <1>2, <1>11, SpRests DEF SpFails, SpSends, SpRaises
  <1> QED BY <1>3, <1>4, <1>5, <1>6, <1>7, <1>8, <1>9, <1>10, <1>11

(* The two tiers are filled and emptied. *)
LEMMA SpTiersInv ==
  ASSUME SpInv, NEW t \in SpCalls,
         \/ SpBackfills(t) \/ SpDrops(t) \/ SpDropsFile(t) \/ SpKeeps(t) \/ SpOpensFile(t) \/ SpWritesFile(t)
  PROVE  SpInv'
  <1>1. /\ spRun[t] \in SpThread
        /\ spMap \in SpMappings /\ spMapMem \in SpMappings /\ spMapFile \in SpMappings
        /\ spMem \in {NoEntry, Unfit} \cup Fresh
        /\ spFile \in [v2 : SpEntries, v1 : SpEntries] /\ spFile.v2 \in {NoEntry, Torn, Unfit} \cup Fresh
        /\ spLock \in SpCalls \cup {Unlocked}
        /\ {NoEntry, Torn, Unfit} \cup Fresh \subseteq SpEntries
    BY SoundEntries DEF SpInv, SpTypeOK, EntriesAreSound
  <1>2. UNCHANGED <<spWorld, spMap, spMapMem, spMapFile, spLock>>
    BY DEF SpBackfills, SpDrops, SpDropsFile, SpKeeps, SpOpensFile, SpWritesFile, spMaps
  <1>3. ASSUME NEW pc \in {"check", "dropFile", "resolve", "open", "write", "validate"}, SpPasses(t, pc),
               pc = "check" => spRun[t].entry \in {Unfit} \cup Fresh,
               pc \in {"open", "write", "validate"} => spRun[t].entry \in Fresh,
               spMem' \in {NoEntry, Unfit} \cup Fresh,
               \/ spFile' = spFile
               \/ \E e \in {NoEntry, Torn} \cup Fresh : spFile' = [spFile EXCEPT !.v2 = e]
        PROVE  SpInv'
    <2>1. PICK run \in SpThread : SpGoes(t, run) /\ run.pc = pc /\ run.entry = spRun[t].entry
      BY <1>1, <1>3, SpMoves DEF SpPcs
    <2>2. spFile' \in [v2 : SpEntries, v1 : SpEntries] /\ spFile'.v2 \in {NoEntry, Torn, Unfit} \cup Fresh
      BY <1>1, <1>3
    <2> QED BY <1>1, <1>2, <1>3, <2>1, <2>2, SpTurn
  <1>4. spRun[t].pc \in {"keep", "open", "write"} => spRun[t].entry \in Fresh
    BY DEF SpInv, EntriesAreSound
  <1>5. CASE SpBackfills(t)
    <2>1. spRun[t].entry \in {Unfit} \cup Fresh
      BY <1>5 DEF SpInv, EntriesAreSound, SpBackfills, SpAt
    <2> QED BY <1>3, <1>5, <2>1 DEF SpBackfills
  <1>6. CASE SpDrops(t)
    BY <1>3, <1>6 DEF SpDrops
  <1>7. CASE SpDropsFile(t)
    BY <1>1, <1>3, <1>7 DEF SpDropsFile
  <1>8. CASE SpKeeps(t)
    BY <1>3, <1>4, <1>8 DEF SpKeeps, SpAt
  <1>9. CASE SpOpensFile(t)
    BY <1>1, <1>3, <1>4, <1>9 DEF SpOpensFile, SpAt
  <1>10. CASE SpWritesFile(t)
    BY <1>1, <1>3, <1>4, <1>10 DEF SpWritesFile, SpAt
  <1> QED BY <1>5, <1>6, <1>7, <1>8, <1>9, <1>10

(* The list of models is looked up and downloaded under its lock. *)
LEMMA SpListInv ==
  ASSUME SpInv, NEW t \in SpCalls, SpLocks(t) \/ SpAsksAgain(t) \/ SpFindsMapping(t) \/ SpDownloads(t)
  PROVE  SpInv'
  <1>1. /\ spRun[t] \in SpThread
        /\ spMap \in SpMappings /\ spMapMem \in SpMappings /\ spMapFile \in SpMappings
        /\ spMem \in {NoEntry, Unfit} \cup Fresh
        /\ spFile \in [v2 : SpEntries, v1 : SpEntries] /\ spFile.v2 \in {NoEntry, Torn, Unfit} \cup Fresh
        /\ spLock \in SpCalls \cup {Unlocked}
        /\ spDay \in Nat /\ spListed \in BOOLEAN
    BY DEF SpInv, SpTypeOK, EntriesAreSound
  <1>2. UNCHANGED <<spWorld, spMem, spFile>>
    BY DEF SpLocks, SpAsksAgain, SpFindsMapping, SpDownloads, spEntries
  <1>3. spRun[t].pc \in {"second", "cached", "download"} => spLock = t
    BY DEF SpInv, ListIsGuarded
  <1>4. ASSUME NEW run \in SpThread, SpGoes(t, run), run.pc \in {"idle", "listed"}, spLock = t, spLock' = Unlocked,
               spMap' \in SpMappings, spMapMem' \in SpMappings, spMapFile' \in SpMappings
        PROVE  SpInv'
    BY <1>1, <1>2, <1>4, SpTurn
  <1>5. CASE SpLocks(t)
    <2>1. PICK run \in SpThread : SpGoes(t, run) /\ run.pc = "second"
      BY <1>1, <1>5, SpMoves DEF SpLocks, SpPcs
    <2> QED BY <1>1, <1>2, <1>5, <2>1, SpTurn DEF SpLocks, spMaps
  <1>6. CASE SpAsksAgain(t)
    <2>1. CASE spMap.known
      <3>1. [spRun[t] EXCEPT !.pc = "listed", !.map = spMap] \in SpThread /\ [spRun[t] EXCEPT !.pc = "listed", !.map = spMap].pc = "listed"
        BY <1>1 DEF SpThread, SpPcs
      <3> QED BY <1>1, <1>3, <1>4, <1>6, <2>1, <3>1 DEF SpAsksAgain, SpAt, SpUnlocks, spMaps
    <2>2. CASE ~spMap.known
      <3>1. PICK run \in SpThread : SpGoes(t, run) /\ run.pc = "cached"
        BY <1>1, <1>6, <2>2, SpMoves DEF SpAsksAgain, SpPcs
      <3> QED BY <1>1, <1>2, <1>3, <1>6, <2>2, <3>1, SpTurn DEF SpAsksAgain, SpAt, spMaps
    <2> QED BY <2>1, <2>2
  <1>7. CASE SpFindsMapping(t)
    <2> DEFINE found == IF spMapMem.known THEN spMapMem ELSE spMapFile
    <2>1. CASE found.known
      <3>1. [spRun[t] EXCEPT !.pc = "listed", !.map = found] \in SpThread /\ [spRun[t] EXCEPT !.pc = "listed", !.map = found].pc = "listed"
        BY <1>1 DEF SpThread, SpPcs
      <3> QED BY <1>1, <1>3, <1>4, <1>7, <2>1, <3>1 DEF SpFindsMapping, SpAt, SpUnlocks
    <2>2. CASE ~found.known
      <3>1. PICK run \in SpThread : SpGoes(t, run) /\ run.pc = "download"
        BY <1>1, <1>7, <2>2, SpMoves DEF SpFindsMapping, SpPcs
      <3>2. ~spMap.known
        BY <1>7 DEF SpInv, ListIsGuarded, SpFindsMapping, SpAt
      <3> QED BY <1>1, <1>2, <1>3, <1>7, <2>2, <3>1, <3>2, SpTurn DEF SpFindsMapping, SpAt
    <2> QED BY <2>1, <2>2
  <1>8. CASE SpDownloads(t)
    <2>1. Mapping(spListed, spDay) \in SpMappings
      BY <1>1 DEF Mapping, SpMappings
    <2>2. spLock = t /\ spLock' = Unlocked
      BY <1>3, <1>8 DEF SpDownloads, SpAt, SpUnlocks
    <2>3. CASE /\ spMap' = Mapping(spListed, spDay) /\ spMapMem' = Mapping(spListed, spDay)
               /\ spMapFile' = Mapping(spListed, spDay)
               /\ SpGoes(t, [spRun[t] EXCEPT !.pc = "listed", !.map = Mapping(spListed, spDay)])
      <3>1. [spRun[t] EXCEPT !.pc = "listed", !.map = Mapping(spListed, spDay)] \in SpThread /\ [spRun[t] EXCEPT !.pc = "listed", !.map = Mapping(spListed, spDay)].pc = "listed"
        BY <1>1, <2>1 DEF SpThread, SpPcs
      <3> QED BY <1>4, <2>1, <2>2, <2>3, <3>1
    <2>4. CASE SpGoes(t, SpIdle) /\ UNCHANGED spMaps
      BY <1>1, <1>4, <2>2, <2>4, SpRests DEF spMaps
    <2> QED BY <1>8, <2>3, <2>4 DEF SpDownloads
  <1> QED BY <1>5, <1>6, <1>7, <1>8

(* A request is checked against the specification the thread has got. *)
LEMMA SpValidatesInv == ASSUME SpInv, NEW t \in SpCalls, SpValidates(t) PROVE SpInv'
  <1>1. PICK request \in Requests :
          SpGoes(t, IF Accepted(SpecOf(spRun[t].entry), request)
                      THEN [SpIdle EXCEPT !.pc = "send", !.request = Sent(SpecOf(spRun[t].entry), request)] ELSE SpIdle)
    BY DEF SpValidates
  <1>2. UNCHANGED <<spWorld, spMaps, spEntries, spLock>>
    BY DEF SpValidates
  <1>3. PICK i \in spSource.ever : spRun[t].entry = Entry("ok", i)
    BY DEF SpInv, EntriesAreSound, SpValidates, SpAt, Fresh
  <1>4. i \in DOMAIN Published
    BY DEF SpInv, SpTypeOK
  <1>5. SpecOf(spRun[t].entry) = Parsed(Published[i])
    BY <1>3 DEF SpecOf, Entry
  <1> DEFINE spec == Published[i]
             sent == Sent(Parsed(spec), request)
  <1>6. Ranged(spec)
    BY <1>4, NumbersAssumption DEF Ranged, RawRange
  <1>7. CASE Accepted(Parsed(spec), request)
    <2>1. sent \in SpRequests
      BY <1>4 DEF SpRequests
    <2>2. DeclaredToBe(sent)
      <3>1. ASSUME NEW s \in Settings, request = SettingOf(s)
            PROVE  DeclaredToBe(sent)
        <4>1. request.what = "set" /\ request.id = s[1] /\ request.with = s[2]
          BY <3>1 DEF SettingOf
        <4>2. sent.what = "set" /\ sent.id = s[1] /\ sent.with = s[2]
          BY <3>1, <4>1 DEF Sent, SettingOf
        <4>3. SettingDeclared(spec, s[1], s[2])
          BY <1>6, <1>7, <4>1, NumbersAssumption, SettingsAreDeclared DEF Accepted
        <4> QED BY <4>2, <4>3 DEF DeclaredToBe
      <3>2. ASSUME NEW c \in Callings, request = CallingOf(c)
            PROVE  DeclaredToBe(sent)
        <4>1. request.what = "act" /\ request.id = c[1] /\ request.with = c[2]
          BY <3>2 DEF CallingOf
        <4>2. sent.what = "act" /\ sent.id = c[1] /\ sent.with = Arguments(Parsed(spec), c[1], c[2])
          BY <3>2, <4>1 DEF Sent, CallingOf
        <4>3. CallDeclared(spec, c[1], Arguments(Parsed(spec), c[1], c[2]))
          BY <1>6, <1>7, <4>1, NumbersAssumption, CallsAreDeclared DEF Accepted
        <4> QED BY <4>2, <4>3 DEF DeclaredToBe
      <3> QED BY <3>1, <3>2 DEF Requests
    <2> HIDE DEF sent
    <2>3. PICK run \in SpThread : SpGoes(t, run) /\ run.pc = "send" /\ run.request = sent
      BY <1>1, <1>5, <1>7, <2>1, SpRests DEF sent
    <2> QED BY <1>2, <2>2, <2>3, SpWalks
  <1>8. CASE ~Accepted(Parsed(spec), request)
    BY <1>1, <1>2, <1>5, <1>8, SpRests, SpWalks
  <1> QED BY <1>7, <1>8

(* The world: specifications are published, days pass, entries expire, the *)
(* process restarts.                                                       *)
LEMMA SpWorldInv ==
  ASSUME SpInv, SpPublishes \/ SpLists \/ SpDayPasses \/ SpForgets \/ SpRestarts \/ SpClears
  PROVE  SpInv'
  <1>1. NoEntry \in SpEntries /\ NoMapping \in SpMappings /\ NoMapping.known = FALSE
    BY DEF NoEntry, Entry, SpEntries, NoMapping, SpMappings
  <1>2. CASE SpPublishes
    <2>1. PICK i \in DOMAIN Published : spSource' = [now |-> i, ever |-> spSource.ever \cup {i}]
      BY <1>2 DEF SpPublishes
    <2>2. UNCHANGED <<spDay, spListed, spMap, spMapMem, spMapFile, spMem, spFile, spLock, spRun>>
      BY <1>2 DEF SpPublishes, spMaps, spEntries
    <2>3. SpTypeOK'
      BY <2>1, <2>2 DEF SpInv, SpTypeOK
    <2>4. spSource.ever \subseteq spSource'.ever /\ Fresh \subseteq Fresh'
      BY <2>1 DEF Fresh
    <2>5. EntriesAreSound' /\ ListIsGuarded'
      BY <2>2, <2>4 DEF SpInv, EntriesAreSound, ListIsGuarded
    <2>6. OnlyDeclaredIsSent'
      BY <2>2, <2>4 DEF SpInv, OnlyDeclaredIsSent, SpAt
    <2> QED BY <2>3, <2>5, <2>6 DEF SpInv
  <1>3. CASE SpLists
    <2>1. spListed' = TRUE /\ UNCHANGED <<spSource, spDay, spMap, spMapMem, spMapFile, spMem, spFile, spLock, spRun>>
      BY <1>3 DEF SpLists, spMaps, spEntries
    <2> QED BY <2>1 DEF SpInv, SpTypeOK, EntriesAreSound, Fresh, ListIsGuarded, OnlyDeclaredIsSent, SpAt
  <1>4. CASE SpDayPasses \/ SpForgets \/ SpClears
    <2>1. /\ UNCHANGED <<spSource, spListed, spFile, spLock, spRun>> /\ spDay' \in Nat
          /\ spMem' \in {NoEntry, spMem} /\ spMap' \in {NoMapping, spMap}
          /\ spMapMem' \in {NoMapping, spMapMem} /\ spMapFile' \in {NoMapping, spMapFile}
      BY <1>4 DEF SpDayPasses, SpForgets, SpClears, spWorld, spEntries, SpInv, SpTypeOK
    <2>2. SpTypeOK'
      BY <1>1, <2>1 DEF SpInv, SpTypeOK
    <2>3. EntriesAreSound' /\ OnlyDeclaredIsSent'
      BY <2>1 DEF SpInv, EntriesAreSound, Fresh, OnlyDeclaredIsSent, SpAt
    <2>4. ListIsGuarded'
      BY <1>1, <2>1 DEF SpInv, ListIsGuarded
    <2> QED BY <2>2, <2>3, <2>4 DEF SpInv
  <1>5. CASE SpRestarts
    <2>1. /\ spRun' = [t \in SpCalls |-> SpIdle] /\ spLock' = Unlocked
          /\ spMap' = NoMapping /\ spMapMem' = NoMapping /\ spMem' = NoEntry
          /\ UNCHANGED <<spSource, spDay, spListed, spMapFile, spFile>>
      BY <1>5 DEF SpRestarts, spWorld
    <2>2. spRun' \in [SpCalls -> SpThread] /\ \A t \in SpCalls : spRun'[t].pc = "idle"
      BY <2>1, SpRests
    <2>3. SpTypeOK'
      BY <1>1, <2>1, <2>2 DEF SpInv, SpTypeOK
    <2>4. EntriesAreSound' /\ ListIsGuarded' /\ OnlyDeclaredIsSent'
      BY <2>1, <2>2 DEF SpInv, EntriesAreSound, Fresh, ListIsGuarded, OnlyDeclaredIsSent, SpAt
    <2> QED BY <2>3, <2>4 DEF SpInv
  <1> QED BY <1>2, <1>3, <1>4, <1>5

(* The caches may hold anything but what the schema's key does not name. *)
LEMMA SpInitInv == SpInit => SpInv
  <1> SUFFICES ASSUME SpInit PROVE SpInv
    OBVIOUS
  <1>1. PICK i \in DOMAIN Published :
          /\ spSource = [now |-> i, ever |-> {i}]
          /\ spFile \in [v2 : {NoEntry, Torn, Unfit, Entry("ok", i)}, v1 : {NoEntry, Entry("old", i)}]
    BY DEF SpInit
  <1>2. /\ spDay = 0 /\ spListed \in BOOLEAN /\ spMem = NoEntry /\ spLock = Unlocked
        /\ spMap = NoMapping /\ spMapMem = NoMapping /\ spMapFile = NoMapping
        /\ spRun = [t \in SpCalls |-> SpIdle]
    BY DEF SpInit
  <1>3. /\ NoEntry \in SpEntries /\ Torn \in SpEntries /\ Unfit \in SpEntries /\ NoMapping \in SpMappings
        /\ Entry("ok", i) \in SpEntries /\ Entry("old", i) \in SpEntries
    BY DEF NoEntry, Torn, Unfit, Entry, SpEntries, NoMapping, SpMappings
  <1>4. spRun \in [SpCalls -> SpThread] /\ \A t \in SpCalls : spRun[t].pc = "idle"
    BY <1>2, SpRests
  <1>5. SpTypeOK
    BY <1>1, <1>2, <1>3, <1>4 DEF SpTypeOK
  <1>6. EntriesAreSound
    BY <1>1, <1>2, <1>4 DEF EntriesAreSound, Fresh
  <1>7. ListIsGuarded /\ OnlyDeclaredIsSent
    BY <1>4 DEF ListIsGuarded, OnlyDeclaredIsSent, SpAt
  <1> QED BY <1>5, <1>6, <1>7 DEF SpInv

(* Every step keeps the invariant. *)
LEMMA SpNextInv == SpInv /\ [SpNext]_spVars => SpInv'
  <1> SUFFICES ASSUME SpInv, [SpNext]_spVars PROVE SpInv'
    OBVIOUS
  <1>1. ASSUME NEW t \in SpCalls, SpStep(t)
        PROVE  SpInv'
    BY <1>1, SpWalksInv, SpTiersInv, SpListInv, SpValidatesInv DEF SpStep
  <1>2. CASE UNCHANGED spVars
    BY <1>2 DEF spVars, spWorld, spMaps, spEntries, SpInv, SpTypeOK, EntriesAreSound, Fresh, ListIsGuarded,
                OnlyDeclaredIsSent, SpAt
  <1> QED BY <1>1, <1>2, SpWorldInv DEF SpNext

(* The invariant holds in every reachable state. *)
LEMMA SpInvariant == SpSpec => []SpInv
  BY SpInitInv, SpNextInv, PTL DEF SpSpec

(* Caches, map, lock and threads keep their types. *)
THEOREM SpecsTypeCorrect == SpSpec => []SpTypeOK
  BY SpInvariant, PTL DEF SpInv

(* Every control that is sent was declared by a specification that         *)
(* miot-spec has served for the model.                                     *)
THEOREM OnlyDeclaredIsEverSent == SpSpec => []OnlyDeclaredIsSent
  BY SpInvariant, PTL DEF SpInv

(* At most one thread at a time downloads the list of models, and only     *)
(* while none is known.                                                    *)
THEOREM ListIsDownloadedOnce == SpSpec => []ListDownloadedOnce
  <1>1. SpInv => ListDownloadedOnce
    BY DEF SpInv, ListIsGuarded, ListDownloadedOnce, SpAt
  <1> QED BY <1>1, SpInvariant, PTL

=============================================================================
