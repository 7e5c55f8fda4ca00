----------------------------- MODULE SyncServer -----------------------------
(***************************************************************************)
(* The synchronisation runs of server/mijia_runtime.py and the progress    *)
(* record the web UI polls: sync_all, _sync_background and its delayed     *)
(* cleanup.  Runs are numbered in the order of their task ids (uuid4, so   *)
(* never used twice, not even after a restart).  What a run does with the  *)
(* account is MijiaRuntime; here a run is its lock, its progress record    *)
(* and its threads.                                                        *)
(***************************************************************************)
EXTENDS Naturals

CONSTANTS MaxRun,       \* bound on the number of runs
          ThreadsFail,  \* whether Thread.start() may raise
          Restarts,     \* whether the process may be restarted
          Nothing       \* no run, no progress

ASSUME SyncAssumption ==
  /\ MaxRun \in Nat \ {0}
  /\ ThreadsFail \in BOOLEAN
  /\ Restarts \in BOOLEAN
  /\ Nothing \notin Nat
  /\ Nothing \notin [run : Nat, status : {"running", "completed", "failed"}]

VARIABLES
  syncLock,       \* run that owns self._sync_lock, or Nothing
  syncProgress,   \* self._sync_progress: a run and its status, or Nothing
  run,            \* where the threads of each run stand
  lastRun         \* number of the last run

server == <<syncLock, syncProgress, run, lastRun>>

Runs      == 1 .. MaxRun
RunStatus == {"running", "completed", "failed"}
Progress  == [run : Runs, status : RunStatus]
RunPc     == {"new", "locked", "seeded", "working", "ended", "cleanup", "gone"}

ServerInit ==
  /\ syncLock = Nothing
  /\ syncProgress = Nothing
  /\ run = [r \in Runs |-> "new"]
  /\ lastRun = 0

----------------------------------------------------------------------------
(* sync_all: the lock is taken without waiting, or the request is refused. *)
AcquireSync(r) ==
  /\ r = lastRun + 1
  /\ syncLock = Nothing
  /\ syncLock' = r
  /\ lastRun' = r
  /\ run' = [run EXCEPT ![r] = "locked"]
  /\ UNCHANGED syncProgress

SyncInProgress == syncLock # Nothing

(* A faulty variant: a record that is still there is kept, as the fallback *)
(* of _sync_all_unlocked does.                                             *)
SeedProgressIfAbsent(r) ==
  /\ run[r] = "locked"
  /\ syncProgress' = IF syncProgress = Nothing
                     THEN [run |-> r, status |-> "running"] ELSE syncProgress
  /\ run' = [run EXCEPT ![r] = "seeded"]
  /\ UNCHANGED <<syncLock, lastRun>>

(* The record of the new run replaces that of the last one. *)
SeedProgress(r) ==
  /\ run[r] = "locked"
  /\ syncProgress' = [run |-> r, status |-> "running"]
  /\ run' = [run EXCEPT ![r] = "seeded"]
  /\ UNCHANGED <<syncLock, lastRun>>

SyncThreadStarts(r) ==
  /\ run[r] = "seeded"
  /\ run' = [run EXCEPT ![r] = "working"]
  /\ UNCHANGED <<syncLock, syncProgress, lastRun>>

(* Only the lock is given back; the record keeps saying "running". *)
SyncThreadFails(r) ==
  /\ ThreadsFail
  /\ run[r] = "seeded"
  /\ syncLock' = Nothing
  /\ run' = [run EXCEPT ![r] = "gone"]
  /\ UNCHANGED <<syncProgress, lastRun>>

(* The last _update_progress of _sync_all_unlocked: the snapshot has been  *)
(* committed, or an exception (AccountChangedError included) ends the run. *)
EndSync(r, status) ==
  /\ run[r] = "working"
  /\ syncProgress' = IF syncProgress = Nothing THEN Nothing
                     ELSE [syncProgress EXCEPT !.status = status]
  /\ run' = [run EXCEPT ![r] = "ended"]
  /\ UNCHANGED <<syncLock, lastRun>>

(* The finally block of _sync_background: the lock is free before the      *)
(* cleanup thread begins its delay.                                        *)
ReleaseSync(r) ==
  /\ run[r] = "ended"
  /\ syncLock' = Nothing
  /\ run' = [run EXCEPT ![r] = IF syncProgress = Nothing THEN "gone"
                                                          ELSE "cleanup"]
  /\ UNCHANGED <<syncProgress, lastRun>>

(* A faulty variant: the cleanup does not look whose record it clears. *)
ClearAnyProgress(r) ==
  /\ run[r] = "cleanup"
  /\ syncProgress' = Nothing
  /\ run' = [run EXCEPT ![r] = "gone"]
  /\ UNCHANGED <<syncLock, lastRun>>

(* cleanup_progress after its delay: a newer run may be under way.  The    *)
(* id it compares was read under the lock, so it is that of the run r.     *)
ClearProgressIfTask(r) ==
  /\ run[r] = "cleanup"
  /\ syncProgress' = IF syncProgress # Nothing /\ syncProgress.run = r
                     THEN Nothing ELSE syncProgress
  /\ run' = [run EXCEPT ![r] = "gone"]
  /\ UNCHANGED <<syncLock, lastRun>>

(* The process is restarted: nothing of this is persisted. *)
Restart ==
  /\ Restarts
  /\ syncLock' = Nothing
  /\ syncProgress' = Nothing
  /\ run' = [r \in Runs |-> IF run[r] = "new" THEN "new" ELSE "gone"]
  /\ UNCHANGED lastRun

(* What the threads of the run r do by themselves. *)
RunStep(r) ==
  \/ SeedProgress(r)
  \/ \E status \in {"completed", "failed"} : EndSync(r, status)
  \/ ReleaseSync(r)
  \/ ClearProgressIfTask(r)

ServerNext ==
  \/ Restart
  \/ \E r \in Runs : \/ AcquireSync(r)
                     \/ SyncThreadStarts(r)
                     \/ SyncThreadFails(r)
                     \/ RunStep(r)

ServerSpec == ServerInit /\ [][ServerNext]_server

----------------------------------------------------------------------------
(* Every variable of the server keeps its type. *)
ServerTypeOK ==
  /\ syncLock \in Runs \cup {Nothing}
  /\ syncProgress \in Progress \cup {Nothing}
  /\ run \in [Runs -> RunPc]
  /\ lastRun \in 0 .. MaxRun

(* While a run is under way the record that can be read is its own: no     *)
(* cleanup of an earlier run removes it, no other run overwrites it        *)
(* (_clear_progress_if_task, test_sync_progress_cleanup_does_not_clear_    *)
(* new_run).                                                               *)
RunningRunPublished ==
  \A r \in Runs :
    run[r] \in {"seeded", "working", "ended"}
      => syncProgress # Nothing /\ syncProgress.run = r

(* Once sync_all may have answered for a run, the record of an earlier run *)
(* is not read again ("so that the UI does not briefly read the completed  *)
(* state of the last round", sync_all).                                    *)
NoOlderProgress ==
  \A r \in Runs :
    run[r] \notin {"new", "locked"} /\ syncProgress # Nothing
      => syncProgress.run >= r

(* A run's record never goes back from an end to "running", and no record  *)
(* of an earlier run appears once a later one has been published.          *)
ProgressMovesOn ==
  [][syncProgress # Nothing /\ syncProgress' # Nothing
       => \/ syncProgress'.run > syncProgress.run
          \/ /\ syncProgress'.run = syncProgress.run
             /\ syncProgress'.status = "running" => syncProgress.status = "running"]_server

=============================================================================
