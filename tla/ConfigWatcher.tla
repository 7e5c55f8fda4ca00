---------------------------- MODULE ConfigWatcher ----------------------------
(***************************************************************************)
(* The watcher of server.toml (src/server/config_watcher.py) as the        *)
(* lifespan of the application uses it (app.py): the settings are read     *)
(* when the process starts, the watcher notes the file's time when the     *)
(* application does, and its loop compares, notes and reads the file in    *)
(* steps of its own, while the file may be written at any moment.          *)
(***************************************************************************)
EXTENDS Naturals

CONSTANT MaxEdits  \* bound on the edits of the file

ASSUME EditsAssumption == MaxEdits \in Nat

VARIABLES cwFile,    \* the file: its edition, which stands for mtime and content
          cwExists,  \* it is there
          cwPhase,   \* the application: "booting", "up", "down"
          cwRunning, \* _running
          cwLast,    \* _last_mtime
          cwLoop,    \* the loop: "none", "sleeps", "looked", "notified", "ended"
          cwSeen,    \* the edition the loop compared with
          cwRead     \* the edition read last, with or without success

cwVars == <<cwFile, cwExists, cwPhase, cwRunning, cwLast, cwLoop, cwSeen, cwRead>>

Editions == 0 .. MaxEdits

CwInit ==
  /\ cwFile = 0 /\ cwExists \in BOOLEAN /\ cwPhase = "booting" /\ cwRunning = FALSE
  /\ cwLast = 0 /\ cwLoop = "none" /\ cwSeen = 0 /\ cwRead = 0

FileWritten ==
  /\ cwFile < MaxEdits
  /\ cwFile' = cwFile + 1 /\ cwExists' = TRUE
  /\ UNCHANGED <<cwPhase, cwRunning, cwLast, cwLoop, cwSeen, cwRead>>

FileRemoved ==
  /\ cwExists /\ cwExists' = FALSE
  /\ UNCHANGED <<cwFile, cwPhase, cwRunning, cwLast, cwLoop, cwSeen, cwRead>>

(* lifespan: without a file there is no watcher.                           *)
WatcherStarts ==
  /\ cwPhase = "booting" /\ cwPhase' = "up"
  /\ IF cwExists THEN cwRunning' = TRUE /\ cwLast' = cwFile /\ cwLoop' = "sleeps"
                 ELSE UNCHANGED <<cwRunning, cwLast, cwLoop>>
  /\ UNCHANGED <<cwFile, cwExists, cwSeen, cwRead>>

(* stop joins for two seconds at most: the loop may run on once more.      *)
WatcherStops ==
  /\ cwPhase = "up" /\ cwPhase' = "down"
  /\ cwRunning' = FALSE
  /\ UNCHANGED <<cwFile, cwExists, cwLast, cwLoop, cwSeen, cwRead>>

NextRound == IF cwRunning THEN "sleeps" ELSE "ended"

LoopLooks ==
  /\ cwLoop = "sleeps"
  /\ IF cwExists /\ cwFile > cwLast
       THEN cwLoop' = "looked" /\ cwSeen' = cwFile
       ELSE cwLoop' = NextRound /\ UNCHANGED cwSeen
  /\ UNCHANGED <<cwFile, cwExists, cwPhase, cwRunning, cwLast, cwRead>>

(* The time is noted before the file is read ...                           *)
LoopNotes ==
  /\ cwLoop = "looked" /\ cwLoop' = "notified"
  /\ cwLast' = cwSeen
  /\ UNCHANGED <<cwFile, cwExists, cwPhase, cwRunning, cwSeen, cwRead>>

(* A faulty variant: the time is noted once more, after the reading. *)
LoopReadsThenNotes ==
  /\ cwLoop = "notified" /\ cwLoop' = NextRound
  /\ cwRead' = IF cwExists THEN cwSeen ELSE cwRead
  /\ cwLast' = cwFile
  /\ UNCHANGED <<cwFile, cwExists, cwPhase, cwRunning, cwSeen>>

(* ... by reload_from_toml, of a file that may have changed again or gone. *)
LoopReads ==
  /\ cwLoop = "notified" /\ cwLoop' = NextRound
  /\ cwRead' = IF cwExists THEN cwFile ELSE cwRead
  /\ UNCHANGED <<cwFile, cwExists, cwPhase, cwRunning, cwLast, cwSeen>>

CwNext ==
  \/ FileWritten \/ FileRemoved \/ WatcherStarts \/ WatcherStops
  \/ LoopLooks \/ LoopNotes \/ LoopReads

CwFairness == WF_cwVars(LoopLooks) /\ WF_cwVars(LoopNotes) /\ WF_cwVars(LoopReads)

CwSpec == CwInit /\ [][CwNext]_cwVars /\ CwFairness

-----------------------------------------------------------------------------
(* An edition later than the one noted is read, unless the file goes or    *)
(* the watcher stops: no edit falls between the noting of the time and the *)
(* reading of the file.                                                    *)
Unread == cwRunning /\ cwExists /\ cwRead < cwFile
EditsAreRead == (Unread /\ cwLast < cwFile) ~> ~Unread

=============================================================================
