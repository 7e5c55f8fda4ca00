---------------------------- MODULE SceneControl ----------------------------
(***************************************************************************)
(* Running scenes from the page (web/src/composables/useSceneControl.ts):  *)
(* one dialog for all scenes, whose selection may change while an          *)
(* execution is in flight; outcomes are kept for the session by App.vue,   *)
(* and an unknown one blocks the scene until the user acknowledges it.     *)
(***************************************************************************)
EXTENDS Naturals

CONSTANT Scenes

VARIABLES scAllowed,  \* the scenes executable and not hidden
          scShown,    \* [open, scene]: visible and selectedId
          scMemory,   \* outcomes and busyIds of this session's memory
          scCalls,    \* this session's executions in flight
          scRuns      \* history: dispatched and not settled, in this session

scVars == <<scAllowed, scShown, scMemory, scCalls, scRuns>>

Fresh == [s \in Scenes |-> [outcome |-> "none", busy |-> FALSE]]
Execution(s, fate) == [scene |-> s, fate |-> fate]
InDialog(s) == scShown = [open |-> TRUE, scene |-> s]

ScInit ==
  /\ scAllowed \in SUBSET Scenes
  /\ scShown \in [open : {FALSE}, scene : Scenes]
  /\ scMemory = Fresh /\ scCalls = {} /\ scRuns = [s \in Scenes |-> 0]

OpenScene(s) ==
  /\ s \in scAllowed
  /\ scShown' = [open |-> TRUE, scene |-> s]
  /\ UNCHANGED <<scAllowed, scMemory, scCalls, scRuns>>

CloseScene ==
  /\ scShown' = [scShown EXCEPT !.open = FALSE]
  /\ UNCHANGED <<scAllowed, scMemory, scCalls, scRuns>>

CanExecute(s) == s \in scAllowed /\ ~scMemory[s].busy /\ scMemory[s].outcome # "unknown"

ExecuteScene(s) ==
  /\ InDialog(s) /\ CanExecute(s)
  /\ scMemory' = [scMemory EXCEPT ![s].busy = TRUE]
  /\ scCalls' = scCalls \cup {Execution(s, "sent")}
  /\ scRuns' = [scRuns EXCEPT ![s] = @ + 1]
  /\ UNCHANGED <<scAllowed, scShown>>

(* The server runs the scene, refuses it, or cannot tell.                  *)
ExecutionServed(c) ==
  /\ c.fate = "sent"
  /\ \E fate \in {"success", "failed", "unknown"} :
       scCalls' = (scCalls \ {c}) \cup {[c EXCEPT !.fate = fate]}
  /\ UNCHANGED <<scAllowed, scShown, scMemory, scRuns>>

(* A faulty variant: the result goes to the scene that is selected. *)
RecordedForShown(c, outcome) ==
  scMemory' = [scMemory EXCEPT ![scShown.scene] = [outcome |-> outcome, busy |-> FALSE]]

(* The result goes to the scene it was dispatched for.                     *)
Recorded(c, outcome) ==
  scMemory' = [scMemory EXCEPT ![c.scene] = [outcome |-> outcome, busy |-> FALSE]]

Settled(c, outcome) ==
  scRuns' = IF outcome # "unknown" THEN [scRuns EXCEPT ![c.scene] = 0] ELSE scRuns

ExecutionReturns(c) ==
  /\ c.fate # "sent"
  /\ scCalls' = scCalls \ {c}
  /\ Recorded(c, c.fate) /\ Settled(c, c.fate)
  /\ UNCHANGED <<scAllowed, scShown>>

ExecutionLost(c) ==
  /\ scCalls' = scCalls \ {c}
  /\ Recorded(c, "unknown") /\ Settled(c, "unknown")
  /\ UNCHANGED <<scAllowed, scShown>>

AcknowledgeUnknown(s) ==
  /\ InDialog(s) /\ scMemory[s].outcome = "unknown"
  /\ scMemory' = [scMemory EXCEPT ![s].outcome = "none"]
  /\ scRuns' = [scRuns EXCEPT ![s] = 0]
  /\ UNCHANGED <<scAllowed, scShown, scCalls>>

(* Permissions saved, or the list loaded again.                            *)
ScenesChange ==
  /\ scAllowed' \in SUBSET Scenes
  /\ UNCHANGED <<scShown, scMemory, scCalls, scRuns>>

(* The session ends: App.vue takes a new memory; a call in flight keeps    *)
(* the old one, which nothing reads any more.                              *)
SceneSessionEnds ==
  /\ scShown' = [scShown EXCEPT !.open = FALSE]
  /\ scMemory' = Fresh
  /\ scCalls' = {}
  /\ scRuns' = [s \in Scenes |-> 0]
  /\ UNCHANGED scAllowed

ScNext ==
  \/ \E s \in Scenes : OpenScene(s) \/ ExecuteScene(s) \/ AcknowledgeUnknown(s)
  \/ \E c \in scCalls : ExecutionServed(c) \/ ExecutionReturns(c) \/ ExecutionLost(c)
  \/ CloseScene \/ ScenesChange \/ SceneSessionEnds

ScSpec == ScInit /\ [][ScNext]_scVars

-----------------------------------------------------------------------------
(* Within a session a scene is not sent a second time while the result of  *)
(* the first is neither known nor acknowledged, whatever else is selected  *)
(* in between.                                                             *)
SceneRunsOnce == \A s \in Scenes : scRuns[s] <= 1

=============================================================================
