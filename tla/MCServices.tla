----------------------------- MODULE MCServices -----------------------------
(***************************************************************************)
(* Small instances of four components that share no state: each behaviour  *)
(* of the run is a behaviour of the one its scene names, so their states   *)
(* add up and do not multiply.                                             *)
(***************************************************************************)
EXTENDS SdkCache, AndroidService, ReleaseMirror, SceneControl, TLC

VARIABLE scene

Init ==
  /\ scene \in {"sdk cache", "android service", "release mirror", "scene control"}
  /\ SdkInit /\ AnInit /\ RmInit /\ ScInit
  /\ scene # "release mirror" => DOMAIN rmSource = {} /\ rmTagged
  /\ scene # "scene control" => scAllowed = Scenes /\ scShown.scene = CHOOSE s \in Scenes : TRUE

Next ==
  /\ UNCHANGED scene
  /\ \/ scene = "sdk cache" /\ SdkNext /\ UNCHANGED <<anVars, rmVars, scVars>>
     \/ scene = "android service" /\ AnNext /\ UNCHANGED <<sdkVars, rmVars, scVars>>
     \/ scene = "release mirror" /\ RmNext /\ UNCHANGED <<sdkVars, anVars, scVars>>
     \/ scene = "scene control" /\ ScNext /\ UNCHANGED <<sdkVars, anVars, rmVars>>

Spec == Init /\ [][Next]_<<scene, sdkVars, anVars, rmVars, scVars>>

(* The calls of the client are never told from one another.                *)
Interchangeable == Permutations(SdkCalls)

=============================================================================
