------------------------------ MODULE MCAccess ------------------------------
(***************************************************************************)
(* Small instances of what decides who may do what: five components that   *)
(* share no state, one to a scene as in MCServices.                        *)
(***************************************************************************)
EXTENDS ApiKeys, AdminSessions, RequestAdmission, Registry, PermissionPage, TLC

VARIABLE scene

Init ==
  /\ scene \in {"api keys", "admin sessions", "request admission", "registry", "permission page"}
  /\ KeyInit /\ SesInit /\ CfgInit /\ RegInit /\ PpInit
  /\ scene # "registry" => \A d, e \in Dids : regCloud[d] = regCloud[e]
  /\ scene # "permission page" => \A r \in Rows : ppServer[r] = "read"

(* Besides a batch, the page has at most two requests under way.           *)
FewRequests ==
  LET underway(requests) == {i \in DOMAIN requests : requests[i].pc # "none"}
  IN  Cardinality(underway(ppSave')) + Cardinality(underway(ppLoads')) <= 2

Next ==
  /\ UNCHANGED scene
  /\ \/ scene = "api keys" /\ KeyNext /\ UNCHANGED <<sesVars, cfgVars, regVars, ppVars>>
     \/ scene = "admin sessions" /\ SesNext /\ UNCHANGED <<keyVars, cfgVars, regVars, ppVars>>
     \/ scene = "request admission" /\ CfgNext /\ UNCHANGED <<keyVars, sesVars, regVars, ppVars>>
     \/ scene = "registry" /\ RegNext /\ UNCHANGED <<keyVars, sesVars, cfgVars, ppVars>>
     \/ scene = "permission page" /\ PpNext /\ FewRequests /\ UNCHANGED <<keyVars, sesVars, cfgVars, regVars>>

Spec == Init /\ [][Next]_<<scene, keyVars, sesVars, cfgVars, regVars, ppVars>>

(* Ids of rows, and homes, are never told from one another.               *)
Interchangeable == Permutations(RowIds) \cup Permutations(Homes)

=============================================================================
