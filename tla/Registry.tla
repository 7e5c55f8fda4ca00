------------------------------ MODULE Registry ------------------------------
(***************************************************************************)
(* The local registry (server/store_registry.py): what a sync commits and  *)
(* what the administrator decided about the devices, side by side.  The    *)
(* cloud moves devices between homes while a sync enumerates them, homes   *)
(* disappear, an enumeration fails, and the administrator works on a list  *)
(* read earlier.  Scenes are reconciled and authorised the same way as     *)
(* devices ("executable" for "write"); only devices are kept here.  Row    *)
(* ids are UUIDs: an id once used never comes back.                        *)
(***************************************************************************)
EXTENDS FiniteSets, Functions

CONSTANTS Dids,     \* devices of the account, by their Xiaomi did
          Homes,    \* its homes
          RowIds,   \* internal ids the runs may use; the run ends with them
          Nowhere   \* no home, no row, no id

ASSUME RegistryAssumption == Nowhere \notin Homes \cup RowIds

VARIABLES regCloud,      \* where the cloud has each device
          regCloudHomes, \* the homes the cloud has
          regHomes,      \* home_registry
          regRow,        \* device_registry, by did
          regUsed,       \* ids that were given to rows
          regSync,       \* the sync under way
          regList,       \* the list of devices the administrator looks at
          regUpdate,     \* an update of one device between its two connections
          regMeant       \* history: <<id, did>> of each grant the administrator made
regVars == <<regCloud, regCloudHomes, regHomes, regRow, regUsed, regSync, regList, regUpdate, regMeant>>
regLocal == <<regHomes, regRow, regUsed, regList, regUpdate, regMeant>>

Modes == {"read", "write"}
NoRow == [id |-> Nowhere]
NoSync == [pc |-> "idle"]
NoUpdate == [id |-> Nowhere]

RegInit == /\ regCloud \in [Dids -> Homes]
           /\ regCloudHomes = Homes
           /\ regHomes = {} /\ regRow = [d \in Dids |-> NoRow] /\ regUsed = {}
           /\ regSync = NoSync /\ regList = {} /\ regUpdate = NoUpdate /\ regMeant = {}

-----------------------------------------------------------------------------
(* The cloud *)

DeviceMoves(d, h) ==
  /\ h \in regCloudHomes \cup {Nowhere} /\ regCloud[d] # h
  /\ regCloud' = [regCloud EXCEPT ![d] = h]
  /\ UNCHANGED <<regCloudHomes, regSync, regLocal>>

HomeDissolved(h) ==
  /\ h \in regCloudHomes /\ \A d \in Dids : regCloud[d] # h
  /\ regCloudHomes' = regCloudHomes \ {h}
  /\ UNCHANGED <<regCloud, regSync, regLocal>>

-----------------------------------------------------------------------------
(* A sync: the homes, then the devices of one home after the other, then one *)
(* transaction.                                                              *)

HomesFetched ==
  /\ regSync = NoSync
  /\ regSync' = [pc |-> "homes", homes |-> regCloudHomes, todo |-> regCloudHomes, done |-> {},
                 found |-> [d \in Dids |-> Nowhere]]
  /\ UNCHANGED <<regCloud, regCloudHomes, regLocal>>

DevicesFetched(h) ==
  /\ regSync # NoSync /\ h \in regSync.todo
  /\ regSync' = [regSync EXCEPT
       !.todo = @ \ {h}, !.done = @ \cup {h},
       !.found = [d \in Dids |-> IF regCloud[d] = h THEN h ELSE @[d]]]
  /\ UNCHANGED <<regCloud, regCloudHomes, regLocal>>

FetchFailed(h) ==
  /\ regSync # NoSync /\ h \in regSync.todo
  /\ regSync' = [regSync EXCEPT !.todo = @ \ {h}]
  /\ UNCHANGED <<regCloud, regCloudHomes, regLocal>>

SyncDropped ==
  /\ regSync # NoSync /\ regSync' = NoSync
  /\ UNCHANGED <<regCloud, regCloudHomes, regLocal>>

(* The rows of homes that left the list go first, with what the              *)
(* administrator decided about them; then the devices found are inserted or  *)
(* updated; then the rows of enumerated homes that were not found are pruned. *)
RowsOfListedHomes(s) == [d \in Dids |-> IF regRow[d] # NoRow /\ regRow[d].home \in s.homes
                                        THEN regRow[d] ELSE NoRow]
Found(s) == {d \in Dids : s.found[d] # Nowhere}
Upserted(s, rows, new) ==
  [d \in Dids |-> CASE d \notin Found(s) -> rows[d]
                    [] d \in Found(s) /\ rows[d] # NoRow -> [rows[d] EXCEPT !.home = s.found[d]]
                    [] OTHER -> [id |-> new[d], home |-> s.found[d], mode |-> "read"]]
(* A faulty variant: what was not found is gone, enumerated or not. *)
PrunedEverywhere(s, rows) == [d \in Dids |-> IF d \notin Found(s) THEN NoRow ELSE rows[d]]

Pruned(s, rows) == [d \in Dids |-> IF /\ rows[d] # NoRow
                                      /\ rows[d].home \in s.done /\ d \notin Found(s)
                                   THEN NoRow ELSE rows[d]]

SnapshotCommitted ==
  /\ regSync # NoSync /\ regSync.todo = {}
  /\ LET kept == RowsOfListedHomes(regSync)
         fresh == {d \in Found(regSync) : kept[d] = NoRow}
     IN \E new \in Injection(fresh, RowIds \ regUsed) :
          /\ regRow' = Pruned(regSync, Upserted(regSync, kept, new))
          /\ regUsed' = regUsed \cup Range(new)
  /\ regHomes' = regSync.homes
  /\ regSync' = NoSync
  /\ UNCHANGED <<regCloud, regCloudHomes, regList, regUpdate, regMeant>>

(* A faulty variant: row numbers, which start again in an empty table. *)
RegistryClearedNumbersToo ==
  /\ regHomes' = {} /\ regRow' = [d \in Dids |-> NoRow]
  /\ regUsed' = {}
  /\ regSync' = NoSync
  /\ UNCHANGED <<regCloud, regCloudHomes, regList, regUpdate, regMeant>>

(* The account is removed or replaced; a sync of it is dropped by its generation. *)
RegistryCleared ==
  /\ regHomes' = {} /\ regRow' = [d \in Dids |-> NoRow]
  /\ regSync' = NoSync
  /\ UNCHANGED <<regCloud, regCloudHomes, regUsed, regList, regUpdate, regMeant>>

-----------------------------------------------------------------------------
(* The administrator *)

DevicesListed ==
  /\ regList' = {<<regRow[d].id, d>> : d \in {x \in Dids : regRow[x] # NoRow}}
  /\ UNCHANGED <<regCloud, regCloudHomes, regHomes, regRow, regUsed, regSync, regUpdate, regMeant>>

Present(i) == \E d \in Dids : regRow[d] # NoRow /\ regRow[d].id = i
ModeSet(I, m) == [d \in Dids |-> IF regRow[d] # NoRow /\ regRow[d].id \in I
                                 THEN [regRow[d] EXCEPT !.mode = m] ELSE regRow[d]]
Meant(I, m) == IF m = "write" THEN regMeant \cup {p \in regList : p[1] \in I} ELSE regMeant

(* update_device: the device is looked up in one connection, written by its  *)
(* internal id in another; a row that is gone by then is not found again.    *)
DeviceLookedUp(i, m) ==
  /\ regUpdate = NoUpdate /\ (\E d \in Dids : <<i, d>> \in regList) /\ Present(i)
  /\ regUpdate' = [id |-> i, mode |-> m]
  /\ regMeant' = Meant({i}, m)
  /\ UNCHANGED <<regCloud, regCloudHomes, regHomes, regRow, regUsed, regSync, regList>>

DeviceUpdated ==
  /\ regUpdate # NoUpdate
  /\ regRow' = ModeSet({regUpdate.id}, regUpdate.mode)
  /\ regUpdate' = NoUpdate
  /\ UNCHANGED <<regCloud, regCloudHomes, regHomes, regUsed, regSync, regList, regMeant>>

(* set_resource_authorization: all of the ids or none, in one transaction. *)
AuthorizationSet(I, m) ==
  /\ I # {} /\ (\A i \in I : Present(i) /\ \E d \in Dids : <<i, d>> \in regList)
  /\ regRow' = ModeSet(I, m)
  /\ regMeant' = Meant(I, m)
  /\ UNCHANGED <<regCloud, regCloudHomes, regHomes, regUsed, regSync, regList, regUpdate>>

RegNext ==
  \/ \E d \in Dids, h \in Homes \cup {Nowhere} : DeviceMoves(d, h)
  \/ \E h \in Homes : HomeDissolved(h) \/ DevicesFetched(h) \/ FetchFailed(h)
  \/ HomesFetched \/ SyncDropped \/ SnapshotCommitted \/ RegistryCleared
  \/ DevicesListed \/ DeviceUpdated
  \/ \E m \in Modes : \/ \E i \in RowIds : DeviceLookedUp(i, m)
                      \/ \E I \in SUBSET RowIds : AuthorizationSet(I, m)

RegSpec == RegInit /\ [][RegNext]_regVars

-----------------------------------------------------------------------------
(* A device may be controlled only when the administrator allowed it for     *)
(* this very device: neither a sync, nor a row that went and came back while *)
(* an update or a batch was on its way, nor the next account inherits it.    *)
GrantsAreMeant ==
  \A d \in Dids : regRow[d] # NoRow /\ regRow[d].mode = "write" => <<regRow[d].id, d>> \in regMeant

(* What the administrator decided about a device survives a sync when the    *)
(* device was found again, and also when its home could not be enumerated    *)
(* (store_registry.py:47, "preserving failed homes"), as long as the home it *)
(* was in is still listed.                                                   *)
SyncKeepsDecisions ==
  [][\A d \in Dids :
       /\ regSync # NoSync /\ regSync.todo = {} /\ regHomes' = regSync.homes /\ regHomes' # {}
       /\ regRow[d] # NoRow /\ regRow[d].home \in regSync.homes
       /\ d \in Found(regSync) \/ regRow[d].home \notin regSync.done
       => regRow'[d] # NoRow /\ regRow'[d].id = regRow[d].id /\ regRow'[d].mode = regRow[d].mode]_<<regHomes, regSync>>
=============================================================================
