--------------------------- MODULE PermissionPage ---------------------------
(***************************************************************************)
(* The permission switches of the page's list of devices (App.vue:         *)
(* saveDevice, autoSaveDeviceAccess, updateDevice, bulkAuthorize and       *)
(* loadAdmin; those of scenes work alike).  A switch shows its new value   *)
(* before it is stored.  A load replaces the rows by new objects, while a  *)
(* save under way keeps the row object it was given.  The server changes   *)
(* meanwhile for reasons the page does not see.                            *)
(***************************************************************************)
EXTENDS Naturals

CONSTANTS Rows,    \* devices of the list
          Loads    \* loads of the list that may be in flight together

VARIABLES ppServer,  \* access_mode in device_registry
          ppShown,   \* access_mode of the row in the list
          ppSave,    \* the PATCH of each row; pendingDeviceIds has those not "none"
          ppBulk,    \* the batch; bulkAuthorizationBusy unless "none"
          ppLoads,   \* loadAdmin's request for the devices
          ppDoubt    \* history: rows that a lost answer, a change from elsewhere
                     \* or a list read before a change left in doubt

ppVars == <<ppServer, ppShown, ppSave, ppBulk, ppLoads, ppDoubt>>

AccessModes == {"read", "write"}
Other(m) == IF m = "read" THEN "write" ELSE "read"
NoSave == [pc |-> "none", mode |-> "read", switched |-> FALSE, listed |-> FALSE, sure |-> FALSE]
NoBulk == [pc |-> "none", mode |-> "read", sure |-> FALSE]
NoLoad == [pc |-> "none", got |-> [r \in Rows |-> "read"], clean |-> {}]

PpInit ==
  /\ ppServer \in [Rows -> AccessModes] /\ ppShown = ppServer
  /\ ppSave = [r \in Rows |-> NoSave] /\ ppBulk = NoBulk
  /\ ppLoads = [l \in Loads |-> NoLoad]
  /\ ppDoubt = {}

Asking == {"sent", "stored", "refused"}
InFlight(r) == ppSave[r].pc \in Asking \/ ppBulk.pc \in Asking

(* What the loads under way read of the rows R is out of date.             *)
Outdated(R) == [l \in Loads |-> [ppLoads[l] EXCEPT !.clean = @ \ R]]

-----------------------------------------------------------------------------
(* One row *)

(* saveDevice: neither during a batch nor twice for one row.               *)
SaveStarts(r, mode, switched) ==
  /\ ppBulk.pc = "none" /\ ppSave[r].pc = "none"
  /\ ppSave' = [ppSave EXCEPT ![r] = [pc |-> "sent", mode |-> mode, switched |-> switched,
                                      listed |-> TRUE, sure |-> TRUE]]
  /\ UNCHANGED <<ppServer, ppBulk, ppLoads, ppDoubt>>

(* autoSaveDeviceAccess *)
PermissionSwitched(r) ==
  /\ SaveStarts(r, Other(ppShown[r]), TRUE)
  /\ ppShown' = [ppShown EXCEPT ![r] = Other(@)]

(* updateDevice sends the permission the row shows with its other fields.  *)
RowSaved(r) == SaveStarts(r, ppShown[r], FALSE) /\ UNCHANGED ppShown

(* A row that was replaced meanwhile will not be told of the change.       *)
SaveStored(r) ==
  /\ ppSave[r].pc = "sent"
  /\ ppServer' = [ppServer EXCEPT ![r] = ppSave[r].mode]
  /\ ppSave' = [ppSave EXCEPT ![r].pc = "stored"]
  /\ ppLoads' = Outdated({r})
  /\ ppDoubt' = IF ppSave[r].listed THEN ppDoubt ELSE ppDoubt \cup {r}
  /\ UNCHANGED <<ppShown, ppBulk>>

SaveRefused(r) ==
  /\ ppSave[r].pc = "sent"
  /\ ppSave' = [ppSave EXCEPT ![r].pc = "refused"]
  /\ UNCHANGED <<ppServer, ppShown, ppBulk, ppLoads, ppDoubt>>

ShownInRow(r, mode) ==
  ppShown' = IF ppSave[r].listed THEN [ppShown EXCEPT ![r] = mode] ELSE ppShown

(* The row stays pending until the audit list was read again.              *)
SaveReturns(r) ==
  /\ ppSave[r].pc = "stored"
  /\ ShownInRow(r, ppSave[r].mode)
  /\ ppSave' = [ppSave EXCEPT ![r] = [NoSave EXCEPT !.pc = "audit"]]
  /\ ppDoubt' = IF ppSave[r].listed /\ ppSave[r].sure THEN ppDoubt \ {r} ELSE ppDoubt
  /\ UNCHANGED <<ppServer, ppBulk, ppLoads>>

SaveEnds(r) ==
  /\ ppSave[r].pc = "audit"
  /\ ppSave' = [ppSave EXCEPT ![r] = NoSave]
  /\ UNCHANGED <<ppServer, ppShown, ppBulk, ppLoads, ppDoubt>>

(* A switch goes back, whatever became of the request.                     *)
SwitchedBack(r) ==
  /\ IF ppSave[r].switched THEN ShownInRow(r, Other(ppSave[r].mode)) ELSE UNCHANGED ppShown
  /\ ppSave' = [ppSave EXCEPT ![r] = NoSave]
  /\ UNCHANGED <<ppServer, ppBulk, ppLoads>>

SaveFails(r) == ppSave[r].pc = "refused" /\ SwitchedBack(r) /\ UNCHANGED ppDoubt

SaveLost(r) ==
  /\ ppSave[r].pc \in Asking
  /\ SwitchedBack(r)
  /\ ppDoubt' = ppDoubt \cup {r}

-----------------------------------------------------------------------------
(* All rows: bulkAuthorize, which also waits for a sync to end. *)

BulkGoes(pc) == ppBulk' = [IF pc \in {"none", "audit"} THEN NoBulk ELSE ppBulk EXCEPT !.pc = pc]

(* A faulty variant: rows that are being saved do not matter. *)
BulkAskedAnyway(mode) ==
  /\ ppBulk.pc = "none"
  /\ ppBulk' = [pc |-> "confirm", mode |-> mode, sure |-> TRUE]
  /\ UNCHANGED <<ppServer, ppShown, ppSave, ppLoads, ppDoubt>>

BulkAsked(mode) ==
  /\ ppBulk.pc = "none" /\ \A r \in Rows : ppSave[r].pc = "none"
  /\ ppBulk' = [pc |-> "confirm", mode |-> mode, sure |-> TRUE]
  /\ UNCHANGED <<ppServer, ppShown, ppSave, ppLoads, ppDoubt>>

BulkCanceled ==
  /\ ppBulk.pc = "confirm" /\ BulkGoes("none")
  /\ UNCHANGED <<ppServer, ppShown, ppSave, ppLoads, ppDoubt>>

BulkSent ==
  /\ ppBulk.pc = "confirm" /\ BulkGoes("sent")
  /\ UNCHANGED <<ppServer, ppShown, ppSave, ppLoads, ppDoubt>>

BulkStored ==
  /\ ppBulk.pc = "sent" /\ BulkGoes("stored")
  /\ ppServer' = [r \in Rows |-> ppBulk.mode]
  /\ ppLoads' = Outdated(Rows)
  /\ UNCHANGED <<ppShown, ppSave, ppDoubt>>

BulkRefused ==
  /\ ppBulk.pc = "sent" /\ BulkGoes("refused")
  /\ UNCHANGED <<ppServer, ppShown, ppSave, ppLoads, ppDoubt>>

(* The rows are those of the list as it is now.                            *)
BulkReturns ==
  /\ ppBulk.pc = "stored" /\ BulkGoes("audit")
  /\ ppShown' = [r \in Rows |-> ppBulk.mode]
  /\ ppDoubt' = IF ppBulk.sure THEN {} ELSE Rows
  /\ UNCHANGED <<ppServer, ppSave, ppLoads>>

BulkEnds ==
  /\ ppBulk.pc \in {"refused", "audit"} /\ BulkGoes("none")
  /\ UNCHANGED <<ppServer, ppShown, ppSave, ppLoads, ppDoubt>>

BulkLost ==
  /\ ppBulk.pc \in Asking /\ BulkGoes("none")
  /\ ppDoubt' = Rows
  /\ UNCHANGED <<ppServer, ppShown, ppSave, ppLoads>>

-----------------------------------------------------------------------------
(* Loads, and what the page does not see *)

LoadSent(l) ==
  /\ ppLoads[l].pc = "none"
  /\ ppLoads' = [ppLoads EXCEPT ![l] = [NoLoad EXCEPT !.pc = "sent"]]
  /\ UNCHANGED <<ppServer, ppShown, ppSave, ppBulk, ppDoubt>>

LoadRead(l) ==
  /\ ppLoads[l].pc = "sent"
  /\ ppLoads' = [ppLoads EXCEPT ![l] = [pc |-> "read", got |-> ppServer, clean |-> Rows]]
  /\ UNCHANGED <<ppServer, ppShown, ppSave, ppBulk, ppDoubt>>

LoadReturns(l) ==
  /\ ppLoads[l].pc = "read"
  /\ ppShown' = ppLoads[l].got
  /\ ppSave' = [r \in Rows |-> [ppSave[r] EXCEPT !.listed = FALSE]]
  /\ ppDoubt' = Rows \ ppLoads[l].clean
  /\ ppLoads' = [ppLoads EXCEPT ![l] = NoLoad]
  /\ UNCHANGED <<ppServer, ppBulk>>

LoadFails(l) ==
  /\ ppLoads[l].pc # "none"
  /\ ppLoads' = [ppLoads EXCEPT ![l] = NoLoad]
  /\ UNCHANGED <<ppServer, ppShown, ppSave, ppBulk, ppDoubt>>

(* Another administrator, or a call of this page whose answer was lost and *)
(* that the server carries out only now.                                   *)
PermissionSetElsewhere(R, mode) ==
  /\ ppServer' = [r \in Rows |-> IF r \in R THEN mode ELSE ppServer[r]]
  /\ ppSave' = [r \in Rows |-> IF r \in R THEN [ppSave[r] EXCEPT !.sure = FALSE] ELSE ppSave[r]]
  /\ ppBulk' = [ppBulk EXCEPT !.sure = FALSE]
  /\ ppLoads' = Outdated(R)
  /\ ppDoubt' = ppDoubt \cup R
  /\ UNCHANGED ppShown

PpNext ==
  \/ \E r \in Rows : \/ PermissionSwitched(r) \/ RowSaved(r) \/ SaveStored(r) \/ SaveRefused(r)
                     \/ SaveReturns(r) \/ SaveEnds(r) \/ SaveFails(r) \/ SaveLost(r)
  \/ \E m \in AccessModes : BulkAsked(m) \/ \E R \in SUBSET Rows \ {{}} : PermissionSetElsewhere(R, m)
  \/ BulkCanceled \/ BulkSent \/ BulkStored \/ BulkRefused \/ BulkReturns \/ BulkEnds \/ BulkLost
  \/ \E l \in Loads : LoadSent(l) \/ LoadRead(l) \/ LoadReturns(l) \/ LoadFails(l)

PpSpec == PpInit /\ [][PpNext]_ppVars

-----------------------------------------------------------------------------
(* A row that nothing is under way for shows what the server enforces,     *)
(* unless, since, an answer was lost, someone else changed it, or a list   *)
(* read before a change replaced the rows after it: neither the switch     *)
(* that runs ahead of its request, nor rows replaced under a save that was *)
(* stored before they were read, nor batch and single saves get it wrong.  *)
RowsTellTheServer ==
  \A r \in Rows : ~InFlight(r) /\ r \notin ppDoubt => ppShown[r] = ppServer[r]

=============================================================================
