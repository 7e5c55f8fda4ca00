----------------------------- MODULE AuditTrail -----------------------------
(***************************************************************************)
(* The audit trail of server/store.py and server/audit_journal.py: events  *)
(* go to the database, or to a file of the recovery journal when that      *)
(* fails; replays move them to the database later; receipts are looked up  *)
(* in both.  The journal lock is a lock of one process: a second process   *)
(* (`python -m server.cli`) opens the same database and journal.           *)
(* The limit of 100 deliveries per replay, redaction and the counter of    *)
(* unavailable events are left out.                                        *)
(***************************************************************************)
EXTENDS Naturals

CONSTANTS Events,     \* audit events, named by their place in the order of ids
          Local,      \* replays of the server process
          Foreign,    \* replays of another process
          Lookups,    \* requests that look up a receipt
          None        \* no event, no lock owner

ASSUME AuditAssumption ==
  /\ Events \subseteq Nat
  /\ None \notin Events \cup Local
  /\ Local \cap Foreign = {}

VARIABLES
  rows,       \* events in the table audit_log
  file,       \* per event: its file in audit-pending
  writer,     \* per event: where add_audit stands
  delivery,   \* per event: what add_audit returned, "none" before
  old,        \* events older than audit_retention_days
  lock,       \* owner of AuditJournal._lock in the server process
  replay,     \* AuditJournal.replay: files still to visit, and the current one
  lookup      \* get_audit_event

stores == <<rows, file>>
vars   == <<rows, file, writer, delivery, old, lock, replay, lookup>>

Replays    == Local \cup Foreign
FileState  == {"absent", "queued", "damaged", "invalid"}
Delivery   == {"none", "stored", "queued", "unavailable"}
ReplayIdle == [pc |-> "idle", todo |-> {}, event |-> None]
LookupIdle == [pc |-> "idle", event |-> None, result |-> "none"]

Init ==
  /\ rows = {}
  /\ file = [e \in Events |-> "absent"]
  /\ writer = [e \in Events |-> "idle"]
  /\ delivery = [e \in Events |-> "none"]
  /\ old = {}
  /\ lock = None
  /\ replay = [r \in Replays |-> ReplayIdle]
  /\ lookup = [l \in Lookups |-> LookupIdle]

----------------------------------------------------------------------------
(* ServerStore.add_audit *)

Record(e) ==
  /\ writer[e] = "idle"
  /\ writer' = [writer EXCEPT ![e] = "inserting"]
  /\ UNCHANGED <<stores, delivery, old, lock, replay, lookup>>

Returns(e, d) ==
  /\ writer' = [writer EXCEPT ![e] = "done"]
  /\ delivery' = [delivery EXCEPT ![e] = d]

Insert(e) ==
  /\ writer[e] = "inserting"
  /\ rows' = rows \cup {e}
  /\ Returns(e, "stored")
  /\ UNCHANGED <<file, old, lock, replay, lookup>>

(* The database raised, before or after the row was committed. *)
InsertFails(e) ==
  /\ writer[e] = "inserting"
  /\ rows' \in {rows, rows \cup {e}}
  /\ writer' = [writer EXCEPT ![e] = "saving"]
  /\ UNCHANGED <<file, delivery, old, lock, replay, lookup>>

(* AuditJournal.save: a complete file appears at once (os.replace). *)
SaveFile(e) ==
  /\ writer[e] = "saving"
  /\ lock = None
  /\ file' = [file EXCEPT ![e] = "queued"]
  /\ Returns(e, "queued")
  /\ UNCHANGED <<rows, old, lock, replay, lookup>>

(* ... or it raises, perhaps only when the directory is synced. *)
SaveFails(e) ==
  /\ writer[e] = "saving"
  /\ lock = None
  /\ file' \in {file, [file EXCEPT ![e] = "queued"]}
  /\ Returns(e, "unavailable")
  /\ UNCHANGED <<rows, old, lock, replay, lookup>>

----------------------------------------------------------------------------
(* AuditJournal.replay: the background task, the administrator's request,  *)
(* and ServerStore.initialize of any process.                              *)

Free(r) == r \in Local => lock = None

Leaves(r) ==
  /\ replay' = [replay EXCEPT ![r] = ReplayIdle]
  /\ lock' = IF lock = r THEN None ELSE lock

BeginReplay(r) ==
  /\ replay[r].pc = "idle"
  /\ Free(r)
  /\ lock' = IF r \in Local THEN r ELSE lock
  /\ replay' = [replay EXCEPT ![r] =
       [pc |-> "scan", event |-> None,
        todo |-> {e \in Events : file[e] \in {"queued", "damaged"}}]]
  /\ UNCHANGED <<stores, writer, delivery, old, lookup>>

(* Files are visited in the order of their names. *)
Visits(r, e) ==
  /\ replay[r].pc = "scan"
  /\ e \in replay[r].todo
  /\ \A f \in replay[r].todo : e <= f

(* Another process was faster, or an I/O error hides the file for now. *)
SkipFile(r, e) ==
  /\ Visits(r, e)
  /\ replay' = [replay EXCEPT ![r].todo = @ \ {e}]
  /\ UNCHANGED <<stores, writer, delivery, old, lock, lookup>>

(* A faulty variant: a damaged file ends the replay. *)
StopAtDamaged(r, e) ==
  /\ Visits(r, e)
  /\ file[e] = "damaged"
  /\ Leaves(r)
  /\ UNCHANGED <<stores, writer, delivery, old, lookup>>

(* A file that is no valid event is set aside for the operator.            *)
QuarantineFile(r, e) ==
  /\ Visits(r, e)
  /\ file[e] = "damaged"
  /\ file' = [file EXCEPT ![e] = "invalid"]
  /\ replay' = [replay EXCEPT ![r].todo = @ \ {e}]
  /\ UNCHANGED <<rows, writer, delivery, old, lock, lookup>>

ReadFile(r, e) ==
  /\ Visits(r, e)
  /\ file[e] = "queued"
  /\ replay' = [replay EXCEPT ![r] =
       [pc |-> "insert", event |-> e, todo |-> @.todo \ {e}]]
  /\ UNCHANGED <<stores, writer, delivery, old, lock, lookup>>

(* A faulty variant: a failed insert is ignored. *)
DeliverRegardless(r) ==
  /\ replay[r].pc = "insert"
  /\ rows' \in {rows, rows \cup {replay[r].event}}
  /\ replay' = [replay EXCEPT ![r].pc = "unlink"]
  /\ UNCHANGED <<file, writer, delivery, old, lock, lookup>>

(* INSERT OR IGNORE: a row that is already there stays. *)
Deliver(r) ==
  /\ replay[r].pc = "insert"
  /\ rows' = rows \cup {replay[r].event}
  /\ replay' = [replay EXCEPT ![r].pc = "unlink"]
  /\ UNCHANGED <<file, writer, delivery, old, lock, lookup>>

Unlink(r) ==
  /\ replay[r].pc = "unlink"
  /\ file' = [file EXCEPT ![replay[r].event] = "absent"]
  /\ replay' = [replay EXCEPT ![r].pc = "scan", ![r].event = None]
  /\ UNCHANGED <<rows, writer, delivery, old, lock, lookup>>

(* The database or the directory fails: the rest stays queued. *)
ReplayFails(r) ==
  /\ replay[r].pc \in {"insert", "unlink"}
  /\ rows' \in IF replay[r].pc = "insert"
               THEN {rows, rows \cup {replay[r].event}} ELSE {rows}
  /\ Leaves(r)
  /\ UNCHANGED <<file, writer, delivery, old, lookup>>

EndReplay(r) ==
  /\ replay[r].pc = "scan"
  /\ replay[r].todo = {}
  /\ Leaves(r)
  /\ UNCHANGED <<stores, writer, delivery, old, lookup>>

----------------------------------------------------------------------------
(* ServerStore.get_audit_event: the database first, then the journal.      *)

LookupMoves(l, pc, result) ==
  lookup' = [lookup EXCEPT ![l].pc = pc, ![l].result = result]

(* known: the caller holds a receipt for e, "stored" or "queued".          *)
BeginLookup(l, e) ==
  /\ lookup[l].pc = "idle"
  /\ lookup' = [lookup EXCEPT ![l] =
       [pc |-> "database", event |-> e,
        result |-> IF delivery[e] \in {"stored", "queued"} THEN "known" ELSE "none"]]
  /\ UNCHANGED <<stores, writer, delivery, old, lock, replay>>

LookupDatabase(l) ==
  /\ lookup[l].pc = "database"
  /\ \/ lookup[l].event \in rows /\ LookupMoves(l, "answered", "stored")
     \/ lookup[l].event \notin rows /\ LookupMoves(l, "journal", lookup[l].result)
     \/ LookupMoves(l, "journal", "error")
  /\ UNCHANGED <<stores, writer, delivery, old, lock, replay>>

(* A damaged file is set aside here too.  No row and no file, or none that *)
(* can be opened: KeyError, the router answers 404 "Operation not found".  *)
LookupJournal(l) ==
  /\ lookup[l].pc = "journal"
  /\ lock = None
  /\ LET e == lookup[l].event
     IN  /\ \/ file[e] = "queued" /\ LookupMoves(l, "answered", "queued")
            \/ file[e] # "queued" /\ lookup[l].result # "error"
               /\ LookupMoves(l, "missing", lookup[l].result)
            \/ file[e] = "queued" /\ lookup[l].result # "error"
               /\ LookupMoves(l, "missing", "unreadable")
            \/ lookup[l].result = "error"
               /\ LookupMoves(l, "answered", "error")
         /\ file' = [file EXCEPT ![e] = IF @ = "damaged" THEN "invalid" ELSE @]
  /\ UNCHANGED <<rows, writer, delivery, old, lock, replay>>

EndLookup(l) ==
  /\ lookup[l].pc \in {"answered", "missing"}
  /\ lookup' = [lookup EXCEPT ![l] = LookupIdle]
  /\ UNCHANGED <<stores, writer, delivery, old, lock, replay>>

----------------------------------------------------------------------------
(* The environment, and the retention of purge_expired_audit.              *)

Ages(e) ==
  /\ writer[e] = "done"
  /\ old' = old \cup {e}
  /\ UNCHANGED <<stores, writer, delivery, lock, replay, lookup>>

PurgeExpiredAudit ==
  /\ rows' = rows \ old
  /\ UNCHANGED <<file, writer, delivery, old, lock, replay, lookup>>

(* A file of the journal is damaged from outside. *)
Damage(e) ==
  /\ file[e] = "queued"
  /\ file' = [file EXCEPT ![e] = "damaged"]
  /\ UNCHANGED <<rows, writer, delivery, old, lock, replay, lookup>>

(* The server process dies: its requests end without an answer. *)
Crash ==
  /\ writer' = [e \in Events |-> IF writer[e] = "idle" THEN "idle" ELSE "done"]
  /\ lock' = None
  /\ replay' = [r \in Replays |-> IF r \in Local THEN ReplayIdle ELSE replay[r]]
  /\ lookup' = [l \in Lookups |-> LookupIdle]
  /\ UNCHANGED <<stores, delivery, old>>

AddStep(e) == Insert(e) \/ InsertFails(e) \/ SaveFile(e) \/ SaveFails(e)

ReplayProceeds(r) ==
  \/ \E e \in Events : QuarantineFile(r, e) \/ ReadFile(r, e)
  \/ Deliver(r) \/ Unlink(r) \/ EndReplay(r)

ReplayStep(r) ==
  ReplayProceeds(r) \/ ReplayFails(r) \/ \E e \in Events : SkipFile(r, e)

LookupStep(l) == LookupDatabase(l) \/ LookupJournal(l) \/ EndLookup(l)

Next ==
  \/ \E e \in Events : Record(e) \/ AddStep(e) \/ Ages(e) \/ Damage(e)
  \/ \E r \in Replays : BeginReplay(r) \/ ReplayStep(r)
  \/ \E l \in Lookups : LookupStep(l) \/ \E e \in Events : BeginLookup(l, e)
  \/ PurgeExpiredAudit \/ Crash

Spec == Init /\ [][Next]_vars

(* The background task replays every ten seconds, and neither the database *)
(* nor the directory fails every time.                                     *)
FairSpec ==
  /\ Spec
  /\ \A r \in Local :
       /\ WF_vars(ReplayStep(r))
       /\ SF_vars(BeginReplay(r))
       /\ SF_vars(\E e \in Events : QuarantineFile(r, e) \/ ReadFile(r, e))
       /\ SF_vars(Deliver(r))
       /\ SF_vars(Unlink(r))

----------------------------------------------------------------------------
(* Every variable keeps its type. *)
TypeOK ==
  /\ rows \subseteq Events
  /\ file \in [Events -> FileState]
  /\ writer \in [Events -> {"idle", "inserting", "saving", "done"}]
  /\ delivery \in [Events -> Delivery]
  /\ old \subseteq Events
  /\ lock \in Local \cup {None}
  /\ replay \in [Replays -> [pc : {"idle", "scan", "insert", "unlink"},
                             todo : SUBSET Events, event : Events \cup {None}]]
  /\ lookup \in [Lookups ->
                   [pc : {"idle", "database", "journal", "answered", "missing"},
                    event : Events \cup {None},
                    result : {"none", "known", "stored", "queued", "error", "unreadable"}]]

(* An event that add_audit reported as stored or queued is never lost, by  *)
(* crashes, by failures in the middle of a replay or by two processes that *)
(* replay at once: until its retention is over it is in the database or in *)
(* a file.                                                                 *)
ReceiptKept ==
  \A e \in Events :
    delivery[e] \in {"stored", "queued"} /\ e \notin old
      => e \in rows \/ file[e] # "absent"

(* Every queued event reaches the database in the end, whatever lies in    *)
(* the journal beside it.                                                  *)
QueueDrains ==
  \A e \in Events : (file[e] = "queued") ~> (file[e] # "queued")

(* "Looks up the receipts of operations that are stored or waiting to be   *)
(* replayed" (docs, GET /api/admin/operations/{operation_id}): a lookup of *)
(* an event whose receipt was given out is not answered with "not found",  *)
(* unless the event is past its retention or its file cannot be read.      *)
ReceiptFound ==
  \A l \in Lookups :
    lookup[l].pc = "missing" /\ lookup[l].result = "known"
      => LET e == lookup[l].event IN e \in old \/ file[e] = "invalid"

=============================================================================
