--------------------------- MODULE CredentialFile ---------------------------
(***************************************************************************)
(* The credential on disk: FileCredentialStore with its key file, and the  *)
(* programs that share the directory (scripts of the SDK and the server,   *)
(* each a process of its own), which log in, load, refresh, open a client  *)
(* and delete.  A credential is a number in the order of issue, and so is  *)
(* a secret in the order of its making.  The encrypted file is replaced at *)
(* once; the key file is made in two steps, open (which empties it) and    *)
(* write, and nothing locks either.                                        *)
(***************************************************************************)
EXTENDS Naturals

CONSTANTS CfProcs,   \* processes
          MaxIssued, \* bound on the credentials issued
          MaxKeys    \* bound on the secrets made

ASSUME CredentialAssumption == MaxIssued \in Nat /\ MaxKeys \in Nat

VARIABLES cfEnv,     \* MIJIA_CREDENTIAL_SECRET is set
          cfKey,     \* .credential_key: missing, empty or a secret
          cfFile,    \* credential.json: its credential and the secret that seals it
          cfIssued,  \* credentials issued so far
          cfMade,    \* the secret made last
          cfExpired, \* credentials past expires_at
          cfRun,     \* the process
          cfSaved,   \* the file is what a save that returned left (history)
          cfClash    \* two processes were making the key at once (history)

cfVars == <<cfEnv, cfKey, cfFile, cfIssued, cfMade, cfExpired, cfRun, cfSaved, cfClash>>

NoKey == 0
EmptyKey == 1
EnvSecret == 2
OldKey == 3                        \* the secret of files from before
PlainText == 0                     \* a file of an older release is not sealed
Sealed(c, k) == [cred |-> c, key |-> k]
NoFile == Sealed(0, PlainText)

CfIdle == [pc |-> "idle", job |-> "load", cred |-> 0, key |-> NoKey, seen |-> NoFile]

(* Nothing yet, a plain file of an older release, a sealed one with its    *)
(* key, or one whose key file was not copied with it.                      *)
CfInit ==
  /\ cfEnv \in BOOLEAN
  /\ \/ cfKey = NoKey /\ cfFile \in {NoFile, Sealed(1, PlainText), Sealed(1, OldKey)}
     \/ cfKey = OldKey /\ cfFile = Sealed(1, OldKey)
  /\ cfIssued = 1 /\ cfMade = OldKey /\ cfExpired = {}
  /\ cfRun = [p \in CfProcs |-> CfIdle]
  /\ cfSaved = FALSE /\ cfClash = FALSE

-----------------------------------------------------------------------------
CfAt(p, pc) == cfRun[p].pc = pc
CfGoes(p, run) == cfRun' = [cfRun EXCEPT ![p] = run]
CfFiles == <<cfKey, cfFile, cfMade, cfSaved, cfClash>>
CfWorld == <<cfEnv, cfIssued, cfExpired>>

(* login_by_qrcode, then save_credential.                                  *)
CfLogsIn(p) ==
  /\ CfAt(p, "idle") /\ cfIssued < MaxIssued
  /\ cfIssued' = cfIssued + 1
  /\ CfGoes(p, [CfIdle EXCEPT !.pc = "ask", !.job = "save", !.cred = cfIssued + 1])
  /\ UNCHANGED <<cfEnv, cfExpired, CfFiles>>

(* load_credential, alone or followed by the refresh of an expired one,    *)
(* and create_api_client_from_file.                                        *)
CfOpens(p, job) ==
  /\ CfAt(p, "idle")
  /\ CfGoes(p, [CfIdle EXCEPT !.pc = "exists", !.job = job])
  /\ UNCHANGED <<CfFiles, CfWorld>>

CfFinds(p) ==
  /\ CfAt(p, "exists")
  /\ CfGoes(p, IF cfFile = NoFile THEN CfIdle ELSE [cfRun[p] EXCEPT !.pc = "read"])
  /\ UNCHANGED <<CfFiles, CfWorld>>

(* The file may have been deleted since: the load returns None.            *)
CfReads(p) ==
  /\ CfAt(p, "read")
  /\ CfGoes(p, IF cfFile = NoFile THEN CfIdle
               ELSE IF cfFile.key = PlainText
                 THEN [cfRun[p] EXCEPT !.pc = "loaded", !.cred = cfFile.cred]
                 ELSE [cfRun[p] EXCEPT !.pc = "ask", !.seen = cfFile])
  /\ UNCHANGED <<CfFiles, CfWorld>>

(* _resolve_secret, whose secret a save seals with and a load unseals with. *)
CfHolds(p, k) ==
  CfGoes(p, [cfRun[p] EXCEPT !.key = k, !.pc = IF cfRun[p].job = "save" THEN "replace" ELSE "unseal"])

CfMaking(p) == cfRun[p].pc \in {"make", "fill"}

(* A faulty variant: a secret of its own for every file. *)
CfAsksAfresh(p) ==
  /\ CfAt(p, "ask")
  /\ IF cfEnv THEN CfHolds(p, EnvSecret) ELSE CfGoes(p, [cfRun[p] EXCEPT !.pc = "make"])
  /\ cfClash' = (cfClash \/ (~cfEnv /\ \E q \in CfProcs : CfMaking(q)))
  /\ UNCHANGED <<cfKey, cfFile, cfMade, cfSaved, CfWorld>>

CfAsks(p) ==
  /\ CfAt(p, "ask")
  /\ IF cfEnv THEN CfHolds(p, EnvSecret)
     ELSE CfGoes(p, [cfRun[p] EXCEPT !.pc = IF cfKey = NoKey THEN "make" ELSE "take"])
  /\ cfClash' = (cfClash \/ (~cfEnv /\ cfKey = NoKey /\ \E q \in CfProcs : CfMaking(q)))
  /\ UNCHANGED <<cfKey, cfFile, cfMade, cfSaved, CfWorld>>

(* An empty key file is refused, by a load as by a save.                   *)
CfTakes(p) ==
  /\ CfAt(p, "take")
  /\ IF cfKey = EmptyKey THEN CfGoes(p, CfIdle) ELSE CfHolds(p, cfKey)
  /\ UNCHANGED <<CfFiles, CfWorld>>

CfMakes(p) ==
  /\ CfAt(p, "make") /\ cfMade < MaxKeys
  /\ cfMade' = cfMade + 1
  /\ cfKey' = EmptyKey
  /\ CfGoes(p, [cfRun[p] EXCEPT !.pc = "fill", !.key = cfMade + 1])
  /\ UNCHANGED <<cfFile, cfSaved, cfClash, CfWorld>>

CfFills(p) ==
  /\ CfAt(p, "fill")
  /\ cfKey' = cfRun[p].key
  /\ CfHolds(p, cfRun[p].key)
  /\ UNCHANGED <<cfFile, cfMade, cfSaved, cfClash, CfWorld>>

(* A temporary file is written, synced and renamed over the old one.       *)
CfReplaces(p) ==
  /\ CfAt(p, "replace")
  /\ cfFile' = Sealed(cfRun[p].cred, cfRun[p].key)
  /\ cfSaved' = TRUE
  /\ CfGoes(p, CfIdle)
  /\ UNCHANGED <<cfKey, cfMade, cfClash, CfWorld>>

(* AES-GCM verifies: another secret raises, and the load returns None.     *)
CfUnseals(p) ==
  /\ CfAt(p, "unseal")
  /\ CfGoes(p, IF cfRun[p].key = cfRun[p].seen.key
                 THEN [cfRun[p] EXCEPT !.pc = "loaded", !.cred = cfRun[p].seen.cred] ELSE CfIdle)
  /\ UNCHANGED <<CfFiles, CfWorld>>

(* A client is only made of a credential that has not expired; one that    *)
(* has is exchanged by a program that refreshes, and the new one saved.    *)
CfUses(p) ==
  /\ CfAt(p, "loaded")
  /\ ~(cfRun[p].job = "refresh" /\ cfRun[p].cred \in cfExpired)
  /\ CfGoes(p, CfIdle)
  /\ UNCHANGED <<CfFiles, CfWorld>>

CfRefreshes(p) ==
  /\ CfAt(p, "loaded") /\ cfRun[p].job = "refresh" /\ cfRun[p].cred \in cfExpired
  /\ cfIssued < MaxIssued
  /\ cfIssued' = cfIssued + 1
  /\ CfGoes(p, [CfIdle EXCEPT !.pc = "ask", !.job = "save", !.cred = cfIssued + 1])
  /\ UNCHANGED <<cfEnv, cfExpired, CfFiles>>

CfDeletes(p) ==
  /\ CfAt(p, "idle") /\ cfFile # NoFile
  /\ cfFile' = NoFile /\ cfSaved' = FALSE
  /\ UNCHANGED <<cfKey, cfMade, cfClash, cfRun, CfWorld>>

(* Any step may raise, and the process may be killed: a save has failed, a *)
(* load returned None, and the files stay as they are.                     *)
CfFails(p) ==
  /\ ~CfAt(p, "idle")
  /\ CfGoes(p, CfIdle)
  /\ UNCHANGED <<CfFiles, CfWorld>>

CfLapses ==
  /\ \E c \in 1 .. cfIssued : cfExpired' = cfExpired \cup {c}
  /\ UNCHANGED <<cfEnv, cfIssued, cfRun, CfFiles>>

CfStep(p) ==
  \/ CfLogsIn(p) \/ \E job \in {"load", "refresh", "client"} : CfOpens(p, job)
  \/ CfFinds(p) \/ CfReads(p) \/ CfAsks(p) \/ CfTakes(p) \/ CfMakes(p) \/ CfFills(p)
  \/ CfReplaces(p) \/ CfUnseals(p) \/ CfUses(p) \/ CfRefreshes(p)
  \/ CfDeletes(p) \/ CfFails(p)

CfNext == (\E p \in CfProcs : CfStep(p)) \/ CfLapses

CfSpec == CfInit /\ [][CfNext]_cfVars

-----------------------------------------------------------------------------
(* The secret that the next load will use.                                 *)
CfSecret == IF cfEnv THEN EnvSecret ELSE cfKey

(* A credential whose save returned can be loaded by every process, until  *)
(* it is deleted or replaced, whatever saves and loads fail or die half    *)
(* way -- unless two processes found no key file and were making it at the *)
(* same time, which nothing prevents: then the one may seal the file with  *)
(* a secret that the other has already written over.                       *)
SavedStaysReadable == cfSaved /\ ~cfClash => cfFile.key = CfSecret

=============================================================================
