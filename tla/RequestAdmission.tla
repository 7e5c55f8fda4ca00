-------------------------- MODULE RequestAdmission --------------------------
(***************************************************************************)
(* What every request passes before its handler: the middleware of         *)
(* server/app.py reads the runtime configuration through the cache of      *)
(* server/store.py and lets the request in by its network.  Two handlers   *)
(* change what it reads: the first-run setup, which creates the            *)
(* administrator and may open the private network in one transaction, and  *)
(* set_config.  Of the configuration one flag is kept, ALLOW_LAN_ACCESS    *)
(* (ALLOW_PUBLIC_ACCESS and the flags of the docs are read the same way).  *)
(***************************************************************************)
EXTENDS Naturals

CONSTANTS CfgRequests,      \* requests under way at a time
          NoRequest,        \* the lock is free
          BootstrapPrivate  \* MIJIA_BOOTSTRAP_ALLOW_PRIVATE

ASSUME AdmissionAssumption == NoRequest \notin CfgRequests /\ BootstrapPrivate \in BOOLEAN

VARIABLES cfgRow,      \* ALLOW_LAN_ACCESS in runtime_config
          cfgAdmins,   \* rows of admin_users
          cfgCache,    \* _config_map_cache
          cfgFresh,    \* _config_map_cache_at is within the TTL
          cfgLock,     \* who holds _config_map_lock
          cfgRequests,
          cfgSettled   \* history: the flag as the last change of this process left it,
                       \* once that change has returned and while none followed
cfgVars == <<cfgRow, cfgAdmins, cfgCache, cfgFresh, cfgLock, cfgRequests, cfgSettled>>

Flag == {"on", "off"}
CfgSources == {"loopback", "lan"}
CfgPaths == {"bootstrap", "config", "other"}
CfgPcs == {"idle", "look", "age", "wait", "load", "publish", "decide", "admitted", "insert", "forget"}
CfgRequest == [pc : CfgPcs, source : CfgSources, path : CfgPaths, read : Flag \cup {"none"},
               due : Flag \cup {"any"}]   \* cfgSettled when it began, "any" after a change
CfgAnswered == [pc |-> "idle", source |-> "loopback", path |-> "other", read |-> "none", due |-> "any"]

CfgInit == /\ cfgRow = "off" /\ cfgAdmins = 0
           /\ cfgCache = "none" /\ cfgFresh = FALSE /\ cfgLock = NoRequest
           /\ cfgRequests = [r \in CfgRequests |-> CfgAnswered]
           /\ cfgSettled = "any"

CfgAt(r, pc) == cfgRequests[r].pc = pc
CfgGoes(r, pc) == cfgRequests' = [cfgRequests EXCEPT ![r].pc = pc]
CfgAnswers(r) == cfgRequests' = [cfgRequests EXCEPT ![r] = CfgAnswered]
CfgHasRead(r, pc, flag) == cfgRequests' = [cfgRequests EXCEPT ![r] = [@ EXCEPT !.pc = pc, !.read = flag]]

RequestArrives(r, s, p) ==
  /\ CfgAt(r, "idle")
  /\ cfgRequests' = [cfgRequests EXCEPT ![r] =
       [pc |-> "look", source |-> s, path |-> p, read |-> "none", due |-> cfgSettled]]
  /\ UNCHANGED <<cfgRow, cfgAdmins, cfgCache, cfgFresh, cfgLock, cfgSettled>>

-----------------------------------------------------------------------------
(* get_config_map.  The map and its age are read without the lock, one after *)
(* the other.                                                                *)

ConfigLooked(r) ==
  /\ CfgAt(r, "look")
  /\ CfgHasRead(r, "age", cfgCache)
  /\ UNCHANGED <<cfgRow, cfgAdmins, cfgCache, cfgFresh, cfgLock, cfgSettled>>

ConfigAgeRead(r) ==
  /\ CfgAt(r, "age")
  /\ CfgGoes(r, IF cfgRequests[r].read # "none" /\ cfgFresh THEN "decide" ELSE "wait")
  /\ UNCHANGED <<cfgRow, cfgAdmins, cfgCache, cfgFresh, cfgLock, cfgSettled>>

ConfigLocked(r) ==
  /\ CfgAt(r, "wait") /\ cfgLock = NoRequest
  /\ IF cfgCache # "none" /\ cfgFresh
       THEN CfgHasRead(r, "decide", cfgCache) /\ UNCHANGED cfgLock
       ELSE CfgGoes(r, "load") /\ cfgLock' = r
  /\ UNCHANGED <<cfgRow, cfgAdmins, cfgCache, cfgFresh, cfgSettled>>

ConfigLoaded(r) ==
  /\ CfgAt(r, "load")
  /\ CfgHasRead(r, "publish", cfgRow)
  /\ UNCHANGED <<cfgRow, cfgAdmins, cfgCache, cfgFresh, cfgLock, cfgSettled>>

(* sqlite3.Error: the request is answered 503. *)
ConfigUnavailable(r) ==
  /\ CfgAt(r, "load")
  /\ CfgAnswers(r)
  /\ cfgLock' = NoRequest
  /\ UNCHANGED <<cfgRow, cfgAdmins, cfgCache, cfgFresh, cfgSettled>>

ConfigPublished(r) ==
  /\ CfgAt(r, "publish")
  /\ cfgCache' = cfgRequests[r].read /\ cfgFresh' = TRUE /\ cfgLock' = NoRequest
  /\ CfgGoes(r, "decide")
  /\ UNCHANGED <<cfgRow, cfgAdmins, cfgSettled>>

ConfigAges ==
  /\ cfgFresh /\ cfgFresh' = FALSE
  /\ UNCHANGED <<cfgRow, cfgAdmins, cfgCache, cfgLock, cfgRequests, cfgSettled>>

-----------------------------------------------------------------------------
(* The decision of the middleware, and the handlers *)

SetupAllowed(r) == BootstrapPrivate /\ cfgAdmins = 0 /\ cfgRequests[r].path = "bootstrap"
NetworkAllowed(r) == cfgRequests[r].source = "loopback" \/ cfgRequests[r].read = "on"

RequestDecided(r) ==
  /\ CfgAt(r, "decide")
  /\ IF NetworkAllowed(r) \/ SetupAllowed(r) THEN CfgGoes(r, "admitted") ELSE CfgAnswers(r)
  /\ UNCHANGED <<cfgRow, cfgAdmins, cfgCache, cfgFresh, cfgLock, cfgSettled>>

OtherHandled(r) ==
  /\ CfgAt(r, "admitted") /\ cfgRequests[r].path # "bootstrap"
  /\ CfgAnswers(r)
  /\ UNCHANGED <<cfgRow, cfgAdmins, cfgCache, cfgFresh, cfgLock, cfgSettled>>

BootstrapChecked(r) ==
  /\ CfgAt(r, "admitted") /\ cfgRequests[r].path = "bootstrap"
  /\ IF cfgAdmins = 0 /\ (cfgRequests[r].source = "loopback" \/ BootstrapPrivate)
       THEN CfgGoes(r, "insert") ELSE CfgAnswers(r)
  /\ UNCHANGED <<cfgRow, cfgAdmins, cfgCache, cfgFresh, cfgLock, cfgSettled>>

(* A commit of another value: nobody under way is owed the earlier one. *)
CfgCommits(flag, requests) ==
  /\ cfgRow' = flag /\ cfgSettled' = "any"
  /\ cfgRequests' = [q \in CfgRequests |-> [requests[q] EXCEPT !.due = "any"]]

(* A faulty variant: only the check before the hash counts. *)
BootstrapInsertedUnchecked(r) ==
  /\ CfgAt(r, "insert")
  /\ cfgAdmins' = cfgAdmins + 1
  /\ CfgAnswers(r)
  /\ UNCHANGED <<cfgRow, cfgCache, cfgFresh, cfgLock, cfgSettled>>

(* One transaction: the administrator is looked for again, inserted, and for *)
(* a private source the private network is opened.                           *)
BootstrapInserted(r) ==
  /\ CfgAt(r, "insert")
  /\ \/ /\ cfgAdmins > 0
        /\ CfgAnswers(r) /\ UNCHANGED <<cfgRow, cfgAdmins, cfgSettled>>
     \/ /\ cfgAdmins = 0 /\ cfgRequests[r].source = "loopback"
        /\ cfgAdmins' = cfgAdmins + 1
        /\ CfgAnswers(r) /\ UNCHANGED <<cfgRow, cfgSettled>>
     \/ /\ cfgAdmins = 0 /\ cfgRequests[r].source = "lan"
        /\ cfgAdmins' = cfgAdmins + 1
        /\ CfgCommits("on", [cfgRequests EXCEPT ![r].pc = "forget"])
  /\ UNCHANGED <<cfgCache, cfgFresh, cfgLock>>

ConfigSet(r, flag) ==
  /\ CfgAt(r, "admitted") /\ cfgRequests[r].path = "config" /\ cfgAdmins > 0
  /\ CfgCommits(flag, [cfgRequests EXCEPT ![r].pc = "forget"])
  /\ UNCHANGED <<cfgAdmins, cfgCache, cfgFresh, cfgLock>>

(* A faulty variant: the map is forgotten without the lock. *)
ConfigForgottenAtOnce(r) ==
  /\ CfgAt(r, "forget")
  /\ cfgCache' = "none" /\ cfgFresh' = FALSE /\ cfgSettled' = cfgRow
  /\ CfgAnswers(r)
  /\ UNCHANGED <<cfgRow, cfgAdmins, cfgLock>>

ConfigForgotten(r) ==
  /\ CfgAt(r, "forget") /\ cfgLock = NoRequest
  /\ cfgCache' = "none" /\ cfgFresh' = FALSE /\ cfgSettled' = cfgRow
  /\ CfgAnswers(r)
  /\ UNCHANGED <<cfgRow, cfgAdmins, cfgLock>>

(* The command line writes the same table from another process. *)
ConfigSetElsewhere(flag) ==
  /\ CfgCommits(flag, cfgRequests)
  /\ UNCHANGED <<cfgAdmins, cfgCache, cfgFresh, cfgLock>>

(* "init --admin" of the command line, with or without --allow-lan. *)
AdminCreatedElsewhere ==
  /\ cfgAdmins = 0 /\ cfgAdmins' = 1
  /\ \/ UNCHANGED <<cfgRow, cfgRequests, cfgSettled>>
     \/ CfgCommits("on", cfgRequests)
  /\ UNCHANGED <<cfgCache, cfgFresh, cfgLock>>

CfgNext ==
  \/ \E r \in CfgRequests :
       \/ \E s \in CfgSources, p \in CfgPaths : RequestArrives(r, s, p)
       \/ ConfigLooked(r) \/ ConfigAgeRead(r) \/ ConfigLocked(r) \/ ConfigLoaded(r)
       \/ ConfigUnavailable(r) \/ ConfigPublished(r) \/ RequestDecided(r) \/ OtherHandled(r)
       \/ BootstrapChecked(r) \/ BootstrapInserted(r) \/ ConfigForgotten(r)
       \/ \E flag \in Flag : ConfigSet(r, flag)
  \/ ConfigAges \/ AdminCreatedElsewhere
  \/ \E flag \in Flag : ConfigSetElsewhere(flag)

CfgSpec == CfgInit /\ [][CfgNext]_cfgVars

-----------------------------------------------------------------------------
CfgTypeOK == /\ cfgRow \in Flag /\ cfgAdmins \in Nat
             /\ cfgCache \in Flag \cup {"none"} /\ cfgFresh \in BOOLEAN
             /\ cfgLock \in CfgRequests \cup {NoRequest}
             /\ cfgRequests \in [CfgRequests -> CfgRequest]
             /\ cfgSettled \in Flag \cup {"any"}

(* Two browsers that run the first setup at once create one administrator.   *)
OneAdministrator == cfgAdmins <= 1

(* Once a change of the network policy has returned, every request that      *)
(* arrives is judged by it until the next change commits, although it is     *)
(* judged by a cached map: a closed network lets nobody in but the first     *)
(* setup, and the browser that ran the setup over the private network is not *)
(* locked out of the login (store_auth.py:62).                               *)
AdmissionFollowsLastChange ==
  [][\A r \in CfgRequests :
       LET q == cfgRequests[r] IN
       q.pc = "decide" /\ cfgRequests'[r].pc # "decide" /\ q.source = "lan" /\ q.due # "any"
         => (cfgRequests'[r].pc = "admitted" <=> q.due = "on" \/ SetupAllowed(r))]_cfgVars
=============================================================================
