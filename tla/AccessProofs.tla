---------------------------- MODULE AccessProofs ----------------------------
(***************************************************************************)
(* Proofs about what is decided under the configuration and the            *)
(* permissions: RequestAdmission for any number of requests under way,     *)
(* Registry for any homes, devices and row ids, PermissionPage for any     *)
(* rows.                                                                   *)
(***************************************************************************)
EXTENDS RequestAdmission, Registry, PermissionPage, TLAPS

-----------------------------------------------------------------------------
(* The configuration a request is judged by. *)

(* The one that reads the table for the map holds the lock.                *)
LoaderHoldsLock ==
  \A r \in CfgRequests : cfgRequests[r].pc \in {"load", "publish"} => cfgLock = r

(* While the last change has returned and none followed, the row is what it *)
(* left, and the map, cached or about to be published, is the row's.        *)
SettledIsCached ==
  cfgSettled # "any" =>
    /\ cfgSettled = cfgRow /\ cfgCache \in {"none", cfgRow}
    /\ \A r \in CfgRequests : cfgRequests[r].pc = "publish" => cfgRequests[r].read = cfgRow

(* A request that came in such a time, and saw no commit since, has read   *)
(* nothing but that row.                                                   *)
DueIsRead ==
  \A r \in CfgRequests :
    LET q == cfgRequests[r] IN
    q.due # "any" =>
      /\ q.due = cfgSettled
      /\ q.pc = "age" => q.read \in {"none", cfgRow}
      /\ q.pc = "decide" => q.read = cfgRow

CfgInv == CfgTypeOK /\ OneAdministrator /\ LoaderHoldsLock /\ SettledIsCached /\ DueIsRead

(* What a step may do to a request that is judged. *)
JudgedRightly ==
  \A r \in CfgRequests :
    LET q == cfgRequests[r] IN
    q.pc = "decide" /\ cfgRequests'[r].pc # "decide" /\ q.source = "lan" /\ q.due # "any"
      => (cfgRequests'[r].pc = "admitted" <=> q.due = "on" \/ SetupAllowed(r))

(* The invariant holds when the server starts. *)
LEMMA CfgInitInv == CfgInit => CfgInv
  <1> SUFFICES ASSUME CfgInit PROVE CfgInv
    OBVIOUS
  <1>0. CfgAnswered \in CfgRequest
    BY DEF CfgAnswered, CfgRequest, CfgPcs, CfgSources, CfgPaths, Flag
  <1>1. CfgTypeOK
    BY <1>0 DEF CfgInit, CfgTypeOK, Flag
  <1>2. OneAdministrator /\ LoaderHoldsLock /\ SettledIsCached /\ DueIsRead
    BY DEF CfgInit, OneAdministrator, LoaderHoldsLock, SettledIsCached, DueIsRead, CfgAnswered
  <1>3. QED
    BY <1>1, <1>2 DEF CfgInv

-----------------------------------------------------------------------------
(* A step of one request that leaves the configuration alone: its new      *)
(* record q has to keep to what the parts of the invariant say of it.      *)
LEMMA RequestMoves ==
  ASSUME CfgInv, NEW r \in CfgRequests, NEW q \in CfgRequest,
         cfgRequests' = [cfgRequests EXCEPT ![r] = q],
         cfgLock' \in CfgRequests \cup {NoRequest},
         q.pc \in {"load", "publish"} => cfgLock' = r,
         cfgLock' = cfgLock \/ cfgLock = NoRequest,
         cfgSettled # "any" /\ q.pc = "publish" => q.read = cfgRow,
         q.due # "any" => /\ q.due = cfgSettled
                          /\ q.pc = "age" => q.read \in {"none", cfgRow}
                          /\ q.pc = "decide" => q.read = cfgRow,
         cfgRequests[r].pc # "decide",
         UNCHANGED <<cfgRow, cfgAdmins, cfgCache, cfgFresh, cfgSettled>>
  PROVE  CfgInv' /\ JudgedRightly
  <1>1. cfgRequests \in [CfgRequests -> CfgRequest]
    BY DEF CfgInv, CfgTypeOK
  <1>2. cfgRequests'[r] = q /\ \A w \in CfgRequests \ {r} : cfgRequests'[w] = cfgRequests[w]
    BY <1>1
  <1>3. CfgTypeOK' /\ OneAdministrator'
    BY <1>1 DEF CfgInv, CfgTypeOK, OneAdministrator
  <1>4. LoaderHoldsLock'
    BY <1>2, AdmissionAssumption DEF CfgInv, LoaderHoldsLock
  <1>5. SettledIsCached'
    BY <1>2 DEF CfgInv, SettledIsCached
  <1>6. DueIsRead'
    BY <1>2 DEF CfgInv, DueIsRead
  <1>7. JudgedRightly
    BY <1>2 DEF JudgedRightly
  <1> QED
    BY <1>3, <1>4, <1>5, <1>6, <1>7 DEF CfgInv

(* The records a request may get are of their type. *)
LEMMA CfgRecords ==
  ASSUME CfgInv, NEW r \in CfgRequests
  PROVE  /\ cfgRequests[r] \in CfgRequest /\ cfgRequests \in [CfgRequests -> CfgRequest]
         /\ CfgAnswered \in CfgRequest /\ CfgAnswered.pc = "idle" /\ CfgAnswered.due = "any"
  <1>1. cfgRequests[r] \in CfgRequest /\ cfgRequests \in [CfgRequests -> CfgRequest]
    BY DEF CfgInv, CfgTypeOK
  <1>2. CfgAnswered \in CfgRequest /\ CfgAnswered.pc = "idle" /\ CfgAnswered.due = "any"
    BY DEF CfgAnswered, CfgRequest, CfgPcs, CfgSources, CfgPaths, Flag
  <1>3. QED
    BY <1>1, <1>2

(* A record stays one when its place moves. *)
LEMMA RecordGoes ==
  ASSUME NEW c \in CfgRequest, NEW pc \in CfgPcs
  PROVE  LET q == [c EXCEPT !.pc = pc] IN
         q \in CfgRequest /\ q.pc = pc /\ q.read = c.read /\ q.due = c.due
  BY DEF CfgRequest

(* Reading the map. *)
LEMMA ReadingInv ==
  ASSUME CfgInv, NEW r \in CfgRequests,
         \/ \E s \in CfgSources, p \in CfgPaths : RequestArrives(r, s, p)
         \/ ConfigLooked(r) \/ ConfigAgeRead(r) \/ ConfigLocked(r) \/ ConfigLoaded(r)
  PROVE  CfgInv' /\ JudgedRightly
  <1> DEFINE q0 == cfgRequests[r]
  <1>1. CfgTypeOK /\ LoaderHoldsLock /\ SettledIsCached /\ DueIsRead
    BY DEF CfgInv
  <1>0. /\ {"age", "wait", "load", "publish", "decide"} \subseteq CfgPcs
        /\ cfgCache \in Flag \cup {"none"} /\ cfgRow \in Flag \cup {"none"}
    BY <1>1 DEF CfgTypeOK, CfgPcs
  <1>2. /\ q0.due # "any" => /\ q0.due = cfgSettled
                             /\ q0.pc = "age" => q0.read \in {"none", cfgRow}
        /\ q0 \in CfgRequest
    BY <1>1, CfgRecords DEF DueIsRead
  <1>3. ASSUME NEW s \in CfgSources, NEW p \in CfgPaths, RequestArrives(r, s, p)
        PROVE  CfgInv' /\ JudgedRightly
    <2> DEFINE q == [pc |-> "look", source |-> s, path |-> p, read |-> "none", due |-> cfgSettled]
    <2>1. q \in CfgRequest
      BY <1>1 DEF CfgTypeOK, CfgRequest, CfgPcs
    <2>2. QED
      BY <1>1, <1>3, <2>1, RequestMoves DEF RequestArrives, CfgAt, CfgTypeOK
  <1>4. CASE ConfigLooked(r)
    <2> DEFINE q == [cfgRequests[r] EXCEPT !.pc = "age", !.read = cfgCache]
    <2>1. q \in CfgRequest /\ q.pc = "age" /\ q.read = cfgCache /\ q.due = q0.due
      BY <1>0, <1>2 DEF CfgRequest
    <2>2. cfgRequests' = [cfgRequests EXCEPT ![r] = q]
      BY <1>4 DEF ConfigLooked, CfgHasRead
    <2>3. q.due # "any" => q.due = cfgSettled /\ q.read \in {"none", cfgRow}
      BY <1>1, <1>2, <2>1 DEF SettledIsCached
    <2> HIDE DEF q
    <2>4. QED
      BY <1>1, <1>4, <2>1, <2>2, <2>3, RequestMoves DEF ConfigLooked, CfgAt, CfgTypeOK
  <1>5. CASE ConfigAgeRead(r)
    <2> DEFINE pc == IF q0.read # "none" /\ cfgFresh THEN "decide" ELSE "wait"
               q == [cfgRequests[r] EXCEPT !.pc = pc]
    <2>0. pc \in CfgPcs
      BY <1>0
    <2>1. q \in CfgRequest /\ q.pc = pc /\ q.read = q0.read /\ q.due = q0.due
      BY <1>2, <2>0, RecordGoes
    <2>2. cfgRequests' = [cfgRequests EXCEPT ![r] = q] /\ q0.pc = "age"
      BY <1>5 DEF ConfigAgeRead, CfgGoes, CfgAt
    <2>3. /\ pc \in {"decide", "wait"}
          /\ q.due # "any" => q.due = cfgSettled /\ (pc = "decide" => q.read = cfgRow)
      BY <1>2, <2>1, <2>2
    <2> HIDE DEF q, pc
    <2>4. QED
      BY <1>1, <1>5, <2>1, <2>2, <2>3, RequestMoves DEF ConfigAgeRead, CfgTypeOK
  <1>6. CASE ConfigLocked(r)
    <2>1. CASE cfgCache # "none" /\ cfgFresh
      <3> DEFINE q == [cfgRequests[r] EXCEPT !.pc = "decide", !.read = cfgCache]
      <3>1. q \in CfgRequest /\ q.pc = "decide" /\ q.read = cfgCache /\ q.due = q0.due
        BY <1>0, <1>2 DEF CfgRequest
      <3>2. cfgRequests' = [cfgRequests EXCEPT ![r] = q] /\ UNCHANGED cfgLock
        BY <1>6, <2>1 DEF ConfigLocked, CfgHasRead
      <3>3. q.due # "any" => q.due = cfgSettled /\ q.read = cfgRow
        BY <1>1, <1>2, <2>1, <3>1 DEF SettledIsCached
      <3> HIDE DEF q
      <3>4. QED
        BY <1>1, <1>6, <3>1, <3>2, <3>3, RequestMoves DEF ConfigLocked, CfgAt, CfgTypeOK
    <2>2. CASE ~(cfgCache # "none" /\ cfgFresh)
      <3> DEFINE q == [cfgRequests[r] EXCEPT !.pc = "load"]
      <3>1. q \in CfgRequest /\ q.pc = "load" /\ q.read = q0.read /\ q.due = q0.due
        BY CfgRecords, RecordGoes DEF CfgPcs
      <3>2. cfgRequests' = [cfgRequests EXCEPT ![r] = q] /\ cfgLock' = r
        BY <1>6, <2>2 DEF ConfigLocked, CfgGoes
      <3> HIDE DEF q
      <3>3. QED
        BY <1>2, <1>6, <3>1, <3>2, RequestMoves DEF ConfigLocked, CfgAt
    <2>3. QED
      BY <2>1, <2>2
  <1>7. CASE ConfigLoaded(r)
    <2> DEFINE q == [cfgRequests[r] EXCEPT !.pc = "publish", !.read = cfgRow]
    <2>1. q \in CfgRequest /\ q.pc = "publish" /\ q.read = cfgRow /\ q.due = q0.due
      BY <1>0, <1>2 DEF CfgRequest
    <2>2. cfgRequests' = [cfgRequests EXCEPT ![r] = q] /\ cfgLock = r
      BY <1>1, <1>7 DEF ConfigLoaded, CfgHasRead, CfgAt, LoaderHoldsLock
    <2> HIDE DEF q
    <2>3. QED
      BY <1>2, <1>7, <2>1, <2>2, RequestMoves DEF ConfigLoaded, CfgAt
  <1>8. QED
    BY <1>3, <1>4, <1>5, <1>6, <1>7

(* The steps that give the lock back. *)
LEMMA LoaderInv ==
  ASSUME CfgInv, NEW r \in CfgRequests, ConfigUnavailable(r) \/ ConfigPublished(r)
  PROVE  CfgInv' /\ JudgedRightly
  <1> DEFINE q0 == cfgRequests[r]
  <1>1. CfgTypeOK /\ OneAdministrator /\ LoaderHoldsLock /\ SettledIsCached /\ DueIsRead
    BY DEF CfgInv
  <1>2. cfgLock = r /\ q0.pc \in {"load", "publish"}
        /\ \A w \in CfgRequests \ {r} : cfgRequests[w].pc \notin {"load", "publish"}
    BY <1>1 DEF ConfigUnavailable, ConfigPublished, CfgAt, LoaderHoldsLock
  <1>3. PICK q \in CfgRequest :
          /\ cfgRequests' = [cfgRequests EXCEPT ![r] = q]
          /\ q.pc \in {"idle", "decide"}
          /\ q.due # "any" => q.due = cfgSettled /\ (q.pc = "decide" => q.read = cfgRow)
    <2>1. CASE ConfigUnavailable(r)
      BY <2>1, CfgRecords DEF ConfigUnavailable, CfgAnswers
    <2>2. CASE ConfigPublished(r)
      <3> DEFINE q == [cfgRequests[r] EXCEPT !.pc = "decide"]
      <3>1. q \in CfgRequest /\ q.pc = "decide" /\ q.read = q0.read /\ q.due = q0.due
        BY CfgRecords, RecordGoes DEF CfgPcs
      <3>2. cfgRequests' = [cfgRequests EXCEPT ![r] = q]
        BY <2>2 DEF ConfigPublished, CfgGoes
      <3>3. q.due # "any" => q.due = cfgSettled /\ q.read = cfgRow
        BY <1>1, <2>2, <3>1 DEF ConfigPublished, CfgAt, DueIsRead, SettledIsCached
      <3> HIDE DEF q
      <3>4. QED
        BY <3>1, <3>2, <3>3
    <2>3. QED
      BY <2>1, <2>2
  <1>4. cfgRequests'[r] = q /\ \A w \in CfgRequests \ {r} : cfgRequests'[w] = cfgRequests[w]
    BY <1>1, <1>3 DEF CfgTypeOK
  <1>5. cfgCache' \in {cfgCache, q0.read} /\ cfgFresh' \in BOOLEAN /\ cfgLock' = NoRequest
        /\ (cfgCache' # cfgCache => q0.pc = "publish" /\ cfgCache' = q0.read)
        /\ UNCHANGED <<cfgRow, cfgAdmins, cfgSettled>>
    <2>1. cfgFresh' \in BOOLEAN
      BY <1>1 DEF ConfigUnavailable, ConfigPublished, CfgTypeOK
    <2>2. QED
      BY <2>1 DEF ConfigUnavailable, ConfigPublished, CfgAt
  <1>6. CfgTypeOK' /\ OneAdministrator'
    <2>1. q0.read \in Flag \cup {"none"}
      BY CfgRecords DEF CfgRequest
    <2>2. cfgRequests' \in [CfgRequests -> CfgRequest]
      BY <1>1, <1>3 DEF CfgTypeOK
    <2>3. QED
      BY <1>1, <1>5, <2>1, <2>2 DEF CfgTypeOK, OneAdministrator
  <1>7. LoaderHoldsLock'
    BY <1>2, <1>3, <1>4 DEF LoaderHoldsLock
  <1>8. SettledIsCached'
    BY <1>1, <1>2, <1>3, <1>4, <1>5 DEF SettledIsCached
  <1>9. DueIsRead'
    BY <1>1, <1>3, <1>4, <1>5 DEF DueIsRead
  <1>10. JudgedRightly
    BY <1>2, <1>4 DEF JudgedRightly
  <1>11. QED
    BY <1>6, <1>7, <1>8, <1>9, <1>10 DEF CfgInv

(* The decision follows what the request has read. *)
LEMMA DecisionInv ==
  ASSUME CfgInv, NEW r \in CfgRequests, RequestDecided(r)
  PROVE  CfgInv' /\ JudgedRightly
  <1> DEFINE q0 == cfgRequests[r]
  <1>1. CfgTypeOK /\ OneAdministrator /\ LoaderHoldsLock /\ SettledIsCached /\ DueIsRead
    BY DEF CfgInv
  <1>2. PICK q \in CfgRequest :
          /\ cfgRequests' = [cfgRequests EXCEPT ![r] = q]
          /\ q.pc \in {"idle", "admitted"}
          /\ q.due # "any" => q.due = cfgSettled
          /\ q.pc = "admitted" <=> NetworkAllowed(r) \/ SetupAllowed(r)
    <2>1. CASE NetworkAllowed(r) \/ SetupAllowed(r)
      <3> DEFINE q == [cfgRequests[r] EXCEPT !.pc = "admitted"]
      <3>1. q \in CfgRequest /\ q.pc = "admitted" /\ q.due = q0.due
        BY CfgRecords, RecordGoes DEF CfgPcs
      <3>2. cfgRequests' = [cfgRequests EXCEPT ![r] = q]
        BY <2>1 DEF RequestDecided, CfgGoes
      <3>3. q.due # "any" => q.due = cfgSettled
        BY <1>1, <3>1 DEF DueIsRead
      <3> HIDE DEF q
      <3>4. QED
        BY <2>1, <3>1, <3>2, <3>3
    <2>2. CASE ~(NetworkAllowed(r) \/ SetupAllowed(r))
      BY <2>2, CfgRecords DEF RequestDecided, CfgAnswers
    <2>3. QED
      BY <2>1, <2>2
  <1>3. cfgRequests'[r] = q /\ \A w \in CfgRequests \ {r} : cfgRequests'[w] = cfgRequests[w]
    BY <1>1, <1>2 DEF CfgTypeOK
  <1>4. UNCHANGED <<cfgRow, cfgAdmins, cfgCache, cfgFresh, cfgLock, cfgSettled>> /\ q0.pc = "decide"
    BY DEF RequestDecided, CfgAt
  <1>5. CfgTypeOK' /\ OneAdministrator'
    BY <1>1, <1>2, <1>4 DEF CfgTypeOK, OneAdministrator
  <1>6. LoaderHoldsLock' /\ SettledIsCached' /\ DueIsRead'
    BY <1>1, <1>2, <1>3, <1>4 DEF LoaderHoldsLock, SettledIsCached, DueIsRead
  <1>7. JudgedRightly
    <2>1. q0.source = "lan" /\ q0.due # "any" => (NetworkAllowed(r) <=> q0.due = "on")
      BY <1>1, <1>4 DEF DueIsRead, SettledIsCached, NetworkAllowed
    <2>2. QED
      BY <1>2, <1>3, <2>1 DEF JudgedRightly
  <1>8. QED
    BY <1>5, <1>6, <1>7 DEF CfgInv

-----------------------------------------------------------------------------
(* The handlers that answer without a change. *)
LEMMA HandledInv ==
  ASSUME CfgInv, NEW r \in CfgRequests, OtherHandled(r) \/ BootstrapChecked(r)
  PROVE  CfgInv' /\ JudgedRightly
  <1>1. CfgTypeOK /\ DueIsRead
    BY DEF CfgInv
  <1>2. PICK q \in CfgRequest :
          /\ cfgRequests' = [cfgRequests EXCEPT ![r] = q]
          /\ q.pc \in {"idle", "insert"}
          /\ q.due # "any" => q.due = cfgSettled
    <2> DEFINE q1 == [cfgRequests[r] EXCEPT !.pc = "insert"]
    <2>1. q1 \in CfgRequest /\ q1.pc = "insert" /\ q1.due = cfgRequests[r].due
      BY CfgRecords, RecordGoes DEF CfgPcs
    <2>2. q1.due # "any" => q1.due = cfgSettled
      BY <1>1, <2>1 DEF DueIsRead
    <2>3. cfgRequests' \in {[cfgRequests EXCEPT ![r] = q1], [cfgRequests EXCEPT ![r] = CfgAnswered]}
      BY DEF OtherHandled, BootstrapChecked, CfgAnswers, CfgGoes
    <2> HIDE DEF q1
    <2>4. QED
      BY <2>1, <2>2, <2>3, CfgRecords
  <1>3. cfgRequests[r].pc = "admitted"
        /\ UNCHANGED <<cfgRow, cfgAdmins, cfgCache, cfgFresh, cfgLock, cfgSettled>>
    BY DEF OtherHandled, BootstrapChecked, CfgAt
  <1>4. QED
    BY <1>1, <1>2, <1>3, RequestMoves DEF CfgTypeOK

(* A commit: nobody is owed anything until it has returned.                *)
LEMMA CommitInv ==
  ASSUME CfgInv, NEW flag \in Flag, NEW calls \in [CfgRequests -> CfgRequest],
         \A w \in CfgRequests : /\ calls[w].pc \in {cfgRequests[w].pc, "forget"}
                                /\ cfgRequests[w].pc = "decide" => calls[w].pc = "decide",
         CfgCommits(flag, calls),
         cfgAdmins' \in {0, 1},
         UNCHANGED <<cfgCache, cfgFresh, cfgLock>>
  PROVE  CfgInv' /\ JudgedRightly
  <1>1. \A w \in CfgRequests : LET q == [calls[w] EXCEPT !.due = "any"] IN
          q \in CfgRequest /\ q.pc = calls[w].pc /\ q.due = "any"
    BY DEF CfgRequest
  <1>2. /\ cfgRequests' \in [CfgRequests -> CfgRequest]
        /\ \A w \in CfgRequests : cfgRequests'[w].pc = calls[w].pc /\ cfgRequests'[w].due = "any"
    BY <1>1 DEF CfgCommits
  <1>3. CfgTypeOK' /\ OneAdministrator'
    BY <1>2 DEF CfgInv, CfgTypeOK, OneAdministrator, CfgCommits
  <1>4. LoaderHoldsLock' /\ SettledIsCached' /\ DueIsRead'
    BY <1>2 DEF CfgInv, CfgCommits, LoaderHoldsLock, SettledIsCached, DueIsRead
  <1>5. JudgedRightly
    BY <1>2 DEF JudgedRightly
  <1>6. QED
    BY <1>3, <1>4, <1>5 DEF CfgInv

(* The steps that create the administrator or set the flag. *)
LEMMA ChangesInv ==
  ASSUME CfgInv,
         \/ \E r \in CfgRequests : BootstrapInserted(r) \/ \E flag \in Flag : ConfigSet(r, flag)
         \/ AdminCreatedElsewhere \/ \E flag \in Flag : ConfigSetElsewhere(flag)
  PROVE  CfgInv' /\ JudgedRightly
  <1>1. CfgTypeOK /\ OneAdministrator /\ DueIsRead /\ cfgAdmins \in {0, 1}
    BY DEF CfgInv, CfgTypeOK, OneAdministrator
  <1>2. ASSUME NEW r \in CfgRequests, NEW flag \in Flag, cfgRequests[r].pc # "decide",
               CfgCommits(flag, [cfgRequests EXCEPT ![r].pc = "forget"]),
               cfgAdmins' \in {0, 1}, UNCHANGED <<cfgCache, cfgFresh, cfgLock>>
        PROVE  CfgInv' /\ JudgedRightly
    <2> DEFINE q == [cfgRequests[r] EXCEPT !.pc = "forget"]
               calls == [cfgRequests EXCEPT ![r] = q]
    <2>1. q \in CfgRequest /\ q.pc = "forget"
      BY CfgRecords, RecordGoes DEF CfgPcs
    <2>2. CfgCommits(flag, calls)
      BY <1>2
    <2> HIDE DEF q
    <2>3. calls \in [CfgRequests -> CfgRequest]
          /\ \A w \in CfgRequests : /\ calls[w].pc \in {cfgRequests[w].pc, "forget"}
                                    /\ cfgRequests[w].pc = "decide" => calls[w].pc = "decide"
      BY <1>1, <1>2, <2>1 DEF CfgTypeOK
    <2> HIDE DEF calls
    <2>4. QED
      BY <1>2, <2>2, <2>3, CommitInv
  <1>3. ASSUME NEW r \in CfgRequests, NEW flag \in Flag, ConfigSet(r, flag)
        PROVE  CfgInv' /\ JudgedRightly
    BY <1>1, <1>2, <1>3 DEF ConfigSet, CfgAt
  <1>4. ASSUME NEW flag \in Flag, ConfigSetElsewhere(flag)
        PROVE  CfgInv' /\ JudgedRightly
    BY <1>1, <1>4, CommitInv DEF ConfigSetElsewhere, CfgTypeOK
  <1>5. ASSUME NEW r \in CfgRequests, BootstrapInserted(r)
        PROVE  CfgInv' /\ JudgedRightly
    <2>1. cfgRequests[r].pc = "insert"
      BY <1>5 DEF BootstrapInserted, CfgAt
    <2>2. CASE cfgRequests' = [cfgRequests EXCEPT ![r] = CfgAnswered]
               /\ UNCHANGED <<cfgRow, cfgSettled, cfgCache, cfgFresh, cfgLock>>
               /\ cfgAdmins' \in {0, 1}
      <3>1. CfgAnswered \in CfgRequest /\ CfgAnswered.pc = "idle" /\ CfgAnswered.due = "any"
        BY CfgRecords
      <3>2. cfgRequests'[r] = CfgAnswered
            /\ \A w \in CfgRequests \ {r} : cfgRequests'[w] = cfgRequests[w]
        BY <1>1, <2>2 DEF CfgTypeOK
      <3>3. CfgTypeOK' /\ OneAdministrator'
        BY <1>1, <2>2, <3>1 DEF CfgTypeOK, OneAdministrator
      <3>4. LoaderHoldsLock' /\ SettledIsCached' /\ DueIsRead'
        BY <2>2, <3>1, <3>2 DEF CfgInv, LoaderHoldsLock, SettledIsCached, DueIsRead
      <3>5. JudgedRightly
        BY <2>1, <3>2 DEF JudgedRightly
      <3>6. QED
        BY <3>3, <3>4, <3>5 DEF CfgInv
    <2>3. CASE CfgCommits("on", [cfgRequests EXCEPT ![r].pc = "forget"])
               /\ UNCHANGED <<cfgCache, cfgFresh, cfgLock>> /\ cfgAdmins' \in {0, 1}
      BY <1>2, <2>1, <2>3 DEF Flag
    <2>4. QED
      BY <1>1, <1>5, <2>2, <2>3 DEF BootstrapInserted, CfgAnswers
  <1>6. CASE AdminCreatedElsewhere
    <2>1. CASE UNCHANGED <<cfgRow, cfgRequests, cfgSettled>>
      BY <1>6, <2>1 DEF AdminCreatedElsewhere, CfgInv, CfgTypeOK, OneAdministrator, LoaderHoldsLock,
                        SettledIsCached, DueIsRead, JudgedRightly
    <2>2. CASE CfgCommits("on", cfgRequests)
      BY <1>1, <1>6, <2>2, CommitInv DEF AdminCreatedElsewhere, CfgTypeOK, Flag
    <2>3. QED
      BY <1>6, <2>1, <2>2 DEF AdminCreatedElsewhere
  <1>7. QED
    BY <1>3, <1>4, <1>5, <1>6

(* Forgetting the map, under the lock, settles the change. *)
LEMMA ForgottenInv ==
  ASSUME CfgInv, NEW r \in CfgRequests, ConfigForgotten(r)
  PROVE  CfgInv' /\ JudgedRightly
  <1>1. CfgTypeOK /\ OneAdministrator /\ LoaderHoldsLock /\ SettledIsCached /\ DueIsRead
    BY DEF CfgInv
  <1>2. CfgAnswered \in CfgRequest /\ CfgAnswered.pc = "idle" /\ CfgAnswered.due = "any"
    BY CfgRecords
  <1>3. cfgRequests'[r] = CfgAnswered
        /\ \A w \in CfgRequests \ {r} : cfgRequests'[w] = cfgRequests[w]
    BY <1>1 DEF ConfigForgotten, CfgAnswers, CfgTypeOK
  <1>4. CfgTypeOK' /\ OneAdministrator'
    BY <1>1, <1>2 DEF ConfigForgotten, CfgAnswers, CfgTypeOK, OneAdministrator
  <1>5. \A w \in CfgRequests : cfgRequests[w].pc \notin {"load", "publish"}
    BY <1>1, AdmissionAssumption DEF ConfigForgotten, LoaderHoldsLock
  <1>6. LoaderHoldsLock' /\ SettledIsCached'
    BY <1>2, <1>3, <1>5 DEF ConfigForgotten, LoaderHoldsLock, SettledIsCached
  <1>7. DueIsRead'
    BY <1>1, <1>2, <1>3 DEF ConfigForgotten, DueIsRead, SettledIsCached, CfgTypeOK, Flag
  <1>8. JudgedRightly
    BY <1>3 DEF ConfigForgotten, CfgAt, JudgedRightly
  <1>9. QED
    BY <1>4, <1>6, <1>7, <1>8 DEF CfgInv

-----------------------------------------------------------------------------
(* Every step keeps the invariant and judges by the last change.           *)
LEMMA CfgNextInv == CfgInv /\ [CfgNext]_cfgVars => CfgInv' /\ (CfgNext => JudgedRightly)
  <1> SUFFICES ASSUME CfgInv, [CfgNext]_cfgVars PROVE CfgInv' /\ (CfgNext => JudgedRightly)
    OBVIOUS
  <1>1. CASE ConfigAges
    <2>1. CfgInv' /\ JudgedRightly
      BY <1>1 DEF ConfigAges, CfgInv, CfgTypeOK, OneAdministrator, LoaderHoldsLock, SettledIsCached,
                  DueIsRead, JudgedRightly
    <2>2. QED
      BY <2>1
  <1>2. CASE CfgNext /\ ~ConfigAges
    BY <1>2, ReadingInv, LoaderInv, DecisionInv, HandledInv, ChangesInv, ForgottenInv DEF CfgNext
  <1>3. CASE UNCHANGED cfgVars
    <2>1. CfgInv' /\ JudgedRightly
      BY <1>3 DEF cfgVars, CfgInv, CfgTypeOK, OneAdministrator, LoaderHoldsLock, SettledIsCached,
                  DueIsRead, JudgedRightly
    <2>2. QED
      BY <2>1
  <1>4. QED
    BY <1>1, <1>2, <1>3

(* The invariant holds in every reachable state. *)
LEMMA AdmissionInvariant == CfgSpec => []CfgInv
  BY CfgInitInv, CfgNextInv, PTL DEF CfgSpec

(* The configuration, its cache and the requests stay of their types.      *)
THEOREM AdmissionTypeCorrect == CfgSpec => []CfgTypeOK
  BY AdmissionInvariant, PTL DEF CfgInv

(* However many setups run at once, one of them creates the administrator. *)
THEOREM OneAdministratorEver == CfgSpec => []OneAdministrator
  BY AdmissionInvariant, PTL DEF CfgInv

(* Every request that arrives after a change of the network policy has     *)
(* returned, and is judged before the next change commits, is judged by    *)
(* that change, whatever the cache held and whoever was loading it.        *)
THEOREM AdmissionIsCurrent == CfgSpec => AdmissionFollowsLastChange
  <1>1. CfgInv /\ [CfgNext]_cfgVars
          => [\A r \in CfgRequests :
                LET q == cfgRequests[r] IN
                q.pc = "decide" /\ cfgRequests'[r].pc # "decide" /\ q.source = "lan" /\ q.due # "any"
                  => (cfgRequests'[r].pc = "admitted" <=> q.due = "on" \/ SetupAllowed(r))]_cfgVars
    BY CfgNextInv DEF JudgedRightly
  <1>2. QED
    BY <1>1, AdmissionInvariant, PTL DEF CfgSpec, AdmissionFollowsLastChange

-----------------------------------------------------------------------------
(* The registry of homes and devices. *)

RegRows == [id : RowIds, home : Homes, mode : Modes]
RegSyncs == [pc : {"homes"}, homes : SUBSET Homes, todo : SUBSET Homes, done : SUBSET Homes,
             found : [Dids -> Homes \cup {Nowhere}]]

RegTypeOK ==
  /\ regCloud \in [Dids -> Homes \cup {Nowhere}] /\ regCloudHomes \in SUBSET Homes
  /\ regRow \in [Dids -> RegRows \cup {NoRow}]
  /\ regUsed \in SUBSET RowIds
  /\ regSync \in RegSyncs \cup {NoSync}
  /\ regList \in SUBSET (RowIds \X Dids)
  /\ regUpdate \in [id : RowIds, mode : Modes] \cup {NoUpdate}
  /\ regMeant \in SUBSET (RowIds \X Dids)

(* An id names one device, now and ever after. *)
Names(i, d) == i \in regUsed /\ \A e \in Dids : regRow[e] # NoRow /\ regRow[e].id = i => e = d
IdsName == /\ \A d \in Dids : regRow[d] # NoRow => Names(regRow[d].id, d)
           /\ \A p \in regList : Names(p[1], p[2])

(* A grant under way is meant for the device it will reach, if it is there. *)
UpdateIsMeant ==
  regUpdate # NoUpdate =>
    /\ regUpdate.id \in regUsed
    /\ regUpdate.mode = "write" =>
         \A e \in Dids : regRow[e] # NoRow /\ regRow[e].id = regUpdate.id => <<regUpdate.id, e>> \in regMeant

RegInv == RegTypeOK /\ IdsName /\ UpdateIsMeant /\ GrantsAreMeant

(* A device that is registered is not taken for one that is not. *)
LEMMA RowsDiffer == \A r \in RegRows : r # NoRow
  BY RegistryAssumption DEF RegRows, NoRow


(* A step after which each row is the one the device had, with its mode, or *)
(* a new one that nothing has been granted. *)
LEMMA RowsRenewed ==
  ASSUME RegInv, RegTypeOK', UNCHANGED <<regList, regUpdate, regMeant>>, regUsed \subseteq regUsed',
         NEW fresh, NEW new, \A d, e \in fresh : new[d] = new[e] => d = e, \A d \in fresh : new[d] \notin regUsed,
         \A d \in Dids : regRow'[d] # NoRow =>
            \/ regRow[d] # NoRow /\ regRow'[d].id = regRow[d].id /\ regRow'[d].mode = regRow[d].mode
            \/ d \in fresh /\ regRow'[d].id = new[d] /\ new[d] \in regUsed' /\ regRow'[d].mode = "read"
  PROVE  RegInv'
  BY DEF RegInv, IdsName, UpdateIsMeant, GrantsAreMeant, Names

(* A step that changes no row. *)
LEMMA RowsStay ==
  ASSUME RegInv, RegTypeOK', UNCHANGED <<regRow, regUsed, regList, regUpdate, regMeant>>
  PROVE  RegInv'
  BY DEF RegInv, IdsName, UpdateIsMeant, GrantsAreMeant, Names

(* What ModeSet leaves as it was, and what it grants. *)
LEMMA ModeSetKeeps ==
  ASSUME RegTypeOK, NEW I, NEW m \in Modes
  PROVE  /\ ModeSet(I, m) \in [Dids -> RegRows \cup {NoRow}]
         /\ \A d \in Dids : /\ ModeSet(I, m)[d] # NoRow <=> regRow[d] # NoRow
                            /\ regRow[d] # NoRow =>
                                 /\ ModeSet(I, m)[d].id = regRow[d].id
                                 /\ ModeSet(I, m)[d].mode = IF regRow[d].id \in I THEN m ELSE regRow[d].mode
  <1>1. \A r \in RegRows : /\ [r EXCEPT !.mode = m] \in RegRows
                           /\ [r EXCEPT !.mode = m].id = r.id /\ [r EXCEPT !.mode = m].mode = m
    BY DEF RegRows
  <1>2. QED
    BY <1>1, RowsDiffer DEF ModeSet, RegTypeOK

(* update_device grants or withdraws on the row it finds under the id, and  *)
(* only on rows of that id.                                                 *)
LEMMA ModesSet ==
  ASSUME RegInv, NEW I, NEW m \in Modes, regRow' = ModeSet(I, m),
         UNCHANGED <<regCloud, regCloudHomes, regUsed, regSync, regList>>,
         regUpdate' \in {regUpdate, NoUpdate},
         regMeant' \in SUBSET (RowIds \X Dids), regMeant \subseteq regMeant',
         m = "write" => \A e \in Dids : regRow[e] # NoRow /\ regRow[e].id \in I => <<regRow[e].id, e>> \in regMeant'
  PROVE  RegInv'
  <1>1. RegTypeOK'
    BY ModeSetKeeps DEF RegInv, RegTypeOK
  <1>2. \A d \in Dids : /\ regRow'[d] # NoRow <=> regRow[d] # NoRow
                        /\ regRow[d] # NoRow =>
                             /\ regRow'[d].id = regRow[d].id
                             /\ regRow'[d].mode = IF regRow[d].id \in I THEN m ELSE regRow[d].mode
    BY ModeSetKeeps DEF RegInv
  <1>3. IdsName' /\ UpdateIsMeant'
    BY <1>2 DEF RegInv, IdsName, UpdateIsMeant, Names
  <1>4. GrantsAreMeant'
    BY <1>2 DEF RegInv, GrantsAreMeant
  <1>5. QED
    BY <1>1, <1>3, <1>4 DEF RegInv

(* What a commit makes of the rows. *)
LEMMA CommitRenews ==
  ASSUME RegTypeOK, regSync # NoSync, NEW fresh, fresh = {d \in Found(regSync) : RowsOfListedHomes(regSync)[d] = NoRow},
         NEW new \in [fresh -> RowIds],
         regRow' = Pruned(regSync, Upserted(regSync, RowsOfListedHomes(regSync), new))
  PROVE  /\ regRow' \in [Dids -> RegRows \cup {NoRow}]
         /\ \A d \in Dids : regRow'[d] # NoRow =>
              \/ regRow[d] # NoRow /\ regRow'[d].id = regRow[d].id /\ regRow'[d].mode = regRow[d].mode
              \/ d \in fresh /\ regRow'[d].id = new[d] /\ regRow'[d].mode = "read"
         /\ \A d \in Dids : regRow[d] # NoRow /\ regRow[d].home \in regSync.homes
                            /\ (d \in Found(regSync) \/ regRow[d].home \notin regSync.done)
              => regRow'[d] # NoRow /\ regRow'[d].id = regRow[d].id /\ regRow'[d].mode = regRow[d].mode
  <1> DEFINE kept == RowsOfListedHomes(regSync)
             ups == Upserted(regSync, kept, new)
  <1>1. regSync.found \in [Dids -> Homes \cup {Nowhere}]
    BY DEF RegTypeOK, RegSyncs
  <1>2. kept \in [Dids -> RegRows \cup {NoRow}] /\ \A d \in Dids : kept[d] # NoRow => kept[d] = regRow[d]
    BY DEF RegTypeOK, RowsOfListedHomes
  <1>3. \A r \in RegRows, h \in Homes : /\ [r EXCEPT !.home = h] \in RegRows
                                        /\ [r EXCEPT !.home = h].id = r.id /\ [r EXCEPT !.home = h].mode = r.mode
    BY DEF RegRows
  <1>4. \A i \in RowIds, h \in Homes : [id |-> i, home |-> h, mode |-> "read"] \in RegRows
    BY DEF RegRows, Modes
  <1>5. ups = [d \in Dids |-> CASE d \notin Found(regSync) -> kept[d]
                    [] d \in Found(regSync) /\ kept[d] # NoRow -> [kept[d] EXCEPT !.home = regSync.found[d]]
                    [] OTHER -> [id |-> new[d], home |-> regSync.found[d], mode |-> "read"]]
    BY DEF Upserted
  <1>6. \A d \in Dids : d \in Found(regSync) => regSync.found[d] \in Homes
    BY <1>1 DEF Found
  <1>7. ASSUME NEW d \in Dids
        PROVE  /\ ups[d] \in RegRows \cup {NoRow}
               /\ kept[d] # NoRow => ups[d] # NoRow /\ ups[d].id = kept[d].id /\ ups[d].mode = kept[d].mode
               /\ kept[d] = NoRow => IF d \in fresh THEN ups[d].id = new[d] /\ ups[d].mode = "read"
                                                    ELSE ups[d] = NoRow
    <2>1. CASE d \notin Found(regSync)
      BY <1>2, <1>5, <2>1
    <2>2. CASE d \in Found(regSync) /\ kept[d] # NoRow
      <3>1. ups[d] = [kept[d] EXCEPT !.home = regSync.found[d]]
        BY <1>5, <2>2
      <3>2. QED
        BY <1>2, <1>3, <1>6, <2>2, <3>1, RowsDiffer
    <2>3. CASE d \in Found(regSync) /\ kept[d] = NoRow
      <3>1. ups[d] = [id |-> new[d], home |-> regSync.found[d], mode |-> "read"]
        BY <1>5, <2>3
      <3>2. d \in fresh
        BY <2>3
      <3>3. QED
        BY <1>4, <1>6, <2>3, <3>1, <3>2
    <2>4. QED
      BY <2>1, <2>2, <2>3
  <1>8. regRow' = [d \in Dids |-> IF ups[d] # NoRow /\ ups[d].home \in regSync.done /\ d \notin Found(regSync)
                                  THEN NoRow ELSE ups[d]]
    BY DEF Pruned
  <1>9. regRow' \in [Dids -> RegRows \cup {NoRow}]
    <2> HIDE DEF ups, kept
    <2>1. QED
      BY <1>7, <1>8
  <1>10. ASSUME NEW d \in Dids, regRow'[d] # NoRow
         PROVE  \/ regRow[d] # NoRow /\ regRow'[d].id = regRow[d].id /\ regRow'[d].mode = regRow[d].mode
                \/ d \in fresh /\ regRow'[d].id = new[d] /\ regRow'[d].mode = "read"
    <2> HIDE DEF ups, kept
    <2>1. QED
      BY <1>2, <1>7, <1>8, <1>10
  <1>11. ASSUME NEW d \in Dids, regRow[d] # NoRow, regRow[d].home \in regSync.homes,
                d \in Found(regSync) \/ regRow[d].home \notin regSync.done
         PROVE  regRow'[d] # NoRow /\ regRow'[d].id = regRow[d].id /\ regRow'[d].mode = regRow[d].mode
    <2>1. kept[d] = regRow[d]
      BY <1>11 DEF RowsOfListedHomes
    <2>2. d \notin Found(regSync) => ups[d] = kept[d]
      BY <1>5
    <2> HIDE DEF ups, kept
    <2>3. regRow'[d] = ups[d]
      BY <1>8, <1>11, <2>1, <2>2
    <2>4. QED
      BY <1>7, <1>11, <2>1, <2>3
  <1>12. QED
    BY <1>9, <1>10, <1>11

(* Every step of the synchronisations and of the administrator keeps ids    *)
(* naming their device and grants meant for it.                             *)
LEMMA RegistryStep ==
  ASSUME RegInv, [RegNext]_regVars
  PROVE  RegInv'
  <1>1. ASSUME NEW d \in Dids, NEW h \in Homes \cup {Nowhere}, DeviceMoves(d, h)
        PROVE  RegInv'
    BY <1>1, RowsStay DEF DeviceMoves, regLocal, RegInv, RegTypeOK
  <1>2. ASSUME NEW h \in Homes, HomeDissolved(h)
        PROVE  RegInv'
    BY <1>2, RowsStay DEF HomeDissolved, regLocal, RegInv, RegTypeOK
  <1>3. ASSUME NEW h \in Homes, DevicesFetched(h)
        PROVE  RegInv'
    <2>1. regSync \in RegSyncs
      BY <1>3 DEF DevicesFetched, RegInv, RegTypeOK
    <2>2. [d \in Dids |-> IF regCloud[d] = h THEN h ELSE regSync.found[d]] \in [Dids -> Homes \cup {Nowhere}]
      BY <2>1 DEF RegSyncs
    <2>3. regSync' \in RegSyncs
      BY <1>3, <2>1, <2>2 DEF DevicesFetched, RegSyncs
    <2>4. QED
      BY <1>3, <2>3, RowsStay DEF DevicesFetched, regLocal, RegInv, RegTypeOK
  <1>4. ASSUME NEW h \in Homes, FetchFailed(h)
        PROVE  RegInv'
    <2>1. regSync \in RegSyncs
      BY <1>4 DEF FetchFailed, RegInv, RegTypeOK
    <2>2. regSync' \in RegSyncs
      BY <1>4, <2>1 DEF FetchFailed, RegSyncs
    <2>3. QED
      BY <1>4, <2>2, RowsStay DEF FetchFailed, regLocal, RegInv, RegTypeOK
  <1>5. CASE HomesFetched
    <2>1. regSync' \in RegSyncs
      BY <1>5 DEF HomesFetched, RegSyncs, RegInv, RegTypeOK
    <2>2. QED
      BY <1>5, <2>1, RowsStay DEF HomesFetched, regLocal, RegInv, RegTypeOK
  <1>6. CASE SyncDropped
    BY <1>6, RowsStay DEF SyncDropped, regLocal, RegInv, RegTypeOK
  <1>7. CASE SnapshotCommitted
    <2> DEFINE fresh == {d \in Found(regSync) : RowsOfListedHomes(regSync)[d] = NoRow}
    <2>1. PICK new \in Injection(fresh, RowIds \ regUsed) :
            /\ regRow' = Pruned(regSync, Upserted(regSync, RowsOfListedHomes(regSync), new))
            /\ regUsed' = regUsed \cup Range(new)
      BY <1>7 DEF SnapshotCommitted
    <2>2. /\ new \in [fresh -> RowIds \ regUsed]
          /\ \A d, e \in fresh : new[d] = new[e] => d = e
          /\ \A d \in fresh : new[d] \in Range(new)
          /\ Range(new) \subseteq RowIds
      BY DEF Injection, IsInjective, Range
    <2>3. new \in [fresh -> RowIds] /\ regSync # NoSync /\ RegTypeOK
      BY <1>7, <2>2 DEF SnapshotCommitted, RegInv
    <2> HIDE DEF fresh
    <2>4. /\ regRow' \in [Dids -> RegRows \cup {NoRow}]
          /\ \A d \in Dids : regRow'[d] # NoRow =>
               \/ regRow[d] # NoRow /\ regRow'[d].id = regRow[d].id /\ regRow'[d].mode = regRow[d].mode
               \/ d \in fresh /\ regRow'[d].id = new[d] /\ regRow'[d].mode = "read"
      BY <2>1, <2>3, CommitRenews DEF fresh
    <2>5. RegTypeOK'
      BY <1>7, <2>1, <2>2, <2>3, <2>4 DEF SnapshotCommitted, RegTypeOK
    <2>6. /\ UNCHANGED <<regList, regUpdate, regMeant>> /\ regUsed \subseteq regUsed'
          /\ \A d \in fresh : new[d] \notin regUsed /\ new[d] \in regUsed'
      BY <1>7, <2>1, <2>2 DEF SnapshotCommitted
    <2>7. QED
      BY <2>2, <2>4, <2>5, <2>6, RowsRenewed
  <1>8. CASE RegistryCleared
    <2>1. \A d \in Dids : regRow'[d] = NoRow
      BY <1>8 DEF RegistryCleared
    <2>2. RegTypeOK'
      BY <1>8 DEF RegistryCleared, RegInv, RegTypeOK
    <2>3. QED
      BY <1>8, <2>1, <2>2 DEF RegistryCleared, RegInv, IdsName, UpdateIsMeant, GrantsAreMeant, Names
  <1>9. CASE DevicesListed
    <2>1. \A d \in Dids : regRow[d] # NoRow => regRow[d].id \in RowIds
      BY DEF RegInv, RegTypeOK, RegRows
    <2>2. RegTypeOK'
      BY <1>9, <2>1 DEF DevicesListed, RegInv, RegTypeOK
    <2>3. \A p \in regList' : Names(p[1], p[2])
      BY <1>9 DEF DevicesListed, RegInv, IdsName
    <2>4. QED
      BY <1>9, <2>2, <2>3 DEF DevicesListed, RegInv, IdsName, UpdateIsMeant, GrantsAreMeant, Names
  <1>10. CASE DeviceUpdated
    <2>1. /\ regUpdate \in [id : RowIds, mode : Modes]
          /\ regUpdate.mode \in Modes
      BY <1>10 DEF DeviceUpdated, RegInv, RegTypeOK
    <2>2. regUpdate.mode = "write" =>
            \A e \in Dids : regRow[e] # NoRow /\ regRow[e].id \in {regUpdate.id} => <<regRow[e].id, e>> \in regMeant
      BY <1>10 DEF DeviceUpdated, RegInv, UpdateIsMeant
    <2>3. QED
      BY <1>10, <2>1, <2>2, ModesSet DEF DeviceUpdated, RegInv, RegTypeOK
  <1>11. ASSUME NEW i \in RowIds, NEW m \in Modes, DeviceLookedUp(i, m)
         PROVE  RegInv'
    <2>1. PICK d \in Dids : <<i, d>> \in regList
      BY <1>11 DEF DeviceLookedUp
    <2>2. Names(i, d)
      BY <2>1 DEF RegInv, IdsName
    <2>3. /\ regMeant' \in SUBSET (RowIds \X Dids) /\ regMeant \subseteq regMeant'
          /\ m = "write" => <<i, d>> \in regMeant'
      BY <1>11, <2>1 DEF DeviceLookedUp, Meant, RegInv, RegTypeOK
    <2>4. RegTypeOK'
      BY <1>11, <2>3 DEF DeviceLookedUp, RegInv, RegTypeOK
    <2>5. UpdateIsMeant'
      BY <1>11, <2>2, <2>3 DEF DeviceLookedUp, UpdateIsMeant, Names
    <2>6. QED
      BY <1>11, <2>3, <2>4, <2>5 DEF DeviceLookedUp, RegInv, IdsName, GrantsAreMeant, Names
  <1>12. ASSUME NEW I \in SUBSET RowIds, NEW m \in Modes, AuthorizationSet(I, m)
         PROVE  RegInv'
    <2>1. regMeant' \in SUBSET (RowIds \X Dids) /\ regMeant \subseteq regMeant'
      BY <1>12 DEF AuthorizationSet, Meant, RegInv, RegTypeOK
    <2>2. ASSUME m = "write", NEW e \in Dids, regRow[e] # NoRow, regRow[e].id \in I
          PROVE  <<regRow[e].id, e>> \in regMeant'
      <3>1. PICK d \in Dids : <<regRow[e].id, d>> \in regList
        BY <1>12, <2>2 DEF AuthorizationSet
      <3>2. d = e
        BY <2>2, <3>1 DEF RegInv, IdsName, Names
      <3>3. QED
        BY <1>12, <2>2, <3>1, <3>2 DEF AuthorizationSet, Meant
    <2>3. QED
      BY <1>12, <2>1, <2>2, ModesSet DEF AuthorizationSet
  <1>13. CASE UNCHANGED regVars
    BY <1>13, RowsStay DEF regVars, RegInv, RegTypeOK
  <1>14. QED
    BY <1>1, <1>2, <1>3, <1>4, <1>5, <1>6, <1>7, <1>8, <1>9, <1>10, <1>11, <1>12, <1>13 DEF RegNext

(* The registry keeps its invariant, for any homes, devices and row ids. *)
LEMMA RegistryInvariant == RegSpec => []RegInv
  <1>1. RegInit => RegInv
    BY DEF RegInit, RegInv, RegTypeOK, IdsName, UpdateIsMeant, GrantsAreMeant
  <1>2. QED
    BY <1>1, RegistryStep, PTL DEF RegSpec

(* store_registry.update_device never writes a permission to another device *)
(* than the one the administrator saw, whatever replace_devices did in      *)
(* between.                                                                 *)
THEOREM GrantsStayMeant == RegSpec => []GrantsAreMeant
  <1>1. RegInv => GrantsAreMeant
    BY DEF RegInv
  <1>2. QED
    BY <1>1, RegistryInvariant, PTL

(* A synchronisation never changes the access mode of a device that is still *)
(* there (replace_devices keeps what the administrator decided).            *)
THEOREM DecisionsOutliveSyncs == RegSpec => SyncKeepsDecisions
  <1> DEFINE Keeps ==
       \A d \in Dids :
       /\ regSync # NoSync /\ regSync.todo = {} /\ regHomes' = regSync.homes /\ regHomes' # {}
       /\ regRow[d] # NoRow /\ regRow[d].home \in regSync.homes
       /\ d \in Found(regSync) \/ regRow[d].home \notin regSync.done
       => regRow'[d] # NoRow /\ regRow'[d].id = regRow[d].id /\ regRow'[d].mode = regRow[d].mode
  <1>1. ASSUME RegInv, [RegNext]_regVars, ~UNCHANGED <<regHomes, regSync>>
        PROVE  Keeps
    <2> SUFFICES ASSUME NEW d \in Dids, regSync # NoSync, regSync.todo = {}, regHomes' = regSync.homes,
                        regHomes' # {}, regRow[d] # NoRow, regRow[d].home \in regSync.homes,
                        d \in Found(regSync) \/ regRow[d].home \notin regSync.done
                 PROVE  regRow'[d] # NoRow /\ regRow'[d].id = regRow[d].id /\ regRow'[d].mode = regRow[d].mode
      OBVIOUS
    <2>1. CASE SnapshotCommitted
      <3> DEFINE fresh == {e \in Found(regSync) : RowsOfListedHomes(regSync)[e] = NoRow}
      <3>1. PICK new \in Injection(fresh, RowIds \ regUsed) :
              regRow' = Pruned(regSync, Upserted(regSync, RowsOfListedHomes(regSync), new))
        BY <2>1 DEF SnapshotCommitted
      <3>2. new \in [fresh -> RowIds] /\ RegTypeOK
        BY <1>1 DEF Injection, RegInv
      <3> HIDE DEF fresh
      <3>3. QED
        BY <3>1, <3>2, CommitRenews DEF fresh
    <2>2. CASE UNCHANGED regRow
      BY <2>2
    <2>3. QED
      BY <1>1, <2>1, <2>2
      DEF RegNext, regVars, regLocal, DeviceMoves, HomeDissolved, DevicesFetched, FetchFailed, HomesFetched,
          SyncDropped, RegistryCleared, DevicesListed, DeviceUpdated, DeviceLookedUp, AuthorizationSet
  <1>2. QED
    BY <1>1, RegistryInvariant, PTL DEF RegSpec, SyncKeepsDecisions

-----------------------------------------------------------------------------
(* The page that shows and saves the permissions. *)

SavePcs == {"none", "sent", "stored", "refused", "audit"}
SaveRecords == [pc : SavePcs, mode : AccessModes, switched : BOOLEAN, listed : BOOLEAN, sure : BOOLEAN]
LoadRecords == [pc : {"none", "sent", "read"}, got : [Rows -> AccessModes], clean : SUBSET Rows]
PpTypeOK ==
  /\ ppServer \in [Rows -> AccessModes]
  /\ ppShown \in [Rows -> AccessModes]
  /\ ppSave \in [Rows -> SaveRecords]
  /\ ppBulk \in [pc : SavePcs \cup {"confirm"}, mode : AccessModes, sure : BOOLEAN]
  /\ ppLoads \in [Loads -> LoadRecords]
  /\ ppDoubt \in SUBSET Rows

(* A batch has the rows for itself. *)
BulkIsAlone == ppBulk.pc # "none" => \A r \in Rows : ppSave[r].pc = "none"

(* What a load may vouch for is as it read it. *)
CleanIsCurrent ==
  \A l \in Loads : ppLoads[l].pc = "read" =>
    \A r \in ppLoads[l].clean : ppLoads[l].got[r] = ppServer[r]

(* What the answer of a save will find. *)
SaveKnows(r) ==
  /\ ppSave[r].pc \in Asking /\ r \notin ppDoubt
       => IF ppSave[r].listed THEN ppSave[r].sure = TRUE ELSE ppShown[r] = ppServer[r]
  /\ ppSave[r].pc = "stored" /\ ppSave[r].sure = TRUE => ppServer[r] = ppSave[r].mode
  /\ ppSave[r].pc \in {"sent", "refused"} /\ ppSave[r].listed = TRUE /\ r \notin ppDoubt
       => IF ppSave[r].switched THEN ppServer[r] = Other(ppSave[r].mode) ELSE ppShown[r] = ppServer[r]

(* What the answer of the batch will find. *)
BulkKnows(r) ==
  /\ ppBulk.pc = "stored" /\ ppBulk.sure = TRUE => ppServer[r] = ppBulk.mode
  /\ ppBulk.pc \in {"sent", "refused"} /\ r \notin ppDoubt => ppShown[r] = ppServer[r]

PpInv ==
  /\ PpTypeOK
  /\ BulkIsAlone
  /\ CleanIsCurrent
  /\ \A r \in Rows : SaveKnows(r)
  /\ \A r \in Rows : BulkKnows(r)
  /\ RowsTellTheServer

(* The records stay records. *)
LEMMA SaveGoes == \A s \in SaveRecords, pc \in SavePcs : [s EXCEPT !.pc = pc] \in SaveRecords
  BY DEF SaveRecords

(* A save the page has forgotten is still a save. *)
LEMMA SaveUnlisted == \A s \in SaveRecords : [s EXCEPT !.listed = FALSE] \in SaveRecords
  BY DEF SaveRecords

(* A save whose outcome the page cannot know is still a save. *)
LEMMA SaveUnsure == \A s \in SaveRecords : [s EXCEPT !.sure = FALSE] \in SaveRecords
  BY DEF SaveRecords

(* A load that is out of date is still a load, which vouches for fewer rows. *)
LEMMA LoadOutdated == \A l \in LoadRecords, R \in SUBSET Rows : [l EXCEPT !.clean = @ \ R] \in LoadRecords
  BY DEF LoadRecords

(* Every load, save, batch, answer and loss keeps what the page can vouch   *)
(* for.                                                                     *)
LEMMA PermissionStep ==
  ASSUME PpInv, [PpNext]_ppVars
  PROVE  PpInv'
  <1> USE DEF PpInv, SavePcs, SaveRecords, LoadRecords, AccessModes, Asking
  <1>1. ASSUME NEW r \in Rows, PermissionSwitched(r) PROVE PpInv'
    <2> USE <1>1 DEF PermissionSwitched, SaveStarts, Other
    <2>1. PpTypeOK'
      BY DEF PpTypeOK
    <2>2. BulkIsAlone'
      BY DEF PpTypeOK, BulkIsAlone
    <2>3. CleanIsCurrent'
      BY DEF PpTypeOK, CleanIsCurrent
    <2>4. ASSUME NEW q \in Rows PROVE SaveKnows(q)'
      BY DEF PpTypeOK, SaveKnows, BulkIsAlone, CleanIsCurrent, InFlight, RowsTellTheServer
    <2>5. ASSUME NEW q \in Rows PROVE BulkKnows(q)'
      BY DEF PpTypeOK, BulkKnows, BulkIsAlone, CleanIsCurrent, InFlight, RowsTellTheServer
    <2>6. RowsTellTheServer'
      BY DEF PpTypeOK, RowsTellTheServer, InFlight, SaveKnows, BulkKnows, BulkIsAlone, CleanIsCurrent
    <2>7. QED
      BY <2>1, <2>2, <2>3, <2>4, <2>5, <2>6
  <1>2. ASSUME NEW r \in Rows, RowSaved(r) PROVE PpInv'
    <2> USE <1>2 DEF RowSaved, SaveStarts
    <2>1. PpTypeOK'
      BY DEF PpTypeOK
    <2>2. BulkIsAlone'
      BY DEF PpTypeOK, BulkIsAlone
    <2>3. CleanIsCurrent'
      BY DEF PpTypeOK, CleanIsCurrent
    <2>4. ASSUME NEW q \in Rows PROVE SaveKnows(q)'
      BY DEF PpTypeOK, SaveKnows, BulkIsAlone, CleanIsCurrent, InFlight, RowsTellTheServer
    <2>5. ASSUME NEW q \in Rows PROVE BulkKnows(q)'
      BY DEF PpTypeOK, BulkKnows, BulkIsAlone, CleanIsCurrent, InFlight, RowsTellTheServer
    <2>6. RowsTellTheServer'
      BY DEF PpTypeOK, RowsTellTheServer, InFlight, SaveKnows, BulkKnows, BulkIsAlone, CleanIsCurrent
    <2>7. QED
      BY <2>1, <2>2, <2>3, <2>4, <2>5, <2>6
  <1>3. ASSUME NEW r \in Rows, SaveStored(r) PROVE PpInv'
    <2> USE <1>3 DEF SaveStored, Outdated
    <2>1. PpTypeOK'
      <3>1. [ppSave[r] EXCEPT !.pc = "stored"] \in SaveRecords
        <4> HIDE DEF SaveRecords
        <4>1. ppSave[r] \in SaveRecords /\ "stored" \in SavePcs
          BY DEF PpTypeOK
        <4>2. QED
          BY <4>1, SaveGoes
      <3>2. ppLoads' \in [Loads -> LoadRecords]
        <4> HIDE DEF LoadRecords
        <4>1. QED
          BY LoadOutdated DEF PpTypeOK
      <3>3. QED
        BY <3>1, <3>2 DEF PpTypeOK
    <2>2. BulkIsAlone'
      BY DEF PpTypeOK, BulkIsAlone
    <2>3. CleanIsCurrent'
      <3>1. \A l \in Loads : /\ ppLoads'[l].pc = ppLoads[l].pc /\ ppLoads'[l].got = ppLoads[l].got
                             /\ ppLoads'[l].clean = ppLoads[l].clean \ {r}
        BY DEF PpTypeOK
      <3>2. \A q \in Rows \ {r} : ppServer'[q] = ppServer[q]
        BY DEF PpTypeOK
      <3>3. \A l \in Loads : ppLoads[l].clean \subseteq Rows
        BY DEF PpTypeOK
      <3>4. QED
        BY <3>1, <3>2, <3>3 DEF CleanIsCurrent
    <2>4. ASSUME NEW q \in Rows PROVE SaveKnows(q)'
      BY DEF PpTypeOK, SaveKnows, BulkIsAlone, CleanIsCurrent, InFlight, RowsTellTheServer
    <2>5. ASSUME NEW q \in Rows PROVE BulkKnows(q)'
      BY DEF PpTypeOK, BulkKnows, BulkIsAlone, CleanIsCurrent, InFlight, RowsTellTheServer
    <2>6. RowsTellTheServer'
      BY DEF PpTypeOK, RowsTellTheServer, InFlight, SaveKnows, BulkKnows, BulkIsAlone, CleanIsCurrent
    <2>7. QED
      BY <2>1, <2>2, <2>3, <2>4, <2>5, <2>6
  <1>4. ASSUME NEW r \in Rows, SaveRefused(r) PROVE PpInv'
    <2> USE <1>4 DEF SaveRefused
    <2>1. PpTypeOK'
      <3>1. [ppSave[r] EXCEPT !.pc = "refused"] \in SaveRecords
        <4> HIDE DEF SaveRecords
        <4>1. ppSave[r] \in SaveRecords /\ "refused" \in SavePcs
          BY DEF PpTypeOK
        <4>2. QED
          BY <4>1, SaveGoes
      <3>2. QED
        BY <3>1 DEF PpTypeOK
    <2>2. BulkIsAlone'
      BY DEF PpTypeOK, BulkIsAlone
    <2>3. CleanIsCurrent'
      BY DEF PpTypeOK, CleanIsCurrent, InFlight
    <2>4. ASSUME NEW q \in Rows PROVE SaveKnows(q)'
      BY DEF PpTypeOK, SaveKnows, BulkIsAlone, CleanIsCurrent, InFlight, RowsTellTheServer
    <2>5. ASSUME NEW q \in Rows PROVE BulkKnows(q)'
      BY DEF PpTypeOK, BulkKnows, BulkIsAlone, CleanIsCurrent, InFlight, RowsTellTheServer
    <2>6. RowsTellTheServer'
      BY DEF PpTypeOK, RowsTellTheServer, InFlight, SaveKnows, BulkKnows, BulkIsAlone, CleanIsCurrent
    <2>7. QED
      BY <2>1, <2>2, <2>3, <2>4, <2>5, <2>6
  <1>5. ASSUME NEW r \in Rows, SaveReturns(r) PROVE PpInv'
    <2> USE <1>5 DEF SaveReturns, ShownInRow, NoSave
    <2>1. PpTypeOK'
      BY DEF PpTypeOK
    <2>2. BulkIsAlone'
      BY DEF PpTypeOK, BulkIsAlone
    <2>3. CleanIsCurrent'
      BY DEF PpTypeOK, CleanIsCurrent, InFlight
    <2>4. ASSUME NEW q \in Rows PROVE SaveKnows(q)'
      BY DEF PpTypeOK, SaveKnows, BulkIsAlone, CleanIsCurrent, InFlight, RowsTellTheServer
    <2>5. ASSUME NEW q \in Rows PROVE BulkKnows(q)'
      BY DEF PpTypeOK, BulkKnows, BulkIsAlone, CleanIsCurrent, InFlight, RowsTellTheServer
    <2>6. RowsTellTheServer'
      BY DEF PpTypeOK, RowsTellTheServer, InFlight, SaveKnows, BulkKnows, BulkIsAlone, CleanIsCurrent
    <2>7. QED
      BY <2>1, <2>2, <2>3, <2>4, <2>5, <2>6
  <1>6. ASSUME NEW r \in Rows, SaveEnds(r) PROVE PpInv'
    <2> USE <1>6 DEF SaveEnds, NoSave
    <2>1. PpTypeOK'
      BY DEF PpTypeOK
    <2>2. BulkIsAlone'
      BY DEF PpTypeOK, BulkIsAlone
    <2>3. CleanIsCurrent'
      BY DEF PpTypeOK, CleanIsCurrent, InFlight
    <2>4. ASSUME NEW q \in Rows PROVE SaveKnows(q)'
      BY DEF PpTypeOK, SaveKnows, BulkIsAlone, CleanIsCurrent, InFlight, RowsTellTheServer
    <2>5. ASSUME NEW q \in Rows PROVE BulkKnows(q)'
      BY DEF PpTypeOK, BulkKnows, BulkIsAlone, CleanIsCurrent, InFlight, RowsTellTheServer
    <2>6. RowsTellTheServer'
      BY DEF PpTypeOK, RowsTellTheServer, InFlight, SaveKnows, BulkKnows, BulkIsAlone, CleanIsCurrent
    <2>7. QED
      BY <2>1, <2>2, <2>3, <2>4, <2>5, <2>6
  <1>7. ASSUME NEW r \in Rows, SaveFails(r) PROVE PpInv'
    <2> USE <1>7 DEF SaveFails, SwitchedBack, ShownInRow, NoSave, Other
    <2>1. PpTypeOK'
      BY DEF PpTypeOK
    <2>2. BulkIsAlone'
      BY DEF PpTypeOK, BulkIsAlone
    <2>3. CleanIsCurrent'
      BY DEF PpTypeOK, CleanIsCurrent, InFlight
    <2>4. ASSUME NEW q \in Rows PROVE SaveKnows(q)'
      BY DEF PpTypeOK, SaveKnows, BulkIsAlone, CleanIsCurrent, InFlight, RowsTellTheServer
    <2>5. ASSUME NEW q \in Rows PROVE BulkKnows(q)'
      BY DEF PpTypeOK, BulkKnows, BulkIsAlone, CleanIsCurrent, InFlight, RowsTellTheServer
    <2>6. RowsTellTheServer'
      BY DEF PpTypeOK, RowsTellTheServer, InFlight, SaveKnows, BulkKnows, BulkIsAlone, CleanIsCurrent
    <2>7. QED
      BY <2>1, <2>2, <2>3, <2>4, <2>5, <2>6
  <1>8. ASSUME NEW r \in Rows, SaveLost(r) PROVE PpInv'
    <2> USE <1>8 DEF SaveLost, SwitchedBack, ShownInRow, NoSave, Other
    <2>1. PpTypeOK'
      BY DEF PpTypeOK
    <2>2. BulkIsAlone'
      BY DEF PpTypeOK, BulkIsAlone
    <2>3. CleanIsCurrent'
      BY DEF PpTypeOK, CleanIsCurrent, InFlight
    <2>4. ASSUME NEW q \in Rows PROVE SaveKnows(q)'
      BY DEF PpTypeOK, SaveKnows, BulkIsAlone, CleanIsCurrent, InFlight, RowsTellTheServer
    <2>5. ASSUME NEW q \in Rows PROVE BulkKnows(q)'
      BY DEF PpTypeOK, BulkKnows, BulkIsAlone, CleanIsCurrent, InFlight, RowsTellTheServer
    <2>6. RowsTellTheServer'
      BY DEF PpTypeOK, RowsTellTheServer, InFlight, SaveKnows, BulkKnows, BulkIsAlone, CleanIsCurrent
    <2>7. QED
      BY <2>1, <2>2, <2>3, <2>4, <2>5, <2>6
  <1>9. ASSUME NEW m \in AccessModes, BulkAsked(m) PROVE PpInv'
    <2> USE <1>9 DEF BulkAsked
    <2>1. PpTypeOK'
      BY DEF PpTypeOK
    <2>2. BulkIsAlone'
      BY DEF PpTypeOK, BulkIsAlone
    <2>3. CleanIsCurrent'
      BY DEF PpTypeOK, CleanIsCurrent, InFlight
    <2>4. ASSUME NEW q \in Rows PROVE SaveKnows(q)'
      BY DEF PpTypeOK, SaveKnows, BulkIsAlone, CleanIsCurrent, InFlight, RowsTellTheServer
    <2>5. ASSUME NEW q \in Rows PROVE BulkKnows(q)'
      BY DEF PpTypeOK, BulkKnows, BulkIsAlone, CleanIsCurrent, InFlight, RowsTellTheServer
    <2>6. RowsTellTheServer'
      BY DEF PpTypeOK, RowsTellTheServer, InFlight, SaveKnows, BulkKnows, BulkIsAlone, CleanIsCurrent
    <2>7. QED
      BY <2>1, <2>2, <2>3, <2>4, <2>5, <2>6
  <1>10. CASE BulkCanceled
    <2> USE <1>10 DEF BulkCanceled, BulkGoes, NoBulk
    <2>1. PpTypeOK'
      BY DEF PpTypeOK
    <2>2. BulkIsAlone'
      BY DEF PpTypeOK, BulkIsAlone
    <2>3. CleanIsCurrent'
      BY DEF PpTypeOK, CleanIsCurrent, InFlight
    <2>4. ASSUME NEW q \in Rows PROVE SaveKnows(q)'
      BY DEF PpTypeOK, SaveKnows, BulkIsAlone, CleanIsCurrent, InFlight, RowsTellTheServer
    <2>5. ASSUME NEW q \in Rows PROVE BulkKnows(q)'
      BY DEF PpTypeOK, BulkKnows, BulkIsAlone, CleanIsCurrent, InFlight, RowsTellTheServer
    <2>6. RowsTellTheServer'
      BY DEF PpTypeOK, RowsTellTheServer, InFlight, SaveKnows, BulkKnows, BulkIsAlone, CleanIsCurrent
    <2>7. QED
      BY <2>1, <2>2, <2>3, <2>4, <2>5, <2>6
  <1>11. CASE BulkSent
    <2> USE <1>11 DEF BulkSent, BulkGoes
    <2>1. PpTypeOK'
      BY DEF PpTypeOK
    <2>2. BulkIsAlone'
      BY DEF PpTypeOK, BulkIsAlone
    <2>3. CleanIsCurrent'
      BY DEF PpTypeOK, CleanIsCurrent, InFlight
    <2>4. ASSUME NEW q \in Rows PROVE SaveKnows(q)'
      BY DEF PpTypeOK, SaveKnows, BulkIsAlone, CleanIsCurrent, InFlight, RowsTellTheServer
    <2>5. ASSUME NEW q \in Rows PROVE BulkKnows(q)'
      BY DEF PpTypeOK, BulkKnows, BulkIsAlone, CleanIsCurrent, InFlight, RowsTellTheServer
    <2>6. RowsTellTheServer'
      BY DEF PpTypeOK, RowsTellTheServer, InFlight, SaveKnows, BulkKnows, BulkIsAlone, CleanIsCurrent
    <2>7. QED
      BY <2>1, <2>2, <2>3, <2>4, <2>5, <2>6
  <1>12. CASE BulkStored
    <2> USE <1>12 DEF BulkStored, BulkGoes, Outdated
    <2>1. PpTypeOK'
      <3>1. ppBulk' \in [pc : SavePcs \cup {"confirm"}, mode : AccessModes, sure : BOOLEAN]
        BY DEF PpTypeOK
      <3>2. \A l \in Loads : ppLoads'[l] \in LoadRecords
        BY LoadOutdated DEF PpTypeOK
      <3>3. ppLoads' \in [Loads -> LoadRecords]
        BY <3>2
      <3>4. QED
        BY <3>1, <3>3 DEF PpTypeOK
    <2>2. BulkIsAlone'
      BY DEF PpTypeOK, BulkIsAlone
    <2>3. CleanIsCurrent'
      BY DEF PpTypeOK, CleanIsCurrent, InFlight
    <2>4. ASSUME NEW q \in Rows PROVE SaveKnows(q)'
      BY DEF PpTypeOK, SaveKnows, BulkIsAlone, CleanIsCurrent, InFlight, RowsTellTheServer
    <2>5. ASSUME NEW q \in Rows PROVE BulkKnows(q)'
      BY DEF PpTypeOK, BulkKnows, BulkIsAlone, CleanIsCurrent, InFlight, RowsTellTheServer
    <2>6. RowsTellTheServer'
      BY DEF PpTypeOK, RowsTellTheServer, InFlight, SaveKnows, BulkKnows, BulkIsAlone, CleanIsCurrent
    <2>7. QED
      BY <2>1, <2>2, <2>3, <2>4, <2>5, <2>6
  <1>13. CASE BulkRefused
    <2> USE <1>13 DEF BulkRefused, BulkGoes
    <2>1. PpTypeOK'
      BY DEF PpTypeOK
    <2>2. BulkIsAlone'
      BY DEF PpTypeOK, BulkIsAlone
    <2>3. CleanIsCurrent'
      BY DEF PpTypeOK, CleanIsCurrent, InFlight
    <2>4. ASSUME NEW q \in Rows PROVE SaveKnows(q)'
      BY DEF PpTypeOK, SaveKnows, BulkIsAlone, CleanIsCurrent, InFlight, RowsTellTheServer
    <2>5. ASSUME NEW q \in Rows PROVE BulkKnows(q)'
      BY DEF PpTypeOK, BulkKnows, BulkIsAlone, CleanIsCurrent, InFlight, RowsTellTheServer
    <2>6. RowsTellTheServer'
      BY DEF PpTypeOK, RowsTellTheServer, InFlight, SaveKnows, BulkKnows, BulkIsAlone, CleanIsCurrent
    <2>7. QED
      BY <2>1, <2>2, <2>3, <2>4, <2>5, <2>6
  <1>14. CASE BulkReturns
    <2> USE <1>14 DEF BulkReturns, BulkGoes
    <2>1. PpTypeOK'
      <3>1. ppShown' \in [Rows -> AccessModes] /\ ppDoubt' \in SUBSET Rows
        BY DEF PpTypeOK
      <3>2. [ppBulk EXCEPT !.pc = "audit"].pc = "audit" /\ ppBulk'.pc = "audit"
        BY DEF PpTypeOK, NoBulk
      <3>3. ppBulk' \in [pc : SavePcs \cup {"confirm"}, mode : AccessModes, sure : BOOLEAN]
        BY DEF PpTypeOK, NoBulk
      <3>4. QED
        BY <3>1, <3>3 DEF PpTypeOK
    <2>2. BulkIsAlone'
      BY DEF PpTypeOK, BulkIsAlone
    <2>3. CleanIsCurrent'
      BY DEF PpTypeOK, CleanIsCurrent, InFlight
    <2>4. ASSUME NEW q \in Rows PROVE SaveKnows(q)'
      BY DEF PpTypeOK, SaveKnows, BulkIsAlone, CleanIsCurrent, InFlight, RowsTellTheServer
    <2>5. ASSUME NEW q \in Rows PROVE BulkKnows(q)'
      BY DEF PpTypeOK, BulkKnows, BulkIsAlone, CleanIsCurrent, InFlight, RowsTellTheServer
    <2>6. RowsTellTheServer'
      BY DEF PpTypeOK, RowsTellTheServer, InFlight, SaveKnows, BulkKnows, BulkIsAlone, CleanIsCurrent
    <2>7. QED
      BY <2>1, <2>2, <2>3, <2>4, <2>5, <2>6
  <1>15. CASE BulkEnds
    <2> USE <1>15 DEF BulkEnds, BulkGoes, NoBulk
    <2>1. PpTypeOK'
      BY DEF PpTypeOK
    <2>2. BulkIsAlone'
      BY DEF PpTypeOK, BulkIsAlone
    <2>3. CleanIsCurrent'
      BY DEF PpTypeOK, CleanIsCurrent, InFlight
    <2>4. ASSUME NEW q \in Rows PROVE SaveKnows(q)'
      BY DEF PpTypeOK, SaveKnows, BulkIsAlone, CleanIsCurrent, InFlight, RowsTellTheServer
    <2>5. ASSUME NEW q \in Rows PROVE BulkKnows(q)'
      BY DEF PpTypeOK, BulkKnows, BulkIsAlone, CleanIsCurrent, InFlight, RowsTellTheServer
    <2>6. RowsTellTheServer'
      BY DEF PpTypeOK, RowsTellTheServer, InFlight, SaveKnows, BulkKnows, BulkIsAlone, CleanIsCurrent
    <2>7. QED
      BY <2>1, <2>2, <2>3, <2>4, <2>5, <2>6
  <1>16. CASE BulkLost
    <2> USE <1>16 DEF BulkLost, BulkGoes, NoBulk
    <2>1. PpTypeOK'
      BY DEF PpTypeOK
    <2>2. BulkIsAlone'
      BY DEF PpTypeOK, BulkIsAlone
    <2>3. CleanIsCurrent'
      BY DEF PpTypeOK, CleanIsCurrent, InFlight
    <2>4. ASSUME NEW q \in Rows PROVE SaveKnows(q)'
      BY DEF PpTypeOK, SaveKnows, BulkIsAlone, CleanIsCurrent, InFlight, RowsTellTheServer
    <2>5. ASSUME NEW q \in Rows PROVE BulkKnows(q)'
      BY DEF PpTypeOK, BulkKnows, BulkIsAlone, CleanIsCurrent, InFlight, RowsTellTheServer
    <2>6. RowsTellTheServer'
      BY DEF PpTypeOK, RowsTellTheServer, InFlight, SaveKnows, BulkKnows, BulkIsAlone, CleanIsCurrent
    <2>7. QED
      BY <2>1, <2>2, <2>3, <2>4, <2>5, <2>6
  <1>17. ASSUME NEW l \in Loads, LoadSent(l) PROVE PpInv'
    <2> USE <1>17 DEF LoadSent, NoLoad
    <2>1. PpTypeOK'
      BY DEF PpTypeOK
    <2>2. BulkIsAlone'
      BY DEF PpTypeOK, BulkIsAlone
    <2>3. CleanIsCurrent'
      BY DEF PpTypeOK, CleanIsCurrent, InFlight
    <2>4. ASSUME NEW q \in Rows PROVE SaveKnows(q)'
      BY DEF PpTypeOK, SaveKnows, BulkIsAlone, CleanIsCurrent, InFlight, RowsTellTheServer
    <2>5. ASSUME NEW q \in Rows PROVE BulkKnows(q)'
      BY DEF PpTypeOK, BulkKnows, BulkIsAlone, CleanIsCurrent, InFlight, RowsTellTheServer
    <2>6. RowsTellTheServer'
      BY DEF PpTypeOK, RowsTellTheServer, InFlight, SaveKnows, BulkKnows, BulkIsAlone, CleanIsCurrent
    <2>7. QED
      BY <2>1, <2>2, <2>3, <2>4, <2>5, <2>6
  <1>18. ASSUME NEW l \in Loads, LoadRead(l) PROVE PpInv'
    <2> USE <1>18 DEF LoadRead
    <2>1. PpTypeOK'
      BY DEF PpTypeOK
    <2>2. BulkIsAlone'
      BY DEF PpTypeOK, BulkIsAlone
    <2>3. CleanIsCurrent'
      BY DEF PpTypeOK, CleanIsCurrent, InFlight
    <2>4. ASSUME NEW q \in Rows PROVE SaveKnows(q)'
      BY DEF PpTypeOK, SaveKnows, BulkIsAlone, CleanIsCurrent, InFlight, RowsTellTheServer
    <2>5. ASSUME NEW q \in Rows PROVE BulkKnows(q)'
      BY DEF PpTypeOK, BulkKnows, BulkIsAlone, CleanIsCurrent, InFlight, RowsTellTheServer
    <2>6. RowsTellTheServer'
      BY DEF PpTypeOK, RowsTellTheServer, InFlight, SaveKnows, BulkKnows, BulkIsAlone, CleanIsCurrent
    <2>7. QED
      BY <2>1, <2>2, <2>3, <2>4, <2>5, <2>6
  <1>19. ASSUME NEW l \in Loads, LoadReturns(l) PROVE PpInv'
    <2> USE <1>19 DEF LoadReturns, NoLoad
    <2>1. PpTypeOK'
      <3>1. ppShown' \in [Rows -> AccessModes] /\ ppLoads' \in [Loads -> LoadRecords] /\ ppDoubt' \in SUBSET Rows
        BY DEF PpTypeOK
      <3>2. \A q \in Rows : [ppSave[q] EXCEPT !.listed = FALSE] \in SaveRecords
        <4> HIDE DEF SaveRecords
        <4>1. QED
          BY SaveUnlisted DEF PpTypeOK
      <3>3. QED
        BY <3>1, <3>2 DEF PpTypeOK
    <2>2. BulkIsAlone'
      BY DEF PpTypeOK, BulkIsAlone
    <2>3. CleanIsCurrent'
      BY DEF PpTypeOK, CleanIsCurrent, InFlight
    <2>4. ASSUME NEW q \in Rows PROVE SaveKnows(q)'
      <3>1. ppSave'[q].listed = FALSE /\ ppSave'[q].pc = ppSave[q].pc /\ ppSave'[q].mode = ppSave[q].mode
            /\ ppSave'[q].sure = ppSave[q].sure
        BY DEF PpTypeOK
      <3>2. q \notin ppDoubt' => ppShown'[q] = ppServer'[q]
        BY DEF PpTypeOK, CleanIsCurrent
      <3>3. QED
        BY <3>1, <3>2 DEF SaveKnows
    <2>5. ASSUME NEW q \in Rows PROVE BulkKnows(q)'
      BY DEF PpTypeOK, BulkKnows, BulkIsAlone, CleanIsCurrent, InFlight, RowsTellTheServer
    <2>6. RowsTellTheServer'
      BY DEF PpTypeOK, RowsTellTheServer, InFlight, SaveKnows, BulkKnows, BulkIsAlone, CleanIsCurrent
    <2>7. QED
      BY <2>1, <2>2, <2>3, <2>4, <2>5, <2>6
  <1>20. ASSUME NEW l \in Loads, LoadFails(l) PROVE PpInv'
    <2> USE <1>20 DEF LoadFails, NoLoad
    <2>1. PpTypeOK'
      BY DEF PpTypeOK
    <2>2. BulkIsAlone'
      BY DEF PpTypeOK, BulkIsAlone
    <2>3. CleanIsCurrent'
      BY DEF PpTypeOK, CleanIsCurrent, InFlight
    <2>4. ASSUME NEW q \in Rows PROVE SaveKnows(q)'
      BY DEF PpTypeOK, SaveKnows, BulkIsAlone, CleanIsCurrent, InFlight, RowsTellTheServer
    <2>5. ASSUME NEW q \in Rows PROVE BulkKnows(q)'
      BY DEF PpTypeOK, BulkKnows, BulkIsAlone, CleanIsCurrent, InFlight, RowsTellTheServer
    <2>6. RowsTellTheServer'
      BY DEF PpTypeOK, RowsTellTheServer, InFlight, SaveKnows, BulkKnows, BulkIsAlone, CleanIsCurrent
    <2>7. QED
      BY <2>1, <2>2, <2>3, <2>4, <2>5, <2>6
  <1>21. ASSUME NEW R \in SUBSET Rows, NEW m \in AccessModes, PermissionSetElsewhere(R, m) PROVE PpInv'
    <2> USE <1>21 DEF PermissionSetElsewhere, Outdated
    <2>1. PpTypeOK'
      <3>1. ppServer' \in [Rows -> AccessModes] /\ ppDoubt' \in SUBSET Rows
        BY DEF PpTypeOK
      <3>2. ppSave' \in [Rows -> SaveRecords]
        <4> HIDE DEF SaveRecords
        <4>1. QED
          BY SaveUnsure DEF PpTypeOK
      <3>3. ppBulk' \in [pc : SavePcs \cup {"confirm"}, mode : AccessModes, sure : BOOLEAN]
        BY DEF PpTypeOK
      <3>4. ppLoads' \in [Loads -> LoadRecords]
        <4> HIDE DEF LoadRecords
        <4>1. QED
          BY LoadOutdated DEF PpTypeOK
      <3>5. QED
        BY <3>1, <3>2, <3>3, <3>4 DEF PpTypeOK
    <2>2. BulkIsAlone'
      BY DEF PpTypeOK, BulkIsAlone
    <2>3. CleanIsCurrent'
      BY DEF PpTypeOK, CleanIsCurrent, InFlight
    <2>4. ASSUME NEW q \in Rows PROVE SaveKnows(q)'
      BY DEF PpTypeOK, SaveKnows, BulkIsAlone, CleanIsCurrent, InFlight, RowsTellTheServer
    <2>5. ASSUME NEW q \in Rows PROVE BulkKnows(q)'
      BY DEF PpTypeOK, BulkKnows, BulkIsAlone, CleanIsCurrent, InFlight, RowsTellTheServer
    <2>6. RowsTellTheServer'
      BY DEF PpTypeOK, RowsTellTheServer, InFlight, SaveKnows, BulkKnows, BulkIsAlone, CleanIsCurrent
    <2>7. QED
      BY <2>1, <2>2, <2>3, <2>4, <2>5, <2>6
  <1>22. CASE UNCHANGED ppVars
    <2> USE <1>22 DEF ppVars
    <2>1. PpTypeOK'
      BY DEF PpTypeOK
    <2>2. BulkIsAlone'
      BY DEF PpTypeOK, BulkIsAlone
    <2>3. CleanIsCurrent'
      BY DEF PpTypeOK, CleanIsCurrent, InFlight
    <2>4. ASSUME NEW q \in Rows PROVE SaveKnows(q)'
      BY DEF PpTypeOK, SaveKnows, BulkIsAlone, CleanIsCurrent, InFlight, RowsTellTheServer
    <2>5. ASSUME NEW q \in Rows PROVE BulkKnows(q)'
      BY DEF PpTypeOK, BulkKnows, BulkIsAlone, CleanIsCurrent, InFlight, RowsTellTheServer
    <2>6. RowsTellTheServer'
      BY DEF PpTypeOK, RowsTellTheServer, InFlight, SaveKnows, BulkKnows, BulkIsAlone, CleanIsCurrent
    <2>7. QED
      BY <2>1, <2>2, <2>3, <2>4, <2>5, <2>6
  <1>23. QED
    BY <1>1, <1>2, <1>3, <1>4, <1>5, <1>6, <1>7, <1>8, <1>9, <1>10, <1>11, <1>12, <1>13, <1>14, <1>15, <1>16, <1>17, <1>18, <1>19, <1>20, <1>21, <1>22 DEF PpNext

(* A row that nothing is under way for, and that no lost answer, foreign    *)
(* change or outdated list put in doubt, is shown as the server enforces  *)
(* it, for any rows (DevicePermissionPage).                                 *)
THEOREM RowsAreTrue == PpSpec => []RowsTellTheServer
  <1>1. PpInit => PpInv
    BY DEF PpInit, PpInv, PpTypeOK, BulkIsAlone, CleanIsCurrent, SaveKnows, BulkKnows, RowsTellTheServer,
           NoSave, NoBulk, NoLoad, InFlight, Asking, SavePcs, SaveRecords, LoadRecords, AccessModes
  <1>2. PpInv => RowsTellTheServer
    BY DEF PpInv
  <1>3. QED
    BY <1>1, <1>2, PermissionStep, PTL DEF PpSpec

=============================================================================
