-------------------------- MODULE CredentialsProofs --------------------------
(***************************************************************************)
(* Proofs about ApiKeys and AdminSessions, for any keys, tokens, requests, *)
(* administrator calls, routes and limit of failures.                      *)
(***************************************************************************)
EXTENDS ApiKeys, AdminSessions, TLAPS

-----------------------------------------------------------------------------
(* API keys. *)

(* A call that is about to invalidate changed a key that exists. *)
ChangedKeysExist ==
  \A a \in KeyAdmins : keyOps[a].pc = "invalidate" => keyRow[keyOps[a].key] # "none"

(* A key whose revocation has returned is off, in the table and the cache. *)
RevokedKeysAreOff ==
  \A k \in keyRevoked : keyRow[k] \in {"disabled", "deleted"} /\ keyCache[k] = "none"

(* The tail of a validation whose generation still stands saw the key      *)
(* active at a time when no revocation of it had returned.                 *)
Trusting == {"answer", "recheck", "fill"}
TrustedKeysStand ==
  \A v \in KeyCalls : keyCalls[v].pc \in Trusting /\ keyCalls[v].current
                        => keyCalls[v].key \notin keyRevoked

KeyInv == KeyTypeOK /\ ChangedKeysExist /\ RevokedKeysAreOff /\ TrustedKeysStand

(* What a step may do to a validation: let it in only with a key that stands. *)
LetInRightly ==
  \A v \in KeyCalls : keyCalls[v].pc # "accepted" /\ keyCalls'[v].pc = "accepted"
                        => keyCalls[v].key \notin keyRevoked

USE DEF KeyTries

(* The key the idle calls carry is a key. *)
LEMMA AnyKeyIsKey == AnyKey \in Keys
  BY KeysAssumption DEF AnyKey

(* The invariant holds before the first request. *)
LEMMA KeyInitInv == KeyInit => KeyInv
  <1> SUFFICES ASSUME KeyInit PROVE KeyInv
    OBVIOUS
  <1>1. KeyTypeOK
    BY AnyKeyIsKey DEF KeyInit, KeyTypeOK, KeyRows, KeyEntries, KeyCall, KeyPcs, KeySettled, KeyOp, NoKeyOp
  <1>2. ChangedKeysExist /\ RevokedKeysAreOff /\ TrustedKeysStand
    BY DEF KeyInit, ChangedKeysExist, RevokedKeysAreOff, TrustedKeysStand, KeySettled, NoKeyOp, Trusting
  <1> QED
    BY <1>1, <1>2 DEF KeyInv

(* A step of one validation that leaves the rows, the changes and the      *)
(* history alone keeps the invariant when its own record does.             *)
LEMMA ValidationMoves ==
  ASSUME KeyInv, NEW v \in KeyCalls, NEW c \in KeyCall,
         keyCalls' = [keyCalls EXCEPT ![v] = c],
         c.pc \in Trusting /\ c.current => c.key \notin keyRevoked,
         c.pc = "accepted" => keyCalls[v].key \notin keyRevoked,
         UNCHANGED <<keyRow, keyExpired, keyCache, keyOps, keyRevoked>>
  PROVE  KeyInv' /\ LetInRightly
  BY DEF KeyInv, KeyTypeOK, ChangedKeysExist, RevokedKeysAreOff, TrustedKeysStand, LetInRightly

(* The records a validation may take are of their type. *)
LEMMA SettledType ==
  ASSUME NEW k \in Keys, NEW pc \in KeyPcs
  PROVE  KeySettled(pc, k) \in KeyCall /\ KeySettled(pc, k).pc = pc /\ ~KeySettled(pc, k).current
  BY DEF KeySettled, KeyCall

(* So is the one of a further try. *)
LEMMA AnotherTryType ==
  ASSUME NEW k \in Keys, NEW t \in 1 .. 3
  PROVE  LET c == [KeySettled("read", k) EXCEPT !.try = t] IN c \in KeyCall /\ c.pc = "read"
  <1>1. KeySettled("read", k) \in KeyCall /\ KeySettled("read", k).pc = "read"
    BY SettledType DEF KeyPcs
  <1>2. QED
    BY <1>1 DEF KeyCall

(* A refusal or another try leaves nothing behind. *)
LEMMA RefusalInv ==
  ASSUME KeyInv, NEW v \in KeyCalls, KeyRetries(v) \/ keyCalls' = KeyRefused(v),
         UNCHANGED <<keyRow, keyExpired, keyCache, keyOps, keyRevoked>>
  PROVE  KeyInv' /\ LetInRightly
  <1>1. keyCalls[v] \in KeyCall /\ KeyOf(v) \in Keys /\ keyCalls[v].try \in 1 .. 3
    BY DEF KeyInv, KeyTypeOK, KeyCall, KeyOf
  <1>2. PICK c \in KeyCall : /\ keyCalls' = [keyCalls EXCEPT ![v] = c]
                             /\ c.pc \in {"idle", "read"}
    <2>1. CASE keyCalls' = KeyRefused(v)
      BY <2>1, AnyKeyIsKey, SettledType DEF KeyRefused, KeyPcs
    <2>2. CASE KeyRetries(v) /\ keyCalls[v].try # KeyTries
      <3> DEFINE c == [KeySettled("read", KeyOf(v)) EXCEPT !.try = keyCalls[v].try + 1]
      <3>1. keyCalls[v].try + 1 \in 1 .. 3
        BY <1>1, <2>2
      <3>2. c \in KeyCall /\ c.pc = "read"
        BY <1>1, <3>1, AnotherTryType
      <3>3. QED
        BY <2>2, <3>2 DEF KeyRetries
    <2>3. CASE KeyRetries(v) /\ keyCalls[v].try = KeyTries
      BY <2>3, AnyKeyIsKey, SettledType DEF KeyRetries, KeyRefused, KeyPcs
    <2>4. QED
      BY <2>1, <2>2, <2>3
  <1>3. QED
    BY <1>2, ValidationMoves DEF Trusting

(* The steps of a validation that only change its own record. *)
LEMMA ValidationInv ==
  ASSUME KeyInv, NEW v \in KeyCalls,
         \/ \E k \in Keys : KeyRequest(v, k)
         \/ KeyReads(v) \/ KeyCachedChecks(v) \/ KeyAnswers(v) \/ KeyLoads(v) \/ KeyRechecks(v)
  PROVE  KeyInv' /\ LetInRightly
  <1>1. keyCalls[v] \in KeyCall /\ KeyOf(v) \in Keys /\ KeyOf(v) = keyCalls[v].key
    BY DEF KeyInv, KeyTypeOK, KeyCall, KeyOf
  <1>2. \A k \in Keys : keyRow[k] = "active" => k \notin keyRevoked
    BY DEF KeyInv, RevokedKeysAreOff
  <1>3. ASSUME NEW pc \in KeyPcs, keyCalls' = KeyGoes(v, pc), pc # "accepted",
               pc \in Trusting => KeyOf(v) \notin keyRevoked \/ ~keyCalls[v].current,
               UNCHANGED <<keyRow, keyExpired, keyCache, keyOps, keyRevoked>>
        PROVE  KeyInv' /\ LetInRightly
    <2> DEFINE c == [keyCalls[v] EXCEPT !.pc = pc]
    <2>1. c \in KeyCall /\ c.pc = pc /\ c.current = keyCalls[v].current /\ c.key = KeyOf(v)
      BY <1>1 DEF KeyCall
    <2>2. keyCalls' = [keyCalls EXCEPT ![v] = c]
      BY <1>3 DEF KeyGoes
    <2>3. QED
      BY <1>3, <2>1, <2>2, ValidationMoves
  <1>4. ASSUME NEW k \in Keys, KeyRequest(v, k)
        PROVE  KeyInv' /\ LetInRightly
    BY <1>4, SettledType, ValidationMoves DEF KeyRequest, KeyPcs, Trusting
  <1>5. CASE KeyReads(v)
    <2> DEFINE pc == CASE keyCache[KeyOf(v)] = "none" -> "load"
                       [] keyCache[KeyOf(v)] = "old" -> "evict"
                       [] keyCache[KeyOf(v)] = "fresh" -> "cached"
               same == keyCache[KeyOf(v)] = "old"
               lapsed == KeyOf(v) \in keyExpired
               c == [keyCalls[v] EXCEPT !.current = TRUE, !.same = same, !.lapsed = lapsed, !.pc = pc]
    <2>1. keyCache[KeyOf(v)] \in KeyEntries
      BY <1>1 DEF KeyInv, KeyTypeOK
    <2>2. pc \in {"load", "evict", "cached"}
      BY <2>1 DEF KeyEntries
    <2>3. same \in BOOLEAN /\ lapsed \in BOOLEAN
      OBVIOUS
    <2>4. keyCalls' = [keyCalls EXCEPT ![v] = c]
      BY <1>5 DEF KeyReads
    <2>5. UNCHANGED <<keyRow, keyExpired, keyCache, keyOps, keyRevoked>>
      BY <1>5 DEF KeyReads
    <2> HIDE DEF pc, same, lapsed
    <2>6. c \in KeyCall /\ c.pc = pc
      BY <1>1, <2>2, <2>3 DEF KeyCall, KeyPcs
    <2> HIDE DEF c
    <2>7. QED
      BY <2>2, <2>4, <2>5, <2>6, ValidationMoves DEF Trusting
  <1>6. CASE KeyCachedChecks(v)
    <2>1. CASE keyCalls' = KeyRefused(v)
      BY <1>6, <2>1, RefusalInv DEF KeyCachedChecks
    <2>2. CASE keyCalls' # KeyRefused(v)
      BY <1>1, <1>2, <1>3, <1>6, <2>2 DEF KeyCachedChecks, Trusting, KeyPcs
    <2>3. QED
      BY <2>1, <2>2
  <1>7. CASE KeyAnswers(v)
    <2>1. CASE keyCalls[v].current
      <3>1. KeyOf(v) \notin keyRevoked
        BY <1>1, <1>7, <2>1 DEF KeyAnswers, KeyInv, TrustedKeysStand, Trusting
      <3>2. QED
        BY <1>1, <1>7, <2>1, <3>1, SettledType, ValidationMoves
           DEF KeyAnswers, KeyAccepted, KeyPcs, Trusting
    <2>2. CASE ~keyCalls[v].current
      BY <1>7, <2>2, RefusalInv DEF KeyAnswers
    <2>3. QED
      BY <2>1, <2>2
  <1>8. CASE KeyLoads(v)
    <2>1. CASE keyCalls' = KeyRefused(v)
      BY <1>8, <2>1, RefusalInv DEF KeyLoads
    <2>2. CASE keyCalls' # KeyRefused(v)
      BY <1>1, <1>2, <1>3, <1>8, <2>2 DEF KeyLoads, Trusting, KeyPcs
    <2>3. QED
      BY <2>1, <2>2
  <1>9. CASE KeyRechecks(v)
    <2>1. CASE keyRow[KeyOf(v)] # "active"
      BY <1>9, <2>1, RefusalInv DEF KeyRechecks
    <2>2. CASE keyRow[KeyOf(v)] = "active"
      BY <1>1, <1>2, <1>3, <1>9, <2>2 DEF KeyRechecks, Trusting, KeyPcs
    <2>3. QED
      BY <2>1, <2>2
  <1>10. QED
    BY <1>4, <1>5, <1>6, <1>7, <1>8, <1>9

(* A step that takes or replaces an entry of the cache: the records of the *)
(* other validations lose "current" or "same" at most.                     *)
LEMMA CacheInv ==
  ASSUME KeyInv, NEW v \in KeyCalls,
         KeyEvicts(v) \/ KeyDrops(v) \/ KeyFills(v)
  PROVE  KeyInv' /\ LetInRightly
  <1>1. keyCalls[v] \in KeyCall /\ KeyOf(v) \in Keys /\ KeyOf(v) = keyCalls[v].key
    BY DEF KeyInv, KeyTypeOK, KeyCall, KeyOf
  <1>2. ASSUME NEW calls \in [KeyCalls -> KeyCall], NEW k \in Keys,
               keyCalls' \in {KeyReplaced(calls, k), KeyDropped(calls, k)}
        PROVE  /\ keyCalls' \in [KeyCalls -> KeyCall]
               /\ \A w \in KeyCalls : /\ keyCalls'[w].pc = calls[w].pc
                                      /\ keyCalls'[w].key = calls[w].key
                                      /\ keyCalls'[w].current => calls[w].current
    <2>1. /\ KeyReplaced(calls, k) \in [KeyCalls -> KeyCall]
          /\ \A w \in KeyCalls : /\ KeyReplaced(calls, k)[w].pc = calls[w].pc
                                 /\ KeyReplaced(calls, k)[w].key = calls[w].key
                                 /\ KeyReplaced(calls, k)[w].current = calls[w].current
      BY DEF KeyReplaced, KeyCall
    <2>2. ASSUME NEW r \in [KeyCalls -> KeyCall]
          PROVE  /\ KeyInvalidated(r) \in [KeyCalls -> KeyCall]
                 /\ \A w \in KeyCalls : /\ KeyInvalidated(r)[w].pc = r[w].pc
                                        /\ KeyInvalidated(r)[w].key = r[w].key
                                        /\ ~KeyInvalidated(r)[w].current
      BY DEF KeyInvalidated, KeyCall
    <2>3. QED
      BY <1>2, <2>1, <2>2 DEF KeyDropped
  <1>3. ASSUME NEW c \in KeyCall, NEW entry \in KeyEntries,
               c.pc \notin Trusting,
               entry # "none" => KeyOf(v) \notin keyRevoked,
               c.pc = "accepted" => KeyOf(v) \notin keyRevoked,
               keyCache' = [keyCache EXCEPT ![KeyOf(v)] = entry],
               keyCalls' \in {KeyReplaced([keyCalls EXCEPT ![v] = c], KeyOf(v)),
                              KeyDropped([keyCalls EXCEPT ![v] = c], KeyOf(v))},
               UNCHANGED <<keyRow, keyExpired, keyOps, keyRevoked>>
        PROVE  KeyInv' /\ LetInRightly
    <2> DEFINE calls == [keyCalls EXCEPT ![v] = c]
    <2>1. calls \in [KeyCalls -> KeyCall] /\ calls[v] = c
          /\ \A w \in KeyCalls \ {v} : calls[w] = keyCalls[w]
      BY <1>3 DEF KeyInv, KeyTypeOK
    <2> HIDE DEF calls
    <2>2. /\ keyCalls' \in [KeyCalls -> KeyCall]
          /\ \A w \in KeyCalls : /\ keyCalls'[w].pc = calls[w].pc
                                 /\ keyCalls'[w].key = calls[w].key
                                 /\ keyCalls'[w].current => calls[w].current
      BY <1>1, <1>2, <1>3, <2>1 DEF calls
    <2>3. KeyTypeOK'
      BY <1>3, <2>2 DEF KeyInv, KeyTypeOK
    <2>4. ChangedKeysExist' /\ RevokedKeysAreOff'
      BY <1>1, <1>3 DEF KeyInv, KeyTypeOK, ChangedKeysExist, RevokedKeysAreOff
    <2>5. TrustedKeysStand' /\ LetInRightly
      BY <1>1, <1>3, <2>1, <2>2 DEF KeyInv, TrustedKeysStand, LetInRightly
    <2>6. QED
      BY <2>3, <2>4, <2>5 DEF KeyInv
  <1>4. CASE KeyEvicts(v)
    <2> DEFINE c == [keyCalls[v] EXCEPT !.pc = "load"]
    <2>1. c \in KeyCall /\ c.pc = "load"
      BY <1>1 DEF KeyCall, KeyPcs
    <2>2. KeyGoes(v, "load") = [keyCalls EXCEPT ![v] = c]
      BY DEF KeyGoes
    <2>3. CASE keyCalls[v].same
      BY <1>3, <1>4, <2>1, <2>2, <2>3 DEF KeyEvicts, Trusting, KeyEntries
    <2>4. CASE ~keyCalls[v].same
      BY <1>4, <2>1, <2>2, <2>4, ValidationMoves DEF KeyEvicts, Trusting
    <2>5. QED
      BY <2>3, <2>4
  <1>5. CASE KeyDrops(v)
    BY <1>3, <1>5, AnyKeyIsKey, SettledType DEF KeyDrops, KeyRefused, KeyPcs, Trusting, KeyEntries
  <1>6. CASE KeyFills(v)
    <2>1. CASE keyCalls[v].current
      <3>1. KeyOf(v) \notin keyRevoked
        BY <1>1, <1>6, <2>1 DEF KeyFills, KeyInv, TrustedKeysStand, Trusting
      <3>2. QED
        BY <1>1, <1>3, <1>6, <2>1, <3>1, SettledType
           DEF KeyFills, KeyAccepted, KeyPcs, Trusting, KeyEntries
    <2>2. CASE ~keyCalls[v].current
      BY <1>6, <2>2, RefusalInv DEF KeyFills
    <2>3. QED
      BY <2>1, <2>2
  <1>7. QED
    BY <1>4, <1>5, <1>6

(* A change that committed: the row moves, a revoked key stays off. *)
LEMMA CommitInv ==
  ASSUME KeyInv, NEW k \in Keys, keyRow[k] # "none",
         (\E on \in BOOLEAN : KeyStatusSet(k, on)) \/ KeyDeleted(k) \/ KeyRotated(k)
  PROVE  /\ keyRow' \in [Keys -> KeyRows] /\ keyRow'[k] # "none"
         /\ keyRevoked' \in SUBSET keyRevoked
         /\ \A j \in Keys : keyRow[j] # "none" => keyRow'[j] # "none"
         /\ \A j \in keyRevoked' : keyRow'[j] \in {"disabled", "deleted"}
  <1>1. keyRow \in [Keys -> KeyRows] /\ keyRevoked \in SUBSET Keys
        /\ \A j \in keyRevoked : keyRow[j] \in {"disabled", "deleted"}
    BY DEF KeyInv, KeyTypeOK, RevokedKeysAreOff
  <1>2. ASSUME NEW on \in BOOLEAN, KeyStatusSet(k, on)
        PROVE  /\ keyRow' \in [Keys -> KeyRows] /\ keyRow'[k] # "none"
               /\ keyRevoked' \in SUBSET keyRevoked
               /\ \A j \in Keys : keyRow[j] # "none" => keyRow'[j] # "none"
               /\ \A j \in keyRevoked' : keyRow'[j] \in {"disabled", "deleted"}
    <2>1. CASE on
      BY <1>1, <1>2, <2>1 DEF KeyStatusSet, KeyExists, KeyRows
    <2>2. CASE ~on
      BY <1>1, <1>2, <2>2 DEF KeyStatusSet, KeyExists, KeyRows
    <2>3. QED
      BY <2>1, <2>2
  <1>3. CASE KeyDeleted(k)
    <2>1. CASE KeyExists(k)
      BY <1>1, <1>3, <2>1 DEF KeyDeleted, KeyExists, KeyRows
    <2>2. CASE ~KeyExists(k)
      BY <1>1, <1>3, <2>2 DEF KeyDeleted, KeyExists, KeyRows
    <2>3. QED
      BY <2>1, <2>2
  <1>4. CASE KeyRotated(k)
    BY <1>1, <1>4 DEF KeyRotated, KeyRows
  <1>5. QED
    BY <1>2, <1>3, <1>4

(* Every step of an administrator, of another process or of the clock keeps *)
(* the invariant, and lets no request in.                                   *)
LEMMA AdministrationInv ==
  ASSUME KeyInv,
         \/ \E a \in KeyAdmins : \/ \E k \in Keys : UpdateKeyStatus(a, k) \/ DeleteKey(a, k) \/ RotateKey(a, k)
                                \/ KeyOpReturns(a)
         \/ \E k \in Keys : KeyCreated(k) \/ KeyChangedElsewhere(k) \/ KeyLapses(k) \/ KeyEntryAges(k)
  PROVE  KeyInv' /\ LetInRightly
  <1>1. KeyTypeOK /\ ChangedKeysExist /\ RevokedKeysAreOff /\ TrustedKeysStand
    BY DEF KeyInv
  <1>2. ASSUME UNCHANGED keyCalls, keyRevoked' \in SUBSET keyRevoked
        PROVE  TrustedKeysStand' /\ LetInRightly
    BY <1>1, <1>2 DEF TrustedKeysStand, LetInRightly
  <1>3. ASSUME NEW a \in KeyAdmins, NEW k \in Keys,
               UpdateKeyStatus(a, k) \/ DeleteKey(a, k) \/ RotateKey(a, k)
        PROVE  KeyInv' /\ LetInRightly
    <2>1. /\ KeyCommits(a, k)
          /\ (\E on \in BOOLEAN : KeyStatusSet(k, on)) \/ KeyDeleted(k) \/ KeyRotated(k)
          /\ keyRow[k] # "none"
      BY <1>3 DEF UpdateKeyStatus, DeleteKey, RotateKey, KeyStatusSet, KeyRotated, KeyExists
    <2>2. /\ keyRow' \in [Keys -> KeyRows] /\ keyRow'[k] # "none"
          /\ keyRevoked' \in SUBSET keyRevoked
          /\ \A j \in Keys : keyRow[j] # "none" => keyRow'[j] # "none"
          /\ \A j \in keyRevoked' : keyRow'[j] \in {"disabled", "deleted"}
      BY <2>1, CommitInv
    <2>3. keyOps' \in [KeyAdmins -> KeyOp]
      BY <1>1, <2>1 DEF KeyCommits, KeyTypeOK, KeyOp
    <2>4. KeyTypeOK'
      BY <1>1, <2>1, <2>2, <2>3 DEF KeyCommits, KeyTypeOK
    <2>5. ChangedKeysExist'
      BY <1>1, <2>1, <2>2 DEF KeyCommits, ChangedKeysExist, KeyTypeOK, KeyOp, NoKeyOp
    <2>6. RevokedKeysAreOff'
      BY <1>1, <2>1, <2>2 DEF KeyCommits, RevokedKeysAreOff
    <2>7. QED
      BY <1>2, <2>1, <2>2, <2>4, <2>5, <2>6 DEF KeyCommits, KeyInv
  <1>4. ASSUME NEW a \in KeyAdmins, KeyOpReturns(a)
        PROVE  KeyInv' /\ LetInRightly
    <2> DEFINE k == keyOps[a].key
    <2>1. k \in Keys /\ keyRow[k] \in KeyRows \ {"none"}
      BY <1>1, <1>4 DEF KeyOpReturns, KeyTypeOK, KeyOp, NoKeyOp, ChangedKeysExist
    <2>2. /\ keyCalls' \in [KeyCalls -> KeyCall]
          /\ \A w \in KeyCalls : /\ keyCalls'[w].pc = keyCalls[w].pc
                                 /\ ~keyCalls'[w].current
      <3>1. keyCalls' = KeyInvalidated(KeyReplaced(keyCalls, k))
        BY <1>4 DEF KeyOpReturns, KeyDropped
      <3>2. /\ KeyReplaced(keyCalls, k) \in [KeyCalls -> KeyCall]
            /\ \A w \in KeyCalls : KeyReplaced(keyCalls, k)[w].pc = keyCalls[w].pc
        BY <1>1 DEF KeyReplaced, KeyTypeOK, KeyCall
      <3> HIDE DEF k
      <3>3. QED
        BY <3>1, <3>2 DEF KeyInvalidated, KeyCall
    <2>3. KeyTypeOK' /\ RevokedKeysAreOff'
      BY <1>1, <1>4, <2>1, <2>2
         DEF KeyOpReturns, KeyTypeOK, KeyEntries, KeyOp, RevokedKeysAreOff, KeyRows
    <2>4. ChangedKeysExist' /\ TrustedKeysStand' /\ LetInRightly
      BY <1>1, <1>4, <2>2
         DEF KeyOpReturns, KeyTypeOK, ChangedKeysExist, NoKeyOp, TrustedKeysStand, LetInRightly
    <2>5. QED
      BY <2>3, <2>4 DEF KeyInv
  <1>5. ASSUME NEW k \in Keys, KeyCreated(k)
        PROVE  KeyInv' /\ LetInRightly
    <2>1. KeyTypeOK' /\ ChangedKeysExist' /\ RevokedKeysAreOff'
      BY <1>1, <1>5 DEF KeyCreated, KeyTypeOK, KeyRows, ChangedKeysExist, RevokedKeysAreOff, KeyOp, NoKeyOp
    <2>2. QED
      BY <1>2, <1>5, <2>1 DEF KeyCreated, KeyInv
  <1>6. ASSUME NEW k \in Keys, KeyChangedElsewhere(k)
        PROVE  KeyInv' /\ LetInRightly
    <2>1. CASE keyRow[k] = "none"
      <3>1. UNCHANGED keyVars
        BY <1>1, <1>6, <2>1
           DEF KeyChangedElsewhere, KeyStatusSet, KeyDeleted, KeyRotated, KeyExists, KeyTypeOK, keyVars
      <3>2. QED
        BY <3>1 DEF keyVars, KeyInv, KeyTypeOK, ChangedKeysExist, RevokedKeysAreOff, TrustedKeysStand,
                    LetInRightly
    <2>2. CASE keyRow[k] # "none"
      <3>1. /\ keyRow' \in [Keys -> KeyRows]
            /\ keyRevoked' \in SUBSET keyRevoked
            /\ \A j \in Keys : keyRow[j] # "none" => keyRow'[j] # "none"
            /\ \A j \in keyRevoked' : keyRow'[j] \in {"disabled", "deleted"}
        BY <1>6, <2>2, CommitInv DEF KeyChangedElsewhere
      <3>2. UNCHANGED <<keyExpired, keyCache, keyCalls, keyOps>>
        BY <1>6 DEF KeyChangedElsewhere
      <3>3. KeyTypeOK' /\ ChangedKeysExist' /\ RevokedKeysAreOff'
        BY <1>1, <3>1, <3>2 DEF KeyTypeOK, ChangedKeysExist, RevokedKeysAreOff, KeyOp, NoKeyOp
      <3>4. QED
        BY <1>2, <3>1, <3>2, <3>3 DEF KeyInv
    <2>3. QED
      BY <2>1, <2>2
  <1>7. ASSUME NEW k \in Keys, KeyLapses(k) \/ KeyEntryAges(k)
        PROVE  KeyInv' /\ LetInRightly
    <2>1. KeyTypeOK' /\ ChangedKeysExist' /\ RevokedKeysAreOff'
      BY <1>1, <1>7 DEF KeyLapses, KeyEntryAges, KeyTypeOK, KeyEntries, ChangedKeysExist, RevokedKeysAreOff
    <2>2. QED
      BY <1>2, <1>7, <2>1 DEF KeyLapses, KeyEntryAges, KeyInv
  <1>8. QED
    BY <1>3, <1>4, <1>5, <1>6, <1>7

(* Every step keeps the invariant and lets in only requests whose key stands. *)
LEMMA KeyNextInv == KeyInv /\ [KeyNext]_keyVars => KeyInv' /\ (KeyNext => LetInRightly)
  <1> SUFFICES ASSUME KeyInv, [KeyNext]_keyVars PROVE KeyInv' /\ (KeyNext => LetInRightly)
    OBVIOUS
  <1>1. CASE KeyNext
    BY <1>1, ValidationInv, CacheInv, AdministrationInv DEF KeyNext
  <1>2. CASE UNCHANGED keyVars
    <2>1. KeyInv' /\ LetInRightly
      BY <1>2 DEF keyVars, KeyInv, KeyTypeOK, ChangedKeysExist, RevokedKeysAreOff, TrustedKeysStand,
                  LetInRightly
    <2>2. QED
      BY <2>1
  <1>3. QED
    BY <1>1, <1>2

(* The invariant holds in every reachable state. *)
LEMMA KeysInvariant == KeySpec => []KeyInv
  BY KeyInitInv, KeyNextInv, PTL DEF KeySpec

(* The rows, the cache, the validations and the changes of keys stay of    *)
(* their types, whatever the requests, the administrators and the other    *)
(* processes on the database do.                                           *)
THEOREM KeyTypeCorrect == KeySpec => []KeyTypeOK
  BY KeysInvariant, PTL DEF KeyInv

(* A key whose revocation has returned has no entry in the cache again.    *)
THEOREM RevokedStayUncached == KeySpec => []RevokedKeysLeaveCache
  <1>1. KeyInv => RevokedKeysLeaveCache
    BY DEF KeyInv, RevokedKeysAreOff, RevokedKeysLeaveCache
  <1>2. QED
    BY <1>1, KeysInvariant, PTL

(* No request, however far through its validation when the key was revoked, *)
(* is let in with a key whose revocation has returned.                      *)
THEOREM RevokedKeysStayOut == KeySpec => KeyRevocationHolds
  <1>1. KeyInv /\ [KeyNext]_keyVars
          => [\A v \in KeyCalls : keyCalls[v].pc # "accepted" /\ keyCalls'[v].pc = "accepted"
                                  => keyCalls[v].key \notin keyRevoked]_keyVars
    BY KeyNextInv DEF LetInRightly
  <1>2. QED
    BY <1>1, KeysInvariant, PTL DEF KeySpec, KeyRevocationHolds

-----------------------------------------------------------------------------
(* API keys: their cache is not seen. *)

keyRequests == [v \in KeyCalls |-> KeyRequestOf(keyCalls[v])]
keyStanding == {k \in Keys : keyRow[k] = "active"}

(* A step that sends no request on is one in which keys change and requests *)
(* end, as long as a revoked key stays revoked or is put into force again.  *)
LEMMA KeysChange ==
  ASSUME KeyInv, KeyInv',
         \A v \in KeyCalls : \/ KeyRequestOf(keyCalls'[v]) = KeyRequestOf(keyCalls[v])
                             \/ keyCalls'[v].pc = "idle",
         keyRevoked \subseteq keyRevoked' \cup keyStanding'
  PROVE  KeyAdmission!Next
  <1>1. /\ keyStanding' \in SUBSET Keys /\ keyRevoked' \in SUBSET Keys
        /\ keyRevoked' \cap keyStanding' = {}
    BY DEF KeyInv, KeyTypeOK, RevokedKeysAreOff, keyStanding
  <1>2. KeyAdmission!TurnedAway
    <2> DEFINE R == {v \in KeyCalls : keyCalls'[v].pc = "idle"}
    <2>1. keyRequests' = [v \in KeyCalls |-> IF v \in R THEN KeyAdmission!NotAsked ELSE keyRequests[v]]
      BY DEF keyRequests, KeyRequestOf, KeyAdmission!NotAsked
    <2>2. R \in SUBSET KeyCalls
      OBVIOUS
    <2> HIDE DEF R
    <2>3. QED
      BY <2>1, <2>2 DEF KeyAdmission!TurnedAway, keyRequests
  <1>3. KeyAdmission!Changes
    BY <1>1, <1>2 DEF KeyAdmission!Changes, keyStanding
  <1> QED
    BY <1>3 DEF KeyAdmission!Next

(* A step of one validation, the rows and the history being left alone: it *)
(* stays as far as it was, ends, or goes on by one stage.                   *)
LEMMA KeyGoesOn ==
  ASSUME KeyInv, KeyInv', NEW v \in KeyCalls, NEW c \in KeyCall,
         \A w \in KeyCalls : /\ keyCalls'[w].pc = [keyCalls EXCEPT ![v] = c][w].pc
                             /\ keyCalls'[w].key = [keyCalls EXCEPT ![v] = c][w].key,
         UNCHANGED <<keyRow, keyRevoked>>,
         \/ c.pc = "idle"
         \/ KeyRequestOf(c) = KeyRequestOf(keyCalls[v])
         \/ keyCalls[v].pc \in {"idle", "accepted"} /\ c.pc = "read"
         \/ /\ c.key = KeyOf(v)
            /\ \/ KeyRequestOf(keyCalls[v]) = KeyAdmission!Request("asked", KeyOf(v))
                  /\ c.pc \in {"answer", "fill"} /\ keyRow[KeyOf(v)] = "active"
               \/ keyCalls[v].pc \in {"answer", "fill"}
                  /\ (c.pc = "read" \/ (c.pc = "accepted" /\ KeyOf(v) \notin keyRevoked))
  PROVE  KeyAdmission!Next
  <1>1. /\ keyCalls \in [KeyCalls -> KeyCall] /\ keyCalls[v] \in KeyCall /\ KeyOf(v) = keyCalls[v].key
        /\ KeyOf(v) \in Keys /\ c.key \in Keys
    BY DEF KeyInv, KeyTypeOK, KeyOf, KeyCall
  <1>2. keyRequests' = [keyRequests EXCEPT ![v] = KeyRequestOf(c)]
    BY <1>1 DEF keyRequests, KeyRequestOf
  <1>3. keyRequests[v] = KeyRequestOf(keyCalls[v])
    BY DEF keyRequests
  <1>4. CASE c.pc = "idle" \/ KeyRequestOf(c) = KeyRequestOf(keyCalls[v])
    <2>1. \A w \in KeyCalls : \/ KeyRequestOf(keyCalls'[w]) = KeyRequestOf(keyCalls[w])
                              \/ keyCalls'[w].pc = "idle"
      BY <1>1, <1>4 DEF KeyRequestOf
    <2>2. QED
      BY <2>1, KeysChange DEF keyStanding
  <1>5. ASSUME NEW stage \in {"asked", "seen", "let in"}, NEW k \in Keys,
               KeyRequestOf(c) = KeyAdmission!Request(stage, k),
               \/ stage = "asked"
                  /\ (keyRequests[v] = KeyAdmission!NotAsked \/ \E t \in Keys : KeyAdmission!At(v, "let in", t))
               \/ stage = "seen" /\ KeyAdmission!At(v, "asked", k) /\ k \in keyStanding
               \/ stage = "asked" /\ KeyAdmission!At(v, "seen", k)
               \/ stage = "let in" /\ KeyAdmission!At(v, "seen", k) /\ k \notin keyRevoked
        PROVE  KeyAdmission!Next
    <2>1. KeyAdmission!Goes(v, stage, k)
      BY <1>2, <1>5 DEF KeyAdmission!Goes, keyRequests
    <2>2. \/ KeyAdmission!Ask(v, k) \/ KeyAdmission!See(v, k)
          \/ KeyAdmission!AskAgain(v, k) \/ KeyAdmission!LetIn(v, k)
      BY <1>5, <2>1
         DEF KeyAdmission!Ask, KeyAdmission!See, KeyAdmission!AskAgain, KeyAdmission!LetIn, keyRequests,
             keyStanding
    <2>3. UNCHANGED <<keyStanding, keyRevoked>>
      BY DEF keyStanding
    <2>4. QED
      BY <1>1, <2>2, <2>3 DEF KeyAdmission!Next, keyStanding
  <1>6. CASE keyCalls[v].pc \in {"idle", "accepted"} /\ c.pc = "read"
    <2>1. KeyRequestOf(c) = KeyAdmission!Request("asked", c.key)
      BY <1>6 DEF KeyRequestOf, KeyStage, KeyAdmission!Request
    <2>2. keyRequests[v] = KeyAdmission!NotAsked \/ KeyAdmission!At(v, "let in", KeyOf(v))
      BY <1>1, <1>3, <1>6
         DEF KeyRequestOf, KeyStage, KeyAdmission!Request, KeyAdmission!NotAsked, KeyAdmission!At, keyRequests
    <2>3. QED
      BY <1>1, <1>5, <2>1, <2>2
  <1>7. CASE /\ c.key = KeyOf(v) /\ c.pc \in {"answer", "fill"} /\ keyRow[KeyOf(v)] = "active"
             /\ KeyRequestOf(keyCalls[v]) = KeyAdmission!Request("asked", KeyOf(v))
    <2>1. KeyRequestOf(c) = KeyAdmission!Request("seen", KeyOf(v))
      BY <1>7 DEF KeyRequestOf, KeyStage, KeyAdmission!Request
    <2>2. KeyAdmission!At(v, "asked", KeyOf(v)) /\ KeyOf(v) \in keyStanding
      BY <1>1, <1>3, <1>7 DEF KeyAdmission!At, keyRequests, keyStanding
    <2>3. QED
      BY <1>1, <1>5, <2>1, <2>2
  <1>8. CASE /\ c.key = KeyOf(v) /\ keyCalls[v].pc \in {"answer", "fill"}
             /\ c.pc = "read" \/ (c.pc = "accepted" /\ KeyOf(v) \notin keyRevoked)
    <2>1. KeyAdmission!At(v, "seen", KeyOf(v))
      BY <1>1, <1>3, <1>8 DEF KeyRequestOf, KeyStage, KeyAdmission!Request, KeyAdmission!At, keyRequests
    <2>2. \/ KeyRequestOf(c) = KeyAdmission!Request("asked", KeyOf(v))
          \/ KeyRequestOf(c) = KeyAdmission!Request("let in", KeyOf(v)) /\ KeyOf(v) \notin keyRevoked
      BY <1>8 DEF KeyRequestOf, KeyStage, KeyAdmission!Request
    <2>3. QED
      BY <1>1, <1>5, <2>1, <2>2
  <1> QED
    BY <1>4, <1>6, <1>7, <1>8

(* What the helpers on the records of all validations leave alone.         *)
LEMMA RecordsKeep ==
  ASSUME NEW calls \in [KeyCalls -> KeyCall], NEW k \in Keys
  PROVE  \A w \in KeyCalls : /\ KeyReplaced(calls, k)[w].pc = calls[w].pc
                             /\ KeyReplaced(calls, k)[w].key = calls[w].key
                             /\ KeyDropped(calls, k)[w].pc = calls[w].pc
                             /\ KeyDropped(calls, k)[w].key = calls[w].key
  <1>1. /\ KeyReplaced(calls, k) \in [KeyCalls -> KeyCall]
        /\ \A w \in KeyCalls : /\ KeyReplaced(calls, k)[w].pc = calls[w].pc
                               /\ KeyReplaced(calls, k)[w].key = calls[w].key
    BY DEF KeyReplaced, KeyCall
  <1>2. ASSUME NEW r \in [KeyCalls -> KeyCall]
        PROVE  \A w \in KeyCalls : /\ KeyInvalidated(r)[w].pc = r[w].pc
                                   /\ KeyInvalidated(r)[w].key = r[w].key
    BY DEF KeyInvalidated, KeyCall
  <1>3. QED
    BY <1>1, <1>2 DEF KeyDropped

(* Every step of a validation is one of SecretAdmission.                   *)
LEMMA KeyValidationIsSeen ==
  ASSUME KeyInv, KeyInv', NEW v \in KeyCalls,
         \/ \E k \in Keys : KeyRequest(v, k)
         \/ KeyReads(v) \/ KeyEvicts(v) \/ KeyCachedChecks(v) \/ KeyDrops(v)
         \/ KeyAnswers(v) \/ KeyLoads(v) \/ KeyRechecks(v) \/ KeyFills(v)
  PROVE  KeyAdmission!Next
  <1>1. /\ keyCalls \in [KeyCalls -> KeyCall] /\ keyCalls[v] \in KeyCall /\ KeyOf(v) = keyCalls[v].key
        /\ KeyOf(v) \in Keys /\ keyCalls[v].try \in 1 .. 3 /\ keyCache[KeyOf(v)] \in KeyEntries
    BY DEF KeyInv, KeyTypeOK, KeyOf, KeyCall
  <1>2. UNCHANGED <<keyRow, keyRevoked>>
    BY DEF KeyRequest, KeyReads, KeyEvicts, KeyCachedChecks, KeyDrops, KeyAnswers, KeyLoads, KeyRechecks,
           KeyFills
  <1>3. \A k \in Keys, pc \in KeyPcs : /\ KeySettled(pc, k) \in KeyCall /\ KeySettled(pc, k).pc = pc
                                       /\ KeySettled(pc, k).key = k
    BY DEF KeySettled, KeyCall
  <1>4. ASSUME NEW c \in KeyCall, keyCalls' = [keyCalls EXCEPT ![v] = c]
        PROVE  \A w \in KeyCalls : /\ keyCalls'[w].pc = [keyCalls EXCEPT ![v] = c][w].pc
                                   /\ keyCalls'[w].key = [keyCalls EXCEPT ![v] = c][w].key
    BY <1>4
  <1>5. ASSUME NEW c \in KeyCall,
               keyCalls' \in {KeyReplaced([keyCalls EXCEPT ![v] = c], KeyOf(v)),
                              KeyDropped([keyCalls EXCEPT ![v] = c], KeyOf(v))}
        PROVE  \A w \in KeyCalls : /\ keyCalls'[w].pc = [keyCalls EXCEPT ![v] = c][w].pc
                                   /\ keyCalls'[w].key = [keyCalls EXCEPT ![v] = c][w].key
    <2> DEFINE calls == [keyCalls EXCEPT ![v] = c]
    <2>1. calls \in [KeyCalls -> KeyCall]
      BY <1>1
    <2>2. keyCalls' \in {KeyReplaced(calls, KeyOf(v)), KeyDropped(calls, KeyOf(v))}
      BY <1>5
    <2> HIDE DEF calls
    <2>3. \A w \in KeyCalls : keyCalls'[w].pc = calls[w].pc /\ keyCalls'[w].key = calls[w].key
      BY <1>1, <2>1, <2>2, RecordsKeep
    <2>4. QED
      BY <2>3 DEF calls
  <1>6. ASSUME KeyRetries(v) \/ keyCalls' = KeyRefused(v),
               keyCalls' = KeyRefused(v) \/ keyCalls[v].pc \in {"answer", "fill"}
        PROVE  KeyAdmission!Next
    <2>1. CASE keyCalls' = KeyRefused(v)
      BY <1>2, <1>3, <1>4, <2>1, AnyKeyIsKey, KeyGoesOn DEF KeyRefused, KeyPcs
    <2>2. CASE keyCalls' # KeyRefused(v)
      <3> DEFINE c == [KeySettled("read", KeyOf(v)) EXCEPT !.try = keyCalls[v].try + 1]
      <3>1. keyCalls' = [keyCalls EXCEPT ![v] = c] /\ keyCalls[v].try + 1 \in 1 .. 3
        BY <1>1, <1>6, <2>2 DEF KeyRetries
      <3>2. c \in KeyCall /\ c.pc = "read" /\ c.key = KeyOf(v)
        BY <1>1, <1>3, <3>1 DEF KeyCall, KeyPcs
      <3>3. PICK d \in KeyCall : keyCalls' = [keyCalls EXCEPT ![v] = d] /\ d.pc = "read" /\ d.key = KeyOf(v)
        BY <3>1, <3>2
      <3>4. keyCalls[v].pc \in {"answer", "fill"}
        BY <1>6, <2>2
      <3>5. QED
        BY <1>2, <1>4, <3>3, <3>4, KeyGoesOn
    <2>3. QED
      BY <2>1, <2>2
  <1>7. ASSUME NEW pc \in KeyPcs, keyCalls' = KeyGoes(v, pc),
               \/ KeyStage(pc) = KeyStage(keyCalls[v].pc) /\ pc # "idle" /\ keyCalls[v].pc # "idle"
               \/ /\ keyCalls[v].pc \notin {"idle", "accepted", "answer", "fill"}
                  /\ pc \in {"answer", "fill"} /\ keyRow[KeyOf(v)] = "active"
        PROVE  KeyAdmission!Next
    <2> DEFINE c == [keyCalls[v] EXCEPT !.pc = pc]
    <2>1. c \in KeyCall /\ c.pc = pc /\ c.key = KeyOf(v) /\ keyCalls' = [keyCalls EXCEPT ![v] = c]
      BY <1>1, <1>7 DEF KeyCall, KeyGoes
    <2> HIDE DEF c
    <2>2. \/ KeyRequestOf(c) = KeyRequestOf(keyCalls[v])
          \/ /\ KeyRequestOf(keyCalls[v]) = KeyAdmission!Request("asked", KeyOf(v))
             /\ c.pc \in {"answer", "fill"} /\ keyRow[KeyOf(v)] = "active"
      BY <1>1, <1>7, <2>1 DEF KeyRequestOf, KeyStage, KeyAdmission!Request
    <2>3. QED
      BY <1>2, <1>4, <2>1, <2>2, KeyGoesOn
  <1>8. ASSUME NEW k \in Keys, KeyRequest(v, k)
        PROVE  KeyAdmission!Next
    BY <1>2, <1>3, <1>4, <1>8, KeyGoesOn DEF KeyRequest, KeyPcs
  <1>9. CASE KeyReads(v)
    <2> DEFINE pc == CASE keyCache[KeyOf(v)] = "none" -> "load"
                       [] keyCache[KeyOf(v)] = "old" -> "evict"
                       [] keyCache[KeyOf(v)] = "fresh" -> "cached"
               same == keyCache[KeyOf(v)] = "old"
               lapsed == KeyOf(v) \in keyExpired
               c == [keyCalls[v] EXCEPT !.current = TRUE, !.same = same, !.lapsed = lapsed, !.pc = pc]
    <2>1. pc \in {"load", "evict", "cached"} /\ same \in BOOLEAN /\ lapsed \in BOOLEAN
      BY <1>1 DEF KeyEntries
    <2>2. keyCalls' = [keyCalls EXCEPT ![v] = c] /\ keyCalls[v].pc = "read"
      BY <1>9 DEF KeyReads
    <2> HIDE DEF pc, same, lapsed
    <2>3. c \in KeyCall /\ c.pc = pc /\ c.key = keyCalls[v].key
      BY <1>1, <2>1 DEF KeyCall, KeyPcs
    <2> HIDE DEF c
    <2>4. KeyRequestOf(c) = KeyRequestOf(keyCalls[v])
      BY <2>1, <2>2, <2>3 DEF KeyRequestOf, KeyStage
    <2>5. QED
      BY <1>2, <1>4, <2>2, <2>3, <2>4, KeyGoesOn
  <1>10. CASE KeyEvicts(v)
    <2> DEFINE c == [keyCalls[v] EXCEPT !.pc = "load"]
    <2>1. c \in KeyCall /\ c.pc = "load" /\ c.key = keyCalls[v].key /\ KeyGoes(v, "load") = [keyCalls EXCEPT ![v] = c]
      BY <1>1 DEF KeyCall, KeyPcs, KeyGoes
    <2> HIDE DEF c
    <2>2. KeyRequestOf(c) = KeyRequestOf(keyCalls[v])
      BY <1>10, <2>1 DEF KeyEvicts, KeyRequestOf, KeyStage
    <2>3. \A w \in KeyCalls : /\ keyCalls'[w].pc = [keyCalls EXCEPT ![v] = c][w].pc
                              /\ keyCalls'[w].key = [keyCalls EXCEPT ![v] = c][w].key
      <3>1. CASE keyCalls' = KeyReplaced([keyCalls EXCEPT ![v] = c], KeyOf(v))
        BY <1>5, <2>1, <3>1
      <3>2. CASE keyCalls' = [keyCalls EXCEPT ![v] = c]
        BY <1>4, <2>1, <3>2
      <3>3. QED
        BY <1>10, <2>1, <3>1, <3>2 DEF KeyEvicts
    <2>4. QED
      BY <1>2, <2>1, <2>2, <2>3, KeyGoesOn
  <1>11. CASE KeyCachedChecks(v)
    <2>1. CASE keyCalls' = KeyRefused(v)
      BY <1>6, <2>1
    <2>2. CASE keyCalls' # KeyRefused(v)
      BY <1>7, <1>11, <2>2 DEF KeyCachedChecks, KeyStage, KeyPcs
    <2>3. QED
      BY <2>1, <2>2
  <1>12. CASE KeyDrops(v)
    <2> DEFINE c == KeySettled("idle", AnyKey)
    <2>1. c \in KeyCall /\ c.pc = "idle"
      BY <1>3, AnyKeyIsKey DEF KeyPcs
    <2>2. keyCalls' = KeyDropped([keyCalls EXCEPT ![v] = c], KeyOf(v))
      BY <1>12 DEF KeyDrops, KeyRefused
    <2> HIDE DEF c
    <2>3. QED
      BY <1>2, <1>5, <2>1, <2>2, KeyGoesOn
  <1>13. CASE KeyAnswers(v) \/ KeyFills(v)
    <2>1. keyCalls[v].pc \in {"answer", "fill"}
      BY <1>13 DEF KeyAnswers, KeyFills
    <2>2. CASE keyCalls[v].current
      <3> DEFINE c == KeySettled("accepted", KeyOf(v))
      <3>1. c \in KeyCall /\ c.pc = "accepted" /\ c.key = KeyOf(v)
        BY <1>1, <1>3 DEF KeyPcs
      <3>2. KeyOf(v) \notin keyRevoked
        BY <1>1, <2>1, <2>2 DEF KeyInv, TrustedKeysStand, Trusting
      <3>3. \/ keyCalls' = [keyCalls EXCEPT ![v] = c]
            \/ keyCalls' = KeyReplaced([keyCalls EXCEPT ![v] = c], KeyOf(v))
        BY <1>13, <2>2 DEF KeyAnswers, KeyFills, KeyAccepted
      <3> HIDE DEF c
      <3>4. \A w \in KeyCalls : /\ keyCalls'[w].pc = [keyCalls EXCEPT ![v] = c][w].pc
                                /\ keyCalls'[w].key = [keyCalls EXCEPT ![v] = c][w].key
        BY <1>4, <1>5, <3>1, <3>3
      <3>5. QED
        BY <1>2, <2>1, <3>1, <3>2, <3>4, KeyGoesOn
    <2>3. CASE ~keyCalls[v].current
      BY <1>6, <1>13, <2>1, <2>3 DEF KeyAnswers, KeyFills
    <2>4. QED
      BY <2>2, <2>3
  <1>14. CASE KeyLoads(v) \/ KeyRechecks(v)
    <2>1. CASE keyCalls' = KeyRefused(v)
      BY <1>6, <2>1
    <2>2. CASE keyCalls' # KeyRefused(v)
      BY <1>7, <1>14, <2>2 DEF KeyLoads, KeyRechecks, KeyStage, KeyPcs
    <2>3. QED
      BY <2>1, <2>2
  <1> QED
    BY <1>8, <1>9, <1>10, <1>11, <1>12, <1>13, <1>14

(* Every step of an administrator, of another process or of the clock is a *)
(* change of SecretAdmission.                                              *)
LEMMA KeyAdministrationIsSeen ==
  ASSUME KeyInv, KeyInv',
         \/ \E a \in KeyAdmins : \/ \E k \in Keys : UpdateKeyStatus(a, k) \/ DeleteKey(a, k) \/ RotateKey(a, k)
                                \/ KeyOpReturns(a)
         \/ \E k \in Keys : KeyCreated(k) \/ KeyChangedElsewhere(k) \/ KeyLapses(k) \/ KeyEntryAges(k)
         \/ UNCHANGED keyVars
  PROVE  KeyAdmission!Next
  <1>1. KeyTypeOK /\ ChangedKeysExist
    BY DEF KeyInv
  <1>2. ASSUME NEW k \in Keys, (\E on \in BOOLEAN : KeyStatusSet(k, on)) \/ KeyDeleted(k) \/ KeyRotated(k)
        PROVE  keyRevoked \subseteq keyRevoked' \cup keyStanding'
    BY <1>1, <1>2 DEF KeyStatusSet, KeyDeleted, KeyRotated, keyStanding, KeyTypeOK
  <1>3. keyRevoked \subseteq keyRevoked' \cup keyStanding'
    BY <1>2 DEF UpdateKeyStatus, DeleteKey, RotateKey, KeyOpReturns, KeyCreated, KeyChangedElsewhere, KeyLapses,
                KeyEntryAges, keyVars
  <1>4. \A v \in KeyCalls : KeyRequestOf(keyCalls'[v]) = KeyRequestOf(keyCalls[v])
    <2>1. CASE UNCHANGED keyCalls
      BY <2>1
    <2>2. ASSUME NEW a \in KeyAdmins, KeyOpReturns(a)
          PROVE  \A v \in KeyCalls : KeyRequestOf(keyCalls'[v]) = KeyRequestOf(keyCalls[v])
      <3>1. keyOps[a].key \in Keys
        BY <1>1, <2>2 DEF KeyOpReturns, KeyTypeOK, KeyOp, NoKeyOp
      <3>2. QED
        BY <1>1, <2>2, <3>1, RecordsKeep DEF KeyOpReturns, KeyRequestOf, KeyTypeOK
    <2>3. QED
      BY <2>1, <2>2 DEF UpdateKeyStatus, DeleteKey, RotateKey, KeyCommits, KeyCreated, KeyChangedElsewhere,
                        KeyLapses, KeyEntryAges, keyVars
  <1> QED
    BY <1>3, <1>4, KeysChange

(* Whatever the cache does, a request is let in only with a key that was   *)
(* active at some moment of its last try, and that no returned call had    *)
(* turned off: the validations with their cache implement SecretAdmission. *)
THEOREM KeysAreAdmitted == KeySpec => KeysAdmit
  <1>1. KeyInit => KeyAdmission!Init
    BY DEF KeyInit, KeyAdmission!Init, KeySettled, KeyRequestOf, KeyAdmission!NotAsked
  <1>2. KeyInv /\ KeyInv' /\ [KeyNext]_keyVars => [KeyAdmission!Next]_(KeyAdmission!vars)
    BY KeyValidationIsSeen, KeyAdministrationIsSeen DEF KeyNext
  <1>3. QED
    BY <1>1, <1>2, KeysInvariant, PTL DEF KeySpec, KeysAdmit, KeyAdmission!Spec

-----------------------------------------------------------------------------
(* Administrator sessions. *)

Ended == {"revoked", "purged"}

(* A session that a returned call revoked is over, in the table and the cache. *)
RevokedSessionsAreOver == \A t \in sesRevoked : sesRow[t] \in Ended /\ sesCache[t] = "none"

(* A session that a change of the password ended is over in the table.     *)
ReplacedSessionsAreOver == \A t \in sesReplaced : sesRow[t] \in Ended

(* The tail of a validation whose generation still stands saw the session  *)
(* live when no call that ended it had returned.                           *)
SesTrusting == {"answer", "recheck", "fill"}
TrustedTokensStand ==
  \A v \in SesCalls : sesCalls[v].pc \in SesTrusting /\ sesCalls[v].current
                        => sesCalls[v].token \notin sesRevoked

SesInv == SesTypeOK /\ RevokedSessionsAreOver /\ ReplacedSessionsAreOver /\ TrustedTokensStand

(* What a step may do to a validation. *)
SesLetInRightly ==
  \A v \in SesCalls : sesCalls[v].pc # "accepted" /\ sesCalls'[v].pc = "accepted"
                        => TokenOf(v) \notin sesRevoked

USE DEF SesTries

(* The token the idle validations carry is a token. *)
LEMMA AnyTokenIsToken == AnyToken \in Tokens
  BY SessionAssumption DEF AnyToken

(* The invariant holds before the first login. *)
LEMMA SesInitInv == SesInit => SesInv
  <1> SUFFICES ASSUME SesInit PROVE SesInv
    OBVIOUS
  <1>1. SesTypeOK
    <2>1. sesCalls \in [SesCalls -> SesCall]
      BY AnyTokenIsToken DEF SesInit, SesCall, SesPcs, SesSettled
    <2>2. sesOps \in [SesAdmins -> SesOp]
      BY DEF SesInit, SesOp
    <2>3. sesFailures \in 0 .. (MaxFailures - 1)
      BY SessionAssumption DEF SesInit
    <2>4. sesLocked \in BOOLEAN
      BY DEF SesInit
    <2>5. QED
      BY <2>1, <2>2, <2>3, <2>4 DEF SesInit, SesTypeOK
  <1>2. RevokedSessionsAreOver /\ ReplacedSessionsAreOver /\ TrustedTokensStand
    BY DEF SesInit, RevokedSessionsAreOver, ReplacedSessionsAreOver, TrustedTokensStand, SesSettled, SesTrusting
  <1> QED
    BY <1>1, <1>2 DEF SesInv

-----------------------------------------------------------------------------
(* Validations *)

(* A step of one validation that changes nothing but its own record.       *)
LEMMA SessionMoves ==
  ASSUME SesInv, NEW v \in SesCalls, NEW c \in SesCall,
         sesCalls' = [sesCalls EXCEPT ![v] = c],
         c.pc \in SesTrusting /\ c.current => c.token \notin sesRevoked,
         c.pc = "accepted" => TokenOf(v) \notin sesRevoked,
         UNCHANGED <<sesRow, sesExpired, sesCache, sesOps, sesFailures, sesLocked, sesRevoked, sesReplaced>>
  PROVE  SesInv' /\ SesLetInRightly
  BY DEF SesInv, SesTypeOK, RevokedSessionsAreOver, ReplacedSessionsAreOver, TrustedTokensStand,
         SesLetInRightly, TokenOf

(* The records a validation may take are of their type. *)
LEMMA SesSettledType ==
  ASSUME NEW t \in Tokens, NEW pc \in SesPcs
  PROVE  /\ SesSettled(pc, t) \in SesCall /\ SesSettled(pc, t).pc = pc
         /\ ~SesSettled(pc, t).current /\ SesSettled(pc, t).token = t
  BY DEF SesSettled, SesCall

(* So is the one of a further try. *)
LEMMA SesAnotherTryType ==
  ASSUME NEW t \in Tokens, NEW n \in 1 .. 3
  PROVE  LET c == [SesSettled("read", t) EXCEPT !.try = n] IN c \in SesCall /\ c.pc = "read"
  <1>1. SesSettled("read", t) \in SesCall /\ SesSettled("read", t).pc = "read"
    BY SesSettledType DEF SesPcs
  <1>2. QED
    BY <1>1 DEF SesCall

(* A refusal or another try leaves nothing behind. *)
LEMMA SessionRefused ==
  ASSUME SesInv, NEW v \in SesCalls, SesRetries(v) \/ sesCalls' = SesRefused(v),
         UNCHANGED <<sesRow, sesExpired, sesCache, sesOps, sesFailures, sesLocked, sesRevoked, sesReplaced>>
  PROVE  SesInv' /\ SesLetInRightly
  <1>1. sesCalls[v] \in SesCall /\ TokenOf(v) \in Tokens /\ sesCalls[v].try \in 1 .. 3
    BY DEF SesInv, SesTypeOK, SesCall, TokenOf
  <1>2. PICK c \in SesCall : /\ sesCalls' = [sesCalls EXCEPT ![v] = c]
                             /\ c.pc \in {"idle", "read"}
    <2> DEFINE off == SesSettled("idle", AnyToken)
    <2>0. off \in SesCall /\ off.pc = "idle"
      BY AnyTokenIsToken, SesSettledType DEF SesPcs
    <2> HIDE DEF off
    <2>1. CASE sesCalls' = SesRefused(v)
      BY <2>0, <2>1 DEF SesRefused, off
    <2>2. CASE SesRetries(v) /\ sesCalls[v].try # SesTries
      <3> DEFINE c == [SesSettled("read", TokenOf(v)) EXCEPT !.try = sesCalls[v].try + 1]
      <3>1. sesCalls[v].try + 1 \in 1 .. 3
        BY <1>1, <2>2
      <3>2. c \in SesCall /\ c.pc = "read"
        BY <1>1, <3>1, SesAnotherTryType
      <3>3. QED
        BY <2>2, <3>2 DEF SesRetries
    <2>3. CASE SesRetries(v) /\ sesCalls[v].try = SesTries
      BY <2>0, <2>3 DEF SesRetries, SesRefused, off
    <2>4. QED
      BY <2>1, <2>2, <2>3
  <1>3. QED
    BY <1>2, SessionMoves DEF SesTrusting

(* The steps of a validation that only change its own record. *)
LEMMA SessionValidation ==
  ASSUME SesInv, NEW v \in SesCalls,
         \/ \E t \in Tokens : SesRequest(v, t)
         \/ SesReads(v) \/ SesCachedChecks(v) \/ SesAnswers(v) \/ SesLoads(v) \/ SesRechecks(v)
  PROVE  SesInv' /\ SesLetInRightly
  <1>1. sesCalls[v] \in SesCall /\ TokenOf(v) \in Tokens /\ TokenOf(v) = sesCalls[v].token
    BY DEF SesInv, SesTypeOK, SesCall, TokenOf
  <1>2. \A t \in Tokens : SesActive(t) \/ sesRow[t] = "live" => t \notin sesRevoked
    BY DEF SesInv, RevokedSessionsAreOver, SesActive, Ended
  <1>3. ASSUME NEW pc \in SesPcs, sesCalls' = SesGoes(v, pc), pc # "accepted",
               pc \in SesTrusting => TokenOf(v) \notin sesRevoked,
               UNCHANGED <<sesRow, sesExpired, sesCache, sesOps, sesFailures, sesLocked, sesRevoked, sesReplaced>>
        PROVE  SesInv' /\ SesLetInRightly
    <2> DEFINE c == [sesCalls[v] EXCEPT !.pc = pc]
    <2>1. c \in SesCall /\ c.pc = pc /\ c.token = TokenOf(v)
      BY <1>1 DEF SesCall
    <2>2. sesCalls' = [sesCalls EXCEPT ![v] = c]
      BY <1>3 DEF SesGoes
    <2>3. QED
      BY <1>3, <2>1, <2>2, SessionMoves
  <1>4. ASSUME NEW t \in Tokens, SesRequest(v, t)
        PROVE  SesInv' /\ SesLetInRightly
    BY <1>4, SesSettledType, SessionMoves DEF SesRequest, SesPcs, SesTrusting
  <1>5. CASE SesReads(v)
    <2> DEFINE pc == CASE sesCache[TokenOf(v)] = "none" -> "load"
                       [] sesCache[TokenOf(v)] = "old" -> "evict"
                       [] OTHER -> IF TokenOf(v) \in sesExpired THEN "evict" ELSE "cached"
               same == pc = "evict"
               c == [sesCalls[v] EXCEPT !.pc = pc, !.current = TRUE, !.same = same]
    <2>1. pc \in {"load", "evict", "cached"}
      OBVIOUS
    <2>2. same \in BOOLEAN
      OBVIOUS
    <2>3. sesCalls' = [sesCalls EXCEPT ![v] = c]
      BY <1>5 DEF SesReads
    <2>4. UNCHANGED <<sesRow, sesExpired, sesCache, sesOps, sesFailures, sesLocked, sesRevoked, sesReplaced>>
      BY <1>5 DEF SesReads
    <2> HIDE DEF pc, same
    <2>5. c \in SesCall /\ c.pc = pc
      BY <1>1, <2>1, <2>2 DEF SesCall, SesPcs
    <2> HIDE DEF c
    <2>6. QED
      BY <2>1, <2>3, <2>4, <2>5, SessionMoves DEF SesTrusting
  <1>6. CASE SesCachedChecks(v)
    BY <1>1, <1>2, <1>3, <1>6 DEF SesCachedChecks, SesTrusting, SesPcs
  <1>7. CASE SesAnswers(v)
    <2>1. CASE sesCalls[v].current
      <3>1. TokenOf(v) \notin sesRevoked
        BY <1>1, <1>7, <2>1 DEF SesAnswers, SesInv, TrustedTokensStand, SesTrusting
      <3>2. QED
        BY <1>1, <1>7, <2>1, <3>1, SesSettledType, SessionMoves DEF SesAnswers, SesAccepted, SesPcs, SesTrusting
    <2>2. CASE ~sesCalls[v].current
      BY <1>7, <2>2, SessionRefused DEF SesAnswers
    <2>3. QED
      BY <2>1, <2>2
  <1>8. CASE SesLoads(v)
    <2>1. CASE sesRow[TokenOf(v)] = "live"
      BY <1>1, <1>2, <1>3, <1>8, <2>1 DEF SesLoads, SesTrusting, SesPcs
    <2>2. CASE sesRow[TokenOf(v)] # "live"
      BY <1>8, <2>2, SessionRefused DEF SesLoads
    <2>3. QED
      BY <2>1, <2>2
  <1>9. CASE SesRechecks(v)
    <2>1. CASE SesActive(TokenOf(v))
      BY <1>1, <1>2, <1>3, <1>9, <2>1 DEF SesRechecks, SesTrusting, SesPcs
    <2>2. CASE ~SesActive(TokenOf(v))
      BY <1>9, <2>2, SessionRefused DEF SesRechecks
    <2>3. QED
      BY <2>1, <2>2
  <1>10. QED
    BY <1>4, <1>5, <1>6, <1>7, <1>8, <1>9

(* What the helpers on the records of all validations keep. *)
LEMMA OthersKeep ==
  ASSUME NEW calls \in [SesCalls -> SesCall], NEW T, NEW t
  PROVE  /\ SesInvalidated(calls, T) \in [SesCalls -> SesCall]
         /\ SesEntryGone(calls, t) \in [SesCalls -> SesCall]
         /\ \A w \in SesCalls : /\ SesInvalidated(calls, T)[w].pc = calls[w].pc
                                /\ ~SesInvalidated(calls, T)[w].current
                                /\ SesEntryGone(calls, t)[w].pc = calls[w].pc
                                /\ SesEntryGone(calls, t)[w].token = calls[w].token
                                /\ SesEntryGone(calls, t)[w].current = calls[w].current
  <1>1. ASSUME NEW w \in SesCalls
        PROVE  /\ [calls[w] EXCEPT !.current = FALSE, !.same = @ /\ calls[w].token \notin T] \in SesCall
               /\ [calls[w] EXCEPT !.same = @ /\ calls[w].token # t] \in SesCall
    <2> DEFINE kept == calls[w].same /\ calls[w].token \notin T
               left == calls[w].same /\ calls[w].token # t
    <2>1. kept \in BOOLEAN /\ left \in BOOLEAN /\ calls[w] \in SesCall
      OBVIOUS
    <2> HIDE DEF kept, left
    <2>2. [calls[w] EXCEPT !.current = FALSE, !.same = kept] \in SesCall
          /\ [calls[w] EXCEPT !.same = left] \in SesCall
      BY <2>1 DEF SesCall
    <2>3. QED
      BY <2>2 DEF kept, left
  <1>2. QED
    BY <1>1 DEF SesInvalidated, SesEntryGone, SesCall

(* A step that takes or replaces an entry of the cache. *)
LEMMA SessionCache ==
  ASSUME SesInv, NEW v \in SesCalls, SesEvicts(v) \/ SesDrops(v) \/ SesFills(v)
  PROVE  SesInv' /\ SesLetInRightly
  <1>1. sesCalls[v] \in SesCall /\ TokenOf(v) \in Tokens /\ TokenOf(v) = sesCalls[v].token
    BY DEF SesInv, SesTypeOK, SesCall, TokenOf
  <1>2. ASSUME NEW c \in SesCall, NEW entry \in {"none", "fresh"},
               c.pc \notin SesTrusting,
               entry # "none" => TokenOf(v) \notin sesRevoked,
               c.pc = "accepted" => TokenOf(v) \notin sesRevoked,
               sesCache' = [sesCache EXCEPT ![TokenOf(v)] = entry],
               sesCalls' = SesEntryGone([sesCalls EXCEPT ![v] = c], TokenOf(v)),
               UNCHANGED <<sesRow, sesExpired, sesOps, sesFailures, sesLocked, sesRevoked, sesReplaced>>
        PROVE  SesInv' /\ SesLetInRightly
    <2> DEFINE calls == [sesCalls EXCEPT ![v] = c]
    <2>1. calls \in [SesCalls -> SesCall] /\ calls[v] = c
          /\ \A w \in SesCalls \ {v} : calls[w] = sesCalls[w]
      BY <1>2 DEF SesInv, SesTypeOK
    <2> HIDE DEF calls
    <2>2. /\ sesCalls' \in [SesCalls -> SesCall]
          /\ \A w \in SesCalls : /\ sesCalls'[w].pc = calls[w].pc
                                 /\ sesCalls'[w].token = calls[w].token
                                 /\ sesCalls'[w].current = calls[w].current
      BY <1>2, <2>1, OthersKeep, ZenonT(60) DEF calls
    <2>3. SesTypeOK'
      BY <1>2, <2>2 DEF SesInv, SesTypeOK
    <2>4. RevokedSessionsAreOver' /\ ReplacedSessionsAreOver'
      BY <1>1, <1>2 DEF SesInv, SesTypeOK, RevokedSessionsAreOver, ReplacedSessionsAreOver
    <2>5. TrustedTokensStand' /\ SesLetInRightly
      BY <1>1, <1>2, <2>1, <2>2, ZenonT(60) DEF SesInv, TrustedTokensStand, SesLetInRightly, TokenOf
    <2>6. QED
      BY <2>3, <2>4, <2>5 DEF SesInv
  <1>3. CASE SesEvicts(v)
    <2> DEFINE c == [sesCalls[v] EXCEPT !.pc = "load"]
    <2>1. c \in SesCall /\ c.pc = "load"
      BY <1>1 DEF SesCall, SesPcs
    <2>2. SesGoes(v, "load") = [sesCalls EXCEPT ![v] = c]
      BY DEF SesGoes
    <2>3. CASE sesCalls[v].same
      BY <1>2, <1>3, <2>1, <2>2, <2>3 DEF SesEvicts, SesTrusting
    <2>4. CASE ~sesCalls[v].same
      BY <1>3, <2>1, <2>2, <2>4, SessionMoves DEF SesEvicts, SesTrusting
    <2>5. QED
      BY <2>3, <2>4
  <1>4. CASE SesDrops(v)
    <2> DEFINE calls == SesRefused(v)
    <2>1. calls \in [SesCalls -> SesCall]
          /\ \A w \in SesCalls : calls[w].pc = "accepted" => calls[w] = sesCalls[w]
      BY AnyTokenIsToken, SesSettledType DEF SesRefused, SesInv, SesTypeOK, SesPcs
    <2> HIDE DEF calls
    <2>2. sesCalls' \in [SesCalls -> SesCall]
          /\ \A w \in SesCalls : sesCalls'[w].pc = calls[w].pc /\ ~sesCalls'[w].current
      BY <1>4, <2>1, OthersKeep DEF SesDrops, SesForgets, calls
    <2>3. SesTypeOK' /\ RevokedSessionsAreOver' /\ ReplacedSessionsAreOver'
      BY <1>1, <1>4, <2>2 DEF SesDrops, SesForgets, SesInv, SesTypeOK, RevokedSessionsAreOver,
                             ReplacedSessionsAreOver, Ended
    <2>4. TrustedTokensStand' /\ SesLetInRightly
      BY <2>1, <2>2 DEF TrustedTokensStand, SesLetInRightly
    <2>5. QED
      BY <2>3, <2>4 DEF SesInv
  <1>5. CASE SesFills(v)
    <2>1. CASE sesCalls[v].current
      <3>1. TokenOf(v) \notin sesRevoked
        BY <1>1, <1>5, <2>1 DEF SesFills, SesInv, TrustedTokensStand, SesTrusting
      <3>2. QED
        BY <1>1, <1>2, <1>5, <2>1, <3>1, SesSettledType DEF SesFills, SesAccepted, SesPcs, SesTrusting
    <2>2. CASE ~sesCalls[v].current
      BY <1>5, <2>2, SessionRefused DEF SesFills
    <2>3. QED
      BY <2>1, <2>2
  <1>6. QED
    BY <1>3, <1>4, <1>5

-----------------------------------------------------------------------------
(* The calls that open, extend and end sessions *)

(* A step that leaves the validations and the cache alone, and that brings *)
(* no ended session back.                                                  *)
LEMMA TableMoves ==
  ASSUME SesInv, UNCHANGED <<sesCalls, sesRevoked>>,
         sesRow' \in [Tokens -> {"none", "live", "revoked", "purged"}],
         \A t \in Tokens : sesRow[t] \in Ended => sesRow'[t] \in Ended,
         sesReplaced' \in SUBSET Tokens,
         \A t \in sesReplaced' : sesRow'[t] \in Ended,
         sesExpired' \in SUBSET Tokens,
         sesCache' \in [Tokens -> {"none", "fresh", "old"}],
         \A t \in Tokens : sesCache[t] = "none" => sesCache'[t] = "none",
         sesOps' \in [SesAdmins -> SesOp],
         sesFailures' \in 0 .. (MaxFailures - 1), sesLocked' \in BOOLEAN
  PROVE  SesInv' /\ SesLetInRightly
  <1>1. SesTypeOK'
    BY DEF SesInv, SesTypeOK
  <1>2. RevokedSessionsAreOver' /\ ReplacedSessionsAreOver'
    BY DEF SesInv, SesTypeOK, RevokedSessionsAreOver, ReplacedSessionsAreOver
  <1>3. TrustedTokensStand' /\ SesLetInRightly
    BY DEF SesInv, TrustedTokensStand, SesLetInRightly
  <1> QED
    BY <1>1, <1>2, <1>3 DEF SesInv

(* A step that invalidates the tokens T, and leaves the table alone.       *)
LEMMA ForgetMoves ==
  ASSUME SesInv, NEW T \in SUBSET Tokens, SesForgets(T, sesRow, sesCalls),
         UNCHANGED <<sesRow, sesExpired, sesFailures, sesLocked, sesReplaced>>,
         sesOps' \in [SesAdmins -> SesOp]
  PROVE  SesInv' /\ SesLetInRightly
  <1>1. sesCalls \in [SesCalls -> SesCall]
    BY DEF SesInv, SesTypeOK
  <1>2. sesCalls' \in [SesCalls -> SesCall]
        /\ \A w \in SesCalls : sesCalls'[w].pc = sesCalls[w].pc /\ ~sesCalls'[w].current
    BY <1>1, OthersKeep DEF SesForgets
  <1>3. SesTypeOK'
    BY <1>2 DEF SesInv, SesTypeOK, SesForgets
  <1>4. RevokedSessionsAreOver' /\ ReplacedSessionsAreOver'
    BY DEF SesInv, SesTypeOK, RevokedSessionsAreOver, ReplacedSessionsAreOver, SesForgets, Ended
  <1>5. TrustedTokensStand' /\ SesLetInRightly
    BY <1>2 DEF TrustedTokensStand, SesLetInRightly
  <1> QED
    BY <1>3, <1>4, <1>5 DEF SesInv

(* The failures stay below the limit: at the limit they start over.        *)
LEMMA PasswordTyped ==
  ASSUME sesFailures \in 0 .. (MaxFailures - 1), PasswordFails \/ PasswordPasses
  PROVE  sesFailures' \in 0 .. (MaxFailures - 1) /\ sesLocked' \in BOOLEAN
  <1>1. CASE PasswordPasses
    <2>1. sesFailures' \in 0 .. (MaxFailures - 1)
      BY <1>1, SessionAssumption DEF PasswordPasses
    <2>2. sesLocked' \in BOOLEAN
      BY <1>1 DEF PasswordPasses
    <2>3. QED
      BY <2>1, <2>2
  <1>2. CASE PasswordFails
    <2>1. sesFailures + 1 \in Nat /\ MaxFailures \in Nat \ {0}
      BY SessionAssumption
    <2>2. (sesFailures + 1) % MaxFailures \in 0 .. (MaxFailures - 1)
      BY <2>1
    <2>3. QED
      BY <1>2, <2>2 DEF PasswordFails
  <1>3. QED
    BY <1>1, <1>2

(* What SesRevoke leaves of the table. *)
LEMMA RevokeLeaves ==
  ASSUME sesRow \in [Tokens -> {"none", "live", "revoked", "purged"}], NEW T \in SUBSET Tokens
  PROVE  /\ SesRevoke(T) \in [Tokens -> {"none", "live", "revoked", "purged"}]
         /\ \A t \in Tokens : sesRow[t] \in Ended => SesRevoke(T)[t] \in Ended
         /\ \A t \in T : sesRow[t] # "none" => SesRevoke(T)[t] \in Ended
  BY DEF SesRevoke, Ended

(* Where the calls of the routes stand is of its type. *)
LEMMA OpsTyped ==
  ASSUME SesTypeOK, NEW a \in SesAdmins
  PROVE  /\ SesOpEnds(a) => sesOps' \in [SesAdmins -> SesOp]
         /\ \A pc \in {"purge", "insert", "clear"} :
              SesOpGoes(a, pc, NoToken) => sesOps' \in [SesAdmins -> SesOp]
         /\ \A pc \in {"forget", "extend", "update"}, t \in Tokens :
              SesOpGoes(a, pc, t) => sesOps' \in [SesAdmins -> SesOp]
         /\ \A pc \in {"forget", "extend", "update"} : SesOpAt(a, pc) => sesOps[a].token \in Tokens
  BY DEF SesTypeOK, SesOpEnds, SesOpGoes, SesOpAt, SesOp, NoSesOp

(* Every step of such a call keeps the invariant and lets no request in.   *)
LEMMA RoutesInv ==
  ASSUME SesInv, NEW a \in SesAdmins,
         \/ LoginChecks(a) \/ LoginPurges(a) \/ LogoutReturns(a)
         \/ RefreshChecks(a) \/ RefreshExtends(a) \/ ChangeReturns(a)
         \/ \E t \in Tokens : LoginInserts(a, t) \/ LogoutRevokes(a, t) \/ RefreshForgets(a, t)
  PROVE  SesInv' /\ SesLetInRightly
  <1>1. SesTypeOK /\ RevokedSessionsAreOver /\ ReplacedSessionsAreOver
    BY DEF SesInv
  <1>2. CASE LoginChecks(a)
    <2>1. sesFailures' \in 0 .. (MaxFailures - 1) /\ sesLocked' \in BOOLEAN
      BY <1>1, <1>2, PasswordTyped DEF LoginChecks, SesTypeOK
    <2>2. sesOps' \in [SesAdmins -> SesOp]
      BY <1>1, <1>2, OpsTyped DEF LoginChecks, SesTypeOK
    <2>3. QED
      BY <1>1, <1>2, <2>1, <2>2, TableMoves DEF LoginChecks, SesTypeOK, ReplacedSessionsAreOver
  <1>3. CASE LoginPurges(a)
    <2>1. sesOps' \in [SesAdmins -> SesOp]
      BY <1>1, <1>3, OpsTyped DEF LoginPurges
    <2>2. /\ sesRow' \in [Tokens -> {"none", "live", "revoked", "purged"}]
          /\ \A t \in Tokens : sesRow[t] \in Ended => sesRow'[t] \in Ended
      BY <1>1, <1>3 DEF LoginPurges, SesTypeOK, Ended
    <2>3. QED
      BY <1>1, <1>3, <2>1, <2>2, TableMoves DEF LoginPurges, SesTypeOK, ReplacedSessionsAreOver
  <1>4. CASE LogoutReturns(a)
    <2>1. sesOps[a].token \in Tokens /\ sesOps' \in [SesAdmins -> SesOp]
      BY <1>1, <1>4, OpsTyped DEF LogoutReturns
    <2>2. QED
      BY <1>4, <2>1, ForgetMoves DEF LogoutReturns
  <1>5. CASE RefreshChecks(a)
    <2>1. sesOps' \in [SesAdmins -> SesOp]
      BY <1>1, <1>5, OpsTyped DEF RefreshChecks
    <2>2. QED
      BY <1>1, <1>5, <2>1, TableMoves DEF RefreshChecks, SesTypeOK, ReplacedSessionsAreOver
  <1>6. CASE RefreshExtends(a)
    <2>1. sesOps' \in [SesAdmins -> SesOp]
      BY <1>1, <1>6, OpsTyped DEF RefreshExtends
    <2>2. QED
      BY <1>1, <1>6, <2>1, TableMoves DEF RefreshExtends, SesTypeOK, ReplacedSessionsAreOver
  <1>7. CASE ChangeReturns(a)
    <2>1. sesOps' \in [SesAdmins -> SesOp]
      BY <1>1, <1>7, OpsTyped DEF ChangeReturns
    <2>2. QED
      BY <1>7, <2>1, ForgetMoves DEF ChangeReturns
  <1>8. ASSUME NEW t \in Tokens, LoginInserts(a, t)
        PROVE  SesInv' /\ SesLetInRightly
    <2>1. sesOps' \in [SesAdmins -> SesOp]
      BY <1>1, <1>8, OpsTyped DEF LoginInserts
    <2>2. /\ sesRow' \in [Tokens -> {"none", "live", "revoked", "purged"}]
          /\ \A s \in Tokens : sesRow[s] \in Ended => sesRow'[s] \in Ended
      BY <1>1, <1>8 DEF LoginInserts, SesTypeOK, Ended
    <2>3. QED
      BY <1>1, <1>8, <2>1, <2>2, TableMoves DEF LoginInserts, SesTypeOK, ReplacedSessionsAreOver
  <1>9. ASSUME NEW t \in Tokens, LogoutRevokes(a, t)
        PROVE  SesInv' /\ SesLetInRightly
    <2>1. sesOps' \in [SesAdmins -> SesOp]
      BY <1>1, <1>9, OpsTyped DEF LogoutRevokes
    <2>2. QED
      BY <1>1, <1>9, <2>1, TableMoves, RevokeLeaves DEF LogoutRevokes, SesTypeOK, ReplacedSessionsAreOver
  <1>10. ASSUME NEW t \in Tokens, RefreshForgets(a, t)
        PROVE  SesInv' /\ SesLetInRightly
    <2>1. sesOps' \in [SesAdmins -> SesOp]
      BY <1>1, <1>10, OpsTyped DEF RefreshForgets
    <2>2. QED
      BY <1>10, <2>1, ForgetMoves DEF RefreshForgets
  <1>11. QED
    BY <1>2, <1>3, <1>4, <1>5, <1>6, <1>7, <1>8, <1>9, <1>10

(* The change of the password ends every session but the caller's.         *)
LEMMA ChangeInv ==
  ASSUME SesInv, NEW a \in SesAdmins, NEW v \in SesCalls, ChangeCommits(a, v)
  PROVE  SesInv' /\ SesLetInRightly
  <1>1. SesTypeOK /\ RevokedSessionsAreOver /\ ReplacedSessionsAreOver /\ TrustedTokensStand
    BY DEF SesInv
  <1>2. sesFailures' \in 0 .. (MaxFailures - 1) /\ sesLocked' \in BOOLEAN
    BY <1>1, PasswordTyped DEF ChangeCommits, SesTypeOK
  <1>3. sesOps' \in [SesAdmins -> SesOp]
    BY <1>1, OpsTyped DEF ChangeCommits, SesTypeOK
  <1>4. /\ sesRow' \in [Tokens -> {"none", "live", "revoked", "purged"}]
        /\ \A t \in Tokens : sesRow[t] \in Ended => sesRow'[t] \in Ended
        /\ sesReplaced' \in SUBSET Tokens
        /\ \A t \in sesReplaced' : sesRow'[t] \in Ended
    BY <1>1, RevokeLeaves DEF ChangeCommits, SesTypeOK, ReplacedSessionsAreOver
  <1>5. /\ sesCalls' \in [SesCalls -> SesCall] /\ sesCalls'[v].pc = "idle"
        /\ \A w \in SesCalls \ {v} : sesCalls'[w] = sesCalls[w]
    BY <1>1, AnyTokenIsToken, SesSettledType DEF ChangeCommits, SesRefused, SesTypeOK, SesPcs
  <1>6. SesTypeOK'
    BY <1>1, <1>2, <1>3, <1>4, <1>5 DEF ChangeCommits, SesTypeOK
  <1>7. RevokedSessionsAreOver' /\ ReplacedSessionsAreOver'
    BY <1>1, <1>4 DEF ChangeCommits, SesTypeOK, RevokedSessionsAreOver, ReplacedSessionsAreOver
  <1>8. TrustedTokensStand' /\ SesLetInRightly
    BY <1>1, <1>5 DEF ChangeCommits, TrustedTokensStand, SesLetInRightly, SesTrusting
  <1>9. QED
    BY <1>6, <1>7, <1>8 DEF SesInv

(* The command line's reset, and time. *)
LEMMA OutsideInv ==
  ASSUME SesInv,
         \/ PasswordResetElsewhere \/ LockLapses
         \/ \E t \in Tokens : SessionLapses(t) \/ SesEntryAges(t)
  PROVE  SesInv' /\ SesLetInRightly
  <1>1. SesTypeOK /\ RevokedSessionsAreOver /\ ReplacedSessionsAreOver
    BY DEF SesInv
  <1>2. CASE PasswordResetElsewhere
    <2>1. /\ sesRow' \in [Tokens -> {"none", "live", "revoked", "purged"}]
          /\ \A t \in Tokens : sesRow[t] \in Ended => sesRow'[t] \in Ended
          /\ sesReplaced' \in SUBSET Tokens
          /\ \A t \in sesReplaced' : sesRow'[t] \in Ended
      BY <1>1, <1>2, RevokeLeaves DEF PasswordResetElsewhere, SesTypeOK, ReplacedSessionsAreOver
    <2>2. sesFailures' \in 0 .. (MaxFailures - 1) /\ sesLocked' \in BOOLEAN
      BY <1>1, <1>2, PasswordTyped DEF PasswordResetElsewhere, SesTypeOK
    <2>3. QED
      BY <1>1, <1>2, <2>1, <2>2, TableMoves DEF PasswordResetElsewhere, SesTypeOK
  <1>3. CASE LockLapses
    BY <1>1, <1>3, TableMoves DEF LockLapses, SesTypeOK, ReplacedSessionsAreOver
  <1>4. ASSUME NEW t \in Tokens, SessionLapses(t) \/ SesEntryAges(t)
        PROVE  SesInv' /\ SesLetInRightly
    BY <1>1, <1>4, TableMoves DEF SessionLapses, SesEntryAges, SesTypeOK, ReplacedSessionsAreOver
  <1>5. QED
    BY <1>2, <1>3, <1>4

-----------------------------------------------------------------------------
(* Every step keeps the invariant and lets in only requests whose session stands. *)
LEMMA SesNextInv == SesInv /\ [SesNext]_sesVars => SesInv' /\ (SesNext => SesLetInRightly)
  <1> SUFFICES ASSUME SesInv, [SesNext]_sesVars PROVE SesInv' /\ (SesNext => SesLetInRightly)
    OBVIOUS
  <1>1. CASE SesNext
    BY <1>1, SessionValidation, SessionCache, RoutesInv, ChangeInv, OutsideInv DEF SesNext
  <1>2. CASE UNCHANGED sesVars
    <2>1. SesInv' /\ SesLetInRightly
      BY <1>2 DEF sesVars, SesInv, SesTypeOK, RevokedSessionsAreOver, ReplacedSessionsAreOver,
                  TrustedTokensStand, SesLetInRightly
    <2>2. QED
      BY <2>1
  <1>3. QED
    BY <1>1, <1>2

(* The invariant holds in every reachable state. *)
LEMMA SessionsInvariant == SesSpec => []SesInv
  BY SesInitInv, SesNextInv, PTL DEF SesSpec

(* Rows, cache, validations and routes stay of their types, and the failures *)
(* of the login below their limit.                                           *)
THEOREM SessionsTypeCorrect == SesSpec => []SesTypeOK
  BY SessionsInvariant, PTL DEF SesInv

(* A session whose end has been followed by an invalidation has no entry in  *)
(* the cache again.                                                          *)
THEOREM RevokedSessionsUncached == SesSpec => []RevokedTokensLeaveCache
  <1>1. SesInv => RevokedTokensLeaveCache
    BY DEF SesInv, RevokedSessionsAreOver, RevokedTokensLeaveCache
  <1>2. QED
    BY <1>1, SessionsInvariant, PTL

(* A change or a reset of the password ends, for good, every other session   *)
(* that is in the table.                                                     *)
THEOREM ReplacedSessionsEnd == SesSpec => []ReplacedSessionsStayDead
  <1>1. SesInv => ReplacedSessionsStayDead
    BY DEF SesInv, ReplacedSessionsAreOver, ReplacedSessionsStayDead, Ended
  <1>2. QED
    BY <1>1, SessionsInvariant, PTL

(* No request is let in with a session that a returned logout or change of   *)
(* the password ended, however far its validation had come.                  *)
THEOREM EndedSessionsStayOut == SesSpec => SessionRevocationHolds
  <1>1. SesInv /\ [SesNext]_sesVars
          => [\A v \in SesCalls : sesCalls[v].pc # "accepted" /\ sesCalls'[v].pc = "accepted"
                                  => TokenOf(v) \notin sesRevoked]_sesVars
    BY SesNextInv DEF SesLetInRightly
  <1>2. QED
    BY <1>1, SessionsInvariant, PTL DEF SesSpec, SessionRevocationHolds

-----------------------------------------------------------------------------
(* Sessions: their cache is not seen. *)

sesRequests == [v \in SesCalls |-> SesRequestOf(sesCalls[v])]
sesStanding == {t \in Tokens : SesActive(t)}

(* A step that sends no request on is one in which sessions change and     *)
(* requests end, as long as what a returned call ended stays ended.        *)
LEMMA SessionsChange ==
  ASSUME SesInv, SesInv',
         \A v \in SesCalls : \/ SesRequestOf(sesCalls'[v]) = SesRequestOf(sesCalls[v])
                             \/ sesCalls'[v].pc = "idle",
         sesRevoked \subseteq sesRevoked'
  PROVE  SesAdmission!Next
  <1>1. /\ sesStanding' \in SUBSET Tokens /\ sesRevoked' \in SUBSET Tokens
        /\ sesRevoked' \cap sesStanding' = {}
    BY DEF SesInv, SesTypeOK, RevokedSessionsAreOver, sesStanding, SesActive, Ended
  <1>2. SesAdmission!TurnedAway
    <2> DEFINE R == {v \in SesCalls : sesCalls'[v].pc = "idle"}
    <2>1. sesRequests' = [v \in SesCalls |-> IF v \in R THEN SesAdmission!NotAsked ELSE sesRequests[v]]
      BY DEF sesRequests, SesRequestOf, SesAdmission!NotAsked
    <2>2. R \in SUBSET SesCalls
      OBVIOUS
    <2> HIDE DEF R
    <2>3. QED
      BY <2>1, <2>2 DEF SesAdmission!TurnedAway, sesRequests
  <1>3. SesAdmission!Changes
    BY <1>1, <1>2 DEF SesAdmission!Changes, sesStanding
  <1> QED
    BY <1>3 DEF SesAdmission!Next

(* A step of one validation, the table and the history being left alone.   *)
LEMMA SessionGoesOn ==
  ASSUME SesInv, SesInv', NEW v \in SesCalls, NEW c \in SesCall,
         \A w \in SesCalls : /\ sesCalls'[w].pc = [sesCalls EXCEPT ![v] = c][w].pc
                             /\ sesCalls'[w].token = [sesCalls EXCEPT ![v] = c][w].token,
         UNCHANGED <<sesRow, sesExpired, sesRevoked>>,
         \/ c.pc = "idle"
         \/ SesRequestOf(c) = SesRequestOf(sesCalls[v])
         \/ sesCalls[v].pc \in {"idle", "accepted"} /\ c.pc = "read"
         \/ /\ c.token = TokenOf(v)
            /\ \/ SesRequestOf(sesCalls[v]) = SesAdmission!Request("asked", TokenOf(v))
                  /\ c.pc \in {"answer", "fill"} /\ SesActive(TokenOf(v))
               \/ sesCalls[v].pc \in {"answer", "fill"}
                  /\ (c.pc = "read" \/ (c.pc = "accepted" /\ TokenOf(v) \notin sesRevoked))
  PROVE  SesAdmission!Next
  <1>1. /\ sesCalls \in [SesCalls -> SesCall] /\ sesCalls[v] \in SesCall /\ TokenOf(v) = sesCalls[v].token
        /\ TokenOf(v) \in Tokens /\ c.token \in Tokens
    BY DEF SesInv, SesTypeOK, TokenOf, SesCall
  <1>2. sesRequests' = [sesRequests EXCEPT ![v] = SesRequestOf(c)]
    BY <1>1 DEF sesRequests, SesRequestOf
  <1>3. sesRequests[v] = SesRequestOf(sesCalls[v])
    BY DEF sesRequests
  <1>4. CASE c.pc = "idle" \/ SesRequestOf(c) = SesRequestOf(sesCalls[v])
    <2>1. \A w \in SesCalls : \/ SesRequestOf(sesCalls'[w]) = SesRequestOf(sesCalls[w])
                              \/ sesCalls'[w].pc = "idle"
      BY <1>1, <1>4 DEF SesRequestOf
    <2>2. QED
      BY <2>1, SessionsChange
  <1>5. ASSUME NEW stage \in {"asked", "seen", "let in"}, NEW t \in Tokens,
               SesRequestOf(c) = SesAdmission!Request(stage, t),
               \/ stage = "asked"
                  /\ (sesRequests[v] = SesAdmission!NotAsked \/ \E s \in Tokens : SesAdmission!At(v, "let in", s))
               \/ stage = "seen" /\ SesAdmission!At(v, "asked", t) /\ t \in sesStanding
               \/ stage = "asked" /\ SesAdmission!At(v, "seen", t)
               \/ stage = "let in" /\ SesAdmission!At(v, "seen", t) /\ t \notin sesRevoked
        PROVE  SesAdmission!Next
    <2>1. SesAdmission!Goes(v, stage, t)
      BY <1>2, <1>5 DEF SesAdmission!Goes, sesRequests
    <2>2. \/ SesAdmission!Ask(v, t) \/ SesAdmission!See(v, t)
          \/ SesAdmission!AskAgain(v, t) \/ SesAdmission!LetIn(v, t)
      BY <1>5, <2>1
         DEF SesAdmission!Ask, SesAdmission!See, SesAdmission!AskAgain, SesAdmission!LetIn, sesRequests,
             sesStanding
    <2>3. UNCHANGED <<sesStanding, sesRevoked>>
      BY DEF sesStanding, SesActive
    <2>4. QED
      BY <1>1, <2>2, <2>3 DEF SesAdmission!Next, sesStanding
  <1>6. CASE sesCalls[v].pc \in {"idle", "accepted"} /\ c.pc = "read"
    <2>1. SesRequestOf(c) = SesAdmission!Request("asked", c.token)
      BY <1>6 DEF SesRequestOf, SesStage, SesAdmission!Request
    <2>2. sesRequests[v] = SesAdmission!NotAsked \/ SesAdmission!At(v, "let in", TokenOf(v))
      BY <1>1, <1>3, <1>6
         DEF SesRequestOf, SesStage, SesAdmission!Request, SesAdmission!NotAsked, SesAdmission!At, sesRequests
    <2>3. QED
      BY <1>1, <1>5, <2>1, <2>2
  <1>7. CASE /\ c.token = TokenOf(v) /\ c.pc \in {"answer", "fill"} /\ SesActive(TokenOf(v))
             /\ SesRequestOf(sesCalls[v]) = SesAdmission!Request("asked", TokenOf(v))
    <2>1. SesRequestOf(c) = SesAdmission!Request("seen", TokenOf(v))
      BY <1>7 DEF SesRequestOf, SesStage, SesAdmission!Request
    <2>2. SesAdmission!At(v, "asked", TokenOf(v)) /\ TokenOf(v) \in sesStanding
      BY <1>1, <1>3, <1>7 DEF SesAdmission!At, sesRequests, sesStanding
    <2>3. QED
      BY <1>1, <1>5, <2>1, <2>2
  <1>8. CASE /\ c.token = TokenOf(v) /\ sesCalls[v].pc \in {"answer", "fill"}
             /\ c.pc = "read" \/ (c.pc = "accepted" /\ TokenOf(v) \notin sesRevoked)
    <2>1. SesAdmission!At(v, "seen", TokenOf(v))
      BY <1>1, <1>3, <1>8 DEF SesRequestOf, SesStage, SesAdmission!Request, SesAdmission!At, sesRequests
    <2>2. \/ SesRequestOf(c) = SesAdmission!Request("asked", TokenOf(v))
          \/ SesRequestOf(c) = SesAdmission!Request("let in", TokenOf(v)) /\ TokenOf(v) \notin sesRevoked
      BY <1>8 DEF SesRequestOf, SesStage, SesAdmission!Request
    <2>3. QED
      BY <1>1, <1>5, <2>1, <2>2
  <1> QED
    BY <1>4, <1>6, <1>7, <1>8

(* An invalidation leaves the stages of all validations alone.             *)
LEMMA TokensKeep ==
  ASSUME NEW calls \in [SesCalls -> SesCall], NEW T
  PROVE  \A w \in SesCalls : /\ SesInvalidated(calls, T)[w].pc = calls[w].pc
                             /\ SesInvalidated(calls, T)[w].token = calls[w].token
  BY DEF SesInvalidated, SesCall

(* Every step of a validation is one of SecretAdmission.                   *)
LEMMA SessionValidationIsSeen ==
  ASSUME SesInv, SesInv', NEW v \in SesCalls,
         \/ \E t \in Tokens : SesRequest(v, t)
         \/ SesReads(v) \/ SesEvicts(v) \/ SesCachedChecks(v)
         \/ SesAnswers(v) \/ SesLoads(v) \/ SesRechecks(v) \/ SesFills(v)
  PROVE  SesAdmission!Next
  <1>1. /\ sesCalls \in [SesCalls -> SesCall] /\ sesCalls[v] \in SesCall /\ TokenOf(v) = sesCalls[v].token
        /\ TokenOf(v) \in Tokens /\ sesCalls[v].try \in 1 .. 3
    BY DEF SesInv, SesTypeOK, TokenOf, SesCall
  <1>2. UNCHANGED <<sesRow, sesExpired, sesRevoked>>
    BY DEF SesRequest, SesReads, SesEvicts, SesCachedChecks, SesAnswers, SesLoads, SesRechecks, SesFills
  <1>3. \A t \in Tokens, pc \in SesPcs : /\ SesSettled(pc, t) \in SesCall /\ SesSettled(pc, t).pc = pc
                                         /\ SesSettled(pc, t).token = t
    BY DEF SesSettled, SesCall
  <1>4. ASSUME NEW c \in SesCall,
               \/ sesCalls' = [sesCalls EXCEPT ![v] = c]
               \/ sesCalls' = SesEntryGone([sesCalls EXCEPT ![v] = c], TokenOf(v))
        PROVE  \A w \in SesCalls : /\ sesCalls'[w].pc = [sesCalls EXCEPT ![v] = c][w].pc
                                   /\ sesCalls'[w].token = [sesCalls EXCEPT ![v] = c][w].token
    <2> DEFINE calls == [sesCalls EXCEPT ![v] = c]
    <2>1. calls \in [SesCalls -> SesCall]
      BY <1>1
    <2>2. sesCalls' = calls \/ sesCalls' = SesEntryGone(calls, TokenOf(v))
      BY <1>4
    <2> HIDE DEF calls
    <2>3. \A w \in SesCalls : sesCalls'[w].pc = calls[w].pc /\ sesCalls'[w].token = calls[w].token
      BY <2>1, <2>2, OthersKeep
    <2>4. QED
      BY <2>3 DEF calls
  <1>5. ASSUME SesRetries(v) \/ sesCalls' = SesRefused(v),
               sesCalls' = SesRefused(v) \/ sesCalls[v].pc \in {"answer", "fill"}
        PROVE  SesAdmission!Next
    <2>1. CASE sesCalls' = SesRefused(v)
      BY <1>2, <1>3, <1>4, <2>1, AnyTokenIsToken, SessionGoesOn DEF SesRefused, SesPcs
    <2>2. CASE sesCalls' # SesRefused(v)
      <3> DEFINE c == [SesSettled("read", TokenOf(v)) EXCEPT !.try = sesCalls[v].try + 1]
      <3>1. sesCalls' = [sesCalls EXCEPT ![v] = c] /\ sesCalls[v].try + 1 \in 1 .. 3
        BY <1>1, <1>5, <2>2 DEF SesRetries
      <3>2. c \in SesCall /\ c.pc = "read" /\ c.token = TokenOf(v)
        BY <1>1, <1>3, <3>1 DEF SesCall, SesPcs
      <3> HIDE DEF c
      <3>3. sesCalls[v].pc \in {"answer", "fill"}
        BY <1>5, <2>2
      <3>4. QED
        BY <1>2, <1>4, <3>1, <3>2, <3>3, SessionGoesOn
    <2>3. QED
      BY <2>1, <2>2
  <1>6. ASSUME NEW pc \in SesPcs, sesCalls' = SesGoes(v, pc),
               \/ SesStage(pc) = SesStage(sesCalls[v].pc) /\ pc # "idle" /\ sesCalls[v].pc # "idle"
               \/ /\ sesCalls[v].pc \notin {"idle", "accepted", "answer", "fill"}
                  /\ pc \in {"answer", "fill"} /\ SesActive(TokenOf(v))
        PROVE  SesAdmission!Next
    <2> DEFINE c == [sesCalls[v] EXCEPT !.pc = pc]
    <2>1. c \in SesCall /\ c.pc = pc /\ c.token = TokenOf(v) /\ sesCalls' = [sesCalls EXCEPT ![v] = c]
      BY <1>1, <1>6 DEF SesCall, SesGoes
    <2> HIDE DEF c
    <2>2. \/ SesRequestOf(c) = SesRequestOf(sesCalls[v])
          \/ /\ SesRequestOf(sesCalls[v]) = SesAdmission!Request("asked", TokenOf(v))
             /\ c.pc \in {"answer", "fill"} /\ SesActive(TokenOf(v))
      BY <1>1, <1>6, <2>1 DEF SesRequestOf, SesStage, SesAdmission!Request
    <2>3. QED
      BY <1>2, <1>4, <2>1, <2>2, SessionGoesOn
  <1>7. ASSUME NEW t \in Tokens, SesRequest(v, t)
        PROVE  SesAdmission!Next
    BY <1>2, <1>3, <1>4, <1>7, SessionGoesOn DEF SesRequest, SesPcs
  <1>8. CASE SesReads(v)
    <2> DEFINE pc == CASE sesCache[TokenOf(v)] = "none" -> "load"
                       [] sesCache[TokenOf(v)] = "old" -> "evict"
                       [] OTHER -> IF TokenOf(v) \in sesExpired THEN "evict" ELSE "cached"
               same == pc = "evict"
               c == [sesCalls[v] EXCEPT !.pc = pc, !.current = TRUE, !.same = same]
    <2>1. pc \in {"load", "evict", "cached"} /\ same \in BOOLEAN
      OBVIOUS
    <2>2. sesCalls' = [sesCalls EXCEPT ![v] = c] /\ sesCalls[v].pc = "read"
      BY <1>8 DEF SesReads
    <2> HIDE DEF pc, same
    <2>3. c \in SesCall /\ c.pc = pc /\ c.token = sesCalls[v].token
      BY <1>1, <2>1 DEF SesCall, SesPcs
    <2> HIDE DEF c
    <2>4. SesRequestOf(c) = SesRequestOf(sesCalls[v])
      BY <2>1, <2>2, <2>3 DEF SesRequestOf, SesStage
    <2>5. QED
      BY <1>2, <1>4, <2>2, <2>3, <2>4, SessionGoesOn
  <1>9. CASE SesEvicts(v)
    <2> DEFINE c == [sesCalls[v] EXCEPT !.pc = "load"]
    <2>1. c \in SesCall /\ c.pc = "load" /\ c.token = sesCalls[v].token /\ SesGoes(v, "load") = [sesCalls EXCEPT ![v] = c]
      BY <1>1 DEF SesCall, SesPcs, SesGoes
    <2> HIDE DEF c
    <2>2. SesRequestOf(c) = SesRequestOf(sesCalls[v])
      BY <1>9, <2>1 DEF SesEvicts, SesRequestOf, SesStage
    <2>3. \/ sesCalls' = [sesCalls EXCEPT ![v] = c]
          \/ sesCalls' = SesEntryGone([sesCalls EXCEPT ![v] = c], TokenOf(v))
      BY <1>9, <2>1 DEF SesEvicts
    <2>4. QED
      BY <1>2, <1>4, <2>1, <2>2, <2>3, SessionGoesOn
  <1>10. CASE SesCachedChecks(v)
    BY <1>6, <1>10 DEF SesCachedChecks, SesStage, SesPcs
  <1>11. CASE SesAnswers(v) \/ SesFills(v)
    <2>1. sesCalls[v].pc \in {"answer", "fill"}
      BY <1>11 DEF SesAnswers, SesFills
    <2>2. CASE sesCalls[v].current
      <3> DEFINE c == SesSettled("accepted", TokenOf(v))
      <3>1. c \in SesCall /\ c.pc = "accepted" /\ c.token = TokenOf(v)
        BY <1>1, <1>3 DEF SesPcs
      <3>2. TokenOf(v) \notin sesRevoked
        BY <1>1, <2>1, <2>2 DEF SesInv, TrustedTokensStand, SesTrusting
      <3>3. \/ sesCalls' = [sesCalls EXCEPT ![v] = c]
            \/ sesCalls' = SesEntryGone([sesCalls EXCEPT ![v] = c], TokenOf(v))
        BY <1>11, <2>2 DEF SesAnswers, SesFills, SesAccepted
      <3> HIDE DEF c
      <3>4. QED
        BY <1>2, <1>4, <2>1, <3>1, <3>2, <3>3, SessionGoesOn
    <2>3. CASE ~sesCalls[v].current
      BY <1>5, <1>11, <2>1, <2>3 DEF SesAnswers, SesFills
    <2>4. QED
      BY <2>2, <2>3
  <1>12. CASE SesLoads(v) \/ SesRechecks(v)
    <2>1. CASE sesCalls' = SesRefused(v)
      BY <1>5, <2>1
    <2>2. CASE sesCalls' # SesRefused(v)
      BY <1>6, <1>12, <2>2 DEF SesLoads, SesRechecks, SesStage, SesPcs
    <2>3. QED
      BY <2>1, <2>2
  <1> QED
    BY <1>7, <1>8, <1>9, <1>10, <1>11, <1>12

(* Every other step, of a route, the command line or the clock, is a       *)
(* change of SecretAdmission; some turn the request they are made with away. *)
LEMMA SessionAdministrationIsSeen ==
  ASSUME SesInv, SesInv',
         \/ \E v \in SesCalls : SesDrops(v)
         \/ \E a \in SesAdmins : \/ LoginChecks(a) \/ LoginPurges(a) \/ LogoutReturns(a)
                                 \/ RefreshChecks(a) \/ RefreshExtends(a) \/ ChangeReturns(a)
                                 \/ \E t \in Tokens : LoginInserts(a, t) \/ LogoutRevokes(a, t) \/ RefreshForgets(a, t)
                                 \/ \E v \in SesCalls : ChangeCommits(a, v)
         \/ PasswordResetElsewhere \/ LockLapses
         \/ \E t \in Tokens : SessionLapses(t) \/ SesEntryAges(t)
         \/ UNCHANGED sesVars
  PROVE  SesAdmission!Next
  <1>1. sesCalls \in [SesCalls -> SesCall]
    BY DEF SesInv, SesTypeOK
  <1>2. \A v \in SesCalls : SesRefused(v) \in [SesCalls -> SesCall]
        /\ \A w \in SesCalls : SesRefused(v)[w] = sesCalls[w] \/ SesRefused(v)[w].pc = "idle"
    BY <1>1, AnyTokenIsToken, SesSettledType DEF SesRefused, SesPcs
  <1>3. ASSUME NEW T, NEW row, NEW calls \in [SesCalls -> SesCall], SesForgets(T, row, calls),
               \A w \in SesCalls : calls[w] = sesCalls[w] \/ calls[w].pc = "idle"
        PROVE  SesAdmission!Next
    <2>1. \A w \in SesCalls : sesCalls'[w].pc = calls[w].pc /\ sesCalls'[w].token = calls[w].token
      BY <1>3, TokensKeep DEF SesForgets
    <2>2. \A w \in SesCalls : SesRequestOf(sesCalls'[w]) = SesRequestOf(sesCalls[w]) \/ sesCalls'[w].pc = "idle"
      BY <1>3, <2>1 DEF SesRequestOf
    <2>3. QED
      BY <1>3, <2>2, SessionsChange DEF SesForgets
  <1>4. ASSUME NEW v \in SesCalls, SesDrops(v)
        PROVE  SesAdmission!Next
    BY <1>2, <1>3, <1>4 DEF SesDrops
  <1>5. ASSUME NEW a \in SesAdmins, NEW t \in Tokens, LogoutReturns(a) \/ ChangeReturns(a) \/ RefreshForgets(a, t)
        PROVE  SesAdmission!Next
    BY <1>1, <1>3, <1>5 DEF LogoutReturns, ChangeReturns, RefreshForgets
  <1>6. ASSUME NEW a \in SesAdmins, NEW v \in SesCalls, ChangeCommits(a, v)
        PROVE  SesAdmission!Next
    <2>1. \A w \in SesCalls : SesRequestOf(sesCalls'[w]) = SesRequestOf(sesCalls[w]) \/ sesCalls'[w].pc = "idle"
      BY <1>2, <1>6 DEF ChangeCommits
    <2>2. QED
      BY <1>6, <2>1, SessionsChange DEF ChangeCommits
  <1>7. CASE UNCHANGED <<sesCalls, sesRevoked>>
    BY <1>7, SessionsChange
  <1>8. \/ UNCHANGED <<sesCalls, sesRevoked>> \/ \E v \in SesCalls : SesDrops(v)
        \/ \E a \in SesAdmins, t \in Tokens : LogoutReturns(a) \/ ChangeReturns(a) \/ RefreshForgets(a, t)
        \/ \E a \in SesAdmins, v \in SesCalls : ChangeCommits(a, v)
    BY AnyTokenIsToken
       DEF LoginChecks, LoginPurges, RefreshChecks, RefreshExtends, LoginInserts, LogoutRevokes,
           PasswordResetElsewhere, LockLapses, SessionLapses, SesEntryAges, sesVars
  <1> QED
    BY <1>4, <1>5, <1>6, <1>7, <1>8

(* Whatever the cache does, a request is let in only with a session that   *)
(* was live and within its time at some moment of its last try, and that   *)
(* no returned call had ended: the validations with their cache implement  *)
(* SecretAdmission.                                                        *)
THEOREM SessionsAreAdmitted == SesSpec => SessionsAdmit
  <1>1. SesInit => SesAdmission!Init
    BY DEF SesInit, SesAdmission!Init, SesSettled, SesRequestOf, SesAdmission!NotAsked, SesActive
  <1>2. SesInv /\ SesInv' /\ [SesNext]_sesVars => [SesAdmission!Next]_(SesAdmission!vars)
    BY SessionValidationIsSeen, SessionAdministrationIsSeen DEF SesNext
  <1>3. QED
    BY <1>1, <1>2, SessionsInvariant, PTL DEF SesSpec, SessionsAdmit, SesAdmission!Spec

=============================================================================
