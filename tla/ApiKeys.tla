------------------------------ MODULE ApiKeys ------------------------------
(***************************************************************************)
(* API keys of the server and the cache of their validations               *)
(* (server/store_api_keys.py).  A validation never holds the cache's lock  *)
(* while it hashes or reads the database; instead it notes the generation  *)
(* of the cache, which every invalidation increases, and only answers or   *)
(* refills the cache when the generation has not moved.  "current" below   *)
(* is that comparison: it says whether the generation is still the one the *)
(* validation noted.  A key, its row and its plaintext are one value.      *)
(***************************************************************************)
EXTENDS Naturals

CONSTANTS Keys,       \* the API keys there may ever be
          KeyCalls,   \* requests that carry an API key
          KeyAdmins   \* administrator calls that change keys

ASSUME KeysAssumption == Keys # {}

VARIABLES keyRow,     \* the row of a key in api_keys
          keyExpired, \* the keys whose expires_at has passed
          keyCache,   \* _api_key_cache: no entry, one within its TTL, one beyond
          keyCalls,   \* the validations
          keyOps,     \* the changes that have committed and not yet invalidated
          keyRevoked  \* history: keys that were off when their change returned

keyVars == <<keyRow, keyExpired, keyCache, keyCalls, keyOps, keyRevoked>>

KeyTries == 3

KeyRows == {"none", "active", "disabled", "deleted"}
KeyEntries == {"none", "fresh", "old"}
KeyPcs == {"idle", "read", "evict", "cached", "drop", "answer", "load", "recheck", "fill",
           "accepted"}

KeyCall == [pc : KeyPcs, key : Keys, try : 1..KeyTries,
            lapsed : BOOLEAN,    \* expired by the clock of this try
            current : BOOLEAN,   \* the generation has not moved since it was read
            same : BOOLEAN]      \* the entry it read has not been replaced

NoKeyOp == [pc |-> "idle"]
KeyOp == {NoKeyOp} \cup [pc : {"invalidate"}, key : Keys]

KeySettled(pc, k) ==
  [pc |-> pc, key |-> k, try |-> 1, lapsed |-> FALSE, current |-> FALSE, same |-> FALSE]
AnyKey == CHOOSE k \in Keys : TRUE

KeyInit == /\ keyRow = [k \in Keys |-> "none"]
           /\ keyExpired = {}
           /\ keyCache = [k \in Keys |-> "none"]
           /\ keyCalls = [v \in KeyCalls |-> KeySettled("idle", AnyKey)]
           /\ keyOps = [a \in KeyAdmins |-> NoKeyOp]
           /\ keyRevoked = {}

KeyOf(v) == keyCalls[v].key
KeyGoes(v, pc) == [keyCalls EXCEPT ![v].pc = pc]
KeyAccepted(v) == [keyCalls EXCEPT ![v] = KeySettled("accepted", KeyOf(v))]
KeyRefused(v) == [keyCalls EXCEPT ![v] = KeySettled("idle", AnyKey)]

KeyInvalidated(calls) == [w \in KeyCalls |-> [calls[w] EXCEPT !.current = FALSE]]
KeyReplaced(calls, k) ==
  [w \in KeyCalls |-> IF calls[w].key = k THEN [calls[w] EXCEPT !.same = FALSE] ELSE calls[w]]
KeyDropped(calls, k) == KeyInvalidated(KeyReplaced(calls, k))

-----------------------------------------------------------------------------
(* Validation *)

KeyRequest(v, k) ==
  /\ keyCalls[v].pc \in {"idle", "accepted"}
  /\ keyCalls' = [keyCalls EXCEPT ![v] = KeySettled("read", k)]
  /\ UNCHANGED <<keyRow, keyExpired, keyCache, keyOps, keyRevoked>>

KeyReads(v) ==
  /\ keyCalls[v].pc = "read"
  /\ LET entry == keyCache[KeyOf(v)] IN
     keyCalls' = [keyCalls EXCEPT ![v] =
       [@ EXCEPT !.current = TRUE, !.same = (entry = "old"), !.lapsed = KeyOf(v) \in keyExpired,
                 !.pc = CASE entry = "none" -> "load"
                          [] entry = "old" -> "evict"
                          [] entry = "fresh" -> "cached"]]
  /\ UNCHANGED <<keyRow, keyExpired, keyCache, keyOps, keyRevoked>>

KeyEvicts(v) ==
  /\ keyCalls[v].pc = "evict"
  /\ IF keyCalls[v].same
       THEN /\ keyCache' = [keyCache EXCEPT ![KeyOf(v)] = "none"]
            /\ keyCalls' = KeyReplaced(KeyGoes(v, "load"), KeyOf(v))
       ELSE keyCalls' = KeyGoes(v, "load") /\ UNCHANGED keyCache
  /\ UNCHANGED <<keyRow, keyExpired, keyOps, keyRevoked>>

(* A key without the scope of the route is refused, here and in KeyLoads. *)
KeyCachedChecks(v) ==
  /\ keyCalls[v].pc = "cached"
  /\ \/ keyCalls[v].lapsed /\ keyCalls' = KeyGoes(v, "drop")
     \/ ~keyCalls[v].lapsed /\ keyCalls' = KeyRefused(v)
     \/ /\ ~keyCalls[v].lapsed
        /\ keyCalls' = KeyGoes(v, IF keyRow[KeyOf(v)] = "active" THEN "answer" ELSE "drop")
  /\ UNCHANGED <<keyRow, keyExpired, keyCache, keyOps, keyRevoked>>

KeyDrops(v) ==
  /\ keyCalls[v].pc = "drop"
  /\ keyCache' = [keyCache EXCEPT ![KeyOf(v)] = "none"]
  /\ keyCalls' = KeyDropped(KeyRefused(v), KeyOf(v))
  /\ UNCHANGED <<keyRow, keyExpired, keyOps, keyRevoked>>

KeyRetries(v) ==
  keyCalls' = IF keyCalls[v].try = KeyTries THEN KeyRefused(v)
              ELSE [keyCalls EXCEPT ![v] = [KeySettled("read", KeyOf(v)) EXCEPT !.try = keyCalls[v].try + 1]]

KeyAnswers(v) ==
  /\ keyCalls[v].pc = "answer"
  /\ IF keyCalls[v].current THEN keyCalls' = KeyAccepted(v) ELSE KeyRetries(v)
  /\ UNCHANGED <<keyRow, keyExpired, keyCache, keyOps, keyRevoked>>

KeyLoads(v) ==
  /\ keyCalls[v].pc = "load"
  /\ \/ keyCalls' = KeyRefused(v)
     \/ /\ keyRow[KeyOf(v)] = "active" /\ ~keyCalls[v].lapsed
        /\ keyCalls' = KeyGoes(v, "recheck")
  /\ UNCHANGED <<keyRow, keyExpired, keyCache, keyOps, keyRevoked>>

KeyRechecks(v) ==
  /\ keyCalls[v].pc = "recheck"
  /\ keyCalls' = IF keyRow[KeyOf(v)] = "active" THEN KeyGoes(v, "fill") ELSE KeyRefused(v)
  /\ UNCHANGED <<keyRow, keyExpired, keyCache, keyOps, keyRevoked>>

(* A faulty variant: the generation is not looked at again. *)
KeyFillsAnyway(v) ==
  /\ keyCalls[v].pc = "fill"
  /\ keyCache' = [keyCache EXCEPT ![KeyOf(v)] = "fresh"]
  /\ keyCalls' = KeyReplaced(KeyAccepted(v), KeyOf(v))
  /\ UNCHANGED <<keyRow, keyExpired, keyOps, keyRevoked>>

KeyFills(v) ==
  /\ keyCalls[v].pc = "fill"
  /\ IF keyCalls[v].current
       THEN /\ keyCache' = [keyCache EXCEPT ![KeyOf(v)] = "fresh"]
            /\ keyCalls' = KeyReplaced(KeyAccepted(v), KeyOf(v))
       ELSE KeyRetries(v) /\ UNCHANGED keyCache
  /\ UNCHANGED <<keyRow, keyExpired, keyOps, keyRevoked>>

-----------------------------------------------------------------------------
(* Administration: the change commits first, the invalidation follows *)

KeyCommits(a, k) == /\ keyOps[a] = NoKeyOp
                    /\ keyOps' = [keyOps EXCEPT ![a] = [pc |-> "invalidate", key |-> k]]
                    /\ UNCHANGED <<keyExpired, keyCache, keyCalls>>

KeyCreated(k) ==
  /\ keyRow[k] = "none"
  /\ keyRow' = [keyRow EXCEPT ![k] = "active"]
  /\ UNCHANGED <<keyExpired, keyCache, keyCalls, keyOps, keyRevoked>>

KeyExists(k) == keyRow[k] \in {"active", "disabled"}

KeyStatusSet(k, on) ==
  /\ KeyExists(k)
  /\ keyRow' = [keyRow EXCEPT ![k] = IF on THEN "active" ELSE "disabled"]
  /\ keyRevoked' = IF on THEN keyRevoked \ {k} ELSE keyRevoked

KeyDeleted(k) ==
  /\ keyRow' = [keyRow EXCEPT ![k] = IF KeyExists(k) THEN "deleted" ELSE @]
  /\ UNCHANGED keyRevoked

KeyRotated(k) ==
  /\ keyRow[k] = "active"
  /\ \E r \in Keys : /\ keyRow[r] = "none"
                     /\ keyRow' = [keyRow EXCEPT ![r] = "active", ![k] = "disabled"]
  /\ UNCHANGED keyRevoked

UpdateKeyStatus(a, k) == KeyCommits(a, k) /\ \E on \in BOOLEAN : KeyStatusSet(k, on)
DeleteKey(a, k) == KeyCommits(a, k) /\ keyRow[k] # "none" /\ KeyDeleted(k)
RotateKey(a, k) == KeyCommits(a, k) /\ KeyRotated(k)

KeyOpReturns(a) ==
  /\ keyOps[a].pc = "invalidate"
  /\ LET k == keyOps[a].key IN
       /\ keyCache' = [keyCache EXCEPT ![k] = "none"]
       /\ keyCalls' = KeyDropped(keyCalls, k)
       /\ keyRevoked' = IF keyRow[k] = "active" THEN keyRevoked ELSE keyRevoked \cup {k}
  /\ keyOps' = [keyOps EXCEPT ![a] = NoKeyOp]
  /\ UNCHANGED <<keyRow, keyExpired>>

(* Another process, or another store on the same database: no invalidation here. *)
KeyChangedElsewhere(k) ==
  /\ \/ \E on \in BOOLEAN : KeyStatusSet(k, on)
     \/ KeyDeleted(k)
     \/ KeyRotated(k)
  /\ UNCHANGED <<keyExpired, keyCache, keyCalls, keyOps>>

(* Time *)
KeyLapses(k) ==
  /\ KeyExists(k) /\ k \notin keyExpired
  /\ keyExpired' = keyExpired \cup {k}
  /\ UNCHANGED <<keyRow, keyCache, keyCalls, keyOps, keyRevoked>>

KeyEntryAges(k) ==
  /\ keyCache[k] = "fresh"
  /\ keyCache' = [keyCache EXCEPT ![k] = "old"]
  /\ UNCHANGED <<keyRow, keyExpired, keyCalls, keyOps, keyRevoked>>

KeyNext ==
  \/ \E v \in KeyCalls : \/ \E k \in Keys : KeyRequest(v, k)
                         \/ KeyReads(v) \/ KeyEvicts(v) \/ KeyCachedChecks(v) \/ KeyDrops(v)
                         \/ KeyAnswers(v) \/ KeyLoads(v) \/ KeyRechecks(v) \/ KeyFills(v)
  \/ \E a \in KeyAdmins : \/ \E k \in Keys : UpdateKeyStatus(a, k) \/ DeleteKey(a, k) \/ RotateKey(a, k)
                          \/ KeyOpReturns(a)
  \/ \E k \in Keys : KeyCreated(k) \/ KeyChangedElsewhere(k) \/ KeyLapses(k) \/ KeyEntryAges(k)

KeySpec == KeyInit /\ [][KeyNext]_keyVars

-----------------------------------------------------------------------------
KeyTypeOK == /\ keyRow \in [Keys -> KeyRows]
             /\ keyExpired \in SUBSET Keys
             /\ keyCache \in [Keys -> KeyEntries]
             /\ keyCalls \in [KeyCalls -> KeyCall]
             /\ keyOps \in [KeyAdmins -> KeyOp]
             /\ keyRevoked \in SUBSET Keys

(* The requests as SecretAdmission sees them: past a read of the row that    *)
(* found it active, or not yet.                                              *)
KeyStage(pc) == CASE pc = "accepted" -> "let in"
                  [] pc \in {"answer", "fill"} -> "seen"
                  [] OTHER -> "asked"
KeyRequestOf(c) == IF c.pc = "idle" THEN [stage |-> "none"]
                   ELSE [stage |-> KeyStage(c.pc), secret |-> c.key]

KeyAdmission ==
  INSTANCE SecretAdmission WITH Secrets <- Keys, Requests <- KeyCalls, ended <- keyRevoked,
    standing <- {k \in Keys : keyRow[k] = "active"},
    request <- [v \in KeyCalls |-> KeyRequestOf(keyCalls[v])]

(* A request is let in only with a key whose row was active at some moment   *)
(* of its last try, whoever turned the key off, and that no call of this     *)
(* process has turned off and returned: the cache is not seen.               *)
KeysAdmit == KeyAdmission!Spec

(* Once the call that disabled, deleted or rotated a key has returned, the   *)
(* cache has no entry of it, whatever validations were under way: none of    *)
(* them refills it (store_api_keys.py:107, "A validation that started before *)
(* revocation must not refill the cache after revocation").                  *)
RevokedKeysLeaveCache == \A k \in keyRevoked : keyCache[k] = "none"

(* No request is let in with a key whose revocation has returned, the        *)
(* requests that were half way through their validation included.            *)
KeyRevocationHolds ==
  [][\A v \in KeyCalls : keyCalls[v].pc # "accepted" /\ keyCalls'[v].pc = "accepted"
                           => keyCalls[v].key \notin keyRevoked]_keyVars
=============================================================================
