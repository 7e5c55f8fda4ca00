--------------------------- MODULE AdminSessions ---------------------------
(***************************************************************************)
(* Sessions of the administrator (server/store_auth.py, its routes in      *)
(* server/routers/admin_auth.py): login, validation with its cache,        *)
(* refresh, logout, change of the password and its reset from the command  *)
(* line, lock-out after failures.  There is one administrator (see         *)
(* RequestAdmission).  The cache works as the one of ApiKeys.  A token,    *)
(* its hash and its row are one value.                                     *)
(***************************************************************************)
EXTENDS Naturals

CONSTANTS Tokens, NoToken,
          MaxFailures, \* failed logins until the account is locked (5 in the code)
          SesCalls,   \* requests that carry a session token
          SesAdmins   \* calls that open, extend or end sessions

ASSUME SessionAssumption == /\ Tokens # {} /\ NoToken \notin Tokens
                            /\ MaxFailures \in Nat \ {0}

VARIABLES sesRow,      \* the row of a token in admin_sessions
          sesExpired,  \* tokens whose expires_at has passed
          sesCache,    \* _admin_session_cache: no entry, within its TTL, beyond it
          sesCalls,    \* validate_admin_session calls
          sesOps,      \* the calls of the routes between two of their steps
          sesFailures, \* failed_attempts of the administrator
          sesLocked,   \* locked_until lies ahead
          sesRevoked,  \* history: tokens revoked when a call invalidated them
          sesReplaced  \* history: tokens in the table at a change of the password
                       \* that was not made with them

sesVars == <<sesRow, sesExpired, sesCache, sesCalls, sesOps, sesFailures, sesLocked,
             sesRevoked, sesReplaced>>

SesTries == 3

SesPcs == {"idle", "read", "evict", "cached", "drop", "answer", "load", "recheck", "fill",
           "accepted"}
SesCall == [pc : SesPcs, token : Tokens, try : 1..SesTries, current : BOOLEAN, same : BOOLEAN]
NoSesOp == [pc |-> "idle", token |-> NoToken]
SesOp == {NoSesOp} \cup [pc : {"purge", "insert", "clear"}, token : {NoToken}]
                   \cup [pc : {"forget", "extend", "update"}, token : Tokens]

SesSettled(pc, t) == [pc |-> pc, token |-> t, try |-> 1, current |-> FALSE, same |-> FALSE]
AnyToken == CHOOSE t \in Tokens : TRUE

SesInit == /\ sesRow = [t \in Tokens |-> "none"]
           /\ sesExpired = {}
           /\ sesCache = [t \in Tokens |-> "none"]
           /\ sesCalls = [v \in SesCalls |-> SesSettled("idle", AnyToken)]
           /\ sesOps = [a \in SesAdmins |-> NoSesOp]
           /\ sesFailures = 0 /\ sesLocked = FALSE
           /\ sesRevoked = {} /\ sesReplaced = {}

TokenOf(v) == sesCalls[v].token
SesGoes(v, pc) == [sesCalls EXCEPT ![v].pc = pc]
SesAccepted(v) == [sesCalls EXCEPT ![v] = SesSettled("accepted", TokenOf(v))]
SesRefused(v) == [sesCalls EXCEPT ![v] = SesSettled("idle", AnyToken)]
SesActive(t) == sesRow[t] = "live" /\ t \notin sesExpired

SesInvalidated(calls, T) ==
  [w \in SesCalls |-> [calls[w] EXCEPT !.current = FALSE, !.same = @ /\ calls[w].token \notin T]]
SesEntryGone(calls, t) ==
  [w \in SesCalls |-> [calls[w] EXCEPT !.same = @ /\ calls[w].token # t]]

(* _invalidate_admin_session_cache for the tokens T, seen from the sessions left by "row" *)
SesForgets(T, row, calls) ==
  /\ sesCache' = [t \in Tokens |-> IF t \in T THEN "none" ELSE sesCache[t]]
  /\ sesCalls' = SesInvalidated(calls, T)
  /\ sesRevoked' = sesRevoked \cup {t \in T : row[t] = "revoked"}

-----------------------------------------------------------------------------
(* Validation *)

SesRequest(v, t) ==
  /\ sesCalls[v].pc \in {"idle", "accepted"}
  /\ sesCalls' = [sesCalls EXCEPT ![v] = SesSettled("read", t)]
  /\ UNCHANGED <<sesRow, sesExpired, sesCache, sesOps, sesFailures, sesLocked, sesRevoked, sesReplaced>>

SesReads(v) ==
  /\ sesCalls[v].pc = "read"
  /\ LET pc == CASE sesCache[TokenOf(v)] = "none" -> "load"
                 [] sesCache[TokenOf(v)] = "old" -> "evict"
                 [] OTHER -> IF TokenOf(v) \in sesExpired THEN "evict" ELSE "cached" IN
     sesCalls' = [sesCalls EXCEPT ![v] = [@ EXCEPT !.pc = pc, !.current = TRUE, !.same = (pc = "evict")]]
  /\ UNCHANGED <<sesRow, sesExpired, sesCache, sesOps, sesFailures, sesLocked, sesRevoked, sesReplaced>>

SesEvicts(v) ==
  /\ sesCalls[v].pc = "evict"
  /\ IF sesCalls[v].same
       THEN /\ sesCache' = [sesCache EXCEPT ![TokenOf(v)] = "none"]
            /\ sesCalls' = SesEntryGone(SesGoes(v, "load"), TokenOf(v))
       ELSE sesCalls' = SesGoes(v, "load") /\ UNCHANGED sesCache
  /\ UNCHANGED <<sesRow, sesExpired, sesOps, sesFailures, sesLocked, sesRevoked, sesReplaced>>

SesCachedChecks(v) ==
  /\ sesCalls[v].pc = "cached"
  /\ sesCalls' = SesGoes(v, IF SesActive(TokenOf(v)) THEN "answer" ELSE "drop")
  /\ UNCHANGED <<sesRow, sesExpired, sesCache, sesOps, sesFailures, sesLocked, sesRevoked, sesReplaced>>

SesDrops(v) ==
  /\ sesCalls[v].pc = "drop"
  /\ SesForgets({TokenOf(v)}, sesRow, SesRefused(v))
  /\ UNCHANGED <<sesRow, sesExpired, sesOps, sesFailures, sesLocked, sesReplaced>>

SesRetries(v) ==
  sesCalls' = IF sesCalls[v].try = SesTries THEN SesRefused(v)
              ELSE [sesCalls EXCEPT ![v] = [SesSettled("read", TokenOf(v)) EXCEPT !.try = sesCalls[v].try + 1]]

(* A faulty variant: the generation is not looked at again. *)
SesAnswersAnyway(v) ==
  /\ sesCalls[v].pc = "answer"
  /\ sesCalls' = SesAccepted(v)
  /\ UNCHANGED <<sesRow, sesExpired, sesCache, sesOps, sesFailures, sesLocked, sesRevoked, sesReplaced>>

SesAnswers(v) ==
  /\ sesCalls[v].pc = "answer"
  /\ IF sesCalls[v].current THEN sesCalls' = SesAccepted(v) ELSE SesRetries(v)
  /\ UNCHANGED <<sesRow, sesExpired, sesCache, sesOps, sesFailures, sesLocked, sesRevoked, sesReplaced>>

(* The query asks for rows that are not revoked; the expiry is looked at by  *)
(* _require_active_admin_session, after the hash was verified.               *)
SesLoads(v) ==
  /\ sesCalls[v].pc = "load"
  /\ sesCalls' = IF sesRow[TokenOf(v)] = "live" THEN SesGoes(v, "recheck") ELSE SesRefused(v)
  /\ UNCHANGED <<sesRow, sesExpired, sesCache, sesOps, sesFailures, sesLocked, sesRevoked, sesReplaced>>

SesRechecks(v) ==
  /\ sesCalls[v].pc = "recheck"
  /\ sesCalls' = IF SesActive(TokenOf(v)) THEN SesGoes(v, "fill") ELSE SesRefused(v)
  /\ UNCHANGED <<sesRow, sesExpired, sesCache, sesOps, sesFailures, sesLocked, sesRevoked, sesReplaced>>

SesFills(v) ==
  /\ sesCalls[v].pc = "fill"
  /\ IF sesCalls[v].current
       THEN /\ sesCache' = [sesCache EXCEPT ![TokenOf(v)] = "fresh"]
            /\ sesCalls' = SesEntryGone(SesAccepted(v), TokenOf(v))
       ELSE SesRetries(v) /\ UNCHANGED sesCache
  /\ UNCHANGED <<sesRow, sesExpired, sesOps, sesFailures, sesLocked, sesRevoked, sesReplaced>>

-----------------------------------------------------------------------------
(* Login: the password is checked in one transaction, the session inserted   *)
(* in a later one, after a purge of the expired sessions that may fail.      *)

SesOpAt(a, pc) == sesOps[a].pc = pc
SesOpGoes(a, pc, t) == sesOps' = [sesOps EXCEPT ![a] = [pc |-> pc, token |-> t]]
SesOpEnds(a) == sesOps' = [sesOps EXCEPT ![a] = NoSesOp]

PasswordFails == /\ sesFailures' = (sesFailures + 1) % MaxFailures
                 /\ sesLocked' = (sesFailures + 1 = MaxFailures)
PasswordPasses == sesFailures' = 0 /\ sesLocked' = FALSE

LoginChecks(a) ==
  /\ SesOpAt(a, "idle") /\ ~sesLocked
  /\ \/ PasswordPasses /\ SesOpGoes(a, "purge", NoToken)
     \/ PasswordFails /\ UNCHANGED sesOps
  /\ UNCHANGED <<sesRow, sesExpired, sesCache, sesCalls, sesRevoked, sesReplaced>>

LoginPurges(a) ==
  /\ SesOpAt(a, "purge")
  /\ \/ sesRow' = [t \in Tokens |-> IF t \in sesExpired THEN "purged" ELSE sesRow[t]]
     \/ UNCHANGED sesRow
  /\ SesOpGoes(a, "insert", NoToken)
  /\ UNCHANGED <<sesExpired, sesCache, sesCalls, sesFailures, sesLocked, sesRevoked, sesReplaced>>

LoginInserts(a, t) ==
  /\ SesOpAt(a, "insert") /\ sesRow[t] = "none"
  /\ sesRow' = [sesRow EXCEPT ![t] = "live"]
  /\ SesOpEnds(a)
  /\ UNCHANGED <<sesExpired, sesCache, sesCalls, sesFailures, sesLocked, sesRevoked, sesReplaced>>

SesRevoke(T) == [t \in Tokens |-> IF t \in T /\ sesRow[t] = "live" THEN "revoked" ELSE sesRow[t]]

LogoutRevokes(a, t) ==
  /\ SesOpAt(a, "idle") /\ sesRow[t] # "none"
  /\ sesRow' = SesRevoke({t})
  /\ SesOpGoes(a, "forget", t)
  /\ UNCHANGED <<sesExpired, sesCache, sesCalls, sesFailures, sesLocked, sesRevoked, sesReplaced>>

LogoutReturns(a) ==
  /\ SesOpAt(a, "forget")
  /\ SesForgets({sesOps[a].token}, sesRow, sesCalls)
  /\ SesOpEnds(a)
  /\ UNCHANGED <<sesRow, sesExpired, sesFailures, sesLocked, sesReplaced>>

(* Refresh invalidates first and extends afterwards. *)
RefreshForgets(a, t) ==
  /\ SesOpAt(a, "idle") /\ sesRow[t] # "none"
  /\ SesForgets({t}, sesRow, sesCalls)
  /\ SesOpGoes(a, "extend", t)
  /\ UNCHANGED <<sesRow, sesExpired, sesFailures, sesLocked, sesReplaced>>

RefreshChecks(a) ==
  /\ SesOpAt(a, "extend")
  /\ IF SesActive(sesOps[a].token) THEN SesOpGoes(a, "update", sesOps[a].token) ELSE SesOpEnds(a)
  /\ UNCHANGED <<sesRow, sesExpired, sesCache, sesCalls, sesFailures, sesLocked, sesRevoked, sesReplaced>>

(* A faulty variant: the update writes the row it had read. *)
RefreshWritesBack(a) ==
  /\ SesOpAt(a, "update")
  /\ sesRow' = [sesRow EXCEPT ![sesOps[a].token] = "live"]
  /\ sesExpired' = sesExpired \ {sesOps[a].token}
  /\ SesOpEnds(a)
  /\ UNCHANGED <<sesCache, sesCalls, sesFailures, sesLocked, sesRevoked, sesReplaced>>

RefreshExtends(a) ==
  /\ SesOpAt(a, "update")
  /\ sesExpired' = IF sesRow[sesOps[a].token] = "purged" THEN sesExpired
                   ELSE sesExpired \ {sesOps[a].token}
  /\ SesOpEnds(a)
  /\ UNCHANGED <<sesRow, sesCache, sesCalls, sesFailures, sesLocked, sesRevoked, sesReplaced>>

(* The route of the change validates the caller's session first; the         *)
(* transaction keeps that session and revokes the others.                    *)
ChangeCommits(a, v) ==
  /\ SesOpAt(a, "idle") /\ sesCalls[v].pc = "accepted" /\ ~sesLocked
  /\ \/ /\ PasswordPasses
        /\ sesRow' = SesRevoke(Tokens \ {TokenOf(v)})
        /\ sesReplaced' = sesReplaced \cup {t \in Tokens \ {TokenOf(v)} : sesRow[t] # "none"}
        /\ SesOpGoes(a, "clear", NoToken)
     \/ PasswordFails /\ UNCHANGED <<sesRow, sesReplaced, sesOps>>
  /\ sesCalls' = SesRefused(v)
  /\ UNCHANGED <<sesExpired, sesCache, sesRevoked>>

ChangeReturns(a) ==
  /\ SesOpAt(a, "clear")
  /\ SesForgets(Tokens, sesRow, sesCalls)
  /\ SesOpEnds(a)
  /\ UNCHANGED <<sesRow, sesExpired, sesFailures, sesLocked, sesReplaced>>

(* The reset runs in the process of the command line: its invalidation is    *)
(* not seen here.                                                            *)
PasswordResetElsewhere ==
  /\ PasswordPasses
  /\ sesRow' = SesRevoke(Tokens)
  /\ sesReplaced' = sesReplaced \cup {t \in Tokens : sesRow[t] # "none"}
  /\ UNCHANGED <<sesExpired, sesCache, sesCalls, sesOps, sesRevoked>>

(* Time *)
LockLapses == /\ sesLocked /\ sesLocked' = FALSE
              /\ UNCHANGED <<sesRow, sesExpired, sesCache, sesCalls, sesOps, sesFailures, sesRevoked, sesReplaced>>
SessionLapses(t) == /\ sesRow[t] \notin {"none", "purged"} /\ t \notin sesExpired
                    /\ sesExpired' = sesExpired \cup {t}
                    /\ UNCHANGED <<sesRow, sesCache, sesCalls, sesOps, sesFailures, sesLocked, sesRevoked, sesReplaced>>
SesEntryAges(t) == /\ sesCache[t] = "fresh"
                   /\ sesCache' = [sesCache EXCEPT ![t] = "old"]
                   /\ UNCHANGED <<sesRow, sesExpired, sesCalls, sesOps, sesFailures, sesLocked, sesRevoked, sesReplaced>>

SesNext ==
  \/ \E v \in SesCalls : \/ \E t \in Tokens : SesRequest(v, t)
                         \/ SesReads(v) \/ SesEvicts(v) \/ SesCachedChecks(v) \/ SesDrops(v)
                         \/ SesAnswers(v) \/ SesLoads(v) \/ SesRechecks(v) \/ SesFills(v)
  \/ \E a \in SesAdmins : \/ LoginChecks(a) \/ LoginPurges(a) \/ LogoutReturns(a)
                          \/ RefreshChecks(a) \/ RefreshExtends(a) \/ ChangeReturns(a)
                          \/ \E t \in Tokens : LoginInserts(a, t) \/ LogoutRevokes(a, t) \/ RefreshForgets(a, t)
                          \/ \E v \in SesCalls : ChangeCommits(a, v)
  \/ PasswordResetElsewhere \/ LockLapses
  \/ \E t \in Tokens : SessionLapses(t) \/ SesEntryAges(t)

SesSpec == SesInit /\ [][SesNext]_sesVars

-----------------------------------------------------------------------------
SesTypeOK == /\ sesRow \in [Tokens -> {"none", "live", "revoked", "purged"}]
             /\ sesExpired \in SUBSET Tokens
             /\ sesCache \in [Tokens -> {"none", "fresh", "old"}]
             /\ sesCalls \in [SesCalls -> SesCall]
             /\ sesOps \in [SesAdmins -> SesOp]
             /\ sesFailures \in 0..(MaxFailures - 1) /\ sesLocked \in BOOLEAN
             /\ sesRevoked \in SUBSET Tokens /\ sesReplaced \in SUBSET Tokens

(* The requests as SecretAdmission sees them.                                *)
SesStage(pc) == CASE pc = "accepted" -> "let in"
                  [] pc \in {"answer", "fill"} -> "seen"
                  [] OTHER -> "asked"
SesRequestOf(c) == IF c.pc = "idle" THEN [stage |-> "none"]
                   ELSE [stage |-> SesStage(c.pc), secret |-> c.token]

SesAdmission ==
  INSTANCE SecretAdmission WITH Secrets <- Tokens, Requests <- SesCalls, ended <- sesRevoked,
    standing <- {t \in Tokens : SesActive(t)},
    request <- [v \in SesCalls |-> SesRequestOf(sesCalls[v])]

(* A request is let in only with a session that was live and had not expired *)
(* at some moment of its last try, whoever ended it, and that no call of     *)
(* this process has ended and returned: the cache is not seen.               *)
SessionsAdmit == SesAdmission!Spec

(* A token whose revocation has been followed by an invalidation is in the   *)
(* cache no more, whatever validations were hashing meanwhile                *)
(* (store_auth.py:431, "an older validation cannot refill the cache after    *)
(* logout has returned").                                                    *)
RevokedTokensLeaveCache == \A t \in sesRevoked : sesCache[t] = "none"

(* After a logout or a change of the password has returned no request is let *)
(* in with a session it ended, not even one that was being validated.        *)
SessionRevocationHolds ==
  [][\A v \in SesCalls : sesCalls[v].pc # "accepted" /\ sesCalls'[v].pc = "accepted"
                           => TokenOf(v) \notin sesRevoked]_sesVars

(* A session that was in the table when the password was changed or reset,   *)
(* other than the one the change was made with, never lives again: neither a *)
(* refresh between its check and its update nor a purge brings it back.      *)
ReplacedSessionsStayDead == \A t \in sesReplaced : sesRow[t] # "live"
=============================================================================
