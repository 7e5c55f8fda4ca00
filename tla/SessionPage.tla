----------------------------- MODULE SessionPage -----------------------------
(***************************************************************************)
(* The administrator's session as the page keeps it                        *)
(* (web/src/composables/useAdminSession.ts, used by App.vue): the session  *)
(* token is a cookie the page cannot read; the page only knows that it is  *)
(* signed in and when to refresh.  Every request carries the cookie of the *)
(* moment it is sent, and answers arrive in any order or not at all.       *)
(***************************************************************************)
EXTENDS Naturals

CONSTANTS MaxSignIns,  \* bound on the sessions opened
          MaxStrays    \* bound on the timers whose handle was overwritten

ASSUME SignInAssumption == MaxSignIns \in Nat \ {0} /\ MaxStrays \in Nat

VARIABLES pgAuthed,   \* sessionActive
          pgTimer,    \* adminRefreshTimer is pending
          pgStrays,   \* pending timers that adminRefreshTimer no longer names
          pgLoading,  \* refreshAll waits for the public state
          pgRefresh, pgLogout, pgLogin, pgOther,  \* the page's requests
          pgCookie,   \* the token in the cookie, 0 for none
          pgLive,     \* the sessions the server accepts
          pgOpened,   \* sessions opened so far
          pgRestored, \* signed in by local storage, no refresh asked yet
          pgEnded     \* history: the last thing the user completed is a logout

pgRequests == <<pgRefresh, pgLogout, pgLogin, pgOther>>
pgServer == <<pgLive, pgOpened>>
pgVars == <<pgAuthed, pgTimer, pgStrays, pgLoading, pgRequests, pgCookie, pgServer, pgRestored, pgEnded>>

PgNone == [pc |-> "none", token |-> 0]
PgAsked == [pc |-> "asked", token |-> pgCookie]

(* The page is opened, with or without a session from an earlier visit.    *)
PgInit ==
  /\ pgAuthed \in BOOLEAN /\ pgRestored = pgAuthed
  /\ pgCookie \in {0, 1} /\ pgLive \in SUBSET {1} /\ pgOpened = 1
  /\ pgTimer = FALSE /\ pgStrays = 0 /\ pgLoading = TRUE /\ pgEnded = FALSE
  /\ pgRefresh = PgNone /\ pgLogout = PgNone /\ pgLogin = PgNone /\ pgOther = PgNone

LoggingOut == pgLogout.pc # "none"

(* saveAdminSession and clearAdminSession *)
PgSaved == pgAuthed' = TRUE /\ pgTimer' = TRUE /\ pgRestored' = FALSE
PgCleared == pgAuthed' = FALSE /\ pgTimer' = FALSE /\ pgRestored' = FALSE
PgUnchanged == UNCHANGED <<pgAuthed, pgTimer, pgRestored>>

-----------------------------------------------------------------------------
(* Refreshing: one request at a time, none during a logout *)

RefreshAsked ==
  IF LoggingOut \/ pgRefresh # PgNone
    THEN UNCHANGED <<pgRefresh, pgRestored>>
    ELSE pgRefresh' = PgAsked /\ pgRestored' = FALSE

PublicStateRead ==
  /\ pgLoading /\ pgLoading' = FALSE
  /\ RefreshAsked
  /\ UNCHANGED <<pgAuthed, pgTimer, pgStrays, pgLogout, pgLogin, pgOther, pgCookie, pgServer, pgEnded>>

PublicStateFails ==
  /\ pgLoading /\ pgLoading' = FALSE
  /\ PgUnchanged
  /\ UNCHANGED <<pgStrays, pgRequests, pgCookie, pgServer, pgEnded>>

RefreshClicked ==
  /\ ~pgLoading /\ pgLoading' = TRUE
  /\ PgUnchanged
  /\ UNCHANGED <<pgStrays, pgRequests, pgCookie, pgServer, pgEnded>>

PgTimerFires ==
  /\ pgTimer /\ pgTimer' = FALSE
  /\ RefreshAsked
  /\ UNCHANGED <<pgAuthed, pgStrays, pgLoading, pgLogout, pgLogin, pgOther, pgCookie, pgServer, pgEnded>>

StrayFires ==
  /\ pgStrays > 0 /\ pgStrays' = pgStrays - 1
  /\ RefreshAsked
  /\ UNCHANGED <<pgAuthed, pgTimer, pgLoading, pgLogout, pgLogin, pgOther, pgCookie, pgServer, pgEnded>>

(* An answer that arrives during a logout is left to the logout.           *)
RefreshAccepted ==
  /\ pgRefresh.pc = "accepted"
  /\ pgRefresh' = PgNone
  /\ pgCookie' = pgRefresh.token
  /\ IF LoggingOut THEN PgUnchanged ELSE PgSaved
  /\ UNCHANGED <<pgStrays, pgLoading, pgLogout, pgLogin, pgOther, pgServer, pgEnded>>

RefreshRefused ==
  /\ pgRefresh.pc = "refused"
  /\ pgRefresh' = PgNone
  /\ PgCleared
  /\ UNCHANGED <<pgStrays, pgLoading, pgLogout, pgLogin, pgOther, pgCookie, pgServer, pgEnded>>

(* A faulty variant: a refresh that failed is not tried again. *)
RefreshLostForGood ==
  /\ pgRefresh.pc \in {"asked", "accepted", "refused"}
  /\ pgRefresh' = PgNone
  /\ PgUnchanged
  /\ UNCHANGED <<pgStrays, pgLoading, pgLogout, pgLogin, pgOther, pgCookie, pgServer, pgEnded>>

(* The retry in 60 s forgets the handle of a timer that is still pending.  *)
RefreshLost ==
  /\ pgRefresh.pc \in {"asked", "accepted", "refused"}
  /\ pgRefresh' = PgNone
  /\ IF pgAuthed /\ ~LoggingOut
       THEN /\ pgTimer' = TRUE
            /\ pgStrays' = IF pgTimer /\ pgStrays < MaxStrays THEN pgStrays + 1 ELSE pgStrays
       ELSE UNCHANGED <<pgTimer, pgStrays>>
  /\ UNCHANGED <<pgAuthed, pgRestored, pgLoading, pgLogout, pgLogin, pgOther, pgCookie, pgServer, pgEnded>>

-----------------------------------------------------------------------------
(* Logout waits for a refresh under way, whose answer may set the cookie.  *)

LogoutClicked ==
  /\ pgAuthed /\ ~LoggingOut
  /\ pgLogout' = [pc |-> "waits", token |-> 0]
  /\ pgTimer' = FALSE
  /\ UNCHANGED <<pgAuthed, pgRestored, pgStrays, pgLoading, pgRefresh, pgLogin, pgOther, pgCookie, pgServer, pgEnded>>

(* A faulty variant: the logout does not wait for the refresh. *)
LogoutSentAtOnce ==
  /\ pgLogout.pc = "waits"
  /\ pgLogout' = PgAsked
  /\ PgUnchanged
  /\ UNCHANGED <<pgStrays, pgLoading, pgRefresh, pgLogin, pgOther, pgCookie, pgServer, pgEnded>>

LogoutSent ==
  /\ pgLogout.pc = "waits" /\ pgRefresh = PgNone
  /\ pgLogout' = PgAsked
  /\ PgUnchanged
  /\ UNCHANGED <<pgStrays, pgLoading, pgRefresh, pgLogin, pgOther, pgCookie, pgServer, pgEnded>>

LogoutAccepted ==
  /\ pgLogout.pc = "accepted"
  /\ pgLogout' = PgNone
  /\ pgCookie' = 0
  /\ PgCleared
  /\ pgEnded' = TRUE
  /\ UNCHANGED <<pgStrays, pgLoading, pgRefresh, pgLogin, pgOther, pgServer>>

LogoutLost ==
  /\ pgLogout.pc \in {"asked", "accepted"}
  /\ pgLogout' = PgNone
  /\ pgTimer' = pgAuthed
  /\ UNCHANGED <<pgAuthed, pgRestored, pgStrays, pgLoading, pgRefresh, pgLogin, pgOther, pgCookie, pgServer, pgEnded>>

-----------------------------------------------------------------------------
(* Login, and any other request of the page *)

LoginSubmitted ==
  /\ ~pgAuthed /\ pgLogin = PgNone
  /\ pgLogin' = PgAsked
  /\ PgUnchanged
  /\ UNCHANGED <<pgStrays, pgLoading, pgRefresh, pgLogout, pgOther, pgCookie, pgServer, pgEnded>>

(* A login is followed by a refreshAll. *)
LoginAccepted ==
  /\ pgLogin.pc = "accepted"
  /\ pgLogin' = PgNone
  /\ pgCookie' = pgLogin.token
  /\ PgSaved
  /\ pgLoading' = TRUE
  /\ pgEnded' = FALSE
  /\ UNCHANGED <<pgStrays, pgRefresh, pgLogout, pgOther, pgServer>>

LoginFails ==
  /\ pgLogin.pc \in {"asked", "accepted"}
  /\ pgLogin' = PgNone
  /\ PgUnchanged
  /\ UNCHANGED <<pgStrays, pgLoading, pgRefresh, pgLogout, pgOther, pgCookie, pgServer, pgEnded>>

OtherSent ==
  /\ pgAuthed /\ pgOther = PgNone
  /\ pgOther' = PgAsked
  /\ PgUnchanged
  /\ UNCHANGED <<pgStrays, pgLoading, pgRefresh, pgLogout, pgLogin, pgCookie, pgServer, pgEnded>>

OtherAnswered ==
  /\ pgOther.pc \in {"accepted", "refused"}
  /\ pgOther' = PgNone
  /\ IF pgOther.pc = "refused" THEN PgCleared ELSE PgUnchanged
  /\ UNCHANGED <<pgStrays, pgLoading, pgRefresh, pgLogout, pgLogin, pgCookie, pgServer, pgEnded>>

-----------------------------------------------------------------------------
(* The routes of the server, see AdminSessions *)

PgServed == UNCHANGED <<pgAuthed, pgTimer, pgRestored, pgStrays, pgLoading, pgCookie, pgEnded>>
Judged(request) == [request EXCEPT !.pc = IF request.token \in pgLive THEN "accepted" ELSE "refused"]

RefreshServed ==
  /\ pgRefresh.pc = "asked" /\ pgRefresh' = Judged(pgRefresh)
  /\ PgServed /\ UNCHANGED <<pgLogout, pgLogin, pgOther, pgServer>>

OtherServed ==
  /\ pgOther.pc = "asked" /\ pgOther' = Judged(pgOther)
  /\ PgServed /\ UNCHANGED <<pgRefresh, pgLogout, pgLogin, pgServer>>

LogoutServed ==
  /\ pgLogout.pc = "asked" /\ pgLogout' = [pgLogout EXCEPT !.pc = "accepted"]
  /\ pgLive' = pgLive \ {pgLogout.token}
  /\ PgServed /\ UNCHANGED <<pgRefresh, pgLogin, pgOther, pgOpened>>

LoginServed ==
  /\ pgLogin.pc = "asked" /\ pgOpened < MaxSignIns
  /\ pgOpened' = pgOpened + 1
  /\ pgLogin' = [pc |-> "accepted", token |-> pgOpened']
  /\ pgLive' = pgLive \cup {pgOpened'}
  /\ PgServed /\ UNCHANGED <<pgRefresh, pgLogout, pgOther>>

(* It expires, or is ended by another page or the command line. *)
ServerEndsSession ==
  /\ \E t \in pgLive : pgLive' = pgLive \ {t}
  /\ PgServed /\ UNCHANGED <<pgRequests, pgOpened>>

PgNext ==
  \/ PublicStateRead \/ PublicStateFails \/ RefreshClicked
  \/ PgTimerFires \/ StrayFires \/ RefreshAccepted \/ RefreshRefused \/ RefreshLost
  \/ LogoutClicked \/ LogoutSent \/ LogoutAccepted \/ LogoutLost
  \/ LoginSubmitted \/ LoginAccepted \/ LoginFails \/ OtherSent \/ OtherAnswered
  \/ RefreshServed \/ OtherServed \/ LogoutServed \/ LoginServed \/ ServerEndsSession

(* Timers fire and requests are answered; a refresh that is asked again and *)
(* again is answered in the end.                                            *)
PgFairness ==
  /\ WF_pgVars(PgTimerFires) /\ SF_pgVars(RefreshServed)
  /\ SF_pgVars(RefreshAccepted \/ RefreshRefused)
  /\ WF_pgVars(LogoutSent) /\ SF_pgVars(LogoutServed) /\ SF_pgVars(LogoutAccepted)

PgSpec == PgInit /\ [][PgNext]_pgVars /\ PgFairness

-----------------------------------------------------------------------------
(* After a logout that succeeded the page stays signed out and the browser *)
(* holds no session, whatever refresh was under way when it was clicked    *)
(* ("Logout waits for this response before revoking the cookie it issued", *)
(* useAdminSession.ts:112).                                                *)
LogoutIsFinal == pgEnded => ~pgAuthed /\ pgCookie \notin pgLive

(* A page that shows the administrator as signed in although the server    *)
(* ended the session finds out, unless it never came to its first refresh. *)
EndedSessionIsNoticed ==
  (pgAuthed /\ ~pgRestored /\ pgCookie \notin pgLive)
    ~> (~pgAuthed \/ pgCookie \in pgLive)

=============================================================================
