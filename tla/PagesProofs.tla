----------------------------- MODULE PagesProofs -----------------------------
(***************************************************************************)
(* Proofs about the web pages, for any scenes, jobs and sessions:          *)
(* SceneControl, SessionPage and LoginPage.                                *)
(***************************************************************************)
EXTENDS SceneControl, SessionPage, LoginPage, TLAPS

-----------------------------------------------------------------------------
(* Scenes. *)

Fates == {"sent", "success", "failed", "unknown"}

ScTypeOK ==
  /\ scMemory \in [Scenes -> [outcome : {"none"} \cup Fates, busy : BOOLEAN]]
  /\ scCalls \in SUBSET [scene : Scenes, fate : Fates]
  /\ scRuns \in [Scenes -> {0, 1}]

(* A scene whose last result is neither known nor acknowledged shows it.   *)
OpenRunsBlock ==
  \A s \in Scenes : scRuns[s] = 1 => scMemory[s].busy \/ scMemory[s].outcome = "unknown"

ScInv == ScTypeOK /\ OpenRunsBlock

(* The dialog's actions and the answers keep it. *)
LEMMA SceneStep ==
  ASSUME ScInv, [ScNext]_scVars
  PROVE  ScInv'
  <1> USE DEF ScInv
  <1>1. CASE UNCHANGED scVars
    BY <1>1 DEF scVars, ScTypeOK, OpenRunsBlock
  <1>2. ASSUME NEW s \in Scenes, ExecuteScene(s)
        PROVE  ScInv'
    <2>1. scRuns[s] = 0
      BY <1>2 DEF ExecuteScene, CanExecute, ScTypeOK, OpenRunsBlock
    <2>2. ScTypeOK'
      <3>1. scMemory' \in [Scenes -> [outcome : {"none"} \cup Fates, busy : BOOLEAN]]
        BY <1>2 DEF ExecuteScene, ScTypeOK, Fates
      <3>2. scCalls' \in SUBSET [scene : Scenes, fate : Fates]
        BY <1>2 DEF ExecuteScene, Execution, ScTypeOK, Fates
      <3>3. scRuns' \in [Scenes -> {0, 1}]
        BY <1>2, <2>1 DEF ExecuteScene, ScTypeOK
      <3>4. QED
        BY <3>1, <3>2, <3>3 DEF ScTypeOK
    <2>3. OpenRunsBlock'
      BY <1>2 DEF ExecuteScene, ScTypeOK, OpenRunsBlock
    <2>4. QED
      BY <2>2, <2>3
  <1>3. ASSUME NEW s \in Scenes, AcknowledgeUnknown(s)
        PROVE  ScInv'
    BY <1>3 DEF AcknowledgeUnknown, ScTypeOK, OpenRunsBlock, Fates
  <1>4. ASSUME NEW c \in scCalls, NEW fate \in Fates, Recorded(c, fate), Settled(c, fate),
               scCalls' = scCalls \ {c}
        PROVE  ScInv'
    <2>1. c.scene \in Scenes
      BY DEF ScTypeOK
    <2>2. ScTypeOK'
      BY <1>4, <2>1 DEF Recorded, Settled, ScTypeOK
    <2>3. OpenRunsBlock'
      BY <1>4, <2>1 DEF Recorded, Settled, ScTypeOK, OpenRunsBlock
    <2>4. QED
      BY <2>2, <2>3
  <1>5. ASSUME NEW c \in scCalls, ExecutionReturns(c) \/ ExecutionLost(c)
        PROVE  ScInv'
    <2>1. c.fate \in Fates /\ "unknown" \in Fates
      BY DEF ScTypeOK, Fates
    <2>2. QED
      BY <1>4, <1>5, <2>1 DEF ExecutionReturns, ExecutionLost
  <1>6. ASSUME NEW c \in scCalls, ExecutionServed(c)
        PROVE  ScInv'
    BY <1>6 DEF ExecutionServed, ScTypeOK, OpenRunsBlock, Fates
  <1>7. CASE SceneSessionEnds
    BY <1>7 DEF SceneSessionEnds, Fresh, ScTypeOK, OpenRunsBlock
  <1>8. CASE CloseScene \/ ScenesChange \/ \E s \in Scenes : OpenScene(s)
    BY <1>8 DEF CloseScene, ScenesChange, OpenScene, ScTypeOK, OpenRunsBlock
  <1>9. QED
    BY <1>1, <1>2, <1>3, <1>5, <1>6, <1>7, <1>8 DEF ScNext

(* The scene page never sends a scene again while the last run of it is     *)
(* neither known nor acknowledged, for any scenes.                          *)
THEOREM ScenesRunOnce == ScSpec => []SceneRunsOnce
  <1>1. ScInit => ScInv
    BY DEF ScInit, Fresh, ScInv, ScTypeOK, OpenRunsBlock
  <1>2. ScInv => SceneRunsOnce
    BY DEF ScInv, ScTypeOK, SceneRunsOnce
  <1>3. QED
    BY <1>1, <1>2, SceneStep, PTL DEF ScSpec

-----------------------------------------------------------------------------
(* The administrator session. *)

(* No session has the number 0, which stands for no cookie.                *)
SessionsAreNumbered ==
  pgOpened \in Nat \ {0} /\ 0 \notin pgLive /\ (pgRefresh.pc = "accepted" => pgRefresh.token # 0)

(* A logout that was sent met no refresh under way, and none is sent until *)
(* it is over.                                                             *)
LogoutIsAlone == pgLogout.pc \in {"asked", "accepted"} => pgRefresh = PgNone

(* After it the browser has no cookie, and refreshes ask without one.      *)
EndedWithoutCookie ==
  pgEnded => ~pgAuthed /\ pgCookie = 0 /\ pgRefresh.token = 0

PgInv == SessionsAreNumbered /\ LogoutIsAlone /\ EndedWithoutCookie

(* Every step of the page, the network and the server keeps a logout alone  *)
(* and final.                                                               *)
LEMMA SessionStep ==
  ASSUME PgInv, [PgNext]_pgVars
  PROVE  PgInv'
  <1> USE DEF PgInv, SessionsAreNumbered, LogoutIsAlone, EndedWithoutCookie
  <1>1. CASE UNCHANGED pgVars
    BY <1>1 DEF pgVars, pgRequests, pgServer
  <1>2. CASE PublicStateRead \/ PublicStateFails \/ RefreshClicked \/ PgTimerFires \/ StrayFires
    BY <1>2 DEF PublicStateRead, PublicStateFails, RefreshClicked, PgTimerFires, StrayFires, RefreshAsked,
                LoggingOut, PgAsked, PgNone, PgUnchanged, pgRequests, pgServer
  <1>3. CASE RefreshAccepted
    BY <1>3 DEF RefreshAccepted, PgNone, PgSaved, PgUnchanged, pgServer
  <1>4. CASE RefreshRefused \/ RefreshLost
    BY <1>4 DEF RefreshRefused, RefreshLost, PgNone, PgCleared, pgServer
  <1>5. CASE LogoutClicked \/ LogoutSent \/ LogoutLost
    BY <1>5 DEF LogoutClicked, LogoutSent, LogoutLost, LoggingOut, PgAsked, PgNone, PgUnchanged, pgServer
  <1>6. CASE LogoutAccepted
    BY <1>6 DEF LogoutAccepted, PgNone, PgCleared, pgServer
  <1>7. CASE LoginSubmitted \/ LoginAccepted \/ LoginFails \/ OtherSent \/ OtherAnswered
    BY <1>7 DEF LoginSubmitted, LoginAccepted, LoginFails, OtherSent, OtherAnswered, PgSaved, PgCleared,
                PgUnchanged, pgServer
  <1>8. CASE RefreshServed
    BY <1>8 DEF RefreshServed, Judged, PgServed, PgNone, pgServer
  <1>9. CASE OtherServed \/ ServerEndsSession \/ LoginServed
    BY <1>9 DEF OtherServed, ServerEndsSession, LoginServed, PgServed, pgRequests, pgServer
  <1>10. CASE LogoutServed
    BY <1>10 DEF LogoutServed, PgServed, pgServer
  <1>11. QED
    BY <1>1, <1>2, <1>3, <1>4, <1>5, <1>6, <1>7, <1>8, <1>9, <1>10 DEF PgNext

(* After a logout that succeeded the page stays signed out and the browser  *)
(* holds no live session, whatever refresh was under way                    *)
(* (useAdminSession.ts).                                                    *)
THEOREM LogoutStaysFinal == PgSpec => []LogoutIsFinal
  <1>1. PgInit => PgInv
    BY DEF PgInit, PgNone, PgInv, SessionsAreNumbered, LogoutIsAlone, EndedWithoutCookie
  <1>2. PgInv => LogoutIsFinal
    BY DEF PgInv, SessionsAreNumbered, EndedWithoutCookie, LogoutIsFinal
  <1>3. QED
    BY <1>1, <1>2, SessionStep, PTL DEF PgSpec

-----------------------------------------------------------------------------
(* The QR login. *)

(* The job the page shows is the one the user started last. *)
ShownIsLatest == qrShown \in [id : {0, qrLatest}, status : {"none", "open"} \cup QrOver]

(* Every poll, click, answer and failure keeps the job shown the latest. *)
LEMMA LoginPageStep ==
  ASSUME ShownIsLatest, [QrNext]_qrVars
  PROVE  ShownIsLatest' /\ (qrTold' # qrTold => qrTold' = qrLatest)
  <1>1. ASSUME NEW j \in Logins, PollReturns(j)
        PROVE  ShownIsLatest' /\ (qrTold' # qrTold => qrTold' = qrLatest)
    <2>1. qrShown.id = j /\ j = qrLatest
      BY <1>1 DEF PollReturns, PollCurrent, ShownIsLatest, Logins
    <2>2. qrTold' \in {j, qrTold} /\ UNCHANGED qrLatest
      BY <1>1 DEF PollReturns
    <2>3. PICK status \in QrOver \cup {"none"} :
            qrShown' \in {NoneShown, qrShown, [qrShown EXCEPT !.status = status]}
      BY <1>1 DEF PollReturns
    <2>4. ShownIsLatest'
      BY <2>2, <2>3 DEF ShownIsLatest, NoneShown
    <2>5. QED
      BY <2>1, <2>2, <2>4
  <1>2. CASE QrStartReturns
    BY <1>2 DEF QrStartReturns, ShownIsLatest
  <1>3. CASE StartFails
    BY <1>3 DEF StartFails, ShownIsLatest, NoneShown
  <1>4. CASE RemoveReturns \/ AdminSignsOut
    BY <1>4 DEF RemoveReturns, AdminSignsOut, PageForgets, ShownIsLatest, NoneShown
  <1>5. CASE UNCHANGED <<qrShown, qrTold, qrLatest>>
    BY <1>5 DEF ShownIsLatest
  <1>6. QED
    BY <1>1, <1>2, <1>3, <1>4, <1>5
    DEF QrNext, qrVars, StartClicked, StartServed, QrTimerFires, PollClicked, PollServed, PollDropped,
        PollLost, RemoveClicked, RemoveServed, RemoveFails, JobsChange

(* A success the QR page tells is that of the login started last, however   *)
(* late the poll of an earlier one is answered.                             *)
THEOREM LatestIsTold == QrSpec => ToldSuccessIsTheLatest
  <1>1. QrInit => ShownIsLatest
    BY DEF QrInit, NoneShown, ShownIsLatest, QrOver
  <1>2. QED
    BY <1>1, LoginPageStep, PTL DEF QrSpec, ToldSuccessIsTheLatest

=============================================================================
