---------------------------- MODULE SyncProgress ----------------------------
(***************************************************************************)
(* The web UI's view of a synchronisation: the composable                  *)
(* web/src/composables/useSyncProgress.ts, its HTTP calls and the server   *)
(* of SyncServer.  Calls are served and answered in any order; a request   *)
(* or a response may be lost.  Messages shown to the user and the reload   *)
(* of the lists are left out.                                              *)
(***************************************************************************)
EXTENDS SyncServer, FiniteSets

CONSTANTS Calls,       \* HTTP calls that may be under way at once
          MaxClicks,   \* bound on what the user does in one page
          Denies       \* whether the network policy may refuse the page

ASSUME PageAssumption == Denies \in BOOLEAN

VARIABLES
  call,     \* the HTTP calls of the page
  ui,       \* the composable's refs and its generation counter
  clicks    \* number of user actions so far

vars == <<server, call, ui, clicks>>

(* A call: what it is for ("start", "recover", "resume" or "poll"), how    *)
(* far it is, the page's generation when it was sent, and the answer: the  *)
(* run a start call began, or the progress that was read.                  *)
NoCall == [kind |-> "none", pc |-> "idle", generation |-> 0, answer |-> Nothing]

(* The page: its generation counter, syncing, syncProgress ("shown"),      *)
(* currentSyncTaskId ("expected"), isSyncPolling, whether syncError is     *)
(* shown since a 403, and the generation of a pending poll ("timer").      *)
Init ==
  /\ ServerInit
  /\ call = [c \in Calls |-> NoCall]
  /\ ui = [generation |-> 0, syncing |-> FALSE, shown |-> Nothing,
           expected |-> Nothing, polling |-> FALSE, denied |-> FALSE,
           timer |-> Nothing]
  /\ clicks = 0

----------------------------------------------------------------------------
(* The composable's functions, from one state of the page to the next.     *)

Scheduled(u, g) == IF u.polling THEN [u EXCEPT !.timer = g] ELSE u

(* startSyncPolling *)
Started(u) ==
  IF u.polling THEN u ELSE [u EXCEPT !.polling = TRUE, !.timer = u.generation]

(* stopSyncPolling *)
Stopped(u) == [u EXCEPT !.generation = @ + 1, !.polling = FALSE, !.timer = Nothing]

GivenUp(u) == [Stopped(u) EXCEPT !.syncing = FALSE, !.expected = Nothing]

(* A read was answered with 403 (or a 401 that does not end the session):  *)
(* the polling stops, the error banner offers to read again.               *)
Denied(u) == [Stopped(u) EXCEPT !.denied = TRUE]

(* applyProgress: p is what the server answered, Nothing when it is idle.  *)
Applied(u, p) ==
  IF p # Nothing /\ p.status = "running"
  THEN Started([u EXCEPT !.shown = p, !.syncing = TRUE, !.expected = p.run,
                         !.denied = FALSE])
  ELSE [GivenUp(u) EXCEPT !.shown = p, !.denied = FALSE]

(* The continuation of a poll of the generation g. *)
Rescheduled(u, g) == IF u.generation = g THEN Scheduled(u, g) ELSE u

IsForeign(p) == p # Nothing /\ ui.expected \notin {Nothing, p.run}

Current(c) == call[c].generation = ui.generation

----------------------------------------------------------------------------
(* The user. *)

Send(c, kind) ==
  /\ call[c].pc = "idle"
  /\ call' = [call EXCEPT ![c] = [NoCall EXCEPT !.kind = kind, !.pc = "sent",
                                                !.generation = ui.generation]]

(* The bound on runs keeps one for every start call that is on its way.    *)
RunLeft ==
  lastRun + Cardinality({c \in Calls : call[c].kind = "start"
                                        /\ call[c].pc = "sent"}) < MaxRun

Click == clicks < MaxClicks /\ clicks' = clicks + 1

(* syncMijia; the button is disabled while a synchronisation goes on.      *)
ClickSync(c) ==
  /\ Click
  /\ RunLeft
  /\ ~ui.syncing
  /\ ui' = [ui EXCEPT !.syncing = TRUE, !.expected = Nothing, !.denied = FALSE,
                      !.shown = [run |-> Nothing, status |-> "running"]]
  /\ Send(c, "start")
  /\ UNCHANGED server

(* resumeSyncProgress, from refreshAll or the button of the error banner.  *)
ClickRefresh(c) ==
  /\ Click
  /\ Send(c, "resume")
  /\ UNCHANGED <<server, ui>>

(* The card of a finished synchronisation is closed. *)
DismissProgress ==
  /\ Click
  /\ ui.shown # Nothing
  /\ ui.shown.status # "running"
  /\ ui' = [ui EXCEPT !.shown = Nothing]
  /\ UNCHANGED <<server, call>>

(* Logout, or a 401: the watch on isAuthed in App.vue.                     *)
SessionEnds ==
  /\ Click
  /\ ui' = [Stopped(ui) EXCEPT !.syncing = FALSE, !.shown = Nothing]
  /\ UNCHANGED <<server, call>>

----------------------------------------------------------------------------
(* The network and the server. *)

Awaits(c, r) == call[c].pc = "served" /\ call[c].answer.run = r

Ends(c) == call' = [call EXCEPT ![c] = NoCall]

(* POST /api/admin/sync *)
ServeStart(c) ==
  /\ call[c].kind = "start"
  /\ call[c].pc = "sent"
  /\ \/ /\ SyncInProgress
        /\ call' = [call EXCEPT ![c].pc = "refused"]
        /\ UNCHANGED server
     \/ \E r \in Runs :
          /\ AcquireSync(r)
          /\ call' = [call EXCEPT ![c].pc = "served",
                        ![c].answer = [run |-> r, status |-> "running"]]
  /\ UNCHANGED <<ui, clicks>>

(* Another page of an administrator starts a run. *)
OtherPageStarts(r) ==
  /\ RunLeft
  /\ AcquireSync(r)
  /\ UNCHANGED <<call, ui, clicks>>

Respond(r, pc) ==
  call' = [c \in Calls |-> IF Awaits(c, r) THEN [call[c] EXCEPT !.pc = pc]
                                           ELSE call[c]]

StartReturns(r) ==
  /\ \/ SyncThreadStarts(r) /\ Respond(r, "answered")
     \/ SyncThreadFails(r)  /\ Respond(r, "refused")
  /\ UNCHANGED <<ui, clicks>>

(* GET /api/admin/sync/progress *)
ServeProgress(c) ==
  /\ call[c].kind \in {"recover", "resume", "poll"}
  /\ call[c].pc = "sent"
  /\ call' = [call EXCEPT ![c].pc = "answered", ![c].answer = syncProgress]
  /\ UNCHANGED <<server, ui, clicks>>

RunProceeds(r) == RunStep(r) /\ UNCHANGED <<call, ui, clicks>>

(* The request or the response is lost. *)
CallLost(c) ==
  /\ call[c].pc \in {"sent", "answered"}
  /\ call' = [call EXCEPT ![c].pc = "refused", ![c].answer = Nothing]
  /\ UNCHANGED <<server, ui, clicks>>

(* NETWORK_ACCESS_DENIED: the server answers without looking further.      *)
CallDenied(c) ==
  /\ Denies
  /\ call[c].pc = "sent"
  /\ call' = [call EXCEPT ![c].pc = "denied"]
  /\ UNCHANGED <<server, ui, clicks>>

ServerRestarts ==
  /\ Restart
  /\ call' = [c \in Calls |->
                IF call[c].pc = "served"
                THEN [call[c] EXCEPT !.pc = "refused", !.answer = Nothing]
                ELSE call[c]]
  /\ UNCHANGED <<ui, clicks>>

----------------------------------------------------------------------------
(* The continuations of the calls. *)

StartAnswered(c) ==
  /\ call[c].kind = "start"
  /\ call[c].pc = "answered"
  /\ LET r == call[c].answer.run
         u == [ui EXCEPT !.expected = r,
                         !.shown = IF @ = Nothing THEN @ ELSE [@ EXCEPT !.run = r]]
     IN  ui' = IF Current(c) THEN Started(u) ELSE ui
  /\ Ends(c)
  /\ UNCHANGED <<server, clicks>>

(* "Never blindly re-send a start whose response may have been lost": the  *)
(* progress is read instead.                                               *)
StartRefused(c) ==
  /\ call[c].kind = "start"
  /\ call[c].pc \in {"refused", "denied"}
  /\ IF Current(c)
     THEN call' = [call EXCEPT ![c].kind = "recover", ![c].pc = "sent"]
     ELSE Ends(c)
  /\ UNCHANGED <<server, ui, clicks>>

(* A faulty variant: the button stays disabled when nothing was recovered. *)
RecoverEndsSyncing(c) ==
  /\ call[c].kind = "recover"
  /\ call[c].pc \in {"answered", "refused", "denied"}
  /\ LET u == IF call[c].pc = "answered" /\ Current(c)
              THEN Applied(ui, call[c].answer) ELSE ui
     IN  ui' = u
  /\ Ends(c)
  /\ UNCHANGED <<server, clicks>>

(* The rest of syncMijia's catch branch: a stale or failed read gives up   *)
(* whatever the page does by then.                                         *)
RecoverEnds(c) ==
  /\ call[c].kind = "recover"
  /\ call[c].pc \in {"answered", "refused", "denied"}
  /\ LET read == call[c].pc = "answered" /\ Current(c)
         u    == IF read THEN Applied(ui, call[c].answer) ELSE ui
         kept == read /\ u.shown # Nothing
                      /\ (u.syncing \/ u.shown.status = "completed")
     IN  ui' = IF kept THEN u ELSE GivenUp(u)
  /\ Ends(c)
  /\ UNCHANGED <<server, clicks>>

ResumeEnds(c) ==
  /\ call[c].kind = "resume"
  /\ call[c].pc \in {"answered", "refused", "denied"}
  /\ ui' = IF ~Current(c) \/ call[c].pc = "refused" THEN ui
           ELSE IF call[c].pc = "denied" THEN Denied(ui)
           ELSE Applied(ui, call[c].answer)
  /\ Ends(c)
  /\ UNCHANGED <<server, clicks>>

TimerFires(c) ==
  /\ ui.timer # Nothing
  /\ ui' = [ui EXCEPT !.timer = Nothing]
  /\ Send(c, "poll")
  /\ UNCHANGED <<server, clicks>>

(* pollSyncProgress: the record of another run ends the polling. *)
PollAnswered(c) ==
  /\ call[c].kind = "poll"
  /\ call[c].pc = "answered"
  /\ LET p == call[c].answer
         g == call[c].generation
     IN  ui' = IF ~Current(c) THEN ui
               ELSE IF IsForeign(p) THEN GivenUp(ui)
               ELSE Rescheduled(Applied(ui, p), g)
  /\ Ends(c)
  /\ UNCHANGED <<server, clicks>>

(* A faulty variant: one failed poll ends the polling. *)
PollRefusedEnds(c) ==
  /\ call[c].kind = "poll"
  /\ call[c].pc = "refused"
  /\ Ends(c)
  /\ UNCHANGED <<server, ui, clicks>>

PollRefused(c) ==
  /\ call[c].kind = "poll"
  /\ call[c].pc = "refused"
  /\ ui' = IF Current(c) THEN Rescheduled(ui, call[c].generation) ELSE ui
  /\ Ends(c)
  /\ UNCHANGED <<server, clicks>>

PollDenied(c) ==
  /\ call[c].kind = "poll"
  /\ call[c].pc = "denied"
  /\ ui' = IF Current(c) THEN Denied(ui) ELSE ui
  /\ Ends(c)
  /\ UNCHANGED <<server, clicks>>

----------------------------------------------------------------------------
Serve(c) == ServeStart(c) \/ ServeProgress(c)

Continue(c) ==
  \/ StartAnswered(c) \/ StartRefused(c) \/ RecoverEnds(c) \/ ResumeEnds(c)
  \/ PollAnswered(c) \/ PollRefused(c) \/ PollDenied(c)

Next ==
  \/ \E c \in Calls : \/ ClickSync(c) \/ ClickRefresh(c)
                      \/ Serve(c) \/ CallLost(c) \/ CallDenied(c) \/ Continue(c) \/ TimerFires(c)
  \/ DismissProgress \/ SessionEnds \/ ServerRestarts
  \/ \E r \in Runs : OtherPageStarts(r) \/ StartReturns(r) \/ RunProceeds(r)

Spec == Init /\ [][Next]_vars

(* The server's threads run, timers fire, answers are processed, and calls *)
(* that are repeated again and again are not lost every time.              *)
FairSpec ==
  /\ Spec
  /\ \A r \in Runs : WF_vars(RunProceeds(r)) /\ WF_vars(StartReturns(r))
  /\ \A c \in Calls : /\ SF_vars(Serve(c))
                      /\ SF_vars(Continue(c) /\ call[c].pc = "answered")
                      /\ WF_vars(Continue(c))
  /\ WF_vars(\E c \in Calls : TimerFires(c))

----------------------------------------------------------------------------
(* While the button is disabled something is under way that can enable it  *)
(* again: a call that starts or recovers a run, a poll or a timer.  Only a *)
(* refused access leaves that to the user, who is told so.                 *)
SyncingIsAttended ==
  ui.syncing =>
    \/ ui.denied
    \/ ui.timer = ui.generation
    \/ \E c \in Calls : Current(c) /\ call[c].kind \in {"start", "recover", "poll"}

(* The button is enabled again, whatever is lost and restarted. *)
ButtonComesBack == ui.syncing ~> ~ui.syncing

(* "When the start API returns task_id, only progress payloads for that    *)
(* run are applied" (useSyncProgress.ts:41-42): at least, while the page   *)
(* waits for a run it never applies the record of an earlier one.          *)
NoEarlierRunApplied ==
  [][\A c \in Calls :
       /\ call[c].kind \in {"recover", "resume", "poll"}
       /\ call[c].pc = "answered" /\ call'[c].pc = "idle"
       /\ call[c].answer # Nothing /\ ui'.shown = call[c].answer
       /\ ui.syncing /\ ui.expected # Nothing
       => call[c].answer.run >= ui.expected]_vars

=============================================================================
