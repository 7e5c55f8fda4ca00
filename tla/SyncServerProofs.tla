-------------------------- MODULE SyncServerProofs --------------------------
(***************************************************************************)
(* Proofs about the synchronisation runs: the invariants of SyncServer for *)
(* any number of runs, and that the system with its web page (SyncProgress)*)
(* behaves as SyncServer allows, so that the invariants hold there too.    *)
(***************************************************************************)
EXTENDS SyncProgress, TLAPS

UnderWay == {"locked", "seeded", "working", "ended"}

(* The lock belongs to the one run that is under way, which is the last.   *)
LockInv ==
  /\ \A r \in Runs : run[r] \in UnderWay => syncLock = r
  /\ syncLock # Nothing => syncLock = lastRun

(* Runs begin in order, and a record that can be read was published.       *)
OrderInv ==
  /\ \A r \in Runs : run[r] # "new" => r <= lastRun
  /\ syncProgress # Nothing => run[syncProgress.run] \notin {"new", "locked"}

ServerInv ==
  /\ ServerTypeOK
  /\ LockInv
  /\ OrderInv
  /\ RunningRunPublished
  /\ NoOlderProgress

(* A record of a run is not Nothing. *)
LEMMA Literals ==
  /\ Runs \subseteq Nat
  /\ Nothing \notin Runs
  /\ \A p \in Progress : p # Nothing /\ p.run \in Runs /\ p.status \in RunStatus
  BY SyncAssumption DEF Runs, Progress, RunStatus

(* The server starts without a run or a record. *)
LEMMA InitServer == ServerInit => ServerInv
  BY SyncAssumption, Literals
  DEF ServerInit, ServerInv, ServerTypeOK, LockInv, OrderInv,
      RunningRunPublished, NoOlderProgress, Runs, RunPc, UnderWay

(* What each step does to the record, the only part the steps disagree on. *)
LEMMA StepServer ==
  ASSUME ServerInv, [ServerNext]_server
  PROVE  ServerInv'
  <1> USE DEF ServerInv
  <1>1. CASE UNCHANGED server
    BY <1>1 DEF server, ServerTypeOK, LockInv, OrderInv,
                RunningRunPublished, NoOlderProgress
  <1>2. CASE Restart
    BY <1>2, Literals
    DEF Restart, ServerTypeOK, LockInv, OrderInv, RunningRunPublished,
        NoOlderProgress, Runs, RunPc, UnderWay
  <1>3. ASSUME NEW r \in Runs, AcquireSync(r)
        PROVE  ServerInv'
    <2>1. run[r] = "new"
      BY <1>3, Literals, SyncAssumption DEF AcquireSync, OrderInv, ServerTypeOK, Runs, RunPc
    <2>2. ServerTypeOK'
      BY <1>3, SyncAssumption DEF AcquireSync, ServerTypeOK, Runs, RunPc
    <2>3. LockInv'
      BY <1>3, Literals DEF AcquireSync, LockInv, ServerTypeOK, UnderWay
    <2>4. OrderInv'
      BY <1>3, <2>1, Literals, SyncAssumption
      DEF AcquireSync, OrderInv, ServerTypeOK, Runs
    <2>5. RunningRunPublished' /\ NoOlderProgress'
      BY <1>3, Literals
      DEF AcquireSync, RunningRunPublished, NoOlderProgress, ServerTypeOK
    <2>6. QED
      BY <2>2, <2>3, <2>4, <2>5
  <1>4. ASSUME NEW r \in Runs, SeedProgress(r)
        PROVE  ServerInv'
    <2>1. r = lastRun /\ syncProgress' # Nothing /\ syncProgress'.run = r
      BY <1>4, Literals DEF SeedProgress, LockInv, UnderWay, Progress, RunStatus
    <2>2. ServerTypeOK'
      BY <1>4 DEF SeedProgress, ServerTypeOK, RunPc, Progress, RunStatus
    <2>3. LockInv' /\ OrderInv'
      BY <1>4, <2>1 DEF SeedProgress, LockInv, OrderInv, ServerTypeOK, UnderWay
    <2>4. \A q \in Runs : run[q] \in UnderWay => q = r
      BY <1>4, Literals DEF SeedProgress, LockInv, UnderWay
    <2>5. RunningRunPublished'
      BY <1>4, <2>1, <2>4
      DEF SeedProgress, RunningRunPublished, ServerTypeOK, UnderWay
    <2>6. NoOlderProgress'
      BY <1>4, <2>1, Literals
      DEF SeedProgress, NoOlderProgress, OrderInv, ServerTypeOK
    <2>7. QED
      BY <2>2, <2>3, <2>5, <2>6
  <1>5. ASSUME NEW r \in Runs, SyncThreadStarts(r)
        PROVE  ServerInv'
    BY <1>5
    DEF SyncThreadStarts, ServerTypeOK, LockInv, OrderInv,
        RunningRunPublished, NoOlderProgress, RunPc, UnderWay
  <1>6. ASSUME NEW r \in Runs, SyncThreadFails(r)
        PROVE  ServerInv'
    <2>1. \A q \in Runs : run[q] \in UnderWay => q = r
      BY <1>6, Literals DEF SyncThreadFails, LockInv, UnderWay
    <2>2. QED
      BY <1>6, <2>1
      DEF SyncThreadFails, ServerTypeOK, LockInv, OrderInv,
          RunningRunPublished, NoOlderProgress, RunPc, UnderWay
  <1>7. ASSUME NEW r \in Runs, NEW status \in {"completed", "failed"},
               EndSync(r, status)
        PROVE  ServerInv'
    <2>1. /\ syncProgress # Nothing
          /\ syncProgress' = [syncProgress EXCEPT !.status = status]
      BY <1>7 DEF EndSync, RunningRunPublished
    <2>2. /\ syncProgress' \in Progress
          /\ syncProgress' # Nothing
          /\ syncProgress'.run = syncProgress.run
      BY <2>1, Literals DEF ServerTypeOK, Progress, RunStatus
    <2>3. QED
      BY <1>7, <2>1, <2>2
      DEF EndSync, ServerTypeOK, LockInv, OrderInv,
          RunningRunPublished, NoOlderProgress, RunPc, UnderWay
  <1>8. ASSUME NEW r \in Runs, ReleaseSync(r)
        PROVE  ServerInv'
    <2>1. \A q \in Runs : run[q] \in UnderWay => q = r
      BY <1>8, Literals DEF ReleaseSync, LockInv, UnderWay
    <2>2. QED
      BY <1>8, <2>1
      DEF ReleaseSync, ServerTypeOK, LockInv, OrderInv,
          RunningRunPublished, NoOlderProgress, RunPc, UnderWay
  <1>9. ASSUME NEW r \in Runs, ClearProgressIfTask(r)
        PROVE  ServerInv'
    <2>1. /\ syncProgress' \in {syncProgress, Nothing}
          /\ \A q \in Runs : q # r => run'[q] = run[q]
          /\ run'[r] = "gone"
          /\ syncProgress # Nothing /\ syncProgress.run # r
               => syncProgress' = syncProgress
      BY <1>9 DEF ClearProgressIfTask, ServerTypeOK
    <2>2. RunningRunPublished'
      BY <2>1 DEF RunningRunPublished
    <2>3. NoOlderProgress' /\ OrderInv'
      BY <1>9, <2>1 DEF ClearProgressIfTask, NoOlderProgress, OrderInv
    <2>4. ServerTypeOK' /\ LockInv'
      BY <1>9, <2>1 DEF ClearProgressIfTask, ServerTypeOK, LockInv, RunPc, UnderWay
    <2>5. QED
      BY <2>2, <2>3, <2>4
  <1>10. QED
    BY <1>1, <1>2, <1>3, <1>4, <1>5, <1>6, <1>7, <1>8, <1>9
    DEF ServerNext, RunStep

(* The invariant of the server alone. *)
THEOREM ServerIsSound == ServerSpec => []ServerInv
  BY InitServer, StepServer, PTL DEF ServerSpec

----------------------------------------------------------------------------
(* The calls of a page and what is lost of them never do anything to the   *)
(* server that SyncServer does not allow.                                  *)
LEMMA PageStep ==
  ASSUME [Next]_vars
  PROVE  [ServerNext]_server
  <1>1. ASSUME NEW c \in Calls,
               \/ ClickSync(c) \/ ClickRefresh(c) \/ TimerFires(c)
               \/ CallLost(c) \/ CallDenied(c)
        PROVE  UNCHANGED server
    <2>1. ClickSync(c) => UNCHANGED server
      BY DEF ClickSync
    <2>2. QED
      BY <1>1, <2>1 DEF ClickRefresh, CallLost, CallDenied, TimerFires
  <1>2. ASSUME NEW c \in Calls, Continue(c)
        PROVE  UNCHANGED server
    BY <1>2, Zenon DEF Continue, StartAnswered, StartRefused, RecoverEnds,
                       ResumeEnds, PollAnswered, PollRefused, PollDenied
  <1>3. ASSUME NEW c \in Calls, Serve(c)
        PROVE  UNCHANGED server \/ \E r \in Runs : AcquireSync(r)
    BY <1>3, Zenon DEF Serve, ServeStart, ServeProgress
  <1>4. ASSUME DismissProgress \/ SessionEnds
        PROVE  UNCHANGED server
    BY <1>4, Zenon DEF DismissProgress, SessionEnds
  <1>5. ASSUME NEW r \in Runs,
               OtherPageStarts(r) \/ StartReturns(r) \/ RunProceeds(r)
        PROVE  ServerNext
    BY <1>5, Zenon DEF OtherPageStarts, StartReturns, RunProceeds, ServerNext
  <1>6. ServerRestarts => ServerNext
    BY Zenon DEF ServerRestarts, ServerNext
  <1>7. (\E r \in Runs : AcquireSync(r)) => ServerNext
    BY Zenon DEF ServerNext
  <1>8. CASE UNCHANGED vars
    BY <1>8, Zenon DEF vars
  <1>9. CASE Next
    <2>1. CASE \E c \in Calls : \/ ClickSync(c) \/ ClickRefresh(c) \/ Serve(c)
                                \/ CallLost(c) \/ CallDenied(c) \/ Continue(c)
                                \/ TimerFires(c)
      BY <2>1, <1>1, <1>2, <1>3, <1>7, Zenon
    <2>2. CASE DismissProgress \/ SessionEnds \/ ServerRestarts
      BY <2>2, <1>4, <1>6, Zenon
    <2>3. CASE \E r \in Runs : OtherPageStarts(r) \/ StartReturns(r) \/ RunProceeds(r)
      BY <2>3, <1>5, Zenon
    <2>4. QED
      BY <1>9, <2>1, <2>2, <2>3, Zenon DEF Next
  <1>10. QED
    BY <1>8, <1>9

(* The server behind the web page is the server of SyncServer.             *)
THEOREM PageUsesServer == Spec => ServerSpec
  BY PageStep, PTL DEF Spec, ServerSpec, Init

(* A run that is under way can always be read about, and no cleanup of an  *)
(* earlier run takes its record away, for any number of runs.              *)
THEOREM RunningRunIsPublished == Spec => []RunningRunPublished
  BY ServerIsSound, PageUsesServer, PTL DEF ServerInv

(* The record of an earlier run is never read after a later one started.   *)
THEOREM OlderRunIsGone == Spec => []NoOlderProgress
  BY ServerIsSound, PageUsesServer, PTL DEF ServerInv

(* No step takes a record back. *)
LEMMA StepMovesOn ==
  ASSUME ServerInv, ServerNext,
         syncProgress # Nothing, syncProgress' # Nothing
  PROVE  \/ syncProgress'.run > syncProgress.run
         \/ /\ syncProgress'.run = syncProgress.run
            /\ syncProgress'.status = "running" => syncProgress.status = "running"
  <1>1. CASE syncProgress' = syncProgress
    BY <1>1
  <1>2. ASSUME NEW r \in Runs, SeedProgress(r)
        PROVE  syncProgress'.run > syncProgress.run
    <2>1. syncProgress'.run = r /\ r = lastRun
      BY <1>2, Literals
      DEF ServerInv, SeedProgress, LockInv, UnderWay
    <2>2. /\ syncProgress.run \in Runs
          /\ syncProgress.run # r
          /\ syncProgress.run <= lastRun
      BY <1>2, Literals DEF ServerInv, ServerTypeOK, SeedProgress, OrderInv
    <2>3. r \in Nat /\ syncProgress.run \in Nat
      BY <2>2, Literals
    <2>4. QED
      BY <2>1, <2>2, <2>3
  <1>3. ASSUME NEW r \in Runs, NEW status \in {"completed", "failed"},
               EndSync(r, status)
        PROVE  syncProgress'.run = syncProgress.run /\ syncProgress'.status # "running"
    <2>1. syncProgress \in Progress
      BY DEF ServerInv, ServerTypeOK
    <2>2. QED
      BY <1>3, <2>1 DEF EndSync, Progress
  <1>4. QED
    BY <1>1, <1>2, <1>3
    DEF ServerNext, RunStep, Restart, AcquireSync, SyncThreadStarts,
        SyncThreadFails, ReleaseSync, ClearProgressIfTask

(* A record never goes back: to an earlier run, or from an end to running. *)
THEOREM ProgressOnlyMovesOn == Spec => ProgressMovesOn
  <1>1. ServerInv /\ [ServerNext]_server =>
          [syncProgress # Nothing /\ syncProgress' # Nothing
             => \/ syncProgress'.run > syncProgress.run
                \/ /\ syncProgress'.run = syncProgress.run
                   /\ syncProgress'.status = "running"
                        => syncProgress.status = "running"]_server
    BY StepMovesOn
  <1>2. QED
    BY <1>1, ServerIsSound, PageUsesServer, PTL DEF ServerSpec, ProgressMovesOn

-----------------------------------------------------------------------------
(* The web page. *)

(* A state of the page, whatever it shows and expects. *)
PageState(u) ==
  /\ u = [generation |-> u.generation, syncing |-> u.syncing, shown |-> u.shown, expected |-> u.expected,
          polling |-> u.polling, denied |-> u.denied, timer |-> u.timer]
  /\ u.generation \in Nat /\ u.syncing \in BOOLEAN /\ u.polling \in BOOLEAN /\ u.denied \in BOOLEAN
  /\ u.timer \in {Nothing, u.generation} /\ (u.timer # Nothing => u.polling = TRUE)

(* A call, whatever was answered; an idle one is for nothing, and none is  *)
(* of a generation to come.                                                *)
CallState(a) ==
  /\ a = [kind |-> a.kind, pc |-> a.pc, generation |-> a.generation, answer |-> a.answer]
  /\ a.generation \in Nat /\ (a.pc = "idle" => a.kind = "none")

CallsAreOfThePast ==
  /\ call = [c \in Calls |-> call[c]]
  /\ \A c \in Calls : CallState(call[c]) /\ call[c].generation <= ui.generation

(* The page polls as long as it believes it does: the next poll waits for  *)
(* its timer or is under way.                                              *)
PollingGoesOn ==
  /\ ui.polling = TRUE => ui.timer = ui.generation \/ \E c \in Calls : Current(c) /\ call[c].kind = "poll"
  /\ \A c \in Calls : Current(c) /\ call[c].kind = "poll" => ui.polling = TRUE

PageInv == PageState(ui) /\ CallsAreOfThePast /\ PollingGoesOn /\ SyncingIsAttended

(* What the composable's functions make of a state of the page. *)
LEMMA NothingIsNoNumber == \A n \in Nat : n # Nothing
  BY SyncAssumption

(* startPolling arms the timer unless the page polls already. *)
LEMMA StartedState ==
  ASSUME NEW u, PageState(u)
  PROVE  /\ PageState(Started(u)) /\ Started(u).generation = u.generation
         /\ Started(u).polling = TRUE /\ Started(u).syncing = u.syncing /\ Started(u).denied = u.denied
         /\ Started(u).timer = IF u.polling = TRUE THEN u.timer ELSE u.generation
  <1>1. CASE u.polling = TRUE
    BY <1>1 DEF Started, PageState
  <1>2. CASE u.polling = FALSE
    <2>1. Started(u) = [generation |-> u.generation, syncing |-> u.syncing, shown |-> u.shown, expected |-> u.expected,
          polling |-> TRUE, denied |-> u.denied, timer |-> u.generation]
      BY <1>2 DEF Started, PageState
    <2>2. QED
      BY <1>2, <2>1 DEF PageState
  <1>3. QED
    BY <1>1, <1>2 DEF PageState

(* stopPolling begins a new generation without a timer. *)
LEMMA StoppedState ==
  ASSUME NEW u, PageState(u)
  PROVE  /\ PageState(Stopped(u)) /\ Stopped(u).generation = u.generation + 1
         /\ Stopped(u).polling = FALSE /\ Stopped(u).syncing = u.syncing /\ Stopped(u).timer = Nothing
  <1>1. PICK g : g = u.generation + 1
    OBVIOUS
  <1>2. Stopped(u) = [u EXCEPT !.generation = g, !.polling = FALSE, !.timer = Nothing]
    BY <1>1 DEF Stopped
  <1>3. Stopped(u) = [generation |-> g, syncing |-> u.syncing, shown |-> u.shown,
          expected |-> u.expected, polling |-> FALSE, denied |-> u.denied, timer |-> Nothing]
    BY <1>2 DEF PageState
  <1>4. QED
    BY <1>1, <1>3 DEF PageState

(* What gives up the run also stops the button and the polling. *)
LEMMA GivenUpState ==
  ASSUME NEW u, PageState(u)
  PROVE  /\ PageState(GivenUp(u)) /\ GivenUp(u).generation = u.generation + 1
         /\ GivenUp(u).polling = FALSE /\ GivenUp(u).syncing = FALSE /\ GivenUp(u).timer = Nothing
  <1>1. PICK s : s = Stopped(u)
    OBVIOUS
  <1>2. PageState(s) /\ s.generation = u.generation + 1 /\ s.polling = FALSE /\ s.timer = Nothing
    BY <1>1, StoppedState
  <1>3. GivenUp(u) = [s EXCEPT !.syncing = FALSE, !.expected = Nothing]
    BY <1>1 DEF GivenUp
  <1>4. GivenUp(u) = [generation |-> s.generation, syncing |-> FALSE, shown |-> s.shown,
          expected |-> Nothing, polling |-> FALSE, denied |-> s.denied, timer |-> Nothing]
    BY <1>2, <1>3 DEF PageState
  <1>5. QED
    BY <1>2, <1>4 DEF PageState

(* A refused read stops the polling and says so. *)
LEMMA DeniedState ==
  ASSUME NEW u, PageState(u)
  PROVE  /\ PageState(Denied(u)) /\ Denied(u).generation = u.generation + 1
         /\ Denied(u).polling = FALSE /\ Denied(u).denied = TRUE /\ Denied(u).timer = Nothing
  <1>1. PICK s : s = Stopped(u)
    OBVIOUS
  <1>2. PageState(s) /\ s.generation = u.generation + 1 /\ s.polling = FALSE /\ s.timer = Nothing
    BY <1>1, StoppedState
  <1>3. Denied(u) = [s EXCEPT !.denied = TRUE]
    BY <1>1 DEF Denied
  <1>4. Denied(u) = [generation |-> s.generation, syncing |-> s.syncing, shown |-> s.shown,
          expected |-> s.expected, polling |-> FALSE, denied |-> TRUE, timer |-> Nothing]
    BY <1>2, <1>3 DEF PageState
  <1>5. QED
    BY <1>2, <1>4 DEF PageState

(* applyProgress either polls on for a running run or gives up. *)
LEMMA AppliedState ==
  ASSUME NEW u, PageState(u), NEW p
  PROVE  /\ PageState(Applied(u, p))
         /\ \/ /\ Applied(u, p).generation = u.generation
               /\ Applied(u, p).polling = TRUE
               /\ Applied(u, p).timer = IF u.polling = TRUE THEN u.timer ELSE u.generation
            \/ /\ Applied(u, p).generation = u.generation + 1 /\ Applied(u, p).polling = FALSE
               /\ Applied(u, p).syncing = FALSE /\ Applied(u, p).timer = Nothing
  <1>1. CASE p # Nothing /\ p.status = "running"
    <2>1. PICK s : s = [u EXCEPT !.shown = p, !.syncing = TRUE, !.expected = p.run, !.denied = FALSE]
      OBVIOUS
    <2>2. s = [generation |-> u.generation, syncing |-> TRUE, shown |-> p, expected |-> p.run,
          polling |-> u.polling, denied |-> FALSE, timer |-> u.timer]
      BY <2>1 DEF PageState
    <2>3. PageState(s) /\ s.generation = u.generation /\ s.polling = u.polling /\ s.timer = u.timer
      BY <2>2 DEF PageState
    <2>4. Applied(u, p) = Started(s)
      BY <1>1, <2>1 DEF Applied
    <2>5. /\ PageState(Started(s)) /\ Started(s).generation = s.generation /\ Started(s).polling = TRUE
          /\ Started(s).timer = IF s.polling = TRUE THEN s.timer ELSE s.generation
      BY <2>3, StartedState
    <2>6. QED
      BY <2>3, <2>4, <2>5
  <1>2. CASE ~(p # Nothing /\ p.status = "running")
    <2>1. PICK s : s = GivenUp(u)
      OBVIOUS
    <2>2. /\ PageState(s) /\ s.generation = u.generation + 1
          /\ s.polling = FALSE /\ s.syncing = FALSE /\ s.timer = Nothing
      BY <2>1, GivenUpState
    <2>3. Applied(u, p) = [generation |-> s.generation, syncing |-> s.syncing, shown |-> p,
          expected |-> s.expected, polling |-> s.polling, denied |-> FALSE, timer |-> s.timer]
      BY <1>2, <2>1, <2>2 DEF Applied, PageState
    <2>4. QED
      BY <2>2, <2>3 DEF PageState
  <1>3. QED
    BY <1>1, <1>2

(* The page begins a new generation: it neither synchronises nor polls, or *)
(* says that it was refused.                                               *)
LEMMA Abandoned ==
  ASSUME PageInv, PageState(ui'), ui'.generation \in {ui.generation + 1, ui.generation + 2}, ui'.polling = FALSE,
         ui'.timer = Nothing, ui'.syncing = FALSE \/ ui'.denied = TRUE,
         UNCHANGED call \/ \E c \in Calls : Ends(c)
  PROVE  PageInv'
  <1>1. call' = [c \in Calls |-> call'[c]]
    BY DEF PageInv, CallsAreOfThePast, Ends
  <1>2. ASSUME NEW c \in Calls
        PROVE  CallState(call'[c]) /\ call'[c].generation < ui'.generation
    <2>1. call'[c] = call[c] \/ call'[c] = NoCall
      BY DEF PageInv, CallsAreOfThePast, Ends
    <2>2. CallState(NoCall) /\ NoCall.generation = 0
      BY DEF NoCall, CallState
    <2>3. /\ ui.generation \in Nat /\ CallState(call[c]) /\ call[c].generation \in Nat
          /\ call[c].generation <= ui.generation
      BY DEF PageInv, PageState, CallsAreOfThePast, CallState
    <2>4. QED
      BY <2>1, <2>2, <2>3
  <1>3. ui'.generation \in Nat /\ \A c \in Calls : call'[c].generation \in Nat
    BY <1>2 DEF PageState, CallState
  <1>4. CallsAreOfThePast' /\ PollingGoesOn'
    BY <1>1, <1>2, <1>3 DEF CallsAreOfThePast, PollingGoesOn, Current
  <1>5. SyncingIsAttended'
    BY DEF SyncingIsAttended
  <1>6. QED
    BY <1>4, <1>5 DEF PageInv

(* A call ends and the page goes on in its generation. *)
LEMMA CallEnded ==
  ASSUME PageInv, NEW c \in Calls, Ends(c), PageState(ui'), ui'.generation = ui.generation,
         ui.polling = TRUE => ui'.polling = TRUE,
         ui'.polling = TRUE => \/ ui'.timer = ui.generation
                               \/ /\ ui.polling = TRUE /\ ui'.timer = ui.timer
                                  /\ ~(Current(c) /\ call[c].kind = "poll"),
         ui'.syncing = TRUE => \/ ui'.polling = TRUE \/ ui'.denied = TRUE
                               \/ /\ ui.syncing = TRUE /\ ui'.denied = ui.denied
                                  /\ ~(Current(c) /\ call[c].kind \in {"start", "recover", "poll"})
  PROVE  PageInv'
  <1>1. call' = [d \in Calls |-> call'[d]] /\ call'[c] = NoCall /\ \A d \in Calls \ {c} : call'[d] = call[d]
    BY DEF PageInv, CallsAreOfThePast, Ends
  <1>2. CallsAreOfThePast'
    <2>1. CallState(NoCall) /\ NoCall.generation <= ui.generation
      BY DEF NoCall, CallState, PageInv, PageState
    <2>2. QED
      BY <1>1, <2>1 DEF PageInv, CallsAreOfThePast
  <1>3. NoCall.kind = "none"
    BY DEF NoCall
  <1>4. \A d \in Calls : Current(d)' <=> call'[d].generation = ui.generation
    BY DEF Current
  <1>5. PollingGoesOn'
    BY <1>1, <1>3, <1>4 DEF PageInv, PollingGoesOn, Current
  <1>6. SyncingIsAttended'
    <2>1. ui'.polling = TRUE => ui'.timer = ui'.generation \/ \E d \in Calls : Current(d)' /\ call'[d].kind = "poll"
      BY <1>5 DEF PollingGoesOn
    <2>2. ui'.syncing \in BOOLEAN /\ ui'.denied \in BOOLEAN /\ ui.denied \in BOOLEAN
          /\ ui.syncing \in BOOLEAN /\ ui.generation # Nothing /\ (ui.timer # Nothing => ui.polling = TRUE)
      BY NothingIsNoNumber DEF PageInv, PageState
    <2>3. CASE ui'.polling = TRUE \/ ui'.denied = TRUE \/ ui'.syncing = FALSE
      BY <2>1, <2>2, <2>3 DEF SyncingIsAttended
    <2>4. CASE /\ ui'.polling # TRUE /\ ui.syncing = TRUE /\ ui'.denied = ui.denied
               /\ ~(Current(c) /\ call[c].kind \in {"start", "recover", "poll"})
      BY <1>1, <1>4, <2>2, <2>4 DEF PageInv, SyncingIsAttended, Current
    <2>5. QED
      BY <2>2, <2>3, <2>4
  <1>7. QED
    BY <1>2, <1>5, <1>6 DEF PageInv

(* Calls are served, answered or lost, which the page does not see yet. *)
LEMMA CallsMove ==
  ASSUME PageInv, UNCHANGED ui, call' = [c \in Calls |-> call'[c]],
         \A c \in Calls : /\ CallState(call'[c]) /\ call'[c].generation = call[c].generation
                          /\ \/ call'[c].kind = call[c].kind
                             \/ call[c].kind = "start" /\ call'[c].kind = "recover"
  PROVE  PageInv'
  <1>1. CallsAreOfThePast'
    BY DEF PageInv, CallsAreOfThePast
  <1>2. \A c \in Calls : Current(c)' <=> Current(c)
    BY DEF Current
  <1>3. PollingGoesOn' /\ SyncingIsAttended'
    BY <1>2 DEF PageInv, PollingGoesOn, SyncingIsAttended
  <1>4. QED
    BY <1>1, <1>3 DEF PageInv

(* One call does. *)
LEMMA CallMoves ==
  ASSUME PageInv, UNCHANGED ui, NEW c \in Calls, NEW a, call' = [call EXCEPT ![c] = a],
         CallState(a), a.generation = call[c].generation, a.kind \in {call[c].kind, "recover"},
         a.kind # call[c].kind => call[c].kind = "start"
  PROVE  PageInv'
  <1>1. call' = [d \in Calls |-> call'[d]] /\ call'[c] = a /\ \A d \in Calls \ {c} : call'[d] = call[d]
    BY DEF PageInv, CallsAreOfThePast
  <1>2. \A d \in Calls : CallState(call[d])
    BY DEF PageInv, CallsAreOfThePast
  <1>3. QED
    BY <1>1, <1>2, CallsMove

(* What becomes of one call. *)
LEMMA CallServed ==
  ASSUME NEW a, CallState(a), NEW pc, pc # "idle"
  PROVE  LET b == [a EXCEPT !.pc = pc] IN CallState(b) /\ b.generation = a.generation /\ b.kind = a.kind
  <1>1. [a EXCEPT !.pc = pc] = [kind |-> a.kind, pc |-> pc, generation |-> a.generation, answer |-> a.answer]
    BY DEF CallState
  <1>2. QED
    BY <1>1 DEF CallState

(* A start call that failed is followed by the read that recovers it. *)
LEMMA CallRecovers ==
  ASSUME NEW a, CallState(a)
  PROVE  LET b == [[a EXCEPT !.kind = "recover"] EXCEPT !.pc = "sent"] IN
         CallState(b) /\ b.generation = a.generation /\ b.kind = "recover"
  <1>1. PICK m : m = [a EXCEPT !.kind = "recover"]
    OBVIOUS
  <1>2. m = [kind |-> "recover", pc |-> a.pc, generation |-> a.generation, answer |-> a.answer]
    BY <1>1 DEF CallState
  <1>3. PICK b : b = [m EXCEPT !.pc = "sent"]
    OBVIOUS
  <1>4. b = [kind |-> "recover", pc |-> "sent", generation |-> a.generation, answer |-> a.answer]
    BY <1>2, <1>3
  <1>5. CallState(b) /\ b.generation = a.generation /\ b.kind = "recover"
    BY <1>4 DEF CallState
  <1>6. b = [[a EXCEPT !.kind = "recover"] EXCEPT !.pc = "sent"]
    BY <1>1, <1>3
  <1>7. QED
    BY <1>5, <1>6

(* Every action of the page, the network and the server. *)
LEMMA PageTurns ==
  ASSUME PageInv, [Next]_vars
  PROVE  PageInv'
  <1>1. PageState(ui) /\ ui.generation \in Nat /\ ui.timer \in {Nothing, ui.generation}
        /\ (ui.timer # Nothing => ui.polling = TRUE)
        /\ ui.polling \in BOOLEAN /\ ui.syncing \in BOOLEAN /\ ui.denied \in BOOLEAN /\ ui.generation # Nothing
    BY NothingIsNoNumber DEF PageInv, PageState
  <1>2. ASSUME NEW c \in Calls
        PROVE  /\ CallState(call[c]) /\ call[c].generation \in Nat /\ call[c].generation <= ui.generation
               /\ call[c].pc = "idle" => call[c].kind = "none"
    BY DEF PageInv, CallsAreOfThePast, CallState
  <1>3. ASSUME NEW c \in Calls, NEW kind \in {"start", "resume", "poll"}, Send(c, kind), PageState(ui'),
               ui'.generation = ui.generation,
               \/ kind = "start" /\ ui'.polling = ui.polling /\ ui'.timer = ui.timer
               \/ kind = "resume" /\ ui' = ui
               \/ kind = "poll" /\ ui'.polling = TRUE
        PROVE  PageInv'
    <2>0. PICK g : g = ui.generation
      OBVIOUS
    <2>8. PICK a : /\ a = [NoCall EXCEPT !.kind = kind, !.pc = "sent", !.generation = g]
                   /\ call' = [call EXCEPT ![c] = a]
      BY <1>3, <2>0 DEF Send
    <2>1. /\ a = [kind |-> kind, pc |-> "sent", generation |-> ui.generation, answer |-> Nothing]
          /\ call' = [call EXCEPT ![c] = a]
      BY <2>0, <2>8 DEF NoCall
    <2>2. /\ call' = [d \in Calls |-> call'[d]] /\ call'[c] = a /\ \A d \in Calls \ {c} : call'[d] = call[d]
          /\ CallState(a) /\ a.generation = ui.generation /\ a.kind = kind /\ call[c].kind = "none"
      BY <1>1, <1>2, <1>3, <2>1 DEF PageInv, CallsAreOfThePast, Send, CallState
    <2>3. CallsAreOfThePast'
      BY <1>1, <1>3, <2>2 DEF PageInv, CallsAreOfThePast
    <2>4. \A d \in Calls : Current(d)' <=> call'[d].generation = ui.generation
      BY <1>3 DEF Current
    <2>5. PollingGoesOn'
      BY <1>1, <1>3, <2>2, <2>4 DEF PageInv, PollingGoesOn, Current
    <2>6. SyncingIsAttended'
      BY <1>1, <1>3, <2>2, <2>4 DEF PageInv, SyncingIsAttended, Current
    <2>7. QED
      BY <1>3, <2>3, <2>5, <2>6 DEF PageInv
  <1>4. ASSUME NEW c \in Calls, ClickSync(c)
        PROVE  PageInv'
    <2>1. ui' = [generation |-> ui.generation, syncing |-> TRUE, shown |-> [run |-> Nothing, status |-> "running"],
                 expected |-> Nothing, polling |-> ui.polling, denied |-> FALSE, timer |-> ui.timer]
      BY <1>1, <1>4 DEF ClickSync, PageState
    <2>2. PageState(ui') /\ ui'.generation = ui.generation /\ ui'.polling = ui.polling /\ ui'.timer = ui.timer
      BY <1>1, <2>1 DEF PageState
    <2>3. QED
      BY <1>3, <1>4, <2>2 DEF ClickSync
  <1>5. ASSUME NEW c \in Calls, ClickRefresh(c)
        PROVE  PageInv'
    BY <1>1, <1>3, <1>5 DEF ClickRefresh
  <1>6. ASSUME NEW c \in Calls, TimerFires(c)
        PROVE  PageInv'
    <2>1. ui' = [generation |-> ui.generation, syncing |-> ui.syncing, shown |-> ui.shown, expected |-> ui.expected,
                 polling |-> ui.polling, denied |-> ui.denied, timer |-> Nothing]
      BY <1>1, <1>6 DEF TimerFires, PageState
    <2>2. PageState(ui') /\ ui'.generation = ui.generation /\ ui'.polling = TRUE
      BY <1>1, <1>6, <2>1 DEF PageState, TimerFires
    <2>3. QED
      BY <1>3, <1>6, <2>2 DEF TimerFires
  <1>7. CASE DismissProgress
    <2>1. ui' = [generation |-> ui.generation, syncing |-> ui.syncing, shown |-> Nothing, expected |-> ui.expected,
                 polling |-> ui.polling, denied |-> ui.denied, timer |-> ui.timer]
      BY <1>1, <1>7 DEF DismissProgress, PageState
    <2>2. PageState(ui') /\ call' = call
      BY <1>1, <1>7, <2>1 DEF PageState, DismissProgress
    <2>3. QED
      BY <2>1, <2>2 DEF PageInv, CallsAreOfThePast, PollingGoesOn, SyncingIsAttended, Current
  <1>8. CASE SessionEnds
    <2>1. PICK s : s = Stopped(ui)
      OBVIOUS
    <2>2. PageState(s) /\ s.generation = ui.generation + 1 /\ s.polling = FALSE /\ s.timer = Nothing
      BY <1>1, <2>1, StoppedState
    <2>3. ui' = [generation |-> s.generation, syncing |-> FALSE, shown |-> Nothing, expected |-> s.expected,
                 polling |-> s.polling, denied |-> s.denied, timer |-> s.timer]
      BY <1>8, <2>1, <2>2 DEF SessionEnds, PageState
    <2>4. PageState(ui') /\ ui'.generation = ui.generation + 1 /\ ui'.polling = FALSE /\ ui'.timer = Nothing
          /\ ui'.syncing = FALSE
      BY <2>2, <2>3 DEF PageState
    <2>5. QED
      BY <1>8, <2>4, Abandoned DEF SessionEnds
  <1>9. ASSUME NEW c \in Calls, ServeStart(c)
        PROVE  PageInv'
    <2>1. CASE call' = [call EXCEPT ![c].pc = "refused"]
      <3>1. PICK a : a = [call[c] EXCEPT !.pc = "refused"] /\ call' = [call EXCEPT ![c] = a]
        BY <1>2, <2>1 DEF PageInv, CallsAreOfThePast
      <3>2. CallState(a) /\ a.generation = call[c].generation /\ a.kind = call[c].kind
        BY <1>2, <3>1, CallServed
      <3>3. QED
        BY <1>9, <3>1, <3>2, CallMoves DEF ServeStart
    <2>2. ASSUME NEW r, call' = [call EXCEPT ![c].pc = "served", ![c].answer = [run |-> r, status |-> "running"]]
          PROVE  PageInv'
      <3>1. PICK a : /\ a = [[call[c] EXCEPT !.pc = "served"] EXCEPT !.answer = [run |-> r, status |-> "running"]]
                     /\ call' = [call EXCEPT ![c] = a]
        BY <1>2, <2>2 DEF PageInv, CallsAreOfThePast
      <3>2. CallState(a) /\ a.generation = call[c].generation /\ a.kind = call[c].kind
        <4>1. PICK was : was = call[c] /\ CallState(was)
          BY <1>2
        <4>2. PICK m : m = [was EXCEPT !.pc = "served"]
          OBVIOUS
        <4>3. PICK b : b = [m EXCEPT !.answer = [run |-> r, status |-> "running"]]
          OBVIOUS
        <4>4. CallState(b) /\ b.generation = was.generation /\ b.kind = was.kind
          <5>1. m = [kind |-> was.kind, pc |-> "served", generation |-> was.generation, answer |-> was.answer]
            BY <4>1, <4>2 DEF CallState
          <5>2. b = [kind |-> was.kind, pc |-> "served", generation |-> was.generation, answer |-> b.answer]
            BY <4>3, <5>1
          <5>3. QED
            BY <4>1, <5>2 DEF CallState
        <4>5. a = b
          BY <3>1, <4>1, <4>2, <4>3, Zenon
        <4>6. QED
          BY <4>1, <4>4, <4>5
      <3>3. QED
        BY <1>9, <3>1, <3>2, CallMoves DEF ServeStart
    <2>3. QED
      BY <1>9, <2>1, <2>2 DEF ServeStart
  <1>10. ASSUME NEW c \in Calls, ServeProgress(c)
         PROVE  PageInv'
    <2>1. PICK a : /\ a = [[call[c] EXCEPT !.pc = "answered"] EXCEPT !.answer = syncProgress]
                   /\ call' = [call EXCEPT ![c] = a]
      BY <1>2, <1>10 DEF PageInv, CallsAreOfThePast, ServeProgress
    <2>2. CallState(a) /\ a.generation = call[c].generation /\ a.kind = call[c].kind
      <3>1. PICK was : was = call[c] /\ CallState(was)
        BY <1>2
      <3>2. PICK m : m = [was EXCEPT !.pc = "answered"]
        OBVIOUS
      <3>3. PICK b : b = [m EXCEPT !.answer = syncProgress]
        OBVIOUS
      <3>4. CallState(b) /\ b.generation = was.generation /\ b.kind = was.kind
        <4>1. m = [kind |-> was.kind, pc |-> "answered", generation |-> was.generation, answer |-> was.answer]
          BY <3>1, <3>2 DEF CallState
        <4>2. b = [kind |-> was.kind, pc |-> "answered", generation |-> was.generation, answer |-> b.answer]
          BY <3>3, <4>1
        <4>3. QED
          BY <3>1, <4>2 DEF CallState
      <3>5. a = b
        BY <2>1, <3>1, <3>2, <3>3, Zenon
      <3>6. QED
        BY <3>1, <3>4, <3>5
    <2>3. QED
      BY <1>10, <2>1, <2>2, CallMoves DEF ServeProgress
  <1>11. ASSUME NEW c \in Calls, CallLost(c)
         PROVE  PageInv'
    <2>1. PICK a : /\ a = [[call[c] EXCEPT !.pc = "refused"] EXCEPT !.answer = Nothing]
                   /\ call' = [call EXCEPT ![c] = a]
      BY <1>2, <1>11 DEF PageInv, CallsAreOfThePast, CallLost
    <2>2. CallState(a) /\ a.generation = call[c].generation /\ a.kind = call[c].kind
      <3>1. PICK was : was = call[c] /\ CallState(was)
        BY <1>2
      <3>2. PICK m : m = [was EXCEPT !.pc = "refused"]
        OBVIOUS
      <3>3. PICK b : b = [m EXCEPT !.answer = Nothing]
        OBVIOUS
      <3>4. CallState(b) /\ b.generation = was.generation /\ b.kind = was.kind
        <4>1. m = [kind |-> was.kind, pc |-> "refused", generation |-> was.generation, answer |-> was.answer]
          BY <3>1, <3>2 DEF CallState
        <4>2. b = [kind |-> was.kind, pc |-> "refused", generation |-> was.generation, answer |-> b.answer]
          BY <3>3, <4>1
        <4>3. QED
          BY <3>1, <4>2 DEF CallState
      <3>5. a = b
        BY <2>1, <3>1, <3>2, <3>3, Zenon
      <3>6. QED
        BY <3>1, <3>4, <3>5
    <2>3. QED
      BY <1>11, <2>1, <2>2, CallMoves DEF CallLost
  <1>12. ASSUME NEW c \in Calls, CallDenied(c)
         PROVE  PageInv'
    <2>1. PICK a : a = [call[c] EXCEPT !.pc = "denied"] /\ call' = [call EXCEPT ![c] = a]
      BY <1>2, <1>12 DEF PageInv, CallsAreOfThePast, CallDenied
    <2>2. CallState(a) /\ a.generation = call[c].generation /\ a.kind = call[c].kind
      BY <1>2, <2>1, CallServed
    <2>3. QED
      BY <1>12, <2>1, <2>2, CallMoves DEF CallDenied
  <1>13. ASSUME NEW r \in Runs, StartReturns(r)
         PROVE  PageInv'
    <2>1. PICK pc \in {"answered", "refused"} : Respond(r, pc)
      BY <1>13 DEF StartReturns
    <2>2. ASSUME NEW c \in Calls
          PROVE  CallState(call'[c]) /\ call'[c].generation = call[c].generation /\ call'[c].kind = call[c].kind
      <3>1. call'[c] = call[c] \/ call'[c] = [call[c] EXCEPT !.pc = pc]
        BY <2>1 DEF Respond
      <3>2. QED
        BY <1>2, <2>1, <3>1 DEF CallState
    <2>3. call' = [c \in Calls |-> call'[c]] /\ UNCHANGED ui
      BY <1>13, <2>1 DEF Respond, StartReturns
    <2>4. QED
      BY <2>2, <2>3, CallsMove
  <1>14. CASE ServerRestarts
    <2>1. ASSUME NEW c \in Calls
          PROVE  CallState(call'[c]) /\ call'[c].generation = call[c].generation /\ call'[c].kind = call[c].kind
      <3>1. call'[c] = call[c] \/ call'[c] = [call[c] EXCEPT !.pc = "refused", !.answer = Nothing]
        BY <1>14 DEF ServerRestarts
      <3>2. QED
        BY <1>2, <3>1 DEF CallState
    <2>2. call' = [c \in Calls |-> call'[c]] /\ UNCHANGED ui
      BY <1>14 DEF ServerRestarts
    <2>3. QED
      BY <2>1, <2>2, CallsMove
  <1>15. CASE UNCHANGED <<ui, call>>
    <2>1. \A c \in Calls : Current(c)' <=> Current(c)
      BY <1>15 DEF Current
    <2>2. QED
      BY <1>15, <2>1 DEF PageInv, CallsAreOfThePast, PollingGoesOn, SyncingIsAttended
  <1>16. ASSUME NEW c \in Calls, StartAnswered(c)
         PROVE  PageInv'
    <2>1. CASE ~Current(c)
      BY <1>1, <1>16, <2>1, CallEnded DEF StartAnswered
    <2>2. CASE Current(c)
      <3>1. PICK r : r = call[c].answer.run
        OBVIOUS
      <3>2. PICK shown : shown = IF ui.shown = Nothing THEN ui.shown ELSE [ui.shown EXCEPT !.run = r]
        OBVIOUS
      <3>3. PICK u : /\ u = [ui EXCEPT !.expected = r, !.shown = shown]
                     /\ ui' = Started(u)
        BY <1>16, <2>2, <3>1, <3>2 DEF StartAnswered
      <3>4. u = [generation |-> ui.generation, syncing |-> ui.syncing, shown |-> shown, expected |-> r,
                 polling |-> ui.polling, denied |-> ui.denied, timer |-> ui.timer]
        BY <1>1, <3>3 DEF PageState
      <3>5. PageState(u) /\ u.generation = ui.generation /\ u.polling = ui.polling /\ u.timer = ui.timer
        BY <1>1, <3>4 DEF PageState
      <3>6. /\ PageState(ui') /\ ui'.generation = ui.generation /\ ui'.polling = TRUE
            /\ ui'.timer = IF ui.polling = TRUE THEN ui.timer ELSE ui.generation
        BY <3>3, <3>5, StartedState
      <3>7. call[c].kind = "start" /\ Ends(c)
        BY <1>16 DEF StartAnswered
      <3>8. QED
        BY <1>1, <3>6, <3>7, CallEnded
    <2>3. QED
      BY <2>1, <2>2
  <1>17. ASSUME NEW c \in Calls, StartRefused(c)
         PROVE  PageInv'
    <2>1. CASE ~Current(c)
      BY <1>1, <1>17, <2>1, CallEnded DEF StartRefused
    <2>2. CASE Current(c)
      <3>1. PICK a : /\ a = [[call[c] EXCEPT !.kind = "recover"] EXCEPT !.pc = "sent"]
                     /\ call' = [call EXCEPT ![c] = a]
        BY <1>2, <1>17, <2>2 DEF PageInv, CallsAreOfThePast, StartRefused
      <3>2. CallState(a) /\ a.generation = call[c].generation /\ a.kind = "recover"
        BY <1>2, <3>1, CallRecovers
      <3>3. QED
        BY <1>17, <3>1, <3>2, CallMoves DEF StartRefused
    <2>3. QED
      BY <2>1, <2>2
  (* A read is applied, or the page gives up; c is not a poll. *)
  <1>18. ASSUME NEW c \in Calls, Ends(c), call[c].kind # "poll", NEW p, ui' = Applied(ui, p)
         PROVE  PageInv'
    <2>1. CASE /\ ui'.generation = ui.generation /\ ui'.polling = TRUE
               /\ ui'.timer = IF ui.polling = TRUE THEN ui.timer ELSE ui.generation
      BY <1>1, <1>18, <2>1, AppliedState, CallEnded
    <2>2. CASE /\ ui'.generation = ui.generation + 1 /\ ui'.polling = FALSE
               /\ ui'.syncing = FALSE /\ ui'.timer = Nothing
      BY <1>1, <1>18, <2>2, AppliedState, Abandoned
    <2>3. QED
      BY <1>1, <1>18, <2>1, <2>2, AppliedState
  <1>19. ASSUME NEW c \in Calls, Ends(c), ui' = GivenUp(ui) \/ ui' = Denied(ui)
         PROVE  PageInv'
    <2>1. CASE ui' = GivenUp(ui)
      <3>1. PageState(ui') /\ ui'.generation = ui.generation + 1 /\ ui'.polling = FALSE /\ ui'.timer = Nothing
            /\ ui'.syncing = FALSE
        BY <1>1, <2>1, GivenUpState
      <3>2. QED
        BY <1>19, <3>1, Abandoned
    <2>2. CASE ui' = Denied(ui)
      <3>1. PageState(ui') /\ ui'.generation = ui.generation + 1 /\ ui'.polling = FALSE /\ ui'.timer = Nothing
            /\ ui'.denied = TRUE
        BY <1>1, <2>2, DeniedState
      <3>2. QED
        BY <1>19, <3>1, Abandoned
    <2>3. QED
      BY <1>19, <2>1, <2>2
  <1>20. ASSUME NEW c \in Calls, RecoverEnds(c)
         PROVE  PageInv'
    <2>1. Ends(c) /\ call[c].kind # "poll"
      BY <1>20 DEF RecoverEnds
    <2>2. PICK read : read = Applied(ui, call[c].answer)
      OBVIOUS
    <2>3. ui' = read \/ ui' = GivenUp(read) \/ ui' = GivenUp(ui)
      BY <1>20, <2>2, Zenon DEF RecoverEnds
    <2>4. CASE ui' = GivenUp(read)
      <3>1. PageState(read) /\ read.generation \in {ui.generation, ui.generation + 1}
        BY <1>1, <2>2, AppliedState
      <3>2. PageState(GivenUp(read)) /\ GivenUp(read).generation = read.generation + 1
            /\ GivenUp(read).polling = FALSE /\ GivenUp(read).syncing = FALSE /\ GivenUp(read).timer = Nothing
        BY <3>1, GivenUpState
      <3>3. PageState(ui') /\ ui'.generation \in {ui.generation + 1, ui.generation + 2}
            /\ ui'.polling = FALSE /\ ui'.syncing = FALSE /\ ui'.timer = Nothing
        BY <1>1, <2>4, <3>1, <3>2 DEF PageState
      <3>4. QED
        BY <2>1, <3>3, Abandoned
    <2>5. QED
      BY <1>18, <1>19, <2>1, <2>2, <2>3, <2>4
  <1>21. ASSUME NEW c \in Calls, ResumeEnds(c)
         PROVE  PageInv'
    <2>1. Ends(c) /\ call[c].kind = "resume"
      BY <1>21 DEF ResumeEnds
    <2>2. ui' = ui \/ ui' = Denied(ui) \/ ui' = Applied(ui, call[c].answer)
      BY <1>21 DEF ResumeEnds
    <2>3. CASE ui' = ui
      BY <1>1, <2>1, <2>3, CallEnded
    <2>4. QED
      BY <1>18, <1>19, <2>1, <2>2, <2>3
  <1>22. ASSUME NEW c \in Calls, PollDenied(c)
         PROVE  PageInv'
    <2>1. Ends(c) /\ ui' = IF Current(c) THEN Denied(ui) ELSE ui
      BY <1>22 DEF PollDenied
    <2>2. CASE Current(c)
      BY <1>19, <2>1, <2>2
    <2>3. CASE ~Current(c)
      BY <1>1, <2>1, <2>3, CallEnded
    <2>4. QED
      BY <2>2, <2>3
  (* The timer is set again, in the generation of the poll. *)
  <1>23. ASSUME NEW u, PageState(u), u.generation = ui.generation, u.polling = TRUE
         PROVE  LET s == Rescheduled(u, ui.generation) IN
                /\ PageState(s) /\ s.generation = ui.generation /\ s.polling = TRUE /\ s.timer = ui.generation
    <2>1. Rescheduled(u, ui.generation) = [u EXCEPT !.timer = ui.generation]
      BY <1>23 DEF Rescheduled, Scheduled
    <2>2. PICK g : g = ui.generation
      OBVIOUS
    <2>3. Rescheduled(u, ui.generation) = [generation |-> u.generation, syncing |-> u.syncing, shown |-> u.shown,
             expected |-> u.expected, polling |-> u.polling, denied |-> u.denied, timer |-> g]
      BY <1>23, <2>1, <2>2 DEF PageState
    <2>4. QED
      BY <1>23, <2>2, <2>3 DEF PageState
  <1>24. ASSUME NEW c \in Calls, PollRefused(c)
         PROVE  PageInv'
    <2>1. Ends(c) /\ call[c].kind = "poll" /\ ui' = IF Current(c) THEN Rescheduled(ui, call[c].generation) ELSE ui
      BY <1>24 DEF PollRefused
    <2>2. CASE Current(c)
      <3>1. ui.polling = TRUE /\ call[c].generation = ui.generation
        BY <2>1, <2>2 DEF PageInv, PollingGoesOn, Current
      <3>2. QED
        BY <1>1, <1>23, <2>1, <2>2, <3>1, CallEnded
    <2>3. CASE ~Current(c)
      BY <1>1, <2>1, <2>3, CallEnded
    <2>4. QED
      BY <2>2, <2>3
  <1>25. ASSUME NEW c \in Calls, PollAnswered(c)
         PROVE  PageInv'
    <2>1. Ends(c) /\ call[c].kind = "poll"
      BY <1>25 DEF PollAnswered
    <2>2. CASE ~Current(c)
      <3>1. ui' = ui
        BY <1>25, <2>2 DEF PollAnswered
      <3>2. QED
        BY <1>1, <2>1, <2>2, <3>1, CallEnded
    <2>3. CASE Current(c) /\ ui' = GivenUp(ui)
      BY <1>19, <2>1, <2>3
    <2>4. CASE Current(c) /\ ui' = Rescheduled(Applied(ui, call[c].answer), call[c].generation)
      <3>1. PICK u : u = Applied(ui, call[c].answer)
        OBVIOUS
      <3>2. /\ PageState(u)
            /\ \/ u.generation = ui.generation /\ u.polling = TRUE
               \/ /\ u.generation = ui.generation + 1 /\ u.polling = FALSE
                  /\ u.syncing = FALSE /\ u.timer = Nothing
        BY <1>1, <3>1, AppliedState, ZenonT(60)
      <3>3. call[c].generation = ui.generation /\ ui' = Rescheduled(u, ui.generation)
        BY <2>4, <3>1 DEF Current
      <3>4. CASE u.generation = ui.generation /\ u.polling = TRUE
        BY <1>1, <1>23, <2>1, <3>2, <3>3, <3>4, CallEnded
      <3>5. CASE u.generation = ui.generation + 1 /\ u.polling = FALSE /\ u.syncing = FALSE /\ u.timer = Nothing
        <4>1. ui' = u
          BY <1>1, <3>3, <3>5 DEF Rescheduled
        <4>2. QED
          BY <2>1, <3>2, <3>5, <4>1, Abandoned
      <3>6. QED
        BY <3>2, <3>4, <3>5
    <2>5. QED
      BY <1>25, <2>2, <2>3, <2>4 DEF PollAnswered
  <1>26. QED
    <2>1. \A c \in Calls : Serve(c) \/ Continue(c) => PageInv'
      BY <1>9, <1>10, <1>16, <1>17, <1>20, <1>21, <1>22, <1>24, <1>25 DEF Serve, Continue
    <2>2. (\E r \in Runs : OtherPageStarts(r) \/ RunProceeds(r)) \/ UNCHANGED vars => PageInv'
      BY <1>15 DEF OtherPageStarts, RunProceeds, vars
    <2>3. QED
      BY <1>4, <1>5, <1>6, <1>7, <1>8, <1>11, <1>12, <1>13, <1>14, <2>1, <2>2 DEF Next

(* The button is never left disabled with nothing under way that can enable *)
(* it (useSyncProgress.ts), for any number of calls, clicks and runs.       *)
THEOREM SyncingStaysAttended == Spec => []SyncingIsAttended
  <1>1. Init => PageInv
    <2> SUFFICES ASSUME Init PROVE PageInv
      OBVIOUS
    <2>1. CallState(NoCall) /\ NoCall.generation = 0 /\ NoCall.kind = "none"
      BY DEF NoCall, CallState
    <2>2. PageState(ui) /\ ui.generation = 0 /\ ui.polling = FALSE /\ ui.syncing = FALSE
      BY DEF Init, PageState
    <2>3. CallsAreOfThePast
      BY <2>1, <2>2 DEF Init, CallsAreOfThePast
    <2>4. QED
      BY <2>1, <2>2, <2>3 DEF Init, PageInv, PollingGoesOn, SyncingIsAttended
  <1>2. PageInv => SyncingIsAttended
    BY DEF PageInv
  <1>3. QED
    BY <1>1, <1>2, PageTurns, PTL DEF Spec

=============================================================================
