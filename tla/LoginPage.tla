------------------------------ MODULE LoginPage ------------------------------
(***************************************************************************)
(* The QR login of the page (web/src/composables/useMijiaLogin.ts): start  *)
(* of a login job, its polling, removal of the account, and the end of the *)
(* administrator's session (App.vue).  The server's jobs do what LoginJobs *)
(* allows, which MijiaRuntime implements; other pages start logins too,    *)
(* and requests this page gave up may be served later.                     *)
(* The page's generation counter shows in "current": a request or timer    *)
(* begun before the last stopQrPolling is not.                             *)
(***************************************************************************)
EXTENDS Naturals

CONSTANT MaxLogins  \* bound on the login jobs started

ASSUME LoginsAssumption == MaxLogins \in Nat \ {0}

VARIABLES qrServer,  \* the server's job by id
          qrJobs,    \* jobs started so far
          qrShown,   \* qrJob, id 0 for none
          qrTimer,   \* a poll is scheduled
          qrStart, qrRemove,  \* the page's calls
          qrPolls,   \* the polls in flight
          qrPolling, \* pollingJobId
          qrTold,    \* history: the job whose success was told last
          qrLatest   \* history: the job the last start returned, 0 after a removal

qrVars == <<qrServer, qrJobs, qrShown, qrTimer, qrStart, qrRemove, qrPolls, qrPolling, qrTold, qrLatest>>

Logins == 1 .. MaxLogins
QrOver == {"success", "failed", "canceled"}
QrNoCall == [pc |-> "none", id |-> 0, current |-> FALSE]
QrNoPoll == [pc |-> "none", status |-> "none", current |-> FALSE]
NoneShown == [id |-> 0, status |-> "none"]

Contract == INSTANCE LoginJobs WITH Ids <- Logins, shown <- qrServer

QrInit ==
  /\ Contract!Init /\ qrJobs = 0
  /\ qrShown = NoneShown /\ qrTimer = FALSE
  /\ qrStart = QrNoCall /\ qrRemove = QrNoCall
  /\ qrPolls = [j \in Logins |-> QrNoPoll]
  /\ qrPolling = 0 /\ qrTold = 0 /\ qrLatest = 0

(* stopQrPolling: what was begun before is current no more. *)
QrOutdated(polls) == [j \in Logins |-> [polls[j] EXCEPT !.current = FALSE]]
PollEnds(j) == [qrPolls EXCEPT ![j] = QrNoPoll]
NoLongerPolling(j) == qrPolling' = IF qrPolling = j THEN 0 ELSE qrPolling

-----------------------------------------------------------------------------
(* Starting a login *)

StartClicked ==
  /\ qrStart = QrNoCall /\ qrRemove = QrNoCall
  /\ qrStart' = [pc |-> "asked", id |-> 0, current |-> TRUE]
  /\ qrTimer' = FALSE /\ qrPolls' = QrOutdated(qrPolls)
  /\ UNCHANGED <<qrServer, qrJobs, qrShown, qrRemove, qrPolling, qrTold, qrLatest>>

StartServed ==
  /\ qrStart.pc = "asked" /\ qrJobs < MaxLogins
  /\ qrJobs' = qrJobs + 1
  /\ Contract!GivesOut(qrJobs')
  /\ qrStart' = [qrStart EXCEPT !.pc = "answered", !.id = qrJobs']
  /\ UNCHANGED <<qrShown, qrTimer, qrRemove, qrPolls, qrPolling, qrTold, qrLatest>>

QrStartReturns ==
  /\ qrStart.pc = "answered"
  /\ qrStart' = QrNoCall
  /\ IF qrStart.current
       THEN /\ qrShown' = [id |-> qrStart.id, status |-> "open"]
            /\ qrTimer' = TRUE
            /\ qrLatest' = qrStart.id
       ELSE UNCHANGED <<qrShown, qrTimer, qrLatest>>
  /\ UNCHANGED <<qrServer, qrJobs, qrRemove, qrPolls, qrPolling, qrTold>>

StartFails ==
  /\ qrStart.pc # "none"
  /\ qrStart' = QrNoCall
  /\ qrShown' = IF qrStart.current THEN NoneShown ELSE qrShown
  /\ UNCHANGED <<qrServer, qrJobs, qrTimer, qrRemove, qrPolls, qrPolling, qrTold, qrLatest>>

-----------------------------------------------------------------------------
(* Polling it, by the timer or by hand *)

Polls ==
  LET j == qrShown.id IN
  IF j = 0 THEN UNCHANGED <<qrPolls, qrPolling>>
  ELSE IF qrPolling = j THEN UNCHANGED <<qrPolls, qrPolling>>
  ELSE /\ qrPolls' = [qrPolls EXCEPT ![j] = [pc |-> "asked", status |-> "none", current |-> TRUE]]
       /\ qrPolling' = j

QrTimerFires ==
  /\ qrTimer /\ qrTimer' = FALSE
  /\ Polls
  /\ UNCHANGED <<qrServer, qrJobs, qrShown, qrStart, qrRemove, qrTold, qrLatest>>

PollClicked ==
  /\ qrShown.id # 0 /\ qrShown.status \notin {"failed", "canceled"}
  /\ qrTimer' = FALSE
  /\ Polls
  /\ UNCHANGED <<qrServer, qrJobs, qrShown, qrStart, qrRemove, qrTold, qrLatest>>

PollServed(j) ==
  /\ qrPolls[j].pc = "asked"
  /\ qrPolls' = [qrPolls EXCEPT ![j].pc = "answered", ![j].status = qrServer[j]]
  /\ UNCHANGED <<qrServer, qrJobs, qrShown, qrTimer, qrStart, qrRemove, qrPolling, qrTold, qrLatest>>

(* A faulty variant: the answer of a poll counts while no other job is shown. *)
PollOfShown(j) == qrShown.id \in {0, j}

PollCurrent(j) == qrPolls[j].current /\ qrShown.id = j

(* A job the server does not know is shown as canceled (404), one that the *)
(* page may not read as failed (401, 403).                                 *)
PollReturns(j) ==
  /\ qrPolls[j].pc = "answered" /\ PollCurrent(j)
  /\ \E status \in {IF qrPolls[j].status = "none" THEN "canceled" ELSE qrPolls[j].status, "failed"} :
     IF status \in QrOver
       THEN /\ qrTimer' = FALSE
            /\ qrStart' = [qrStart EXCEPT !.current = FALSE]
            /\ qrPolls' = QrOutdated(PollEnds(j))
            /\ qrShown' = IF status = "success" THEN NoneShown ELSE [qrShown EXCEPT !.status = status]
            /\ qrTold' = IF status = "success" THEN j ELSE qrTold
       ELSE /\ qrTimer' = TRUE /\ qrPolls' = PollEnds(j)
            /\ UNCHANGED <<qrStart, qrShown, qrTold>>
  /\ NoLongerPolling(j)
  /\ UNCHANGED <<qrServer, qrJobs, qrRemove, qrLatest>>

PollDropped(j) ==
  /\ qrPolls[j].pc # "none" /\ ~PollCurrent(j)
  /\ qrPolls' = PollEnds(j)
  /\ NoLongerPolling(j)
  /\ UNCHANGED <<qrServer, qrJobs, qrShown, qrTimer, qrStart, qrRemove, qrTold, qrLatest>>

PollLost(j) ==
  /\ qrPolls[j].pc # "none" /\ PollCurrent(j)
  /\ qrPolls' = PollEnds(j) /\ qrTimer' = TRUE
  /\ NoLongerPolling(j)
  /\ UNCHANGED <<qrServer, qrJobs, qrShown, qrStart, qrRemove, qrTold, qrLatest>>

-----------------------------------------------------------------------------
(* Removing the account, and the end of the administrator's session *)

RemoveClicked ==
  /\ qrStart = QrNoCall /\ qrRemove = QrNoCall
  /\ qrRemove' = [pc |-> "asked", id |-> 0, current |-> TRUE]
  /\ UNCHANGED <<qrServer, qrJobs, qrShown, qrTimer, qrStart, qrPolls, qrPolling, qrTold, qrLatest>>

RemoveServed ==
  /\ qrRemove.pc = "asked"
  /\ qrRemove' = [qrRemove EXCEPT !.pc = "answered"]
  /\ Contract!CancelAll
  /\ UNCHANGED <<qrJobs, qrShown, qrTimer, qrStart, qrPolls, qrPolling, qrTold, qrLatest>>

PageForgets == qrTimer' = FALSE /\ qrPolls' = QrOutdated(qrPolls) /\ qrShown' = NoneShown

RemoveReturns ==
  /\ qrRemove.pc = "answered"
  /\ qrRemove' = QrNoCall
  /\ PageForgets
  /\ qrLatest' = 0
  /\ UNCHANGED <<qrServer, qrJobs, qrStart, qrPolling, qrTold>>

RemoveFails ==
  /\ qrRemove.pc # "none"
  /\ qrRemove' = QrNoCall
  /\ UNCHANGED <<qrServer, qrJobs, qrShown, qrTimer, qrStart, qrPolls, qrPolling, qrTold, qrLatest>>

AdminSignsOut ==
  /\ PageForgets
  /\ qrStart' = [qrStart EXCEPT !.current = FALSE]
  /\ UNCHANGED <<qrServer, qrJobs, qrRemove, qrPolling, qrTold, qrLatest>>

(* The server's side: jobs end, or a restart forgets them.                 *)
JobsChange ==
  /\ Contract!Changes
  /\ UNCHANGED <<qrJobs, qrShown, qrTimer, qrStart, qrRemove, qrPolls, qrPolling, qrTold, qrLatest>>

QrNext ==
  \/ StartClicked \/ StartServed \/ QrStartReturns \/ StartFails
  \/ QrTimerFires \/ PollClicked
  \/ \E j \in Logins : PollServed(j) \/ PollReturns(j) \/ PollDropped(j) \/ PollLost(j)
  \/ RemoveClicked \/ RemoveServed \/ RemoveReturns \/ RemoveFails
  \/ AdminSignsOut \/ JobsChange

QrFairness ==
  /\ WF_qrVars(QrTimerFires)
  /\ WF_qrVars(QrStartReturns) /\ WF_qrVars(StartFails)
  /\ \A j \in Logins : SF_qrVars(PollServed(j)) /\ SF_qrVars(PollReturns(j)) /\ WF_qrVars(PollDropped(j))

QrSpec == QrInit /\ [][QrNext]_qrVars /\ QrFairness

-----------------------------------------------------------------------------
(* A success is only told of the login the user started last, and not of   *)
(* one whose account was removed since, however late its poll is answered. *)
ToldSuccessIsTheLatest == [][qrTold' # qrTold => qrTold' = qrLatest]_qrVars

=============================================================================
