----------------------------- MODULE MCLiveness -----------------------------
(***************************************************************************)
(* What must happen in the end: small instances of six components that     *)
(* share no state, one to a scene as in MCServices.  The fairness of each  *)
(* component is the one its module states, for the behaviours of its scene. *)
(***************************************************************************)
EXTENDS SyncProgress, RefreshTimer, SessionPage, LoginPage, ConfigWatcher

CONSTANTS Events, Local, Foreign, Lookups  \* of AuditTrail

VARIABLES scene,
          rows, file, writer, delivery, old, lock, replay, lookup

Audit == INSTANCE AuditTrail

auditVars == <<rows, file, writer, delivery, old, lock, replay, lookup>>

Scenes == {"sync page", "refresh timer", "audit trail", "session page", "login page", "config watcher"}

LiveInit ==
  /\ scene \in Scenes
  /\ Init /\ TimerInit /\ Audit!Init /\ PgInit /\ QrInit /\ CwInit
  /\ scene # "session page" => ~pgAuthed /\ pgCookie = 0 /\ pgLive = {}
  /\ scene # "config watcher" => cwExists

live == <<scene, vars, timerVars, auditVars, pgVars, qrVars, cwVars>>

(* A step of a component, in its scene.                                    *)
InSync(A) == scene = "sync page" /\ A /\ UNCHANGED <<scene, timerVars, auditVars, pgVars, qrVars, cwVars>>
InTimer(A) == scene = "refresh timer" /\ A /\ UNCHANGED <<scene, vars, auditVars, pgVars, qrVars, cwVars>>
InAudit(A) == scene = "audit trail" /\ A /\ UNCHANGED <<scene, vars, timerVars, pgVars, qrVars, cwVars>>
InSession(A) == scene = "session page" /\ A /\ UNCHANGED <<scene, vars, timerVars, auditVars, qrVars, cwVars>>
InLogin(A) == scene = "login page" /\ A /\ UNCHANGED <<scene, vars, timerVars, auditVars, pgVars, cwVars>>
InWatcher(A) == scene = "config watcher" /\ A /\ UNCHANGED <<scene, vars, timerVars, auditVars, pgVars, qrVars>>

LiveNext ==
  \/ InSync(Next) \/ InTimer(TimerNext) \/ InAudit(Audit!Next)
  \/ InSession(PgNext) \/ InLogin(QrNext) \/ InWatcher(CwNext)

-----------------------------------------------------------------------------
(* The fair actions of each component, numbered: a behaviour stays in its  *)
(* scene, so that fairness of the choice between the i-th actions of all   *)
(* scenes is fairness of each of them.                                     *)
SyncWeak(i) ==
  \/ i \in 1 .. 2 /\ i \in Runs /\ RunProceeds(i)
  \/ i \in 3 .. 4 /\ i - 2 \in Runs /\ StartReturns(i - 2)
  \/ i \in 5 .. 6 /\ i - 4 \in Calls /\ Continue(i - 4)
  \/ i = 7 /\ \E c \in Calls : TimerFires(c)

SyncStrong(i) ==
  \/ i \in Calls /\ Serve(i)
  \/ i - 2 \in Calls /\ Continue(i - 2) /\ call[i - 2].pc = "answered"

TimerWeak(i) == i \in Timers /\ Step(i)

AuditWeak(i) == i \in Local /\ Audit!ReplayStep(i)
AuditStrong(i) ==
  \E r \in Local :
    \/ i = 1 /\ Audit!BeginReplay(r)
    \/ i = 2 /\ (\E e \in Events : Audit!QuarantineFile(r, e) \/ Audit!ReadFile(r, e))
    \/ i = 3 /\ Audit!Deliver(r)
    \/ i = 4 /\ Audit!Unlink(r)

SessionWeak(i) ==
  \/ i = 1 /\ PgTimerFires
  \/ i = 2 /\ LogoutSent

SessionStrong(i) ==
  \/ i = 1 /\ RefreshServed
  \/ i = 2 /\ (RefreshAccepted \/ RefreshRefused)
  \/ i = 3 /\ LogoutServed
  \/ i = 4 /\ LogoutAccepted

LoginWeak(i) ==
  \/ i = 1 /\ QrTimerFires
  \/ i = 2 /\ QrStartReturns
  \/ i = 3 /\ StartFails
  \/ i - 3 \in Logins /\ PollDropped(i - 3)

LoginStrong(i) ==
  \/ i \in Logins /\ PollServed(i)
  \/ i - 2 \in Logins /\ PollReturns(i - 2)

WatcherWeak(i) ==
  \/ i = 1 /\ LoopLooks
  \/ i = 2 /\ LoopNotes
  \/ i = 3 /\ LoopReads

Weak(i) ==
  \/ InSync(SyncWeak(i)) \/ InTimer(TimerWeak(i)) \/ InAudit(AuditWeak(i))
  \/ InSession(SessionWeak(i)) \/ InLogin(LoginWeak(i)) \/ InWatcher(WatcherWeak(i))
Strong(i) ==
  \/ InSync(SyncStrong(i)) \/ InAudit(AuditStrong(i))
  \/ InSession(SessionStrong(i)) \/ InLogin(LoginStrong(i))

LiveSpec == /\ LiveInit /\ [][LiveNext]_live
            /\ \A i \in 1 .. 7 : WF_live(Weak(i))
            /\ \A i \in 1 .. 4 : SF_live(Strong(i))

-----------------------------------------------------------------------------
(* Queued events reach the database: see AuditTrail.                       *)
QueueDrains == Audit!QueueDrains

=============================================================================
