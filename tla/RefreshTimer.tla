---------------------------- MODULE RefreshTimer ----------------------------
(***************************************************************************)
(* The timer that refreshes the credential: start_, stop_credential_       *)
(* refresh_timer and _credential_refresh_job of server/mijia_runtime.py.   *)
(* Each `with self._refresh_timer_lock` block is one action.  Cancelling a *)
(* threading.Timer that has just fired does not stop its callback, so the  *)
(* callbacks of stopped and restarted timers overlap.                      *)
(***************************************************************************)
EXTENDS Naturals

CONSTANTS Timers,         \* Timer objects; one that is over may be used again
          None,           \* no timer
          MaxGeneration   \* bound on _refresh_timer_generation

ASSUME TimerAssumption == None \notin Timers /\ MaxGeneration \in Nat

VARIABLES enabled,      \* self._refresh_timer_enabled
          generation,   \* self._refresh_timer_generation
          timer,        \* self._refresh_timer
          thread        \* per Timer: where it stands, and its timer_generation

timerVars == <<enabled, generation, timer, thread>>

Pc   == {"over", "waiting", "fired", "checking"}
Over == [pc |-> "over", generation |-> 0]

TimerInit ==
  /\ enabled = FALSE
  /\ generation = 0
  /\ timer = None
  /\ thread = [t \in Timers |-> Over]

At(t, pc) == thread' = [thread EXCEPT ![t].pc = pc]

(* start_credential_refresh_timer *)
Start(t) ==
  /\ ~enabled
  /\ generation < MaxGeneration
  /\ thread[t].pc = "over"
  /\ enabled' = TRUE
  /\ generation' = generation + 1
  /\ timer' = t
  /\ thread' = [thread EXCEPT ![t] = [pc |-> "waiting", generation |-> generation + 1]]

(* stop_credential_refresh_timer: only a timer that waits is canceled.     *)
Stop ==
  /\ generation < MaxGeneration
  /\ enabled' = FALSE
  /\ generation' = generation + 1
  /\ timer' = None
  /\ thread' = [t \in Timers |-> IF t = timer /\ thread[t].pc = "waiting"
                                 THEN Over ELSE thread[t]]

(* The interval is over. *)
Fire(t) ==
  /\ thread[t].pc = "waiting"
  /\ At(t, "fired")
  /\ UNCHANGED <<enabled, generation, timer>>

(* A faulty variant: any enabled timer counts as the callback's own. *)
EnabledAtAll(t) == enabled

(* The condition of both lock blocks of _credential_refresh_job. *)
IsCurrent(t) == enabled /\ thread[t].generation = generation

(* The first block: an outdated callback returns.                          *)
Enter(t) ==
  /\ thread[t].pc = "fired"
  /\ IF IsCurrent(t) THEN At(t, "checking") /\ timer' = None
                     ELSE At(t, "over") /\ UNCHANGED timer
  /\ UNCHANGED <<enabled, generation>>

(* A faulty variant: the callback never schedules its successor. *)
FinishOnce(t) ==
  /\ thread[t].pc = "checking"
  /\ At(t, "over")
  /\ UNCHANGED <<enabled, generation, timer>>

(* The finally block, whatever became of the refresh: the next timer u.    *)
Finish(t) ==
  /\ thread[t].pc = "checking"
  /\ IF IsCurrent(t)
     THEN \E u \in Timers :
            /\ u = t \/ thread[u].pc = "over"
            /\ timer' = u
            /\ thread' = [thread EXCEPT ![t] = Over,
                            ![u] = [pc |-> "waiting", generation |-> generation]]
     ELSE At(t, "over") /\ UNCHANGED timer
  /\ UNCHANGED <<enabled, generation>>

Step(t) == Fire(t) \/ Enter(t) \/ Finish(t)

TimerNext == Stop \/ \E t \in Timers : Start(t) \/ Step(t)

TimerSpec == TimerInit /\ [][TimerNext]_timerVars

(* Timers fire and the refresh returns (its network calls time out).       *)
TimerFairSpec == TimerSpec /\ \A t \in Timers : WF_timerVars(Step(t))

----------------------------------------------------------------------------
(* Every variable keeps its type. *)
TimerTypeOK ==
  /\ enabled \in BOOLEAN
  /\ generation \in Nat
  /\ timer \in Timers \cup {None}
  /\ thread \in [Timers -> [pc : Pc, generation : Nat]]

Live(t) == thread[t].pc # "over" /\ thread[t].generation = generation

(* While the timer is on there is exactly one chain of timers and          *)
(* callbacks that will go on, however often it was stopped and started     *)
(* while a callback was running; while it is off there is none, and no     *)
(* timer of an earlier start is left waiting.                              *)
OneChain ==
  /\ enabled <=> \E t \in Timers : Live(t)
  /\ \A t, u \in Timers : Live(t) /\ Live(u) => t = u
  /\ \A t \in Timers : thread[t].pc = "waiting" => Live(t) /\ timer = t

(* A timer that is on checks the credential again and again, also after a  *)
(* refresh that failed.                                                    *)
ChecksGoOn ==
  enabled ~> (~enabled \/ \E t \in Timers : Live(t) /\ thread[t].pc = "checking")

=============================================================================
