--------------------------- MODULE AndroidService ---------------------------
(***************************************************************************)
(* The foreground service of the Android app (ServerService.java) and the  *)
(* embedded server it runs (mijia_android/runtime.py).  Callbacks of the   *)
(* service run on the main thread, one at a time; the server runs on a     *)
(* thread of its start, and each stop calls into Python from a thread of   *)
(* its own.  A service object may be destroyed while its server thread     *)
(* still runs and another be created in the same process, although         *)
(* "active" and the variables of runtime.py are shared by all of them.     *)
(* The health thread, the wake lock and the notification are left out.     *)
(***************************************************************************)
EXTENDS Naturals, FiniteSets

CONSTANTS MaxStarts,  \* bound on the starts that create a server thread
          MaxStops    \* bound on the stops asked

ASSUME AndroidAssumption == MaxStarts \in Nat \ {0} /\ MaxStops \in Nat

VARIABLES anRequested, \* the system holds the service as started
          anBound,     \* the console is bound to it
          anIntent,    \* the intent on its way to onStartCommand
          anObject,    \* the live service object, 0 for none
          anService,   \* object -> its fields
          anActive,    \* static ServerService.active
          anPython,    \* Python.isStarted()
          anRun,       \* start -> its server thread
          anStop,      \* stop -> its thread
          anServer,    \* runtime._server, 0 for None
          anFlag,      \* runtime._stop_requested
          anExit,      \* server -> should_exit
          anCrossed    \* history: starts for which a thread of another object
                       \* overwrote what the objects share

anVars == <<anRequested, anBound, anIntent, anObject, anService, anActive, anPython,
            anRun, anStop, anServer, anFlag, anExit, anCrossed>>
anSystem == <<anRequested, anBound, anIntent, anObject>>
anRuntime == <<anServer, anFlag, anExit, anCrossed>>

Starts == 1 .. MaxStarts
Stops == 1 .. MaxStops
Objects == 1 .. MaxStarts + MaxStops + 1
FreshService == [started |-> FALSE, stopping |-> FALSE, generation |-> 0]
NoStop == [pc |-> "none", object |-> 0]
NoRun == [pc |-> "none", object |-> 0, generation |-> 0]

AnInit ==
  /\ anRequested = FALSE /\ anBound = FALSE /\ anIntent = "none" /\ anObject = 0
  /\ anService = [o \in Objects |-> FreshService]
  /\ anActive = FALSE /\ anPython = FALSE
  /\ anRun = [r \in Starts |-> NoRun]
  /\ anStop = [s \in Stops |-> NoStop]
  /\ anServer = 0 /\ anFlag = FALSE /\ anExit = [r \in Starts |-> FALSE]
  /\ anCrossed = {}

Unused(threads) == {i \in DOMAIN threads : threads[i].pc = "none"}
Used == Cardinality(Starts \ Unused(anRun)) + Cardinality(Stops \ Unused(anStop))
StopGoes(s, pc) == anStop' = [anStop EXCEPT ![s].pc = pc]

-----------------------------------------------------------------------------
(* The system and the console *)

DestroyDue == anObject # 0 /\ ~anRequested /\ ~anBound

(* A bind or a start creates the object when there is none.                *)
Created == anObject' = IF anObject = 0 THEN Used + 1 ELSE anObject

ConsoleOpens ==
  /\ ~anBound /\ ~DestroyDue
  /\ anBound' = TRUE /\ Created
  /\ UNCHANGED <<anRequested, anIntent, anService, anActive, anPython, anRun, anStop, anRuntime>>

ConsoleCloses ==
  /\ anBound /\ anBound' = FALSE
  /\ UNCHANGED <<anRequested, anIntent, anObject, anService, anActive, anPython, anRun, anStop, anRuntime>>

IntentSent ==
  /\ ~DestroyDue /\ anIntent = "none"
  /\ \E intent \in {"start", "stop"} : anIntent' = intent
  /\ anRequested' = TRUE /\ Created
  /\ UNCHANGED <<anBound, anService, anActive, anPython, anRun, anStop, anRuntime>>

(* onStartCommand *)
StartArrives ==
  /\ anIntent = "start" /\ anIntent' = "none"
  /\ IF anService[anObject].started THEN UNCHANGED <<anService, anActive, anRun>>
     ELSE \E r \in Unused(anRun) :
            LET gen == anService[anObject].generation + 1 IN
            /\ anService' = [anService EXCEPT ![anObject] =
                               [started |-> TRUE, stopping |-> FALSE, generation |-> gen]]
            /\ anActive' = TRUE
            /\ anRun' = [anRun EXCEPT ![r] = [pc |-> "begin", object |-> anObject, generation |-> gen]]
  /\ UNCHANGED <<anRequested, anBound, anObject, anPython, anStop, anRuntime>>

(* requestStop: the flag of the object, and a thread for the call.         *)
RequestStop ==
  /\ anService' = [anService EXCEPT ![anObject].stopping = TRUE]
  /\ \E s \in Unused(anStop) : anStop' = [anStop EXCEPT ![s] = [pc |-> "call", object |-> anObject]]

StopArrives ==
  /\ anIntent = "stop" /\ anIntent' = "none"
  /\ RequestStop
  /\ UNCHANGED <<anRequested, anBound, anObject, anActive, anPython, anRun, anRuntime>>

StopsSelf == anRequested' = FALSE

PostedStopSelf(s) ==
  /\ anStop[s].pc = "posted" /\ StopGoes(s, "done")
  /\ IF anStop[s].object = anObject THEN StopsSelf ELSE UNCHANGED anRequested
  /\ UNCHANGED <<anBound, anIntent, anObject, anService, anActive, anPython, anRun, anRuntime>>

(* onDestroy, after the starts the system has already handed over.         *)
Destroyed ==
  /\ DestroyDue /\ anIntent = "none"
  /\ anObject' = 0
  /\ IF anActive THEN RequestStop ELSE UNCHANGED <<anService, anStop>>
  /\ UNCHANGED <<anRequested, anBound, anIntent, anActive, anPython, anRun, anRuntime>>

-----------------------------------------------------------------------------
(* The thread of a start, and runtime.py *)

RunGoes(r, pc) == anRun' = [anRun EXCEPT ![r].pc = pc]
StoppingSeen(r) == anService[anRun[r].object].stopping

(* The thread r overwrites something the other objects' threads P rely on. *)
Crosses(r, P) ==
  anCrossed' = anCrossed \cup {q \in Starts : anRun[q].pc \in P /\ anRun[q].object # anRun[r].object}
Cleared == IF anFlag THEN {"setup"} ELSE {}   \* a stop that was asked is forgotten

PythonStarts(r) ==
  /\ anRun[r].pc = "begin"
  /\ anPython' = TRUE
  /\ RunGoes(r, "first check")
  /\ UNCHANGED <<anSystem, anService, anActive, anStop, anRuntime>>

FirstCheck(r) ==
  /\ anRun[r].pc = "first check"
  /\ RunGoes(r, IF StoppingSeen(r) THEN "ended" ELSE "prepare")
  /\ UNCHANGED <<anSystem, anService, anActive, anPython, anStop, anRuntime>>

Prepare(r) ==
  /\ anRun[r].pc = "prepare"
  /\ IF anServer # 0 THEN RunGoes(r, "ended") /\ UNCHANGED <<anFlag, anCrossed>>
                     ELSE RunGoes(r, "second check") /\ anFlag' = FALSE /\ Crosses(r, Cleared)
  /\ UNCHANGED <<anSystem, anService, anActive, anPython, anStop, anServer, anExit>>

(* A faulty variant: the stop is looked for once, before prepare. *)
SecondCheckLeftOut(r) ==
  /\ anRun[r].pc = "second check"
  /\ RunGoes(r, "setup")
  /\ UNCHANGED <<anSystem, anService, anActive, anPython, anStop, anRuntime>>

SecondCheck(r) ==
  /\ anRun[r].pc = "second check"
  /\ RunGoes(r, IF StoppingSeen(r) THEN "ended" ELSE "setup")
  /\ UNCHANGED <<anSystem, anService, anActive, anPython, anStop, anRuntime>>

(* run: the application is built, then published with the flag seen.       *)
SetupFails(r) ==
  /\ anRun[r].pc = "setup" /\ RunGoes(r, "ended")
  /\ UNCHANGED <<anSystem, anService, anActive, anPython, anStop, anRuntime>>

Publish(r) ==
  /\ anRun[r].pc = "setup"
  /\ RunGoes(r, "serving")
  /\ anServer' = r /\ anExit' = [anExit EXCEPT ![r] = anFlag]
  /\ Crosses(r, {"serving"})
  /\ UNCHANGED <<anSystem, anService, anActive, anPython, anStop, anFlag>>

(* server.run returns when it sees should_exit, or fails.                  *)
ServerReturns(r) ==
  /\ anRun[r].pc = "serving" /\ RunGoes(r, "leaving")
  /\ UNCHANGED <<anSystem, anService, anActive, anPython, anStop, anRuntime>>

Withdraw(r) ==
  /\ anRun[r].pc = "leaving"
  /\ RunGoes(r, "ended")
  /\ anServer' = 0 /\ anFlag' = FALSE
  /\ Crosses(r, Cleared \cup {"serving"})
  /\ UNCHANGED <<anSystem, anService, anActive, anPython, anStop, anExit>>

RunPcs == {"none", "begin", "first check", "prepare", "second check", "setup", "serving", "leaving",
           "ended", "done"}
UnderWayPcs == RunPcs \ {"none", "done"}

(* What the thread posts at its end; without "active", onDestroy of another *)
(* object will ask for no stop.                                            *)
RunEnds(r) ==
  /\ anRun[r].pc = "ended"
  /\ RunGoes(r, "done")
  /\ LET o == anRun[r].object IN
     IF anService[o].generation # anRun[r].generation
       THEN UNCHANGED <<anService, anActive, anRequested, anCrossed>>
       ELSE /\ anActive' = FALSE /\ Crosses(r, UnderWayPcs)
            /\ anService' = [anService EXCEPT ![o].started = FALSE, ![o].generation = @ + 1]
            /\ IF o = anObject THEN StopsSelf ELSE UNCHANGED anRequested
  /\ UNCHANGED <<anBound, anIntent, anObject, anPython, anStop, anServer, anFlag, anExit>>

(* The thread of a stop.                                                   *)
StopCalls(s) ==
  /\ anStop[s].pc = "call" /\ StopGoes(s, "check")
  /\ IF anPython
       THEN /\ anFlag' = TRUE
            /\ anExit' = [r \in Starts |-> anExit[r] \/ r = anServer]
       ELSE UNCHANGED <<anFlag, anExit>>
  /\ UNCHANGED <<anSystem, anService, anActive, anPython, anRun, anServer, anCrossed>>

StopChecks(s) ==
  /\ anStop[s].pc = "check" /\ StopGoes(s, IF anActive THEN "done" ELSE "posted")
  /\ UNCHANGED <<anSystem, anService, anActive, anPython, anRun, anRuntime>>

AnNext ==
  \/ ConsoleOpens \/ ConsoleCloses \/ IntentSent \/ StartArrives
  \/ StopArrives \/ Destroyed
  \/ \E r \in Starts : \/ PythonStarts(r) \/ FirstCheck(r) \/ Prepare(r) \/ SecondCheck(r)
                       \/ SetupFails(r) \/ Publish(r) \/ ServerReturns(r) \/ Withdraw(r) \/ RunEnds(r)
  \/ \E s \in Stops : StopCalls(s) \/ StopChecks(s) \/ PostedStopSelf(s)

AnSpec == AnInit /\ [][AnNext]_anVars

-----------------------------------------------------------------------------
(* A server whose service was told to stop, or is destroyed, does not go   *)
(* on serving: it has been told to exit, or the thread that will tell it   *)
(* is on its way, wherever between two checks of its start the stop came   *)
(* -- unless a thread of another service object forgot the stop, took the  *)
(* server's place or cleared "active" while this one set up or served:     *)
(* nothing a single object does leaves a server running.                   *)
StopIsHeeded ==
  \A r \in Starts :
    /\ anRun[r].pc = "serving" /\ r \notin anCrossed
    /\ StoppingSeen(r) \/ anRun[r].object # anObject
    => anExit[r] \/ \E s \in Stops : anStop[s].pc = "call"

=============================================================================
