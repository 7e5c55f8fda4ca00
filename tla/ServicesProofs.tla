--------------------------- MODULE ServicesProofs ---------------------------
(***************************************************************************)
(* Proofs about what runs beside the requests: RefreshTimer for any timers *)
(* and generations, SdkCache for any clients and changes, AndroidService   *)
(* for any objects, starts and stops, ReleaseMirror for any attachments.   *)
(***************************************************************************)
EXTENDS RefreshTimer, SdkCache, AndroidService, ReleaseMirror, FiniteSetTheorems, TLAPS

-----------------------------------------------------------------------------
(* The timer of the credential refresh. *)

(* No timer carries a generation that was not given out yet.               *)
GenerationInv == \A t \in Timers : thread[t].generation <= generation

TimerInv == TimerTypeOK /\ GenerationInv /\ OneChain

(* The timer is off at first. *)
LEMMA InitTimer == TimerInit => TimerInv
  <1> SUFFICES ASSUME TimerInit PROVE TimerInv
    OBVIOUS
  <1>1. \A t \in Timers : thread[t].pc = "over" /\ thread[t].generation = 0
    BY DEF TimerInit, Over
  <1>2. TimerTypeOK
    BY DEF TimerInit, TimerTypeOK, Over, Pc
  <1>3. QED
    BY <1>1, <1>2 DEF TimerInit, TimerInv, GenerationInv, OneChain, Live

(* Every step keeps the types and gives out no future generation. *)
LEMMA TypeStep ==
  ASSUME TimerTypeOK, GenerationInv, [TimerNext]_timerVars
  PROVE  TimerTypeOK' /\ GenerationInv'
  <1>1. CASE UNCHANGED timerVars
    BY <1>1 DEF timerVars, TimerTypeOK, GenerationInv
  <1>2. CASE Stop
    <2>1. thread' \in [Timers -> [pc : Pc, generation : Nat]]
      BY <1>2 DEF Stop, TimerTypeOK, Over, Pc
    <2>2. \A t \in Timers : thread'[t].generation <= generation'
      <3>1. \A t \in Timers : thread'[t] \in {Over, thread[t]}
        BY <1>2 DEF Stop
      <3>2. QED
        BY <1>2, <3>1 DEF Stop, TimerTypeOK, Over, GenerationInv
    <2>3. generation' \in Nat /\ timer' = None
      BY <1>2 DEF Stop, TimerTypeOK
    <2>4. enabled' \in BOOLEAN
      BY <1>2, Zenon DEF Stop
    <2>5. QED
      BY <2>1, <2>2, <2>3, <2>4 DEF TimerTypeOK, GenerationInv
  <1>3. ASSUME NEW t \in Timers, NEW pc \in Pc, At(t, pc)
        PROVE  /\ thread' \in [Timers -> [pc : Pc, generation : Nat]]
               /\ \A u \in Timers : thread'[u].generation <= generation
    BY <1>3 DEF At, TimerTypeOK, GenerationInv
  <1>4. ASSUME NEW t \in Timers, Start(t)
        PROVE  TimerTypeOK' /\ GenerationInv'
    <2>1. thread' \in [Timers -> [pc : Pc, generation : Nat]]
      BY <1>4 DEF Start, TimerTypeOK, Pc
    <2>2. \A u \in Timers : thread'[u].generation <= generation'
      BY <1>4 DEF Start, TimerTypeOK, GenerationInv
    <2>3. QED
      BY <1>4, <2>1, <2>2 DEF Start, TimerTypeOK, GenerationInv
  <1>5. ASSUME NEW t \in Timers, Fire(t)
        PROVE  TimerTypeOK' /\ GenerationInv'
    BY <1>5, <1>3 DEF Fire, TimerTypeOK, GenerationInv, Pc
  <1>6. ASSUME NEW t \in Timers, Enter(t)
        PROVE  TimerTypeOK' /\ GenerationInv'
    BY <1>6, <1>3 DEF Enter, TimerTypeOK, GenerationInv, Pc
  <1>7. ASSUME NEW t \in Timers, Finish(t)
        PROVE  TimerTypeOK' /\ GenerationInv'
    <2>1. CASE At(t, "over") /\ UNCHANGED timer
      BY <1>7, <2>1, <1>3 DEF Finish, TimerTypeOK, GenerationInv, Pc
    <2>2. CASE IsCurrent(t)
      <3>1. PICK u \in Timers :
              /\ timer' = u
              /\ thread' = [thread EXCEPT ![t] = Over,
                              ![u] = [pc |-> "waiting", generation |-> generation]]
        BY <1>7, <2>2 DEF Finish
      <3>2. thread' \in [Timers -> [pc : Pc, generation : Nat]]
        BY <3>1 DEF TimerTypeOK, Over, Pc
      <3>3. \A v \in Timers : thread'[v].generation <= generation
        BY <3>1 DEF TimerTypeOK, Over, GenerationInv
      <3>4. QED
        BY <1>7, <3>1, <3>2, <3>3 DEF Finish, TimerTypeOK, GenerationInv
    <2>3. QED
      BY <1>7, <2>1, <2>2 DEF Finish
  <1>8. QED
    BY <1>1, <1>2, <1>4, <1>5, <1>6, <1>7 DEF TimerNext, Step

(* The one chain, action by action: the timer that acts is the chain, or   *)
(* it is outdated.                                                         *)
LEMMA ChainStep ==
  ASSUME TimerInv, [TimerNext]_timerVars
  PROVE  OneChain'
  <1> USE DEF TimerInv
  <1>1. CASE UNCHANGED timerVars
    BY <1>1 DEF timerVars, OneChain, Live
  <1>2. CASE Stop
    <2>1. \A t \in Timers : thread'[t].pc # "waiting"
      BY <1>2 DEF Stop, OneChain, TimerTypeOK, Over
    <2>2. \A t \in Timers : thread'[t].generation < generation'
      BY <1>2 DEF Stop, GenerationInv, TimerTypeOK, Over
    <2>3. \A t \in Timers : thread'[t].generation # generation'
      BY <2>2, <1>2 DEF Stop, TimerTypeOK, Over
    <2>4. QED
      BY <1>2, <2>1, <2>3 DEF Stop, OneChain, Live
  <1>3. ASSUME NEW t \in Timers, Start(t)
        PROVE  OneChain'
    <2>1. thread'[t].pc = "waiting" /\ thread'[t].generation = generation'
      BY <1>3 DEF Start, TimerTypeOK
    <2>2. \A u \in Timers \ {t} : thread'[u] = thread[u]
      BY <1>3 DEF Start, TimerTypeOK
    <2>3. \A u \in Timers \ {t} : thread[u].pc # "waiting"
      BY <1>3 DEF Start, OneChain
    <2>4. \A u \in Timers \ {t} : thread[u].generation # generation'
      BY <1>3 DEF Start, GenerationInv, TimerTypeOK
    <2>5. QED
      BY <1>3, <2>1, <2>2, <2>3, <2>4 DEF Start, OneChain, Live
  <1>4. ASSUME NEW t \in Timers, Fire(t)
        PROVE  OneChain'
    BY <1>4 DEF Fire, At, TimerTypeOK, OneChain, Live
  <1>5. ASSUME NEW t \in Timers, Enter(t)
        PROVE  OneChain'
    <2>1. CASE IsCurrent(t)
      BY <1>5, <2>1 DEF Enter, IsCurrent, At, TimerTypeOK, OneChain, Live
    <2>2. CASE ~IsCurrent(t)
      <3>1. ~Live(t)
        BY <2>2 DEF IsCurrent, OneChain, Live
      <3>2. QED
        BY <1>5, <2>2, <3>1 DEF Enter, At, TimerTypeOK, OneChain, Live
    <2>3. QED
      BY <2>1, <2>2
  <1>6. ASSUME NEW t \in Timers, Finish(t)
        PROVE  OneChain'
    <2>1. CASE IsCurrent(t)
      <3>1. PICK u \in Timers :
              /\ u = t \/ thread[u].pc = "over"
              /\ timer' = u
              /\ thread' = [thread EXCEPT ![t] = Over,
                              ![u] = [pc |-> "waiting", generation |-> generation]]
        BY <1>6, <2>1 DEF Finish
      <3>2. Live(t) /\ enabled
        BY <1>6, <2>1 DEF Finish, IsCurrent, Live
      <3>3. thread'[u] = [pc |-> "waiting", generation |-> generation]
        BY <3>1 DEF TimerTypeOK
      <3>4. \A v \in Timers \ {u} : thread'[v] = IF v = t THEN Over ELSE thread[v]
        BY <3>1 DEF TimerTypeOK
      <3>5. \A v \in Timers \ {u} : ~Live(v)' /\ thread'[v].pc # "waiting"
        BY <3>2, <3>4, <1>6 DEF OneChain, Live, Over, Finish
      <3>6. Live(u)'
        BY <3>3, <1>6 DEF Live, Finish
      <3>7. QED
        BY <1>6, <3>1, <3>2, <3>5, <3>6 DEF Finish, OneChain
    <2>2. CASE ~IsCurrent(t)
      <3>1. ~Live(t)
        BY <2>2 DEF IsCurrent, OneChain, Live
      <3>2. QED
        BY <1>6, <2>2, <3>1 DEF Finish, At, TimerTypeOK, OneChain, Live
    <2>3. QED
      BY <2>1, <2>2
  <1>7. QED
    BY <1>1, <1>2, <1>3, <1>4, <1>5, <1>6 DEF TimerNext, Step

(* At any time the timer is on, exactly one chain of timers and callbacks  *)
(* goes on, and none while it is off.                                      *)
THEOREM TimerKeepsOneChain == TimerSpec => []OneChain
  <1>1. TimerInv /\ [TimerNext]_timerVars => TimerInv'
    BY TypeStep, ChainStep DEF TimerInv
  <1>2. QED
    BY <1>1, InitTimer, PTL DEF TimerSpec, TimerInv

-----------------------------------------------------------------------------
(* The two tiers of the SDK cache. *)

SdkPcs == {"idle", "look", "take", "askRedis", "backfill", "fetch", "keep", "keepRedis", "send", "drop",
           "dropRedis"}
SdkPhases == {"read", "validate", "forget", "find", "forgetList", "refresh"}
SdkRecords == [pc : SdkPcs, phase : SdkPhases, want : SdkKeys, key : SdkKeys, got : Nat,
               home : BOOLEAN, since : Nat, alone : BOOLEAN]

SdkTypeOK ==
  /\ sdkCloud \in Nat
  /\ sdkMem \in [SdkKeys -> Nat \cup {SdkNone}] /\ sdkRedis \in [SdkKeys -> Nat \cup {SdkNone}]
  /\ sdkCalls \in [SdkCalls -> SdkRecords]
  /\ sdkFloor \in [SdkKeys -> Nat]

FloorsBehind == sdkFloor["device"] <= sdkFloor["list"] /\ \A k \in SdkKeys : sdkFloor[k] <= sdkCloud

AloneIsAlone ==
  \A c \in SdkCalls : sdkCalls[c].alone = TRUE =>
    ~SdkAt(c, "idle") /\ \A o \in SdkCalls \ {c} : SdkAt(o, "idle")

(* Where a call can be, and what it looks for. *)
Shaped(call) ==
  /\ call.pc \in {"drop", "dropRedis"} => call.phase \in {"forget", "forgetList", "refresh"}
  /\ call.pc = "send" => call.phase = "validate"
  /\ call.pc \in SdkPcs \ {"idle", "drop", "dropRedis", "send"} => call.phase \in {"read", "validate", "find"}
  /\ call.key = call.want \/ (call.key = "list" /\ call.want = "device")
  /\ call.phase \in {"validate", "find"} => call.want = "device"
  /\ call.phase = "find" => call.home = FALSE

(* What it holds to put into a tier is recent enough for it. *)
Carries(call) == call.pc \in {"backfill", "keep", "keepRedis"} => call.got >= sdkFloor[call.key]

(* What a call that meets no other will make visible, and has dropped. *)
Clear(k) == sdkMem[k] = SdkNone /\ sdkRedis[k] = SdkNone
Dropped(call) ==
  call.alone = TRUE =>
    /\ call.since <= sdkCloud /\ \A k \in SdkKeys : sdkFloor[k] <= call.since
    /\ call.phase \in {"find", "forgetList"} => Clear("properties")
    /\ call.phase = "forgetList" /\ call.home => Clear("device")
    /\ call.pc = "dropRedis" =>
         /\ call.phase = "forget" => sdkMem["device"] = SdkNone /\ sdkMem["properties"] = SdkNone
         /\ call.phase \in {"forgetList", "refresh"} => sdkMem["list"] = SdkNone
         /\ call.phase = "refresh" /\ ~call.home => sdkMem["device"] = SdkNone /\ sdkMem["properties"] = SdkNone

Sound(call) == Shaped(call) /\ Carries(call) /\ Dropped(call)

SdkInv ==
  /\ SdkTypeOK /\ FloorsBehind /\ AloneIsAlone /\ SeenUnlessOverlapped
  /\ \A c \in SdkCalls : Sound(sdkCalls[c])

(* A step of a call that raises no floor leaves the others as sound as they *)
(* were: those are idle if one of the two was alone. *)
LEMMA CallGoes ==
  ASSUME SdkInv, NEW c \in SdkCalls, ~SdkAt(c, "idle"), NEW state \in SdkRecords, SdkGoes(c, state),
         state.alone = TRUE => sdkCalls[c].alone = TRUE /\ state.pc # "idle",
         UNCHANGED sdkFloor, sdkCloud' \in Nat, sdkCloud <= sdkCloud',
         sdkMem' \in [SdkKeys -> Nat \cup {SdkNone}], sdkRedis' \in [SdkKeys -> Nat \cup {SdkNone}],
         SeenUnlessOverlapped', Shaped(state), Carries(state)', Dropped(state)'
  PROVE  SdkInv'
  <1>1. sdkCalls'[c] = state /\ \A o \in SdkCalls \ {c} : sdkCalls'[o] = sdkCalls[o]
    BY DEF SdkGoes, SdkInv, SdkTypeOK
  <1>2. SdkTypeOK'
    BY DEF SdkGoes, SdkInv, SdkTypeOK
  <1>3. FloorsBehind'
    <2>1. \A k \in SdkKeys : sdkFloor[k] \in Nat
      BY DEF SdkInv, SdkTypeOK
    <2>2. QED
      BY <2>1 DEF SdkInv, SdkTypeOK, FloorsBehind
  <1>4. \A o \in SdkCalls \ {c} : sdkCalls[o].alone # TRUE
    BY DEF SdkInv, AloneIsAlone
  <1>5. AloneIsAlone'
    BY <1>1, <1>4 DEF SdkInv, AloneIsAlone, SdkAt
  <1>6. ASSUME NEW o \in SdkCalls PROVE Sound(sdkCalls[o])'
    <2>1. CASE o = c
      BY <1>1, <2>1 DEF Sound, Shaped
    <2>2. CASE o # c
      BY <1>1, <1>4, <2>2, ZenonT(60) DEF SdkInv, Sound, Shaped, Carries, Dropped
    <2>3. QED
      BY <2>1, <2>2
  <1>7. QED
    BY <1>2, <1>3, <1>5, <1>6 DEF SdkInv

(* The same where nothing but the call changes. *)
LEMMA CallMoves ==
  ASSUME SdkInv, NEW c \in SdkCalls, ~SdkAt(c, "idle"), NEW state \in SdkRecords, SdkGoes(c, state),
         state.alone = TRUE => sdkCalls[c].alone = TRUE /\ state.pc # "idle",
         UNCHANGED <<sdkCloud, sdkMem, sdkRedis, sdkFloor>>, Shaped(state), Carries(state), Dropped(state)
  PROVE  SdkInv'
  <1>1. /\ sdkCloud \in Nat /\ sdkCloud <= sdkCloud
        /\ sdkMem \in [SdkKeys -> Nat \cup {SdkNone}] /\ sdkRedis \in [SdkKeys -> Nat \cup {SdkNone}]
    BY DEF SdkInv, SdkTypeOK
  <1>2. SeenUnlessOverlapped' /\ Carries(state)' /\ Dropped(state)'
    BY DEF SdkInv, SeenUnlessOverlapped, Carries, Dropped, Clear
  <1>3. QED
    BY <1>1, <1>2, CallGoes

(* A call that is over carries and owes nothing. *)
LEMMA IdleIsSound ==
  SdkIdle \in SdkRecords /\ SdkIdle.alone = FALSE /\ Shaped(SdkIdle) /\ Carries(SdkIdle) /\ Dropped(SdkIdle)
  BY DEF SdkIdle, SdkRecords, SdkPcs, SdkPhases, SdkKeys, Shaped, Carries, Dropped

(* What follows when a call has its entry in hand. *)
HasState(call, got) ==
  LET had == [call EXCEPT !.got = got] IN
  IF had.key # had.want THEN [had EXCEPT !.key = had.want, !.pc = "keep"]
  ELSE CASE had.phase = "validate" -> [had EXCEPT !.pc = "send", !.got = 0]
         [] had.phase = "find" -> [had EXCEPT !.phase = "forgetList", !.pc = "drop", !.got = 0]
         [] OTHER -> SdkIdle

(* A call that has its entry goes on to a state where it carries nothing    *)
(* stale.                                                                   *)
LEMMA HasIsSound ==
  ASSUME NEW call \in SdkRecords, Shaped(call), call.phase \in {"read", "validate", "find"}, NEW got \in Nat
  PROVE  LET state == HasState(call, got) IN
         /\ state \in SdkRecords /\ Shaped(state)
         /\ state.pc \in {"backfill", "keep", "keepRedis"} =>
              state.got = got /\ call.key = "list" /\ state.key = "device"
         /\ state.alone = TRUE =>
              /\ call.alone = TRUE /\ state.since = call.since /\ state.pc \notin {"idle", "dropRedis"}
              /\ state.phase \in {"find", "forgetList"} => call.phase = "find" /\ call.want = "device"
              /\ state.phase = "forgetList" => state.home = FALSE
  <1> USE DEF SdkRecords, SdkPcs, SdkPhases, SdkKeys
  <1> DEFINE had == [call EXCEPT !.got = got]
             state == HasState(call, got)
  <1>1. /\ had \in SdkRecords /\ had.key = call.key /\ had.want = call.want /\ had.phase = call.phase
        /\ had.got = got /\ had.alone = call.alone /\ had.since = call.since /\ had.home = call.home
    OBVIOUS
  <1>2. state = IF had.key # had.want THEN [had EXCEPT !.key = had.want, !.pc = "keep"]
             ELSE CASE had.phase = "validate" -> [had EXCEPT !.pc = "send", !.got = 0]
                  [] had.phase = "find" -> [had EXCEPT !.phase = "forgetList", !.pc = "drop", !.got = 0]
                  [] OTHER -> SdkIdle
    BY DEF HasState
  <1> HIDE DEF had, state
  <1>3. CASE call.key # call.want
    <2>1. state = [had EXCEPT !.key = had.want, !.pc = "keep"]
      BY <1>1, <1>2, <1>3
    <2>2. /\ state \in SdkRecords /\ state.pc = "keep" /\ state.key = had.want /\ state.want = had.want
          /\ state.phase = had.phase /\ state.home = had.home /\ state.got = got
          /\ state.alone = had.alone /\ state.since = had.since
      BY <1>1, <2>1, ZenonT(60)
    <2>3. QED
      BY <1>1, <1>3, <2>2 DEF Shaped, state
  <1>4. CASE call.key = call.want /\ call.phase = "validate"
    <2>1. state = [had EXCEPT !.pc = "send", !.got = 0]
      BY <1>1, <1>2, <1>4
    <2>2. /\ state \in SdkRecords /\ state.pc = "send" /\ state.key = had.key /\ state.want = had.want
          /\ state.phase = had.phase /\ state.home = had.home
          /\ state.alone = had.alone /\ state.since = had.since
      BY <1>1, <2>1
    <2>3. QED
      BY <1>1, <1>4, <2>2 DEF Shaped, state
  <1>5. CASE call.key = call.want /\ call.phase = "find"
    <2>1. state = [had EXCEPT !.phase = "forgetList", !.pc = "drop", !.got = 0]
      BY <1>1, <1>2, <1>5
    <2>2. /\ state \in SdkRecords /\ state.pc = "drop" /\ state.key = had.key /\ state.want = had.want
          /\ state.phase = "forgetList" /\ state.home = had.home
          /\ state.alone = had.alone /\ state.since = had.since
      BY <1>1, <2>1
    <2>3. QED
      BY <1>1, <1>5, <2>2 DEF Shaped, state
  <1>6. CASE call.key = call.want /\ call.phase = "read"
    <2>1. state = SdkIdle
      BY <1>1, <1>2, <1>6
    <2>2. QED
      BY <2>1 DEF SdkIdle, Shaped, state
  <1>7. QED
    BY <1>3, <1>4, <1>5, <1>6

(* A call that has its entry may have put it into a tier on the way. *)
LEMMA CallHas ==
  ASSUME SdkInv, NEW c \in SdkCalls, sdkCalls[c].pc \in {"take", "backfill", "keep", "keepRedis"},
         NEW got \in Nat, got >= sdkFloor[SdkKey(c)], SdkHas(c, got),
         UNCHANGED <<sdkCloud, sdkFloor>>,
         sdkMem' \in {sdkMem, [sdkMem EXCEPT ![SdkKey(c)] = got]},
         sdkRedis' \in {sdkRedis, [sdkRedis EXCEPT ![SdkKey(c)] = got]}
  PROVE  SdkInv'
  <1> DEFINE call == sdkCalls[c]
  <1>1. call \in SdkRecords /\ Sound(call) /\ ~SdkAt(c, "idle") /\ sdkFloor \in [SdkKeys -> Nat]
    BY DEF SdkInv, SdkTypeOK, SdkAt
  <1>2. call.phase \in {"read", "validate", "find"} /\ call.key \in SdkKeys
    BY <1>1 DEF Sound, Shaped, SdkPcs, SdkRecords
  <1>3. PICK state : state = HasState(call, got) /\ SdkGoes(c, state)
    BY DEF SdkHas, HasState
  <1>4. /\ state \in SdkRecords /\ Shaped(state)
        /\ state.pc \in {"backfill", "keep", "keepRedis"} =>
             state.got = got /\ call.key = "list" /\ state.key = "device"
        /\ state.alone = TRUE =>
             /\ call.alone = TRUE /\ state.since = call.since /\ state.pc \notin {"idle", "dropRedis"}
             /\ state.phase \in {"find", "forgetList"} => call.phase = "find" /\ call.want = "device"
             /\ state.phase = "forgetList" => state.home = FALSE
    BY <1>1, <1>2, <1>3, HasIsSound, ZenonT(60) DEF Sound
  <1>5. /\ sdkMem' \in [SdkKeys -> Nat \cup {SdkNone}] /\ sdkRedis' \in [SdkKeys -> Nat \cup {SdkNone}]
        /\ \A k \in SdkKeys : k # call.key => sdkMem'[k] = sdkMem[k] /\ sdkRedis'[k] = sdkRedis[k]
        /\ sdkMem'[call.key] \in {got, sdkMem[call.key]} /\ sdkRedis'[call.key] \in {got, sdkRedis[call.key]}
    BY <1>2 DEF SdkInv, SdkTypeOK, SdkKey
  <1>6. SeenUnlessOverlapped'
    BY <1>5 DEF SdkInv, SeenUnlessOverlapped, SdkKey
  <1>7. Carries(state)'
    <2>1. sdkFloor["device"] \in Nat /\ sdkFloor["list"] \in Nat /\ sdkFloor["device"] <= sdkFloor["list"]
      BY <1>1 DEF SdkInv, FloorsBehind, SdkKeys
    <2>2. QED
      BY <1>4, <2>1 DEF Carries, SdkKey
  <1>8. Dropped(state)'
    <2>1. call.want = "device" => call.key # "properties"
      BY <1>1 DEF Sound, Shaped
    <2>2. QED
      BY <1>1, <1>4, <1>5, <2>1 DEF Sound, Dropped, Clear, SdkKeys
  <1>9. sdkCloud' \in Nat /\ sdkCloud <= sdkCloud'
    BY DEF SdkInv, SdkTypeOK
  <1>10. QED
    BY <1>1, <1>3, <1>4, <1>5, <1>6, <1>7, <1>8, <1>9, CallGoes

(* A call that gives up. *)
LEMMA CallEnds ==
  ASSUME SdkInv, NEW c \in SdkCalls, ~SdkAt(c, "idle"), SdkGoes(c, SdkIdle),
         UNCHANGED <<sdkCloud, sdkMem, sdkRedis, sdkFloor>>
  PROVE  SdkInv'
  BY IdleIsSound, CallMoves

(* A call that has dropped what it must raises the floors. *)
LEMMA CallCompletes ==
  ASSUME SdkInv, NEW c \in SdkCalls, ~SdkAt(c, "idle"), NEW keys \in SUBSET SdkKeys, SdkCompletes(c, keys),
         "list" \in keys, UNCHANGED <<sdkCloud, sdkMem>>, sdkRedis' = SdkDropped(Matching(c), sdkRedis),
         sdkCalls[c].alone = TRUE =>
           \A k \in keys : sdkMem[k] = SdkNone /\ (sdkRedis[k] = SdkNone \/ k \in Matching(c))
  PROVE  SdkInv'
  <1> USE DEF SdkKeys
  <1>1. /\ sdkCalls[c] \in SdkRecords /\ Sound(sdkCalls[c]) /\ sdkFloor \in [SdkKeys -> Nat]
        /\ sdkRedis' \in [SdkKeys -> Nat \cup {SdkNone}]
        /\ \A k \in SdkKeys : sdkRedis'[k] \in {sdkRedis[k], SdkNone} /\ (k \in Matching(c) => sdkRedis'[k] = SdkNone)
    BY DEF SdkInv, SdkTypeOK, SdkDropped
  <1>2. CASE sdkCalls[c].alone = TRUE
    <2>1. /\ sdkFloor' = [k \in SdkKeys |-> IF k \in keys THEN sdkCalls[c].since ELSE sdkFloor[k]]
          /\ sdkCalls' = [sdkCalls EXCEPT ![c] = SdkIdle]
      BY <1>2 DEF SdkCompletes, SdkGoes
    <2>2. sdkCalls[c].since \in Nat /\ sdkCalls[c].since <= sdkCloud /\ \A k \in SdkKeys : sdkFloor[k] <= sdkCalls[c].since
      BY <1>1, <1>2 DEF Sound, Dropped, SdkRecords
    <2>3. SdkTypeOK'
      BY <1>1, <2>1, <2>2, IdleIsSound DEF SdkInv, SdkTypeOK
    <2>4. FloorsBehind'
      BY <1>1, <2>1, <2>2 DEF SdkInv, SdkTypeOK, FloorsBehind
    <2>5. \A o \in SdkCalls : SdkAt(o, "idle")' /\ sdkCalls'[o].alone # TRUE /\ Shaped(sdkCalls'[o])
      BY <1>2, <2>1, IdleIsSound DEF SdkInv, SdkTypeOK, AloneIsAlone, SdkAt, Sound, SdkIdle
    <2>6. AloneIsAlone' /\ \A o \in SdkCalls : Sound(sdkCalls[o])'
      BY <2>5 DEF AloneIsAlone, Sound, Shaped, Carries, Dropped, SdkAt
    <2>7. SeenUnlessOverlapped'
      <3>1. ASSUME NEW k \in SdkKeys
            PROVE  /\ sdkMem'[k] # SdkNone => sdkMem'[k] >= sdkFloor'[k]
                   /\ sdkRedis'[k] # SdkNone => sdkRedis'[k] >= sdkFloor'[k]
        <4>1. CASE k \in keys
          BY <1>1, <1>2, <4>1
        <4>2. CASE k \notin keys
          BY <1>1, <2>1, <4>2 DEF SdkInv, SeenUnlessOverlapped
        <4>3. QED
          BY <4>1, <4>2
      <3>2. QED
        BY <3>1 DEF SeenUnlessOverlapped
    <2>8. QED
      BY <2>3, <2>4, <2>6, <2>7 DEF SdkInv
  <1>3. CASE sdkCalls[c].alone # TRUE
    <2>1. sdkFloor' = sdkFloor /\ SdkGoes(c, SdkIdle)
      BY <1>1, <1>3 DEF SdkCompletes, SdkRecords
    <2>2. SeenUnlessOverlapped'
      BY <1>1, <2>1 DEF SdkInv, SeenUnlessOverlapped
    <2>3. Carries(SdkIdle)' /\ Dropped(SdkIdle)'
      BY DEF Carries, Dropped, SdkIdle
    <2>4. sdkCloud' \in Nat /\ sdkCloud <= sdkCloud' /\ sdkMem' \in [SdkKeys -> Nat \cup {SdkNone}]
      BY DEF SdkInv, SdkTypeOK
    <2>5. QED
      BY <1>1, <2>1, <2>2, <2>3, <2>4, IdleIsSound, CallGoes
  <1>4. QED
    BY <1>2, <1>3

(* Every read, command, refresh, expiry and outside change keeps the caches *)
(* above their floors.                                                      *)
LEMMA SdkStep ==
  ASSUME SdkInv, [SdkNext]_sdkVars
  PROVE  SdkInv'
  <1>1. ASSUME NEW c \in SdkCalls, NEW phase \in SdkPhases, NEW want \in SdkKeys, NEW home \in BOOLEAN,
               SdkBegins(c, phase, want, home), phase \in {"read", "validate", "refresh"},
               phase = "validate" => want = "device", phase = "refresh" => want = "list"
        PROVE  SdkInv'
    <2> DEFINE alone == phase # "read" /\ \A o \in SdkCalls \ {c} : SdkAt(o, "idle")
               begun == [SdkIdle EXCEPT !.pc = IF phase = "refresh" THEN "drop" ELSE "look",
                              !.phase = phase, !.want = want, !.key = want, !.home = home,
                              !.since = IF alone THEN sdkCloud ELSE 0, !.alone = alone]
    <2>1. /\ sdkCloud \in Nat /\ alone \in BOOLEAN
          /\ sdkCalls \in [SdkCalls -> SdkRecords]
      BY DEF SdkInv, SdkTypeOK
    <2>2. /\ sdkCalls'[c] = begun
          /\ \A o \in SdkCalls \ {c} : sdkCalls'[o] = [sdkCalls[o] EXCEPT !.alone = FALSE, !.since = 0]
          /\ sdkCalls' = [d \in SdkCalls |-> sdkCalls'[d]]
          /\ UNCHANGED <<sdkCloud, sdkMem, sdkRedis, sdkFloor>>
      BY <1>1 DEF SdkBegins
    <2> HIDE DEF alone
    <2>3. PICK pc, since : /\ pc = (IF phase = "refresh" THEN "drop" ELSE "look")
                           /\ since = (IF alone THEN sdkCloud ELSE 0)
      OBVIOUS
    <2>4. PICK state : /\ state = [pc |-> pc, phase |-> phase, want |-> want, key |-> want, got |-> 0,
                                   home |-> home, since |-> since, alone |-> alone]
                       /\ sdkCalls'[c] = state
      BY <2>2, <2>3, ZenonT(60) DEF SdkIdle
    <2>5. /\ pc \in {"drop", "look"} /\ (pc = "drop" <=> phase = "refresh") /\ since \in Nat
          /\ (alone = TRUE => since = sdkCloud)
      BY <2>1, <2>3
    <2>6. state \in SdkRecords /\ Shaped(state) /\ Carries(state) /\ Dropped(state)
      <3>1. state \in SdkRecords
        BY <1>1, <2>1, <2>4, <2>5 DEF SdkRecords, SdkPcs
      <3>2. Shaped(state) /\ Carries(state)
        BY <1>1, <2>4, <2>5 DEF Shaped, Carries, SdkPcs
      <3>3. Dropped(state)
        BY <1>1, <2>1, <2>4, <2>5 DEF Dropped, SdkInv, FloorsBehind
      <3>4. QED
        BY <3>1, <3>2, <3>3
    <2>7. ASSUME NEW o \in SdkCalls \ {c}
          PROVE  /\ sdkCalls'[o] \in SdkRecords /\ sdkCalls'[o].alone = FALSE
                 /\ sdkCalls'[o].pc = sdkCalls[o].pc
                 /\ Shaped(sdkCalls'[o]) /\ Carries(sdkCalls'[o])
      <3>1. PICK r \in SdkRecords : r = sdkCalls[o]
        BY <2>1
      <3>2. PICK met : met = [r EXCEPT !.alone = FALSE, !.since = 0]
        OBVIOUS
      <3>3. /\ met \in SdkRecords /\ met.alone = FALSE /\ met.pc = r.pc /\ met.phase = r.phase
            /\ met.want = r.want /\ met.key = r.key /\ met.got = r.got /\ met.home = r.home
        BY <3>2 DEF SdkRecords
      <3>4. sdkCalls'[o] = met
        BY <2>2, <3>1, <3>2
      <3>5. Shaped(r) /\ Carries(r)
        BY <3>1 DEF SdkInv, Sound
      <3>6. Shaped(met) /\ Carries(met)
        BY <3>3, <3>5 DEF Shaped, Carries
      <3>7. QED
        BY <3>1, <3>3, <3>4, <3>6
    <2>8. SdkTypeOK'
      <3>1. sdkCalls' \in [SdkCalls -> SdkRecords]
        BY <2>2, <2>4, <2>6, <2>7, ZenonT(60)
      <3>2. QED
        BY <2>2, <3>1 DEF SdkInv, SdkTypeOK
    <2>9. AloneIsAlone'
      <3>1. state.alone = alone /\ state.pc # "idle"
        BY <2>4, <2>5
      <3>2. QED
        BY <2>4, <2>7, <3>1 DEF AloneIsAlone, SdkAt, alone
    <2>10. ASSUME NEW o \in SdkCalls PROVE Sound(sdkCalls[o])'
      <3>1. CASE o = c
        <4>1. sdkCalls'[o] = state
          BY <2>4, <3>1
        <4>2. Shaped(sdkCalls'[o]) /\ Carries(state)' /\ Dropped(state)'
          BY <2>2, <2>6, <4>1 DEF Carries, Dropped, Clear
        <4>3. QED
          BY <4>1, <4>2 DEF Sound, Shaped, Carries, Dropped
      <3>2. CASE o # c
        BY <2>2, <2>7, <3>2 DEF Sound, Shaped, Carries, Dropped
      <3>3. QED
        BY <3>1, <3>2
    <2>11. QED
      BY <2>2, <2>8, <2>9, <2>10 DEF SdkInv, FloorsBehind, SeenUnlessOverlapped
  <1>2. ASSUME NEW c \in SdkCalls,
               SdkReadsInventory(c) \/ SdkReadsProperties(c) \/ \E home \in BOOLEAN : SdkControls(c, home) \/ SdkRefreshes(c, home)
        PROVE  SdkInv'
    BY <1>1, <1>2 DEF SdkReadsInventory, SdkReadsProperties, SdkControls, SdkRefreshes, SdkPhases, SdkKeys
  <1>3. ASSUME NEW c \in SdkCalls
        PROVE  /\ sdkCalls[c] \in SdkRecords /\ Sound(sdkCalls[c]) /\ sdkCalls[c].key \in SdkKeys
               /\ \A k \in SdkKeys : /\ sdkFloor[k] \in Nat /\ sdkFloor[k] <= sdkCloud
                                     /\ sdkMem[k] \in Nat \cup {SdkNone} /\ sdkRedis[k] \in Nat \cup {SdkNone}
                                     /\ sdkMem[k] # SdkNone => sdkMem[k] >= sdkFloor[k]
                                     /\ sdkRedis[k] # SdkNone => sdkRedis[k] >= sdkFloor[k]
               /\ sdkCloud \in Nat
    BY DEF SdkInv, SdkTypeOK, SeenUnlessOverlapped, FloorsBehind, SdkRecords
  <1>4. ASSUME NEW c \in SdkCalls, SdkLooks(c)
        PROVE  SdkInv'
    <2> DEFINE pc == IF sdkMem[SdkKey(c)] # SdkNone THEN "take" ELSE "askRedis"
               state == [sdkCalls[c] EXCEPT !.pc = pc]
    <2>1. pc \in {"take", "askRedis"}
      OBVIOUS
    <2>2. SdkGoes(c, state) /\ ~SdkAt(c, "idle") /\ sdkCalls[c].pc = "look"
      BY <1>4 DEF SdkLooks, SdkAt
    <2> HIDE DEF pc
    <2>3. state \in SdkRecords /\ Shaped(state) /\ Carries(state) /\ Dropped(state) /\ state.alone = sdkCalls[c].alone
          /\ state.pc # "idle"
      BY <1>3, <2>1, <2>2 DEF SdkRecords, SdkPcs, Sound, Shaped, Carries, Dropped
    <2>4. QED
      BY <1>4, <2>2, <2>3, CallMoves DEF SdkLooks
  <1>5. ASSUME NEW c \in SdkCalls, SdkTakes(c)
        PROVE  SdkInv'
    <2>1. CASE sdkMem[SdkKey(c)] # SdkNone
      BY <1>3, <1>5, <2>1, CallHas DEF SdkTakes, SdkAt, SdkKey, SdkRaises
    <2>2. CASE sdkMem[SdkKey(c)] = SdkNone
      BY <1>5, <2>2, CallEnds DEF SdkTakes, SdkAt, SdkRaises
    <2>3. QED
      BY <2>1, <2>2
  <1>6. ASSUME NEW c \in SdkCalls, SdkAsksRedis(c)
        PROVE  SdkInv'
    <2>1. sdkCalls[c].pc = "askRedis" /\ ~SdkAt(c, "idle") /\ UNCHANGED <<sdkCloud, sdkMem, sdkRedis, sdkFloor>>
      BY <1>6 DEF SdkAsksRedis, SdkAt
    <2>2. CASE SdkUsesRedis /\ sdkRedis[sdkCalls[c].key] # SdkNone
      <3> DEFINE state == [sdkCalls[c] EXCEPT !.pc = "backfill", !.got = sdkRedis[sdkCalls[c].key]]
      <3>1. SdkGoes(c, state)
        BY <1>6, <2>2 DEF SdkAsksRedis
      <3>2. state \in SdkRecords /\ Shaped(state) /\ Carries(state) /\ Dropped(state)
            /\ state.alone = sdkCalls[c].alone /\ state.pc # "idle"
        BY <1>3, <2>1, <2>2, ZenonT(60) DEF SdkRecords, SdkPcs, Sound, Shaped, Carries, Dropped
      <3>3. QED
        BY <2>1, <3>1, <3>2, CallMoves
    <2>3. CASE ~(SdkUsesRedis /\ sdkRedis[sdkCalls[c].key] # SdkNone) /\ sdkCalls[c].key = "device"
      <3> DEFINE state == [sdkCalls[c] EXCEPT !.pc = "look", !.key = "list"]
      <3>1. SdkGoes(c, state)
        BY <1>6, <2>3 DEF SdkAsksRedis
      <3>2. state \in SdkRecords /\ Shaped(state) /\ Carries(state) /\ Dropped(state)
            /\ state.alone = sdkCalls[c].alone /\ state.pc # "idle"
        BY <1>3, <2>1, <2>3, ZenonT(60) DEF SdkRecords, SdkPcs, SdkKeys, Sound, Shaped, Carries, Dropped
      <3>3. QED
        BY <2>1, <3>1, <3>2, CallMoves
    <2>4. CASE ~(SdkUsesRedis /\ sdkRedis[sdkCalls[c].key] # SdkNone) /\ sdkCalls[c].key # "device"
      <3> DEFINE state == [sdkCalls[c] EXCEPT !.pc = "fetch"]
      <3>1. SdkGoes(c, state)
        BY <1>6, <2>4 DEF SdkAsksRedis
      <3>2. state \in SdkRecords /\ Shaped(state) /\ Carries(state) /\ Dropped(state)
            /\ state.alone = sdkCalls[c].alone /\ state.pc # "idle"
        BY <1>3, <2>1 DEF SdkRecords, SdkPcs, Sound, Shaped, Carries, Dropped
      <3>3. QED
        BY <2>1, <3>1, <3>2, CallMoves
    <2>5. QED
      BY <2>2, <2>3, <2>4
  <1>7. ASSUME NEW c \in SdkCalls, SdkBackfills(c)
        PROVE  SdkInv'
    <2>1. sdkCalls[c].got \in Nat /\ sdkCalls[c].got >= sdkFloor[SdkKey(c)]
      BY <1>3, <1>7 DEF SdkBackfills, SdkAt, SdkKey, Sound, Carries, SdkRecords
    <2>2. QED
      BY <1>7, <2>1, CallHas DEF SdkBackfills, SdkAt
  <1>8. ASSUME NEW c \in SdkCalls, SdkFetches(c)
        PROVE  SdkInv'
    <2>1. sdkCalls[c].pc = "fetch" /\ ~SdkAt(c, "idle") /\ UNCHANGED <<sdkCloud, sdkMem, sdkRedis, sdkFloor>>
      BY <1>8 DEF SdkFetches, SdkAt, SdkRaises
    <2> DEFINE state == [sdkCalls[c] EXCEPT !.got = sdkCloud, !.pc = "keep"]
    <2>2. CASE SdkGoes(c, state)
      <3>1. state \in SdkRecords /\ Shaped(state) /\ Carries(state) /\ Dropped(state)
            /\ state.alone = sdkCalls[c].alone /\ state.pc # "idle"
        BY <1>3, <2>1, ZenonT(60) DEF SdkRecords, SdkPcs, Sound, Shaped, Carries, Dropped
      <3>2. QED
        BY <2>1, <2>2, <3>1, CallMoves
    <2>3. CASE SdkRaises(c)
      BY <2>1, <2>3, CallEnds DEF SdkRaises
    <2>4. QED
      BY <1>8, <2>2, <2>3 DEF SdkFetches
  <1>9. ASSUME NEW c \in SdkCalls, SdkKeeps(c)
        PROVE  SdkInv'
    <2>1. /\ sdkCalls[c].pc = "keep" /\ ~SdkAt(c, "idle")
          /\ sdkMem' = [sdkMem EXCEPT ![SdkKey(c)] = sdkCalls[c].got]
          /\ UNCHANGED <<sdkCloud, sdkRedis, sdkFloor>>
      BY <1>9 DEF SdkKeeps, SdkAt
    <2>2. sdkCalls[c].got \in Nat /\ sdkCalls[c].got >= sdkFloor[SdkKey(c)] /\ SdkKey(c) \in SdkKeys
      BY <1>3, <2>1 DEF SdkKey, Sound, Carries, SdkRecords
    <2>3. CASE ~SdkUsesRedis
      BY <1>9, <2>1, <2>2, <2>3, CallHas DEF SdkKeeps
    <2>4. CASE SdkUsesRedis
      <3>1. PICK state : state = [sdkCalls[c] EXCEPT !.pc = "keepRedis"] /\ SdkGoes(c, state)
        BY <1>9, <2>4 DEF SdkKeeps
      <3>2. state \in SdkRecords /\ Shaped(state) /\ Carries(state)
            /\ state.alone = sdkCalls[c].alone /\ state.pc # "idle"
        BY <1>3, <2>1, <3>1 DEF SdkRecords, SdkPcs, Sound, Shaped, Carries
      <3>3. Carries(state)'
        BY <2>1, <3>2 DEF Carries
      <3>4. /\ sdkMem' \in [SdkKeys -> Nat \cup {SdkNone}] /\ sdkRedis' \in [SdkKeys -> Nat \cup {SdkNone}]
            /\ \A k \in SdkKeys : k # SdkKey(c) => sdkMem'[k] = sdkMem[k]
            /\ sdkMem'[SdkKey(c)] = sdkCalls[c].got
        BY <2>1, <2>2 DEF SdkInv, SdkTypeOK
      <3>5. SeenUnlessOverlapped'
        BY <1>3, <2>1, <2>2, <3>4 DEF SeenUnlessOverlapped
      <3>6. Dropped(state)'
        <4>1. /\ sdkCalls[c].phase \in {"read", "validate", "find"}
              /\ sdkCalls[c].phase = "find" => SdkKey(c) # "properties"
          BY <1>3, <2>1 DEF Sound, Shaped, SdkKey, SdkPcs
        <4>2. state.phase = sdkCalls[c].phase /\ state.since = sdkCalls[c].since /\ state.pc = "keepRedis"
          BY <1>3, <3>1 DEF SdkRecords
        <4>3. QED
          BY <1>3, <2>1, <3>2, <3>4, <4>1, <4>2 DEF Sound, Dropped, Clear, SdkKeys
      <3>7. /\ sdkCloud' \in Nat /\ sdkCloud <= sdkCloud' /\ UNCHANGED sdkFloor
            /\ state.alone = TRUE => sdkCalls[c].alone = TRUE /\ state.pc # "idle"
        BY <1>3, <2>1, <3>2
      <3>8. state \in SdkRecords /\ Shaped(state) /\ SdkGoes(c, state)
        BY <3>1, <3>2
      <3>9. QED
        BY <2>1, <3>3, <3>4, <3>5, <3>6, <3>7, <3>8, CallGoes
    <2>5. QED
      BY <2>3, <2>4
  <1>10. ASSUME NEW c \in SdkCalls, SdkKeepsRedis(c)
         PROVE  SdkInv'
    <2>1. sdkCalls[c].got \in Nat /\ sdkCalls[c].got >= sdkFloor[SdkKey(c)]
      BY <1>3, <1>10 DEF SdkKeepsRedis, SdkAt, SdkKey, Sound, Carries, SdkRecords
    <2>2. QED
      BY <1>10, <2>1, CallHas DEF SdkKeepsRedis, SdkAt
  <1>11. ASSUME NEW c \in SdkCalls, SdkSends(c)
         PROVE  SdkInv'
    <2>1. /\ sdkCalls[c].pc = "send" /\ ~SdkAt(c, "idle") /\ UNCHANGED <<sdkMem, sdkRedis, sdkFloor>>
          /\ sdkCloud' = sdkCloud + 1
      BY <1>11 DEF SdkSends, SdkAt
    <2>2. /\ sdkMem' \in [SdkKeys -> Nat \cup {SdkNone}] /\ sdkRedis' \in [SdkKeys -> Nat \cup {SdkNone}]
          /\ sdkCloud' \in Nat /\ sdkCloud <= sdkCloud' /\ SeenUnlessOverlapped'
      BY <1>3, <2>1 DEF SdkInv, SdkTypeOK, SeenUnlessOverlapped
    <2> DEFINE sent(since) == [sdkCalls[c] EXCEPT !.since = since, !.phase = "forget", !.pc = "drop"]
    <2>3. CASE SdkGoes(c, sent(IF sdkCalls[c].alone THEN sdkCloud' ELSE 0))
      <3>1. PICK since \in Nat : /\ sdkCalls[c].alone = TRUE => since = sdkCloud'
                                 /\ SdkGoes(c, sent(since))
        BY <2>2, <2>3
      <3>5. PICK state : state = sent(since) /\ SdkGoes(c, state)
        BY <3>1
      <3>2. state \in SdkRecords /\ Shaped(state) /\ state.alone = sdkCalls[c].alone /\ state.pc = "drop"
            /\ state.since = since /\ state.phase = "forget"
        BY <1>3, <2>1, <3>1, <3>5 DEF SdkRecords, SdkPcs, SdkPhases, Sound, Shaped
      <3>3. Carries(state)' /\ Dropped(state)'
        <4>1. Carries(state)'
          BY <3>2 DEF Carries
        <4>2. state.alone = TRUE => state.since = sdkCloud' /\ \A k \in SdkKeys : sdkFloor'[k] <= state.since
          BY <1>3, <2>1, <3>1, <3>2
        <4>3. QED
          BY <2>2, <3>2, <4>1, <4>2 DEF Dropped
      <3>4. QED
        BY <2>1, <2>2, <3>2, <3>3, <3>5, CallGoes
    <2>4. CASE SdkGoes(c, SdkIdle)
      <3>1. Carries(SdkIdle)' /\ Dropped(SdkIdle)'
        BY DEF Carries, Dropped, SdkIdle
      <3>2. QED
        BY <2>1, <2>2, <2>4, <3>1, IdleIsSound, CallGoes
    <2>5. QED
      BY <1>11, <2>3, <2>4 DEF SdkSends
  <1>12. ASSUME NEW c \in SdkCalls, SdkRefused(c)
         PROVE  SdkInv'
    BY <1>12, CallEnds DEF SdkRefused, SdkAt, SdkRaises
  <1>13. ASSUME NEW c \in SdkCalls, SdkDrops(c)
         PROVE  SdkInv'
    <2>0. PICK state : state = [sdkCalls[c] EXCEPT !.pc = "dropRedis"] /\ SdkGoes(c, state)
      BY <1>13 DEF SdkDrops
    <2>1. /\ sdkCalls[c].pc = "drop" /\ ~SdkAt(c, "idle")
          /\ sdkMem' = SdkDropped(Matching(c), sdkMem) /\ UNCHANGED <<sdkCloud, sdkRedis, sdkFloor>>
      BY <1>13 DEF SdkDrops, SdkAt
    <2>2. /\ sdkMem' \in [SdkKeys -> Nat \cup {SdkNone}] /\ sdkRedis' \in [SdkKeys -> Nat \cup {SdkNone}]
          /\ \A k \in SdkKeys : sdkMem'[k] \in {sdkMem[k], SdkNone} /\ (k \in Matching(c) => sdkMem'[k] = SdkNone)
      BY <2>1 DEF SdkInv, SdkTypeOK, SdkDropped
    <2>3. SeenUnlessOverlapped'
      BY <1>3, <2>1, <2>2 DEF SeenUnlessOverlapped
    <2>4. state \in SdkRecords /\ Shaped(state) /\ Carries(state) /\ state.alone = sdkCalls[c].alone
          /\ state.pc = "dropRedis" /\ state.phase = sdkCalls[c].phase /\ state.home = sdkCalls[c].home
          /\ state.since = sdkCalls[c].since
      BY <1>3, <2>0, <2>1 DEF SdkRecords, SdkPcs, Sound, Shaped, Carries
    <2>5. Carries(state)'
      BY <2>1, <2>4 DEF Carries
    <2>6. Dropped(state)'
      BY <1>3, <2>1, <2>2, <2>4 DEF Sound, Dropped, Clear, Matching, SdkKeys
    <2>7. /\ sdkCloud' \in Nat /\ sdkCloud <= sdkCloud' /\ UNCHANGED sdkFloor
          /\ state.alone = TRUE => sdkCalls[c].alone = TRUE /\ state.pc # "idle"
      BY <1>3, <2>1, <2>4
    <2>8. state \in SdkRecords /\ Shaped(state)
      BY <2>4
    <2>9. QED
      BY <2>0, <2>1, <2>2, <2>3, <2>5, <2>6, <2>7, <2>8, CallGoes
  (* A control goes on to the lists of its home, or to find which home it is. *)
  <1>14. ASSUME NEW c \in SdkCalls, NEW alone \in BOOLEAN, NEW since \in Nat,
                sdkCalls[c].phase = "forget", sdkCalls[c].pc = "dropRedis",
                alone = TRUE => sdkCalls[c].alone = TRUE /\ since = sdkCalls[c].since,
                SdkGoes(c, [sdkCalls[c] EXCEPT !.alone = alone, !.since = since, !.key = "device", !.want = "device",
                          !.phase = IF sdkCalls[c].home THEN "forgetList" ELSE "find",
                          !.pc = IF sdkCalls[c].home THEN "drop" ELSE "look"]),
                UNCHANGED <<sdkCloud, sdkMem, sdkFloor>>,
                sdkRedis' \in [SdkKeys -> Nat \cup {SdkNone}], \A k \in SdkKeys : sdkRedis'[k] \in {sdkRedis[k], SdkNone},
                alone = TRUE => sdkRedis'["device"] = SdkNone /\ sdkRedis'["properties"] = SdkNone
         PROVE  SdkInv'
    <2> DEFINE phase == IF sdkCalls[c].home THEN "forgetList" ELSE "find"
               pc == IF sdkCalls[c].home THEN "drop" ELSE "look"
    <2>1. \/ phase = "forgetList" /\ pc = "drop" /\ sdkCalls[c].home = TRUE
          \/ phase = "find" /\ pc = "look" /\ sdkCalls[c].home = FALSE
      BY <1>3 DEF SdkRecords
    <2>2. ~SdkAt(c, "idle")
      BY <1>14 DEF SdkAt
    <2>9. PICK state : /\ state = [sdkCalls[c] EXCEPT !.alone = alone, !.since = since, !.key = "device",
                                                   !.want = "device", !.phase = phase, !.pc = pc]
                       /\ SdkGoes(c, state)
      BY <1>14
    <2> HIDE DEF phase, pc
    <2>3. state \in SdkRecords /\ state.alone = alone /\ state.pc = pc /\ state.phase = phase
          /\ state.home = sdkCalls[c].home /\ state.since = since /\ state.key = "device" /\ state.want = "device"
      BY <1>3, <2>1, <2>9, ZenonT(60) DEF SdkRecords, SdkPcs, SdkPhases, SdkKeys
    <2>4. Shaped(state) /\ Carries(state)'
      BY <2>1, <2>3 DEF Shaped, Carries
    <2>5. Dropped(state)'
      BY <1>3, <1>14, <2>1, <2>3 DEF Sound, Dropped, Clear, SdkKeys
    <2>6. sdkCloud' \in Nat /\ sdkCloud <= sdkCloud' /\ sdkMem' \in [SdkKeys -> Nat \cup {SdkNone}] /\ SeenUnlessOverlapped'
      BY <1>14 DEF SdkInv, SdkTypeOK, SeenUnlessOverlapped
    <2>7. state.alone = TRUE => sdkCalls[c].alone = TRUE /\ state.pc # "idle"
      BY <1>14, <2>1, <2>3
    <2>8. QED
      BY <1>14, <2>9, <2>2, <2>3, <2>4, <2>5, <2>6, <2>7, CallGoes
  <1>15. ASSUME NEW c \in SdkCalls, SdkDropsRedis(c)
         PROVE  SdkInv'
    <2>1. /\ sdkCalls[c].pc = "dropRedis" /\ ~SdkAt(c, "idle") /\ sdkRedis' = SdkDropped(Matching(c), sdkRedis)
          /\ UNCHANGED <<sdkCloud, sdkMem>> /\ sdkCalls[c].phase \in {"forget", "forgetList", "refresh"}
      BY <1>3, <1>15 DEF SdkDropsRedis, SdkAt, Sound, Shaped
    <2>2. CASE sdkCalls[c].phase = "forget"
      <3>1. Matching(c) = {"device", "properties"}
        BY <2>2 DEF Matching
      <3>2. /\ sdkRedis' \in [SdkKeys -> Nat \cup {SdkNone}] /\ \A k \in SdkKeys : sdkRedis'[k] \in {sdkRedis[k], SdkNone}
            /\ sdkRedis'["device"] = SdkNone /\ sdkRedis'["properties"] = SdkNone
        BY <2>1, <3>1 DEF SdkInv, SdkTypeOK, SdkDropped, SdkKeys
      <3>3. SdkForgetsNext(c) /\ UNCHANGED sdkFloor
        BY <1>15, <2>2 DEF SdkDropsRedis
      <3>4. SdkGoes(c, [sdkCalls[c] EXCEPT !.alone = sdkCalls[c].alone, !.since = sdkCalls[c].since, !.key = "device", !.want = "device",
                          !.phase = IF sdkCalls[c].home THEN "forgetList" ELSE "find",
                          !.pc = IF sdkCalls[c].home THEN "drop" ELSE "look"])
        BY <1>3, <3>3 DEF SdkForgetsNext, SdkRecords
      <3>5. sdkCalls[c].alone \in BOOLEAN /\ sdkCalls[c].since \in Nat
        BY <1>3 DEF SdkRecords
      <3>6. QED
        BY <1>14, <2>1, <2>2, <3>2, <3>3, <3>4, <3>5
    <2>3. CASE sdkCalls[c].phase = "forgetList"
      <3> DEFINE keys == IF sdkCalls[c].home THEN SdkKeys ELSE {"list", "properties"}
      <3>1. SdkCompletes(c, keys) /\ Matching(c) = {"list"}
        BY <1>15, <2>3 DEF SdkDropsRedis, Matching
      <3>2. keys \in SUBSET SdkKeys /\ "list" \in keys
        BY DEF SdkKeys
      <3>3. sdkCalls[c].alone = TRUE => \A k \in keys : sdkMem[k] = SdkNone /\ (sdkRedis[k] = SdkNone \/ k \in Matching(c))
        BY <1>3, <2>1, <2>3, <3>1 DEF Sound, Dropped, Clear, SdkKeys
      <3>4. QED
        BY <2>1, <3>1, <3>2, <3>3, CallCompletes
    <2>4. CASE sdkCalls[c].phase = "refresh"
      <3>1. SdkCompletes(c, Matching(c)) /\ Matching(c) = IF sdkCalls[c].home THEN {"list"} ELSE SdkKeys
        BY <1>15, <2>4 DEF SdkDropsRedis, Matching
      <3>2. Matching(c) \in SUBSET SdkKeys /\ "list" \in Matching(c)
        BY <3>1 DEF SdkKeys
      <3>3. sdkCalls[c].alone = TRUE => \A k \in Matching(c) : sdkMem[k] = SdkNone
        BY <1>3, <2>1, <2>4, <3>1 DEF Sound, Dropped, SdkKeys
      <3>4. QED
        BY <2>1, <3>1, <3>2, <3>3, CallCompletes
    <2>5. QED
      BY <2>1, <2>2, <2>3, <2>4
  <1>16. ASSUME NEW c \in SdkCalls, SdkRedisFails(c)
         PROVE  SdkInv'
    <2>1. sdkCalls[c].pc = "dropRedis" /\ ~SdkAt(c, "idle") /\ UNCHANGED <<sdkCloud, sdkMem, sdkRedis, sdkFloor>>
      BY <1>16 DEF SdkRedisFails, SdkAt
    <2>2. CASE sdkCalls[c].phase = "forget"
      <3>1. /\ sdkRedis' \in [SdkKeys -> Nat \cup {SdkNone}] /\ \A k \in SdkKeys : sdkRedis'[k] \in {sdkRedis[k], SdkNone}
        BY <2>1 DEF SdkInv, SdkTypeOK
      <3>2. SdkGoes(c, [sdkCalls[c] EXCEPT !.alone = FALSE, !.since = 0, !.key = "device", !.want = "device",
                          !.phase = IF sdkCalls[c].home THEN "forgetList" ELSE "find",
                          !.pc = IF sdkCalls[c].home THEN "drop" ELSE "look"])
        BY <1>16, <2>2 DEF SdkRedisFails
      <3>3. QED
        BY <1>14, <2>1, <2>2, <3>1, <3>2
    <2>3. CASE sdkCalls[c].phase # "forget"
      BY <1>16, <2>1, <2>3, CallEnds DEF SdkRedisFails
    <2>4. QED
      BY <2>2, <2>3
  <1>17. CASE SdkCloudChanges
    <2>1. /\ sdkCloud' = sdkCloud + 1 /\ sdkCloud \in Nat
          /\ UNCHANGED <<sdkMem, sdkRedis, sdkCalls, sdkFloor>>
      BY <1>17 DEF SdkCloudChanges, SdkInv, SdkTypeOK
    <2>2. SdkTypeOK' /\ FloorsBehind' /\ AloneIsAlone' /\ SeenUnlessOverlapped'
      BY <2>1 DEF SdkInv, SdkTypeOK, FloorsBehind, AloneIsAlone, SeenUnlessOverlapped, SdkAt
    <2>3. ASSUME NEW c \in SdkCalls PROVE Sound(sdkCalls[c])'
      <3>1. sdkCalls[c].since \in Nat
        BY <1>3 DEF SdkRecords
      <3>2. sdkCalls[c].since <= sdkCloud => sdkCalls[c].since <= sdkCloud'
        BY <2>1, <3>1
      <3>3. Shaped(sdkCalls'[c]) /\ Carries(sdkCalls[c])'
        BY <1>3, <2>1 DEF Sound, Carries
      <3>4. Dropped(sdkCalls[c])'
        BY <1>3, <2>1, <3>2 DEF Sound, Dropped, Clear
      <3>5. QED
        BY <3>3, <3>4 DEF Sound, Shaped
    <2>4. QED
      BY <2>2, <2>3 DEF SdkInv
  <1>18. ASSUME NEW k \in SdkKeys, SdkExpires(k)
         PROVE  SdkInv'
    <2>1. /\ UNCHANGED <<sdkCloud, sdkCalls, sdkFloor>>
          /\ sdkMem' \in [SdkKeys -> Nat \cup {SdkNone}] /\ sdkRedis' \in [SdkKeys -> Nat \cup {SdkNone}]
          /\ \A j \in SdkKeys : sdkMem'[j] \in {sdkMem[j], SdkNone} /\ sdkRedis'[j] \in {sdkRedis[j], SdkNone}
      BY <1>18 DEF SdkExpires, SdkInv, SdkTypeOK
    <2>2. SdkTypeOK' /\ FloorsBehind' /\ AloneIsAlone' /\ SeenUnlessOverlapped'
      BY <2>1 DEF SdkInv, SdkTypeOK, FloorsBehind, AloneIsAlone, SeenUnlessOverlapped, SdkAt
    <2>3. ASSUME NEW c \in SdkCalls PROVE Sound(sdkCalls[c])'
      BY <1>3, <2>1 DEF Sound, Shaped, Carries, Dropped, Clear, SdkKeys
    <2>4. QED
      BY <2>2, <2>3 DEF SdkInv
  <1>19. CASE UNCHANGED sdkVars
    BY <1>19 DEF sdkVars, SdkInv, SdkTypeOK, FloorsBehind, AloneIsAlone, SeenUnlessOverlapped, SdkAt,
                 Sound, Shaped, Carries, Dropped, Clear
  <1>20. QED
    BY <1>2, <1>4, <1>5, <1>6, <1>7, <1>8, <1>9, <1>10, <1>11, <1>12, <1>13, <1>15, <1>16, <1>17, <1>18, <1>19
    DEF SdkNext, SdkCallNext

(* A change of the cloud made by a refresh or a control that no other call  *)
(* overlapped is seen by every later read, through both tiers of the cache, *)
(* for any calls and changes.                                               *)
THEOREM UndisturbedChangesAreSeen == SdkSpec => []SeenUnlessOverlapped
  <1>1. SdkInit => SdkInv
    BY IdleIsSound, SdkAssumption
    DEF SdkInit, SdkInv, SdkTypeOK, FloorsBehind, AloneIsAlone, SeenUnlessOverlapped, Sound, SdkAt, SdkIdle,
        Shaped, Carries, Dropped, SdkKeys
  <1>2. SdkInv => SeenUnlessOverlapped
    BY DEF SdkInv
  <1>3. QED
    BY <1>1, <1>2, SdkStep, PTL DEF SdkSpec

-----------------------------------------------------------------------------
(* The Android service. *)

StopPcs == {"none", "call", "check", "posted", "done"}

AnTypeOK ==
  /\ anObject \in Objects \cup {0} /\ (anIntent # "none" => anObject # 0)
  /\ anService \in [Objects -> [started : BOOLEAN, stopping : BOOLEAN, generation : Nat]]
  /\ anRun \in [Starts -> [pc : RunPcs, object : Objects \cup {0}, generation : Nat]]
  /\ anStop \in [Stops -> [pc : StopPcs, object : Objects \cup {0}]]
  /\ anActive \in BOOLEAN /\ anPython \in BOOLEAN
  /\ anFlag \in BOOLEAN /\ anExit \in [Starts -> BOOLEAN]

UnderWay(r) == anRun[r].pc \in UnderWayPcs
StopUnderWay == \E s \in Stops : anStop[s].pc = "call"

(* Each object has at most one thread of a start, which is of its present  *)
(* generation; several objects may have one each.                          *)
OneRunEach ==
  \A r \in Starts : UnderWay(r) =>
    LET o == anRun[r].object IN
    /\ o \in Objects /\ anService[o].started /\ anService[o].generation = anRun[r].generation
    /\ \A q \in Starts : UnderWay(q) /\ anRun[q].object = o => q = r
    /\ anRun[r].pc # "begin" => anPython

(* What holds for a start that no thread of another object crossed: the    *)
(* service counts as active, so that its object is told to stop when it is *)
(* destroyed; and it is its server that is published while it serves.      *)
Uncrossed ==
  \A r \in Starts \ anCrossed : UnderWay(r) =>
    /\ anActive
    /\ anRun[r].object # anObject => StoppingSeen(r)
    /\ anRun[r].pc = "serving" => anServer = r

(* A stop that came after both looks at "stopping" left its flag, or will; *)
(* one that came later told the server.                                    *)
StopsArePassedOn ==
  \A r \in Starts \ anCrossed : StoppingSeen(r) =>
    /\ anRun[r].pc = "setup" => anFlag \/ StopUnderWay
    /\ anRun[r].pc = "serving" => anExit[r] \/ StopUnderWay

AnInv == AnTypeOK /\ OneRunEach /\ Uncrossed /\ StopsArePassedOn

(* What the theorem is about follows. *)
LEMMA StopsHeeded == AnInv => StopIsHeeded
  BY DEF AnInv, Uncrossed, StopsArePassedOn, StopIsHeeded, UnderWay, UnderWayPcs, RunPcs, StopUnderWay

(* A new object gets a number there is room for. *)
LEMMA NewObject == ASSUME AnTypeOK, Created PROVE anObject' \in Objects
  <1>1. IsFiniteSet(Starts) /\ Cardinality(Starts) = MaxStarts
    BY AndroidAssumption, FS_Interval DEF Starts
  <1>2. IsFiniteSet(Stops) /\ Cardinality(Stops) = MaxStops
    BY AndroidAssumption, FS_Interval DEF Stops
  <1>3. Cardinality(Starts \ Unused(anRun)) \in 0 .. MaxStarts
    <2>1. Starts \ Unused(anRun) \subseteq Starts
      OBVIOUS
    <2>2. IsFiniteSet(Starts \ Unused(anRun)) /\ Cardinality(Starts \ Unused(anRun)) <= Cardinality(Starts)
      BY <1>1, <2>1, FS_Subset
    <2>3. QED
      BY <1>1, <2>2, FS_CardinalityType, AndroidAssumption
  <1>4. Cardinality(Stops \ Unused(anStop)) \in 0 .. MaxStops
    <2>1. Stops \ Unused(anStop) \subseteq Stops
      OBVIOUS
    <2>2. IsFiniteSet(Stops \ Unused(anStop)) /\ Cardinality(Stops \ Unused(anStop)) <= Cardinality(Stops)
      BY <1>2, <2>1, FS_Subset
    <2>3. QED
      BY <1>2, <2>2, FS_CardinalityType, AndroidAssumption
  <1>5. QED
    BY <1>3, <1>4, AndroidAssumption DEF Created, Used, Objects, AnTypeOK

(* A stop that is asked for is under way, and disturbs nothing else. *)
LEMMA StopAsked ==
  ASSUME AnInv, anObject # 0, RequestStop,
         UNCHANGED <<anActive, anPython, anRun, anRuntime>>,
         anObject' \in {anObject, 0}, anIntent' = "none"
  PROVE  AnInv'
  <1> USE DEF AnInv
  <1>1. PICK s \in Unused(anStop) : anStop' = [anStop EXCEPT ![s] = [pc |-> "call", object |-> anObject]]
    BY DEF RequestStop
  <1>2. s \in Stops /\ StopUnderWay'
    BY <1>1 DEF AnTypeOK, Unused, StopUnderWay
  <1>3. AnTypeOK'
    BY <1>1, <1>2, ZenonT(60) DEF RequestStop, AnTypeOK, StopPcs, anRuntime
  <1>4. /\ \A o \in Objects : /\ anService'[o].started = anService[o].started
                              /\ anService'[o].generation = anService[o].generation
                              /\ anService[o].stopping => anService'[o].stopping
        /\ anService'[anObject].stopping
    BY DEF RequestStop, AnTypeOK
  <1>5. OneRunEach'
    BY <1>4 DEF OneRunEach, UnderWay, anRuntime
  <1>6. Uncrossed'
    BY <1>4 DEF OneRunEach, Uncrossed, UnderWay, StoppingSeen, anRuntime
  <1>7. QED
    BY <1>2, <1>3, <1>5, <1>6 DEF StopsArePassedOn

(* A step of the system that changes neither threads nor server. *)
LEMMA SystemMoves ==
  ASSUME AnInv, UNCHANGED <<anService, anActive, anRun, anStop, anRuntime>>,
         UNCHANGED anPython, anObject' \in Objects \cup {0},
         anObject # 0 => anObject' = anObject, anIntent' # "none" => anObject' # 0
  PROVE  AnInv'
  <1> USE DEF AnInv
  <1>1. AnTypeOK'
    BY DEF AnTypeOK, anRuntime
  <1>2. OneRunEach'
    BY DEF OneRunEach, UnderWay, anRuntime
  <1>3. Uncrossed'
    BY DEF Uncrossed, OneRunEach, UnderWay, StoppingSeen, anRuntime, Objects
  <1>4. QED
    BY <1>1, <1>2, <1>3 DEF StopsArePassedOn, StopUnderWay, StoppingSeen, anRuntime

(* A start makes a thread for an object that had none. *)
LEMMA StartMade ==
  ASSUME AnInv, StartArrives, ~anService[anObject].started
  PROVE  AnInv'
  <1> DEFINE gen == anService[anObject].generation + 1
  <1>1. /\ anIntent' = "none" /\ anObject \in Objects /\ UNCHANGED <<anObject, anPython, anStop, anRuntime>>
        /\ anService' = [anService EXCEPT ![anObject] = [started |-> TRUE, stopping |-> FALSE, generation |-> gen]]
        /\ anActive' = TRUE
    BY DEF StartArrives, AnInv, AnTypeOK
  <1>2. PICK r \in Unused(anRun) :
          anRun' = [anRun EXCEPT ![r] = [pc |-> "begin", object |-> anObject, generation |-> gen]]
    BY DEF StartArrives
  <1>3. r \in Starts /\ gen \in Nat
    BY <1>1 DEF Unused, AnInv, AnTypeOK
  <1>4. \A q \in Starts : UnderWay(q) => anRun[q].object # anObject /\ q # r
    BY <1>2 DEF AnInv, OneRunEach, UnderWay, UnderWayPcs, Unused
  <1>5. AnTypeOK'
    <2>1. anService' \in [Objects -> [started : BOOLEAN, stopping : BOOLEAN, generation : Nat]]
      BY <1>1, <1>3 DEF AnInv, AnTypeOK
    <2>2. anRun' \in [Starts -> [pc : RunPcs, object : Objects \cup {0}, generation : Nat]]
      BY <1>1, <1>2, <1>3 DEF AnInv, AnTypeOK, RunPcs
    <2>3. QED
      BY <1>1, <2>1, <2>2 DEF AnInv, AnTypeOK, anRuntime
  <1>6. /\ anRun'[r] = [pc |-> "begin", object |-> anObject, generation |-> gen]
        /\ \A q \in Starts \ {r} : anRun'[q] = anRun[q]
    BY <1>2, <1>3 DEF AnInv, AnTypeOK
  <1>7. /\ anService'[anObject].started /\ anService'[anObject].generation = gen
        /\ \A o \in Objects \ {anObject} : anService'[o] = anService[o]
    BY <1>1, <1>3 DEF AnInv, AnTypeOK
  <1>8. OneRunEach'
    <2>1. ASSUME NEW q \in Starts \ {r}, UnderWay(q)'
          PROVE  UnderWay(q) /\ anRun'[q] = anRun[q] /\ anRun[q].object \in Objects \ {anObject}
      BY <1>4, <1>6, <2>1 DEF UnderWay, AnInv, OneRunEach
    <2>2. QED
      BY <1>1, <1>6, <1>7, <2>1 DEF AnInv, OneRunEach, UnderWay
  <1>9. Uncrossed' /\ StopsArePassedOn'
    <2>1. ASSUME NEW q \in Starts \ {r}, UnderWay(q)
          PROVE  StoppingSeen(q)' = StoppingSeen(q)
      BY <1>4, <1>6, <1>7, <2>1 DEF StoppingSeen, AnInv, OneRunEach
    <2>2. Uncrossed'
      BY <1>1, <1>6, <2>1 DEF AnInv, Uncrossed, UnderWay, anRuntime
    <2>3. /\ anRun'[r].pc \notin {"setup", "serving"}
          /\ \A q \in Starts \ {r} : anRun'[q].pc \in {"setup", "serving"} => UnderWay(q)
      <3>1. anRun'[r].pc = "begin"
        BY <1>6
      <3>2. \A q \in Starts \ {r} : anRun'[q].pc = anRun[q].pc
        BY <1>6
      <3>3. {"setup", "serving"} \subseteq UnderWayPcs
        BY DEF UnderWayPcs, RunPcs
      <3>4. QED
        BY <3>1, <3>2, <3>3 DEF UnderWay
    <2>4. StopUnderWay' <=> StopUnderWay
      BY <1>1 DEF StopUnderWay
    <2>5. StopsArePassedOn'
      BY <1>1, <1>6, <2>1, <2>3, <2>4 DEF AnInv, StopsArePassedOn, anRuntime
    <2>6. QED
      BY <2>2, <2>5
  <1>10. QED
    BY <1>5, <1>8, <1>9 DEF AnInv

(* A thread of a start goes on.  The others of other objects are crossed   *)
(* where it overwrites what they rely on, and it is alone in its own.      *)
LEMMA RunMoves ==
  ASSUME AnInv, NEW r \in Starts, NEW pc \in UnderWayPcs \ {"begin"}, UnderWay(r), RunGoes(r, pc),
         UNCHANGED <<anSystem, anService, anStop, anActive>>,
         anPython' = TRUE, anFlag' \in BOOLEAN, anExit' \in [Starts -> BOOLEAN],
         anCrossed \subseteq anCrossed',
         pc = "serving" => anServer' = r,
         pc = "setup" => (~StoppingSeen(r) \/ anFlag' \/ StopUnderWay \/ r \in anCrossed),
         pc = "serving" => (~StoppingSeen(r) \/ anExit'[r] \/ StopUnderWay \/ r \in anCrossed),
         \A q \in Starts \ (anCrossed' \cup {r}) :
           /\ anRun[q].pc = "setup" /\ anFlag => anFlag'
           /\ anRun[q].pc = "serving" => anServer' = anServer /\ anExit'[q] = anExit[q]
  PROVE  AnInv'
  <1> USE DEF AnInv
  <1>1. /\ anRun'[r] = [anRun[r] EXCEPT !.pc = pc] /\ \A q \in Starts \ {r} : anRun'[q] = anRun[q]
        /\ anRun'[r].pc = pc /\ anRun'[r].object = anRun[r].object /\ anRun'[r].generation = anRun[r].generation
    BY DEF RunGoes, AnTypeOK
  <1>2. AnTypeOK'
    <2>1. anRun' \in [Starts -> [pc : RunPcs, object : Objects \cup {0}, generation : Nat]]
      BY DEF RunGoes, AnTypeOK, UnderWayPcs
    <2>2. QED
      BY <2>1 DEF AnTypeOK, anSystem
  <1>3. ASSUME NEW q \in Starts
        PROVE  /\ UnderWay(q)' <=> UnderWay(q)
               /\ anRun'[q].object = anRun[q].object /\ anRun'[q].generation = anRun[q].generation
               /\ StoppingSeen(q)' <=> StoppingSeen(q)
    <2>1. /\ anRun'[q].object = anRun[q].object /\ anRun'[q].generation = anRun[q].generation
          /\ anService' = anService
      BY <1>1
    <2>2. UnderWay(q)' <=> UnderWay(q)
      BY <1>1 DEF UnderWay
    <2>3. QED
      BY <2>1, <2>2 DEF StoppingSeen
  <1>4. OneRunEach'
    BY <1>1, <1>3 DEF OneRunEach
  <1>5. Uncrossed'
    BY <1>1, <1>3 DEF Uncrossed, anSystem
  <1>6. StopsArePassedOn'
    BY <1>1, <1>3 DEF StopsArePassedOn, StopUnderWay
  <1>7. QED
    BY <1>2, <1>4, <1>5, <1>6

(* Nobody crosses a thread of its own object: there is no other.           *)
LEMMA CrossedByOthers ==
  ASSUME AnInv, NEW r \in Starts, UnderWay(r), NEW P, P \subseteq UnderWayPcs, Crosses(r, P)
  PROVE  /\ anCrossed \subseteq anCrossed'
         /\ \A q \in Starts \ (anCrossed' \cup {r}) : anRun[q].pc \notin P
  BY DEF Crosses, AnInv, OneRunEach, UnderWay

(* The thread of a start, up to its last step. *)
LEMMA RunStep ==
  ASSUME AnInv, NEW r \in Starts,
         \/ PythonStarts(r) \/ FirstCheck(r) \/ Prepare(r) \/ SecondCheck(r)
         \/ SetupFails(r) \/ Publish(r) \/ ServerReturns(r) \/ Withdraw(r)
  PROVE  AnInv'
  <1>1. UNCHANGED <<anSystem, anService, anStop, anActive>> /\ UnderWay(r)
    BY DEF PythonStarts, FirstCheck, Prepare, SecondCheck, SetupFails, Publish, ServerReturns, Withdraw,
           UnderWay, UnderWayPcs, RunPcs
  <1>2. anPython' = TRUE
    <2>1. CASE PythonStarts(r)
      BY <2>1, Zenon DEF PythonStarts
    <2>2. CASE ~PythonStarts(r)
      <3>1. anRun[r].pc # "begin" /\ anPython' = anPython
        BY <2>2 DEF FirstCheck, Prepare, SecondCheck, SetupFails, Publish, ServerReturns, Withdraw
      <3>2. anPython = TRUE
        BY <1>1, <3>1 DEF AnInv, AnTypeOK, OneRunEach
      <3>3. QED
        BY <3>1, <3>2
    <2>3. QED
      BY <2>1, <2>2
  <1>3. anFlag' \in BOOLEAN /\ anExit' \in [Starts -> BOOLEAN]
    BY DEF PythonStarts, FirstCheck, Prepare, SecondCheck, SetupFails, Publish, ServerReturns, Withdraw,
           AnInv, AnTypeOK, anRuntime
  <1>4. CASE PythonStarts(r) \/ FirstCheck(r) \/ SetupFails(r) \/ ServerReturns(r)
             \/ (Prepare(r) /\ anServer # 0)
    <2>1. PICK pc \in {"first check", "ended", "prepare", "leaving"} : RunGoes(r, pc)
      BY <1>4 DEF PythonStarts, FirstCheck, SetupFails, ServerReturns, Prepare
    <2>2. UNCHANGED anRuntime
      BY <1>4 DEF PythonStarts, FirstCheck, SetupFails, ServerReturns, Prepare, anRuntime
    <2>3. QED
      BY <1>1, <1>2, <1>3, <2>1, <2>2, RunMoves DEF UnderWayPcs, RunPcs, anRuntime
  <1>5. CASE SecondCheck(r)
    <2>1. PICK pc \in {"ended", "setup"} : RunGoes(r, pc) /\ (pc = "setup" => ~StoppingSeen(r))
      BY <1>5 DEF SecondCheck
    <2>2. UNCHANGED anRuntime
      BY <1>5 DEF SecondCheck
    <2>3. QED
      BY <1>1, <1>2, <1>3, <2>1, <2>2, RunMoves DEF UnderWayPcs, RunPcs, anRuntime
  <1>6. CASE Prepare(r) /\ anServer = 0
    <2>1. RunGoes(r, "second check") /\ Crosses(r, Cleared) /\ UNCHANGED <<anServer, anExit>>
      BY <1>6 DEF Prepare
    <2>2. Cleared \subseteq UnderWayPcs
      BY DEF Cleared, UnderWayPcs, RunPcs
    <2>3. /\ anCrossed \subseteq anCrossed'
          /\ \A q \in Starts \ (anCrossed' \cup {r}) : anRun[q].pc \notin Cleared
      BY <1>1, <2>1, <2>2, CrossedByOthers
    <2>4. QED
      BY <1>1, <1>2, <1>3, <2>1, <2>3, RunMoves DEF UnderWayPcs, RunPcs, Cleared
  <1>7. CASE Publish(r)
    <2>1. /\ RunGoes(r, "serving") /\ anServer' = r /\ Crosses(r, {"serving"}) /\ anFlag' = anFlag
          /\ anRun[r].pc = "setup"
          /\ anExit'[r] = anFlag /\ \A q \in Starts \ {r} : anExit'[q] = anExit[q]
      BY <1>7 DEF Publish, AnInv, AnTypeOK
    <2>2. /\ anCrossed \subseteq anCrossed'
          /\ \A q \in Starts \ (anCrossed' \cup {r}) : anRun[q].pc \notin {"serving"}
      BY <1>1, <2>1, CrossedByOthers DEF UnderWayPcs, RunPcs
    <2>3. ~StoppingSeen(r) \/ anExit'[r] \/ StopUnderWay \/ r \in anCrossed
      BY <2>1 DEF AnInv, StopsArePassedOn
    <2>4. QED
      BY <1>1, <1>2, <1>3, <2>1, <2>2, <2>3, RunMoves DEF UnderWayPcs, RunPcs
  <1>8. CASE Withdraw(r)
    <2>1. RunGoes(r, "ended") /\ Crosses(r, Cleared \cup {"serving"}) /\ anExit' = anExit
      BY <1>8 DEF Withdraw
    <2>2. Cleared \cup {"serving"} \subseteq UnderWayPcs
      BY DEF Cleared, UnderWayPcs, RunPcs
    <2>3. /\ anCrossed \subseteq anCrossed'
          /\ \A q \in Starts \ (anCrossed' \cup {r}) : anRun[q].pc \notin Cleared \cup {"serving"}
      BY <1>1, <2>1, <2>2, CrossedByOthers
    <2>4. QED
      BY <1>1, <1>2, <1>3, <2>1, <2>3, RunMoves DEF UnderWayPcs, RunPcs, Cleared
  <1>9. QED
    BY <1>4, <1>5, <1>6, <1>7, <1>8

(* The last step of a thread leaves its object without one; what the       *)
(* others rely on, "active", it clears for those it crosses.               *)
LEMMA RunLeaves ==
  ASSUME AnInv, NEW r \in Starts, RunEnds(r)
  PROVE  AnInv'
  <1> DEFINE o == anRun[r].object
  <1>1. UnderWay(r) /\ o \in Objects /\ anService[o].generation = anRun[r].generation
    BY DEF RunEnds, UnderWay, UnderWayPcs, RunPcs, AnInv, OneRunEach
  <1>2. /\ anService' = [anService EXCEPT ![o].started = FALSE, ![o].generation = @ + 1]
        /\ anActive' = FALSE /\ Crosses(r, UnderWayPcs)
        /\ RunGoes(r, "done")
        /\ UNCHANGED <<anIntent, anObject, anPython, anStop, anServer, anFlag, anExit>>
    BY <1>1 DEF RunEnds
  <1>3. /\ anCrossed \subseteq anCrossed'
        /\ \A q \in Starts \ (anCrossed' \cup {r}) : ~UnderWay(q)
    BY <1>1, <1>2, CrossedByOthers DEF UnderWay
  <1>4. ~UnderWay(r)' /\ \A q \in Starts \ {r} : anRun'[q] = anRun[q]
    BY <1>2 DEF RunGoes, UnderWay, UnderWayPcs, AnInv, AnTypeOK
  <1>5. AnTypeOK'
    <2>1. anRun' \in [Starts -> [pc : RunPcs, object : Objects \cup {0}, generation : Nat]]
      <3>1. "done" \in RunPcs
        BY DEF RunPcs
      <3>2. QED
        BY <1>2, <3>1 DEF RunGoes, AnInv, AnTypeOK
    <2>2. anService' \in [Objects -> [started : BOOLEAN, stopping : BOOLEAN, generation : Nat]]
      BY <1>1, <1>2 DEF AnInv, AnTypeOK
    <2>3. QED
      BY <1>2, <2>1, <2>2 DEF AnInv, AnTypeOK
  <1>6. OneRunEach'
    <2>1. ASSUME NEW q \in Starts, UnderWay(q)'
          PROVE  /\ q # r /\ UnderWay(q) /\ anRun'[q] = anRun[q]
                 /\ anRun[q].object # o /\ anRun[q].object \in Objects
      BY <1>1, <1>4, <2>1 DEF UnderWay, AnInv, OneRunEach
    <2>2. \A p \in Objects \ {o} : anService'[p] = anService[p]
      BY <1>1, <1>2 DEF AnInv, AnTypeOK
    <2>3. ASSUME NEW q \in Starts, UnderWay(q)'
          PROVE  LET p == anRun'[q].object IN
                 /\ p \in Objects /\ anService'[p].started /\ anService'[p].generation = anRun'[q].generation
                 /\ anRun'[q].pc # "begin" => anPython
      <3>1. UnderWay(q) /\ anRun'[q] = anRun[q]
        BY <2>1, <2>3
      <3>2. anService'[anRun[q].object] = anService[anRun[q].object] /\ anRun[q].object \in Objects
        BY <2>1, <2>2, <2>3
      <3>3. QED
        BY <3>1, <3>2 DEF AnInv, OneRunEach
    <2>4. ASSUME NEW q \in Starts, UnderWay(q)', NEW p \in Starts, UnderWay(p)',
                 anRun'[p].object = anRun'[q].object
          PROVE  p = q
      <3>1. UnderWay(q) /\ anRun'[q] = anRun[q] /\ UnderWay(p) /\ anRun'[p] = anRun[p]
        BY <2>1, <2>4
      <3>2. QED
        BY <2>4, <3>1 DEF AnInv, OneRunEach
    <2>5. QED
      BY <1>2, <2>3, <2>4 DEF OneRunEach
  <1>7. Uncrossed' /\ StopsArePassedOn'
    BY <1>3, <1>4 DEF Uncrossed, StopsArePassedOn, UnderWay, UnderWayPcs, RunPcs
  <1>8. QED
    BY <1>5, <1>6, <1>7 DEF AnInv

(* The thread of a stop tells whatever server is published. *)
LEMMA StopStep ==
  ASSUME AnInv, NEW s \in Stops, StopCalls(s) \/ StopChecks(s) \/ PostedStopSelf(s)
  PROVE  AnInv'
  <1>1. UNCHANGED <<anObject, anIntent, anService, anActive, anPython, anRun, anServer, anCrossed>>
    BY DEF StopCalls, StopChecks, PostedStopSelf, anSystem, anRuntime
  <1>2. AnTypeOK'
    <2>1. anStop' \in [Stops -> [pc : StopPcs, object : Objects \cup {0}]]
      BY DEF StopCalls, StopChecks, PostedStopSelf, StopGoes, StopPcs, AnInv, AnTypeOK
    <2>2. anFlag' \in BOOLEAN /\ anExit' \in [Starts -> BOOLEAN]
      BY Zenon DEF StopCalls, StopChecks, PostedStopSelf, AnInv, AnTypeOK, anRuntime
    <2>3. QED
      BY <1>1, <2>1, <2>2 DEF AnInv, AnTypeOK
  <1>3. OneRunEach' /\ Uncrossed'
    BY <1>1 DEF OneRunEach, Uncrossed, UnderWay, StoppingSeen, AnInv
  <1>4. CASE StopCalls(s)
    <2>1. ASSUME NEW r \in Starts \ anCrossed, anRun[r].pc \in {"setup", "serving"}
          PROVE  anFlag' /\ (anRun[r].pc = "serving" => anExit'[r])
      <3>1. anPython /\ (anRun[r].pc = "serving" => anServer = r)
        BY <2>1 DEF AnInv, OneRunEach, Uncrossed, UnderWay, UnderWayPcs, RunPcs
      <3>2. QED
        BY <1>4, <3>1 DEF StopCalls
    <2>2. QED
      BY <1>1, <1>2, <1>3, <2>1 DEF AnInv, StopsArePassedOn
  <1>5. CASE ~StopCalls(s)
    <2>1. StopUnderWay => StopUnderWay'
      BY <1>5 DEF StopChecks, PostedStopSelf, StopGoes, StopUnderWay, AnInv, AnTypeOK
    <2>2. anFlag' = anFlag /\ anExit' = anExit
      BY <1>5 DEF StopChecks, PostedStopSelf, anRuntime
    <2>3. QED
      BY <1>1, <1>2, <1>3, <2>1, <2>2 DEF AnInv, StopsArePassedOn, StoppingSeen
  <1>6. QED
    BY <1>4, <1>5

(* The system, the console and the callbacks of the main thread. *)
LEMMA CallbackStep ==
  ASSUME AnInv,
         \/ UNCHANGED anVars \/ ConsoleOpens \/ ConsoleCloses \/ IntentSent
         \/ StartArrives \/ StopArrives \/ Destroyed
  PROVE  AnInv'
  <1>1. CASE UNCHANGED anVars \/ ConsoleOpens \/ ConsoleCloses \/ IntentSent
    <2>1. /\ UNCHANGED <<anService, anActive, anRun, anStop, anRuntime, anPython>>
          /\ anObject' = anObject \/ Created
          /\ anIntent' = anIntent \/ Created
      BY <1>1 DEF anVars, anRuntime, ConsoleOpens, ConsoleCloses, IntentSent
    <2>2. anObject' \in Objects \cup {0} /\ (Created => anObject' # 0)
      BY <2>1, NewObject DEF AnInv, AnTypeOK, Objects
    <2>3. QED
      BY <2>1, <2>2, SystemMoves DEF Created, AnInv, AnTypeOK
  <1>2. CASE StartArrives
    <2>1. CASE anService[anObject].started
      <3>1. /\ UNCHANGED <<anObject, anService, anActive, anRun, anPython, anStop, anRuntime>>
            /\ anIntent' = "none"
        BY <1>2, <2>1 DEF StartArrives
      <3>2. QED
        BY <3>1, SystemMoves DEF AnInv, AnTypeOK
    <2>2. QED
      BY <1>2, <2>1, StartMade
  <1>3. CASE StopArrives
    <2>1. anObject # 0
      BY <1>3 DEF StopArrives, AnInv, AnTypeOK
    <2>2. QED
      BY <1>3, <2>1, StopAsked DEF StopArrives
  <1>4. CASE Destroyed
    <2>1. anObject # 0 /\ anObject' = 0 /\ anIntent' = "none" /\ UNCHANGED <<anActive, anPython, anRun, anRuntime>>
      BY <1>4 DEF Destroyed, DestroyDue
    <2>2. CASE anActive
      BY <1>4, <2>1, <2>2, StopAsked DEF Destroyed
    <2>3. CASE ~anActive
      <3>1. UNCHANGED <<anService, anStop>>
        BY <1>4, <2>3 DEF Destroyed
      <3>2. AnTypeOK' /\ OneRunEach'
        BY <2>1, <3>1 DEF AnInv, AnTypeOK, OneRunEach, UnderWay, anRuntime
      <3>3. Uncrossed' /\ StopsArePassedOn'
        BY <2>1, <2>3, <3>1 DEF AnInv, Uncrossed, StopsArePassedOn, UnderWay, StoppingSeen, StopUnderWay, anRuntime
      <3>4. QED
        BY <3>2, <3>3 DEF AnInv
    <2>4. QED
      BY <2>2, <2>3
  <1>5. QED
    BY <1>1, <1>2, <1>3, <1>4

(* A server whose service was told to stop or is destroyed is told to exit, *)
(* or will be, for any number of objects, starts and stops, alone or        *)
(* overlapping, unless a thread of another object overwrote what they share *)
(* (ServerService.java and runtime.py): "active", _server, _stop_requested. *)
THEOREM StopsAreHeeded == AnSpec => []StopIsHeeded
  <1>1. AnInit => AnInv
    <2> SUFFICES ASSUME AnInit PROVE AnInv
      OBVIOUS
    <2>1. AnTypeOK
      BY DEF AnInit, AnTypeOK, FreshService, NoRun, NoStop, RunPcs, StopPcs
    <2>2. \A r \in Starts : anRun[r].pc = "none"
      BY DEF AnInit, NoRun
    <2>3. QED
      BY <2>1, <2>2 DEF AnInv, OneRunEach, Uncrossed, StopsArePassedOn, UnderWay, UnderWayPcs
  <1>2. AnInv /\ [AnNext]_anVars => AnInv'
    BY CallbackStep, RunStep, RunLeaves, StopStep DEF AnNext
  <1>3. QED
    BY <1>1, <1>2, StopsHeeded, PTL DEF AnSpec

-----------------------------------------------------------------------------
(* The mirror of the releases. *)

(* What the attempt took off its plan is on the mirror; what it found there *)
(* is there still, for nothing is ever removed.                             *)
PlanIsKept ==
  /\ rmPlan \subseteq DOMAIN rmAssets
  /\ rmFound \subseteq rmStored
  /\ \A n \in DOMAIN rmAssets \ rmPlan : \E a \in rmStored : a.name = n /\ Matches(a)
  /\ rmPc \in {"metadata", "verified"} => rmPlan = {}

(* A step that leaves the attempt alone only adds to the mirror. *)
LEMMA MirrorGrows ==
  ASSUME PlanIsKept, rmStored \subseteq rmStored', UNCHANGED rmAttempt
  PROVE  PlanIsKept'
  BY DEF PlanIsKept, Matches, rmAttempt

(* So does a step that gives up, or goes on without another plan. *)
LEMMA AttemptMoves ==
  ASSUME PlanIsKept, rmStored \subseteq rmStored', NEW pc, rmPc' = pc,
         UNCHANGED <<rmAssets, rmPlan>>, rmFound' \subseteq rmStored',
         pc \in {"metadata", "verified"} => rmPlan = {}
  PROVE  PlanIsKept'
  BY DEF PlanIsKept, Matches

(* An attempt that ends has an empty plan. *)
LEMMA AttemptEnds ==
  ASSUME GivesUp
  PROVE  PlanIsKept'
  BY DEF GivesUp, PlanIsKept, Nothing

(* An attachment verified leaves the plan. *)
LEMMA AttachmentVerified ==
  ASSUME PlanIsKept, NEW n, rmPc = "transfer", Verified(n), rmStored \subseteq rmStored',
         NEW a \in rmStored', a.name = n, Matches(a)
  PROVE  PlanIsKept'
  <1>1. \A m \in DOMAIN rmAssets \ rmPlan' : \E b \in rmStored' : b.name = m /\ Matches(b)
    BY DEF PlanIsKept, Verified
  <1>2. QED
    BY <1>1 DEF PlanIsKept, Verified, Matches

(* Every request of an attempt, and every failure, keeps its plan. *)
LEMMA MirrorStep ==
  ASSUME PlanIsKept, [RmNext]_rmVars
  PROVE  PlanIsKept'
  <1>1. CASE SourceEdited \/ NewerPublished \/ TagPushed \/ LateUploadStored \/ UNCHANGED rmVars
    <2>1. rmStored \subseteq rmStored' /\ UNCHANGED rmAttempt
      BY <1>1 DEF SourceEdited, NewerPublished, TagPushed, LateUploadStored, Stores, rmVars
    <2>2. QED
      BY <2>1, MirrorGrows
  <1>2. CASE ReadSource
    BY <1>2 DEF ReadSource, PlanIsKept, MirrorUntouched
  <1>3. CASE Select \/ Download \/ Inventory \/ FinalInventory \/ WriteMetadata \/ AttemptFails
    <2>1. rmStored' = rmStored
      BY <1>3 DEF Select, Download, Inventory, FinalInventory, WriteMetadata, AttemptFails, MirrorUntouched
    <2>2. CASE GivesUp
      BY <2>2, AttemptEnds
    <2>3. CASE ~GivesUp
      <3>1. /\ UNCHANGED <<rmAssets, rmPlan>> /\ rmFound' \subseteq rmStored'
            /\ rmPc' \in {"metadata", "verified"} => rmPlan = {}
        BY <1>3, <2>1, <2>3 DEF Select, Download, Inventory, FinalInventory, WriteMetadata, AttemptFails,
                                Passes, GoesOn, PlanIsKept, Listed
      <3>2. QED
        BY <2>1, <3>1, AttemptMoves
    <2>4. QED
      BY <2>2, <2>3
  <1>4. ASSUME NEW n \in Names, VerifyFound(n)
        PROVE  PlanIsKept'
    <2>1. PICK a \in rmFound : a.name = n /\ IF Matches(a) THEN Verified(n) ELSE GivesUp
      BY <1>4 DEF VerifyFound
    <2>2. a \in rmStored /\ rmStored' = rmStored /\ rmPc = "transfer"
      BY <1>4 DEF VerifyFound, MirrorUntouched, PlanIsKept
    <2>3. QED
      BY <2>1, <2>2, AttachmentVerified, AttemptEnds
  <1>5. ASSUME NEW n \in Names, Upload(n)
        PROVE  PlanIsKept'
    <2>1. PICK c \in {rmAssets[n], Damaged} :
            Stores(n, c) /\ IF c = rmAssets[n] THEN Verified(n) ELSE GivesUp
      BY <1>5 DEF Upload
    <2>2. CASE c = rmAssets[n]
      <3>1. /\ Attachment(NextId, n, c) \in rmStored' /\ rmStored \subseteq rmStored'
            /\ Attachment(NextId, n, c).name = n /\ Matches(Attachment(NextId, n, c))
        BY <2>1, <2>2 DEF Stores, Attachment, Matches
      <3>2. QED
        BY <1>5, <2>1, <2>2, <3>1, AttachmentVerified DEF Upload, Missing
    <2>3. QED
      BY <2>1, <2>2, AttemptEnds
  <1>6. ASSUME NEW n \in Names, UploadGivenUp(n)
        PROVE  PlanIsKept'
    BY <1>6, AttemptEnds DEF UploadGivenUp
  <1>7. QED
    BY <1>1, <1>2, <1>3, <1>4, <1>5, <1>6 DEF RmNext

(* An attempt that reports a release verified has seen every attachment of  *)
(* the source on the mirror with the same content, for any attachments and  *)
(* contents (sync_gitee_releases.py).                                       *)
THEOREM VerifiedIsFaithful == RmSpec => []MirrorIsFaithful
  <1>1. RmInit => PlanIsKept
    BY DEF RmInit, PlanIsKept, Nothing
  <1>2. PlanIsKept => MirrorIsFaithful
    BY DEF PlanIsKept, MirrorIsFaithful
  <1>3. QED
    BY <1>1, <1>2, MirrorStep, PTL DEF RmSpec

=============================================================================
