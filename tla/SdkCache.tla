------------------------------ MODULE SdkCache ------------------------------
(***************************************************************************)
(* The inventory of one account as the SDK client caches it: the tiers of  *)
(* CacheManager that entries with a short life reach (memory and Redis),   *)
(* the repositories that fill them and the client's operations that drop   *)
(* them.  Threads, or tasks that await to_thread, share one CacheManager   *)
(* without a lock.  A value is the version of the cloud's inventory it was *)
(* fetched from.  "list" stands for the list of homes and those of their   *)
(* devices, which are cached alike, "device" for one entry found in it.    *)
(***************************************************************************)
EXTENDS Naturals

CONSTANTS SdkCalls,   \* calls of the client
          SdkNone,    \* not cached
          MaxCloud,   \* bound on the inventory's versions
          SdkUsesRedis

ASSUME SdkAssumption == SdkNone \notin Nat /\ MaxCloud \in Nat /\ SdkUsesRedis \in BOOLEAN

VARIABLES sdkCloud,      \* version of the inventory in the cloud
          sdkMem,        \* tier 1: two dictionaries, told apart by the entry's life
          sdkRedis,      \* tier 2
          sdkCalls,
          sdkFloor,      \* oldest version that calls to come may see (history)
          sdkControlled  \* version the last undisturbed control led to (history)

sdkVars == <<sdkCloud, sdkMem, sdkRedis, sdkCalls, sdkFloor, sdkControlled>>

SdkKeys == {"list", "device", "properties"}
SdkIdle == [pc |-> "idle", phase |-> "read", want |-> "list", key |-> "list", got |-> 0,
            home |-> FALSE, since |-> 0, alone |-> FALSE]

SdkInit ==
  /\ sdkCloud = 0
  /\ sdkMem = [k \in SdkKeys |-> SdkNone]
  /\ sdkRedis = [k \in SdkKeys |-> SdkNone]
  /\ sdkCalls = [c \in SdkCalls |-> SdkIdle]
  /\ sdkFloor = [k \in SdkKeys |-> 0]
  /\ sdkControlled = 0

-----------------------------------------------------------------------------
SdkAt(c, pc) == sdkCalls[c].pc = pc
SdkKey(c) == sdkCalls[c].key
SdkGoes(c, state) == sdkCalls' = [sdkCalls EXCEPT ![c] = state]

(* Drops the tiers of the matching entries: a control those of the device, *)
(* then those of its home, whose patterns also match the properties' key.  *)
(* A faulty variant: the properties are left to their short life. *)
MatchingInventory(c) ==
  CASE sdkCalls[c].phase = "forget" -> {"device"}
    [] sdkCalls[c].phase = "forgetList" -> {"list"}
    [] OTHER -> IF sdkCalls[c].home THEN {"list"} ELSE SdkKeys

Matching(c) ==
  CASE sdkCalls[c].phase = "forget" -> {"device", "properties"}
    [] sdkCalls[c].phase = "forgetList" -> {"list"}
    [] OTHER -> IF sdkCalls[c].home THEN {"list"} ELSE SdkKeys

(* A call that starts meets the others, and they meet it; "since" is the   *)
(* version a call that changes the cache makes visible if it meets none.   *)
SdkBegins(c, phase, want, home) ==
  /\ SdkAt(c, "idle")
  /\ LET alone == phase # "read" /\ \A o \in SdkCalls \ {c} : SdkAt(o, "idle") IN
     sdkCalls' = [d \in SdkCalls |->
       IF d = c
         THEN [SdkIdle EXCEPT !.pc = IF phase = "refresh" THEN "drop" ELSE "look",
                              !.phase = phase, !.want = want, !.key = want, !.home = home,
                              !.since = IF alone THEN sdkCloud ELSE 0, !.alone = alone]
         ELSE [sdkCalls[d] EXCEPT !.alone = FALSE, !.since = 0]]
  /\ UNCHANGED <<sdkCloud, sdkMem, sdkRedis, sdkFloor, sdkControlled>>

(* get_homes, get_devices, get_device; and a device's properties, which    *)
(* are cached for 30 seconds.                                              *)
SdkReadsInventory(c) == \E k \in {"list", "device"} : SdkBegins(c, "read", k, FALSE)
SdkReadsProperties(c) == SdkBegins(c, "read", "properties", FALSE)

(* A control validates its request against the device and its spec first.  *)
SdkControls(c, home) == SdkBegins(c, "validate", "device", home)

SdkRefreshes(c, home) == SdkBegins(c, "refresh", "list", home)

(* Reading or control failed with an exception; a control that has been    *)
(* acknowledged returns regardless of what the cache does.                 *)
SdkRaises(c) == SdkGoes(c, SdkIdle) /\ UNCHANGED <<sdkCloud, sdkMem, sdkRedis, sdkFloor, sdkControlled>>

SdkCompletes(c, keys) ==
  /\ SdkGoes(c, SdkIdle)
  /\ sdkFloor' = IF sdkCalls[c].alone
                   THEN [k \in SdkKeys |-> IF k \in keys THEN sdkCalls[c].since ELSE sdkFloor[k]]
                   ELSE sdkFloor
  /\ sdkControlled' = IF sdkCalls[c].alone /\ sdkCalls[c].phase = "forgetList"
                        THEN sdkCalls[c].since ELSE sdkControlled

(* What a call does with the entry it looked for, now in hand. *)
SdkHas(c, got) ==
  LET call == [sdkCalls[c] EXCEPT !.got = got] IN
  SdkGoes(c, IF call.key # call.want THEN [call EXCEPT !.key = call.want, !.pc = "keep"]
             ELSE CASE call.phase = "validate" -> [call EXCEPT !.pc = "send", !.got = 0]
                    [] call.phase = "find" -> [call EXCEPT !.phase = "forgetList", !.pc = "drop", !.got = 0]
                    [] OTHER -> SdkIdle)

-----------------------------------------------------------------------------
(* CacheManager.get, then the repository's fetch and CacheManager.set *)

SdkLooks(c) ==
  /\ SdkAt(c, "look")
  /\ SdkGoes(c, [sdkCalls[c] EXCEPT !.pc = IF sdkMem[SdkKey(c)] # SdkNone THEN "take" ELSE "askRedis"])
  /\ UNCHANGED <<sdkCloud, sdkMem, sdkRedis, sdkFloor, sdkControlled>>

(* An entry that expired or was popped after the test raises KeyError. *)
SdkTakes(c) ==
  /\ SdkAt(c, "take")
  /\ \/ /\ sdkMem[SdkKey(c)] # SdkNone
        /\ SdkHas(c, sdkMem[SdkKey(c)])
        /\ UNCHANGED <<sdkCloud, sdkMem, sdkRedis, sdkFloor, sdkControlled>>
     \/ sdkMem[SdkKey(c)] = SdkNone /\ SdkRaises(c)

(* Redis that cannot be read is a miss.  A device that is not cached is    *)
(* looked for in the lists.                                                *)
SdkAsksRedis(c) ==
  /\ SdkAt(c, "askRedis")
  /\ LET call == sdkCalls[c] IN
     SdkGoes(c, IF SdkUsesRedis /\ sdkRedis[call.key] # SdkNone
                  THEN [call EXCEPT !.pc = "backfill", !.got = sdkRedis[call.key]]
                  ELSE IF call.key = "device" THEN [call EXCEPT !.pc = "look", !.key = "list"]
                                              ELSE [call EXCEPT !.pc = "fetch"])
  /\ UNCHANGED <<sdkCloud, sdkMem, sdkRedis, sdkFloor, sdkControlled>>

SdkBackfills(c) ==
  /\ SdkAt(c, "backfill")
  /\ sdkMem' = [sdkMem EXCEPT ![SdkKey(c)] = sdkCalls[c].got]
  /\ SdkHas(c, sdkCalls[c].got)
  /\ UNCHANGED <<sdkCloud, sdkRedis, sdkFloor, sdkControlled>>

SdkFetches(c) ==
  /\ SdkAt(c, "fetch")
  /\ \/ /\ SdkGoes(c, [sdkCalls[c] EXCEPT !.got = sdkCloud, !.pc = "keep"])
        /\ UNCHANGED <<sdkCloud, sdkMem, sdkRedis, sdkFloor, sdkControlled>>
     \/ SdkRaises(c)

SdkKeeps(c) ==
  /\ SdkAt(c, "keep")
  /\ sdkMem' = [sdkMem EXCEPT ![SdkKey(c)] = sdkCalls[c].got]
  /\ IF SdkUsesRedis THEN SdkGoes(c, [sdkCalls[c] EXCEPT !.pc = "keepRedis"])
                     ELSE SdkHas(c, sdkCalls[c].got)
  /\ UNCHANGED <<sdkCloud, sdkRedis, sdkFloor, sdkControlled>>

SdkKeepsRedis(c) ==
  /\ SdkAt(c, "keepRedis")
  /\ \/ sdkRedis' = [sdkRedis EXCEPT ![SdkKey(c)] = sdkCalls[c].got]
     \/ UNCHANGED sdkRedis
  /\ SdkHas(c, sdkCalls[c].got)
  /\ UNCHANGED <<sdkCloud, sdkMem, sdkFloor, sdkControlled>>

-----------------------------------------------------------------------------
(* Controls and refreshes *)

(* Only an acknowledged control goes on to the cache. *)
SdkSends(c) ==
  /\ SdkAt(c, "send")
  /\ sdkCloud < MaxCloud
  /\ sdkCloud' = sdkCloud + 1
  /\ \/ SdkGoes(c, [sdkCalls[c] EXCEPT !.since = IF sdkCalls[c].alone THEN sdkCloud' ELSE 0,
                                       !.phase = "forget", !.pc = "drop"])
     \/ SdkGoes(c, SdkIdle)
  /\ UNCHANGED <<sdkMem, sdkRedis, sdkFloor, sdkControlled>>

SdkRefused(c) == SdkAt(c, "send") /\ SdkRaises(c)

SdkDropped(keys, tier) == [k \in SdkKeys |-> IF k \in keys THEN SdkNone ELSE tier[k]]

SdkDrops(c) ==
  /\ SdkAt(c, "drop")
  /\ sdkMem' = SdkDropped(Matching(c), sdkMem)
  /\ SdkGoes(c, [sdkCalls[c] EXCEPT !.pc = "dropRedis"])
  /\ UNCHANGED <<sdkCloud, sdkRedis, sdkFloor, sdkControlled>>

(* After the device's entries come the lists of its home: at once when the *)
(* caller named the home, else after looking the device up again.          *)
SdkForgetsNext(c) ==
  LET call == [sdkCalls[c] EXCEPT !.key = "device", !.want = "device"] IN
  SdkGoes(c, IF call.home THEN [call EXCEPT !.phase = "forgetList", !.pc = "drop"]
                          ELSE [call EXCEPT !.phase = "find", !.pc = "look"])

SdkDropsRedis(c) ==
  /\ SdkAt(c, "dropRedis")
  /\ sdkRedis' = SdkDropped(Matching(c), sdkRedis)
  /\ CASE sdkCalls[c].phase = "forget" -> SdkForgetsNext(c) /\ UNCHANGED <<sdkFloor, sdkControlled>>
       [] sdkCalls[c].phase = "forgetList" ->
            SdkCompletes(c, IF sdkCalls[c].home THEN SdkKeys ELSE {"list", "properties"})
       [] OTHER -> SdkCompletes(c, Matching(c))
  /\ UNCHANGED <<sdkCloud, sdkMem>>

(* A control returns although Redis could not be told; a refresh raises.   *)
SdkRedisFails(c) ==
  /\ SdkUsesRedis
  /\ SdkAt(c, "dropRedis")
  /\ IF sdkCalls[c].phase = "forget"
       THEN SdkGoes(c, [sdkCalls[c] EXCEPT !.alone = FALSE, !.since = 0, !.key = "device", !.want = "device",
                          !.phase = IF sdkCalls[c].home THEN "forgetList" ELSE "find",
                          !.pc = IF sdkCalls[c].home THEN "drop" ELSE "look"])
       ELSE SdkGoes(c, SdkIdle)
  /\ UNCHANGED <<sdkCloud, sdkMem, sdkRedis, sdkFloor, sdkControlled>>

SdkCloudChanges ==
  /\ sdkCloud < MaxCloud
  /\ sdkCloud' = sdkCloud + 1
  /\ UNCHANGED <<sdkMem, sdkRedis, sdkCalls, sdkFloor, sdkControlled>>

SdkExpires(k) ==
  /\ \/ sdkMem' = [sdkMem EXCEPT ![k] = SdkNone] /\ UNCHANGED sdkRedis
     \/ sdkRedis' = [sdkRedis EXCEPT ![k] = SdkNone] /\ UNCHANGED sdkMem
  /\ UNCHANGED <<sdkCloud, sdkCalls, sdkFloor, sdkControlled>>

SdkCallNext(c) ==
  \/ SdkReadsInventory(c) \/ SdkReadsProperties(c)
  \/ \E home \in BOOLEAN : SdkControls(c, home) \/ SdkRefreshes(c, home)
  \/ SdkLooks(c) \/ SdkTakes(c) \/ SdkAsksRedis(c) \/ SdkBackfills(c)
  \/ SdkFetches(c) \/ SdkKeeps(c) \/ SdkKeepsRedis(c)
  \/ SdkSends(c) \/ SdkRefused(c)
  \/ SdkDrops(c) \/ SdkDropsRedis(c) \/ SdkRedisFails(c)

SdkNext ==
  \/ \E c \in SdkCalls : SdkCallNext(c)
  \/ SdkCloudChanges
  \/ \E k \in SdkKeys : SdkExpires(k)

SdkSpec == SdkInit /\ [][SdkNext]_sdkVars

-----------------------------------------------------------------------------
(* A refresh, or a control whose caller named the home, that no other call *)
(* overlapped is seen by everything that follows: neither tier serves an   *)
(* entry from before it, nor comes to by what an earlier call still holds. *)
SeenUnlessOverlapped ==
  /\ \A k \in SdkKeys : sdkMem[k] # SdkNone => sdkMem[k] >= sdkFloor[k]
  /\ \A k \in SdkKeys : sdkRedis[k] # SdkNone => sdkRedis[k] >= sdkFloor[k]

(* "Refreshes the caches after a control by default, so that the next read *)
(* returns the latest state" (control_device), also without a home.        *)
ControlIsSeen == sdkMem["device"] # SdkNone => sdkMem["device"] >= sdkControlled

=============================================================================
