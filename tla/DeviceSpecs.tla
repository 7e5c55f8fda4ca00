----------------------------- MODULE DeviceSpecs -----------------------------
(***************************************************************************)
(* The specification a control is validated against, from miot-spec.org    *)
(* through DeviceSpecRepositoryImpl and the long-lived entries of          *)
(* CacheManager (memory and file; Redis is in SdkCache) to                 *)
(* _validate_property and _ordered_action_params.  Threads of one server   *)
(* share the memory tier and the mapping of the class; the files outlive   *)
(* the process and may come from an older release.  The device is one, and *)
(* its model is known to miot-spec from some day on.                       *)
(***************************************************************************)
EXTENDS DeviceRules

CONSTANTS SpCalls,    \* threads
          Published,  \* the specifications miot-spec may serve, numbered
          Settings,   \* requests to set a property: piid and value
          Callings,   \* requests to call an action: aiid and what is given
          MaxDays     \* bound on the days that pass

Unlocked == "free"

ASSUME SpecAssumption == MaxDays \in Nat /\ Unlocked \notin SpCalls

(* Ends and steps of ranges, and values, are numbers.                      *)
ASSUME NumbersAssumption ==
  /\ \A i \in DOMAIN Published : \A p \in DOMAIN Published[i].props :
       Published[i].props[p].range \in [has : SUBSET {"min", "max", "step"}, min : Int, max : Int, step : Int]
  /\ \A s \in Settings : s[2].n \in Int
  /\ \A c \in Callings : \A k \in DOMAIN c[2] : c[2][k].n \in Int

VARIABLES spSource,  \* the specification served, and those served so far
          spDay, spListed,  \* the day, and whether the model is listed
          spMap,     \* DeviceSpecRepositoryImpl._model_type_map
          spMapMem, spMapFile, \* the mapping in the cache
          spMem,     \* tier 1 of the specification
          spFile,    \* its files by the schema in their key
          spLock,    \* _model_type_map_lock
          spRun      \* the thread

spMaps == <<spMap, spMapMem, spMapFile>>
spEntries == <<spMem, spFile>>
spWorld == <<spSource, spDay, spListed>>
spVars == <<spWorld, spMaps, spEntries, spLock, spRun>>

(* An entry of a cache: none, half a file, another program's, one of the   *)
(* schema that discarded the inputs, or a specification as parsed now.  A  *)
(* mapping: whether the model is in it, and its day.                       *)
Entry(state, of) == [state |-> state, of |-> of]
NoEntry == Entry("none", 0)
Torn == Entry("torn", 0)
Unfit == Entry("damaged", 0)
SpecOf(entry) ==
  IF entry.state = "ok" THEN Parsed(Published[entry.of]) ELSE ParsedV1(Published[entry.of])
Mapping(lists, day) == [known |-> TRUE, lists |-> lists, day |-> day]
NoMapping == [known |-> FALSE, lists |-> FALSE, day |-> 0]

NoRequest == [what |-> "set", id |-> 0, with |-> <<>>]
SettingOf(s) == [what |-> "set", id |-> s[1], with |-> s[2]]
CallingOf(c) == [what |-> "act", id |-> c[1], with |-> c[2]]
SpIdle == [pc |-> "idle", request |-> NoRequest, entry |-> NoEntry, map |-> NoMapping]

SpInit ==
  /\ \E i \in DOMAIN Published :
       /\ spSource = [now |-> i, ever |-> {i}]
       /\ spFile \in [v2 : {NoEntry, Torn, Unfit, Entry("ok", i)}, v1 : {NoEntry, Entry("old", i)}]
  /\ spDay = 0 /\ spListed \in BOOLEAN
  /\ spMap = NoMapping /\ spMapMem = NoMapping /\ spMapFile = NoMapping
  /\ spMem = NoEntry
  /\ spLock = Unlocked
  /\ spRun = [t \in SpCalls |-> SpIdle]

-----------------------------------------------------------------------------
SpAt(t, pc) == spRun[t].pc = pc
SpGoes(t, run) == spRun' = [spRun EXCEPT ![t] = run]
SpPasses(t, pc) == SpGoes(t, [spRun[t] EXCEPT !.pc = pc])

(* The world: what miot-spec serves, days, entries that expire (five       *)
(* minutes in memory, a day for the mapping's file), a restart.            *)
SpPublishes ==
  /\ \E i \in DOMAIN Published : spSource' = [now |-> i, ever |-> spSource.ever \cup {i}]
  /\ UNCHANGED <<spDay, spListed, spMaps, spEntries, spLock, spRun>>

SpLists ==
  /\ ~spListed /\ spListed' = TRUE
  /\ UNCHANGED <<spSource, spDay, spMaps, spEntries, spLock, spRun>>

SpDayPasses ==
  /\ spDay < MaxDays /\ spDay' = spDay + 1
  /\ spMem' = NoEntry /\ spMapMem' = NoMapping
  /\ spMapFile' = IF spMapFile.known /\ spMapFile.day < spDay THEN NoMapping ELSE spMapFile
  /\ UNCHANGED <<spSource, spListed, spMap, spFile, spLock, spRun>>

SpForgets ==
  /\ spMem' = NoEntry /\ spMapMem' = NoMapping
  /\ UNCHANGED <<spWorld, spMap, spMapFile, spFile, spLock, spRun>>

SpRestarts ==
  /\ spRun' = [t \in SpCalls |-> SpIdle] /\ spLock' = Unlocked
  /\ spMap' = NoMapping /\ spMapMem' = NoMapping /\ spMem' = NoEntry
  /\ UNCHANGED <<spWorld, spMapFile, spFile>>

-----------------------------------------------------------------------------
(* get_spec *)

SpAsks(t) ==
  /\ SpAt(t, "idle")
  /\ SpGoes(t, [SpIdle EXCEPT !.pc = "look"])
  /\ UNCHANGED <<spWorld, spMaps, spEntries, spLock>>

SpRaises(t) == SpGoes(t, SpIdle) /\ UNCHANGED <<spWorld, spMaps, spEntries, spLock>>

(* A faulty variant: the key does not name the schema. *)
SpecFileUnversioned == IF spFile.v2 = NoEntry THEN spFile.v1 ELSE spFile.v2

(* The key names the schema: entries of before it are never read.          *)
SpecFile == spFile.v2

(* CacheManager.get: half a file is a miss; a file's entry goes to memory. *)
SpLooks(t) ==
  /\ SpAt(t, "look")
  /\ IF spMem # NoEntry
       THEN SpGoes(t, [spRun[t] EXCEPT !.pc = "check", !.entry = spMem])
       ELSE SpPasses(t, "lookFile")
  /\ UNCHANGED <<spWorld, spMaps, spEntries, spLock>>

SpLooksInFile(t) ==
  /\ SpAt(t, "lookFile")
  /\ IF SpecFile.state \notin {"none", "torn"}
       THEN SpGoes(t, [spRun[t] EXCEPT !.pc = "backfill", !.entry = SpecFile])
       ELSE SpPasses(t, "resolve")
  /\ UNCHANGED <<spWorld, spMaps, spEntries, spLock>>

SpBackfills(t) ==
  /\ SpAt(t, "backfill")
  /\ spMem' = spRun[t].entry
  /\ SpPasses(t, "check")
  /\ UNCHANGED <<spWorld, spMaps, spFile, spLock>>

(* model_validate fails on an entry of another schema: it is dropped, from *)
(* memory and then from its file.                                          *)
SpChecks(t) ==
  /\ SpAt(t, "check")
  /\ IF spRun[t].entry.state # "damaged"
       THEN SpPasses(t, "validate")
       ELSE SpGoes(t, [spRun[t] EXCEPT !.pc = "drop", !.entry = NoEntry])
  /\ UNCHANGED <<spWorld, spMaps, spEntries, spLock>>

SpDrops(t) ==
  /\ SpAt(t, "drop")
  /\ spMem' = NoEntry
  /\ SpPasses(t, "dropFile")
  /\ UNCHANGED <<spWorld, spMaps, spFile, spLock>>

SpDropsFile(t) ==
  /\ SpAt(t, "dropFile")
  /\ spFile' = [spFile EXCEPT !.v2 = NoEntry]
  /\ SpPasses(t, "resolve")
  /\ UNCHANGED <<spWorld, spMaps, spMem, spLock>>

-----------------------------------------------------------------------------
(* _get_model_type_mapping *)

SpResolves(t) ==
  /\ SpAt(t, "resolve")
  /\ IF spMap.known THEN SpGoes(t, [spRun[t] EXCEPT !.pc = "listed", !.map = spMap])
                    ELSE SpPasses(t, "lock")
  /\ UNCHANGED <<spWorld, spMaps, spEntries, spLock>>

SpLocks(t) ==
  /\ SpAt(t, "lock") /\ spLock = Unlocked
  /\ spLock' = t
  /\ SpPasses(t, "second")
  /\ UNCHANGED <<spWorld, spMaps, spEntries>>

SpUnlocks(t) == spLock' = Unlocked

SpAsksAgain(t) ==
  /\ SpAt(t, "second")
  /\ IF spMap.known
       THEN SpGoes(t, [spRun[t] EXCEPT !.pc = "listed", !.map = spMap]) /\ SpUnlocks(t)
       ELSE SpPasses(t, "cached") /\ UNCHANGED spLock
  /\ UNCHANGED <<spWorld, spMaps, spEntries>>

SpFindsMapping(t) ==
  /\ SpAt(t, "cached")
  /\ LET found == IF spMapMem.known THEN spMapMem ELSE spMapFile IN
     IF found.known
       THEN /\ spMap' = found /\ spMapMem' = found
            /\ SpGoes(t, [spRun[t] EXCEPT !.pc = "listed", !.map = found])
            /\ SpUnlocks(t)
       ELSE /\ SpPasses(t, "download")
            /\ UNCHANGED <<spMap, spMapMem, spLock>>
  /\ UNCHANGED <<spWorld, spMapFile, spEntries>>

(* A download that fails releases the lock.                                *)
SpDownloads(t) ==
  /\ SpAt(t, "download")
  /\ \/ /\ LET found == Mapping(spListed, spDay) IN
           /\ spMap' = found /\ spMapMem' = found /\ spMapFile' = found
           /\ SpGoes(t, [spRun[t] EXCEPT !.pc = "listed", !.map = found])
     \/ SpGoes(t, SpIdle) /\ UNCHANGED spMaps
  /\ SpUnlocks(t)
  /\ UNCHANGED <<spWorld, spEntries>>

(* clear_model_type_mapping_cache *)
SpClears ==
  /\ spLock = Unlocked
  /\ spMap.known /\ spMap' = NoMapping
  /\ UNCHANGED <<spWorld, spMapMem, spMapFile, spEntries, spLock, spRun>>

-----------------------------------------------------------------------------
(* The specification is fetched, parsed, kept and used *)

SpTypes(t) ==
  /\ SpAt(t, "listed")
  /\ SpGoes(t, IF spRun[t].map.lists THEN [spRun[t] EXCEPT !.pc = "fetch", !.map = NoMapping] ELSE SpIdle)
  /\ UNCHANGED <<spWorld, spMaps, spEntries, spLock>>

SpFetches(t) ==
  /\ SpAt(t, "fetch")
  /\ SpGoes(t, [spRun[t] EXCEPT !.pc = "keep", !.entry = Entry("ok", spSource.now)])
  /\ UNCHANGED <<spWorld, spMaps, spEntries, spLock>>

(* cache_spec: memory, then the file, which is emptied and written.        *)
SpKeeps(t) ==
  /\ SpAt(t, "keep")
  /\ spMem' = spRun[t].entry
  /\ SpPasses(t, "open")
  /\ UNCHANGED <<spWorld, spMaps, spFile, spLock>>

SpOpensFile(t) ==
  /\ SpAt(t, "open")
  /\ spFile' = [spFile EXCEPT !.v2 = Torn]
  /\ SpPasses(t, "write")
  /\ UNCHANGED <<spWorld, spMaps, spMem, spLock>>

SpWritesFile(t) ==
  /\ SpAt(t, "write")
  /\ spFile' = [spFile EXCEPT !.v2 = spRun[t].entry]
  /\ SpPasses(t, "validate")
  /\ UNCHANGED <<spWorld, spMaps, spMem, spLock>>

(* A file that cannot be written is left as it is.                         *)
SpFileFails(t) ==
  /\ spRun[t].pc \in {"open", "write"}
  /\ SpPasses(t, "validate")
  /\ UNCHANGED <<spWorld, spMaps, spEntries, spLock>>

(* An error before the lock or after it ends the call.                     *)
SpFails(t) == spRun[t].pc \in {"drop", "dropFile", "fetch"} /\ SpRaises(t)

Requests == {SettingOf(s) : s \in Settings} \cup {CallingOf(c) : c \in Callings}

Accepted(spec, request) ==
  IF request.what = "set" THEN MaySet(spec, request.id, request.with)
                          ELSE MayCall(spec, request.id, request.with)

(* What goes to the cloud: the value, or the arguments in their order.     *)
Sent(spec, request) ==
  [request EXCEPT !.with = IF request.what = "set" THEN @ ELSE Arguments(spec, request.id, @)]

(* The request of the thread is only looked at here.                       *)
SpValidates(t) ==
  /\ SpAt(t, "validate")
  /\ \E request \in Requests :
       LET spec == SpecOf(spRun[t].entry) IN
       SpGoes(t, IF Accepted(spec, request)
                   THEN [SpIdle EXCEPT !.pc = "send", !.request = Sent(spec, request)] ELSE SpIdle)
  /\ UNCHANGED <<spWorld, spMaps, spEntries, spLock>>

SpSends(t) == SpAt(t, "send") /\ SpRaises(t)

SpStep(t) ==
  \/ SpAsks(t) \/ SpLooks(t) \/ SpLooksInFile(t) \/ SpBackfills(t) \/ SpChecks(t)
  \/ SpDrops(t) \/ SpDropsFile(t) \/ SpResolves(t) \/ SpLocks(t) \/ SpAsksAgain(t)
  \/ SpFindsMapping(t) \/ SpDownloads(t) \/ SpTypes(t) \/ SpFetches(t) \/ SpKeeps(t)
  \/ SpOpensFile(t) \/ SpWritesFile(t) \/ SpFileFails(t) \/ SpFails(t) \/ SpValidates(t) \/ SpSends(t)

SpNext ==
  \/ \E t \in SpCalls : SpStep(t)
  \/ SpPublishes \/ SpLists \/ SpDayPasses \/ SpForgets \/ SpRestarts \/ SpClears

SpSpec == SpInit /\ [][SpNext]_spVars

-----------------------------------------------------------------------------
(* A control that passes the validation is one that a specification which  *)
(* miot-spec has served for the model declares, value by value and         *)
(* argument by argument, whatever half-written, foreign or outdated        *)
(* entries the caches hold.                                                *)
OnlyDeclaredIsSent ==
  \A t \in SpCalls : SpAt(t, "send") =>
    LET r == spRun[t].request IN
    \E i \in spSource.ever :
      IF r.what = "set" THEN SettingDeclared(Published[i], r.id, r.with)
                        ELSE CallDeclared(Published[i], r.id, r.with)

(* One thread downloads the list of all models, and only while none is     *)
(* known; the others wait for it and use what it got.                      *)
ListDownloadedOnce ==
  /\ \A t, u \in SpCalls : SpAt(t, "download") /\ SpAt(u, "download") => t = u
  /\ \A t \in SpCalls : SpAt(t, "download") => ~spMap.known

=============================================================================
