---------------------------- MODULE Persistence ----------------------------
(***************************************************************************)
(* Application with the SerializingListener that main.cpp installs when a  *)
(* state file is given: a save every SavePeriod of game time at the end of *)
(* a Tick, a save on a graceful stop, and the load when the process starts.*)
(*                                                                         *)
(* The process may crash between any two calls of a Tick and between       *)
(* requests.  SaveState writes a temporary file and renames it, so a crash *)
(* or an exception inside it leaves the old state file.  An error of the   *)
(* last flush, when the ofstream closes, is not looked at: the file that   *)
(* replaces the old one is then truncated, and a process that finds it     *)
(* does not start.  The database outlives the process.                     *)
(***************************************************************************)
EXTENDS Application

CONSTANTS
  SavePeriod,   \* save_period_, None for milliseconds::max()
  SaveOutcomes, \* how a save may end: some of "saved", "kept", "truncated"
  Truncated,    \* a state file that is not written to its end
  MayCrash      \* whether the process may stop without OnShutdown

ASSUME PersistenceAssumption ==
  /\ SavePeriod \in Opt(Nat \ {0}) /\ MayCrash \in BOOLEAN
  /\ SaveOutcomes \subseteq {"saved", "kept", "truncated"}

VARIABLES
  disk,        \* the state file
  sinceSave,   \* SerializingListener::time_since_last_save_
  clean,       \* the process is down after a graceful stop that saved
  lossy        \* the process has gone down without saving (history)

pVars == <<disk, sinceSave, clean, lossy>>
allVars == <<vars, pVars>>

\* GameStateRepr: what CaptureState collects and the archive holds.
StateReprs ==
  [nextPlayer : 0 .. MaxJoins, nextDog : 0 .. MaxJoins,
   nextSession : 0 .. MaxJoins,
   sessionMap : [Ids -> Opt(Maps)], sessionDogs : [Ids -> SUBSET Ids],
   lost : [Ids -> SUBSET LostObjects],
   moving : [Ids -> BOOLEAN], bag : [Ids -> SUBSET LostObjects],
   credited : [Ids -> SUBSET LostObjects],
   tokens : [Ids -> Opt(Ids)], name : [Ids -> Opt(Ids)],
   playerSession : [Ids -> Opt(Ids)], playerDog : [Ids -> Opt(Ids)]]

ASSUME StateAssumption ==
  None \notin StateReprs /\ Truncated \notin StateReprs /\ Truncated # None

\* There is a state file, and it was written to its end.
Complete(file) == file \notin {None, Truncated}

PTypeOK ==
  /\ TypeOK
  /\ Complete(disk) => disk \in StateReprs
  /\ sinceSave \in Int /\ clean \in BOOLEAN /\ lossy \in BOOLEAN

PInit ==
  /\ Init
  /\ disk = None /\ sinceSave = 0 /\ clean = FALSE /\ lossy = FALSE

----------------------------------------------------------------------------
(* Saving *)

SavedCounters ==
  [nextPlayer |-> nextPlayer, nextDog |-> nextDog, nextSession |-> nextSession]
SavedCountersMixed ==
  [nextPlayer |-> nextSession, nextDog |-> nextDog, nextSession |-> nextSession]

\* The sessions with their dogs and objects, the players reached through their
\* tokens, and three of the four id counters.
CaptureStateCounters(counters) ==
  [nextPlayer |-> counters.nextPlayer, nextDog |-> counters.nextDog,
   nextSession |-> counters.nextSession,
   sessionMap |-> sessionMap, sessionDogs |-> sessionDogs, lost |-> lost,
   moving |-> moving, bag |-> bag, credited |-> credited,
   tokens |-> tokens, name |-> name,
   playerSession |-> playerSession, playerDog |-> playerDog]
CaptureStateMixed == CaptureStateCounters(SavedCountersMixed)
CaptureState == CaptureStateCounters(SavedCounters)

\* "kept": the file cannot be opened, or a write or the rename throws.
\* "truncated": only the flush in the destructor of ofs fails.
FileAfter(outcome) ==
  CASE outcome = "saved" -> CaptureState
    [] outcome = "kept" -> disk
    [] outcome = "truncated" -> Truncated
SaveStateOnce(outcome) == disk' = IF disk = None THEN FileAfter(outcome) ELSE disk
SaveState(outcome) == disk' = FileAfter(outcome)

SaveDue == SavePeriod # None /\ sinceSave + delta >= SavePeriod

\* OnTick at the end of Tick; a failed save resets the timer as well.
ListenerOnTick(outcome) ==
  /\ TickEnd
  /\ IF SaveDue THEN SaveState(outcome) /\ sinceSave' = 0
     ELSE /\ sinceSave' = IF SavePeriod = None THEN 0 ELSE sinceSave + delta
          /\ UNCHANGED disk
  /\ UNCHANGED <<clean, lossy>>

----------------------------------------------------------------------------
(* Stopping and starting *)

\* The memory of the process is gone (or not written yet).
Forget ==
  /\ nextPlayer' = 0 /\ nextDog' = 0 /\ nextSession' = 0 /\ nextLoot' = 0
  /\ players' = {} /\ name' = Nowhere /\ playerSession' = Nowhere
  /\ playerDog' = Nowhere /\ tokens' = Nowhere /\ sessionPlayers' = Empty
  /\ sessionMap' = Nowhere /\ sessionDogs' = Empty /\ lost' = Empty
  /\ moving' = [d \in Ids |-> FALSE] /\ idle' = [d \in Ids |-> 0]
  /\ bag' = Empty /\ credited' = Empty

\* ioc.stop() lets the running handler return, the workers are joined, then
\* OnShutdown saves.  After a save the memory is kept in the model, to compare
\* it with what the next process loads.
Shutdown(outcome) ==
  /\ phase = "idle" /\ boot < MaxBoots
  /\ SaveState(outcome)
  /\ phase' = "down"
  /\ clean' = (outcome = "saved") /\ lossy' = (lossy \/ outcome # "saved")
  /\ IF outcome = "saved" THEN UNCHANGED <<idVars, playerVars, sessionVars, dogVars>>
     ELSE Forget /\ UNCHANGED <<joins, boot>>
  /\ UNCHANGED <<records, delta, todo, cur, inactive, gatherers, collected,
                 sinceSave>>

Crash ==
  /\ MayCrash /\ phase # "down" /\ boot < MaxBoots
  /\ phase' = "down" /\ clean' = FALSE /\ lossy' = TRUE
  /\ Forget /\ sinceSave' = 0
  /\ delta' = 0 /\ todo' = {} /\ cur' = None
  /\ inactive' = {} /\ gatherers' = {} /\ collected' = {}
  /\ UNCHANGED <<joins, boot, records, disk>>

\* The order in which ApplyState meets the saved sessions.
LoadOrders ==
  {rank \in [Ids -> Ids] : \A s, r \in Ids : s # r => rank[s] # rank[r]}

\* One table of objects serves all sessions and keeps the first of an id, so a
\* later session gets an earlier one's object.
RestoredLost(saved, rank) ==
  [s \in Ids |->
     {o \in UNION {saved[r] : r \in Ids} :
        \E k \in Ids :
          /\ o \in saved[k]
          /\ \E mine \in saved[s] : mine.id = o.id
          /\ \A r \in Ids : rank[r] < rank[k] =>
               \A other \in saved[r] : other.id # o.id}]

\* GameSession::lost_objects_ids_ starts again at 0; idle times are not saved.
RestoreCountersAhead(state) ==
  /\ nextPlayer' = state.nextPlayer + 1 /\ nextDog' = state.nextDog
  /\ nextSession' = state.nextSession /\ nextLoot' = 0
RestoreCounters(state) ==
  /\ nextPlayer' = state.nextPlayer /\ nextDog' = state.nextDog
  /\ nextSession' = state.nextSession /\ nextLoot' = 0

\* PlayerTokens and players_ get every saved player, and
\* session_id_to_players_ each player of a session.
RestorePlayersUnlisted(state) ==
  /\ players' = {state.tokens[t] : t \in Ids} \ {None}
  /\ tokens' = state.tokens /\ name' = state.name
  /\ playerSession' = state.playerSession /\ playerDog' = state.playerDog
  /\ sessionPlayers' = Empty
RestorePlayers(state) ==
  /\ players' = {state.tokens[t] : t \in Ids} \ {None}
  /\ tokens' = state.tokens /\ name' = state.name
  /\ playerSession' = state.playerSession /\ playerDog' = state.playerDog
  /\ sessionPlayers' = [s \in Ids |-> {p \in players' : playerSession'[p] = s}]

RestoreDogsEmptyHanded(state) ==
  /\ moving' = state.moving /\ bag' = Empty
  /\ credited' = state.credited /\ idle' = [d \in Ids |-> 0]
RestoreDogs(state) ==
  /\ moving' = state.moving /\ bag' = state.bag
  /\ credited' = state.credited /\ idle' = [d \in Ids |-> 0]

ApplyState(state) ==
  /\ RestoreCounters(state)
  /\ sessionMap' = state.sessionMap /\ sessionDogs' = state.sessionDogs
  /\ \E rank \in LoadOrders : lost' = RestoredLost(state.lost, rank)
  /\ RestoreDogs(state)
  /\ RestorePlayers(state)

\* A new process: TryLoadState, then serving.  If a file is there and cannot be
\* loaded, main returns EXIT_FAILURE.
Start ==
  /\ phase = "down" /\ disk # Truncated
  /\ IF disk # None THEN ApplyState(disk)
     ELSE Forget
  /\ boot' = boot + 1 /\ phase' = "idle" /\ sinceSave' = 0 /\ clean' = FALSE
  /\ UNCHANGED <<joins, records, delta, todo, cur, inactive, gatherers,
                 collected, disk, lossy>>

\* The bound on negative deltas holds for the listener's clock, too.
PNext ==
  \/ Request /\ sinceSave + delta' >= -MaxDebt /\ UNCHANGED pVars
  \/ TickStep /\ UNCHANGED pVars
  \/ \E outcome \in SaveOutcomes : ListenerOnTick(outcome)
  \/ \E outcome \in SaveOutcomes : Shutdown(outcome)
  \/ Crash
  \/ Start

PSpec == PInit /\ [][PNext]_allVars

----------------------------------------------------------------------------
(* Safety *)

\* A state file that was written to its end can be loaded, whenever it was written:
\* every player in it finds its session and its dog there (ApplyState would leave a
\* null pointer otherwise), no dog is without a player, and no player, dog or session
\* id in it is handed out again.  (Ids of lost objects are: JoinDropsObject.)
SavedStateLoads ==
  Complete(disk) =>
    LET saved == {disk.tokens[t] : t \in Ids} \ {None}
    IN /\ \A p \in saved :
            /\ disk.playerSession[p] # None
            /\ disk.sessionMap[disk.playerSession[p]] # None
            /\ disk.playerDog[p] \in disk.sessionDogs[disk.playerSession[p]]
            /\ p < disk.nextPlayer /\ disk.playerDog[p] < disk.nextDog
            /\ disk.playerSession[p] < disk.nextSession
       /\ \A s \in Ids : disk.sessionDogs[s] \subseteq {disk.playerDog[p] : p \in saved}

\* "First we save to a temporary file", "then we rename it atomically" (SaveState): a
\* save that fails leaves a complete state file complete.
CompleteFileKept == [][Complete(disk) => Complete(disk')]_allVars

\* Tokens, players_ and session_id_to_players_ are one registry before and
\* after every restart, the one after a crash in the middle of a Tick included.
RegistrySurvives == TokenRegistry /\ SessionRegistry

\* As long as the process always saved before it went down, no client gets a
\* second row in the table of records.
RecordOnceIfSaved == ~lossy => RecordOnce

IdsOf(objects) == {o.id : o \in objects}

\* A graceful restart is invisible to the clients: tokens, players, sessions,
\* dogs with their bags and scores, and the ids of the objects on each map are
\* what they were (idle times excepted, see the README).
GracefulRestartInvisible ==
  [][clean /\ phase' = "idle" =>
       /\ UNCHANGED <<playerVars, sessionMap, sessionDogs, moving, bag, credited,
                      nextPlayer, nextDog, nextSession>>
       /\ \A s \in Ids : IdsOf(lost'[s]) = IdsOf(lost[s])]_allVars
=============================================================================
