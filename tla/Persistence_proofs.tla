------------------------- MODULE Persistence_proofs -------------------------
(***************************************************************************)
(* Proofs about Persistence, for every value of its constants: crashes at  *)
(* any cut of a Tick, failing saves and restarts included.                 *)
(*                                                                         *)
(* After a restart the numbers of players run behind the joins, so the     *)
(* numbering of Application_proofs (player n joined n-th) no longer holds. *)
(* Registered states what is left of it, once for the memory of the        *)
(* process and once for the state file; PInv carries both through every    *)
(* save, crash and load.                                                   *)
(***************************************************************************)
EXTENDS Persistence, Application_proofs, WellFoundedInduction

\* What counters, sessions, tokens and players say of each other.  Player and dog
\* are counted together, and both are saved.
Registered(np, nd, ns, smap, tok, nm, ps, pd) ==
  /\ nd = np /\ np <= joins
  /\ \A s \in Ids : smap[s] # None => s < ns
  /\ \A t \in Ids : tok[t] # None =>
       /\ t < joins /\ tok[t] \in Ids /\ tok[t] < np
       /\ nm[tok[t]] = t /\ pd[tok[t]] = tok[t]
       /\ ps[tok[t]] \in Ids /\ smap[ps[tok[t]]] # None

Known(tok) == {tok[t] : t \in Ids} \ {None}

MemoryRegistered ==
  Registered(nextPlayer, nextDog, nextSession, sessionMap, tokens, name,
             playerSession, playerDog)

\* A state that ApplyState can load: each of its dogs has its player in it.
Loadable(state) ==
  /\ Registered(state.nextPlayer, state.nextDog, state.nextSession,
                state.sessionMap, state.tokens, state.name, state.playerSession,
                state.playerDog)
  /\ \A s \in Ids :
       state.sessionDogs[s] =
         {p \in Known(state.tokens) : state.playerSession[p] = s}

DiskRegistered == Complete(disk) => Loadable(disk)

\* players_ holds the players that tokens open, and no other.
PlayersKnown == players = Known(tokens)

\* Where a Tick is, and what a process that is down has left behind.
PShape ==
  /\ phase = "session" <=> cur # None
  /\ cur = None => inactive = {}
  /\ cur # None => inactive \cap sessionDogs[cur] = {}
  /\ phase = "down" => boot < MaxBoots
  /\ clean => phase = "down" /\ disk = CaptureState
  /\ phase = "down" /\ ~lossy => clean

\* RecordOnce as long as nothing was lost.
PRows ==
  ~lossy =>
    /\ \A n \in Ids : records[n] <= 1
    /\ \A n \in Ids : n >= joins \/ tokens[n] # None => records[n] = 0

PInv ==
  /\ PTypeOK
  /\ MemoryRegistered /\ PlayersKnown /\ SessionLists /\ DogsListed
  /\ DiskRegistered /\ PShape /\ PRows

----------------------------------------------------------------------------
(* The steps *)

LEMMA PInitInv == PInit => PInv
<1> SUFFICES ASSUME PInit PROVE PInv
  OBVIOUS
<1>1. TypeOK /\ SessionLists /\ DogsListed
  BY InitInv DEF PInit, Inv
<1>2. /\ joins = 0 /\ nextPlayer = 0 /\ nextDog = 0 /\ nextSession = 0
      /\ players = {} /\ tokens = Nowhere /\ sessionMap = Nowhere
      /\ phase = "idle" /\ cur = None /\ inactive = {}
      /\ records = [n \in Ids |-> 0]
      /\ disk = None /\ sinceSave = 0 /\ clean = FALSE /\ lossy = FALSE
  BY DEF PInit, Init, FreshProcess, FreshIds, FreshPlayers, FreshSessions, NoTick
<1>3. MemoryRegistered /\ PlayersKnown
  BY <1>2 DEF MemoryRegistered, Registered, PlayersKnown, Known, Nowhere
<1>4. PTypeOK /\ DiskRegistered
  <2>1. ~Complete(disk) /\ sinceSave \in Int
    BY <1>2 DEF Complete
  <2> QED
    BY <1>1, <1>2, <2>1 DEF PTypeOK, DiskRegistered
<1>5. PShape
  BY <1>2 DEF PShape
<1>6. PRows
  BY <1>2 DEF PRows, Nowhere
<1> QED
  BY <1>1, <1>3, <1>4, <1>5, <1>6 DEF PInv

\* Steps that touch neither a registry nor the state file.
LEMMA PQuiet ==
  ASSUME PInv, TypeOK',
         UNCHANGED <<joins, boot, nextPlayer, nextDog, nextSession, playerVars,
                     sessionMap, records, pVars>>,
         phase # "down", phase' # "down",
         DogsListed',
         phase' = "session" <=> cur' # None,
         cur' = None => inactive' = {},
         cur' # None => inactive' \cap sessionDogs'[cur'] = {}
  PROVE  PInv'
<1>1. PTypeOK'
  BY DEF PInv, PTypeOK, pVars
<1>2. MemoryRegistered' /\ PlayersKnown' /\ SessionLists' /\ DiskRegistered'
  BY DEF PInv, MemoryRegistered, Registered, PlayersKnown, Known, SessionLists,
         DiskRegistered, Loadable, playerVars, pVars
<1>3. PShape' /\ PRows'
  BY DEF PInv, PShape, PRows, playerVars, pVars
<1> QED
  BY <1>1, <1>2, <1>3 DEF PInv

LEMMA PPlayerAction ==
  ASSUME PInv, NEW t \in Ids, NEW go \in BOOLEAN, PlayerAction(t, go),
         UNCHANGED pVars
  PROVE  PInv'
<1>1. TypeOK'
  <2>1. moving' \in [Ids -> BOOLEAN]
    BY DEF PlayerAction, PInv, PTypeOK, TypeOK
  <2> QED
    BY <2>1 DEF PlayerAction, PInv, PTypeOK, TypeOK, idVars, playerVars,
                sessionVars, tickVars
<1> QED
  BY <1>1, PQuiet
  DEF PlayerAction, PInv, PShape, DogsListed, Leaving, idVars, playerVars,
      sessionVars, tickVars

LEMMA PTickStart ==
  ASSUME PInv, NEW dt \in Deltas, TickStart(dt), UNCHANGED pVars
  PROVE  PInv'
<1>1. TypeOK'
  BY BoundsAssumption
  DEF TickStart, PInv, PTypeOK, TypeOK, Phases, Sessions, idVars, playerVars,
      sessionVars, dogVars
<1> QED
  BY <1>1, PQuiet
  DEF TickStart, PInv, PShape, DogsListed, Leaving, idVars, playerVars,
      sessionVars

LEMMA PMoveSession ==
  ASSUME PInv, NEW s \in Ids, MoveSession(s), UNCHANGED pVars
  PROVE  PInv'
<1>1. /\ phase = "sessions" /\ phase' = "session"
      /\ cur' = s /\ todo' = todo \ {s}
      /\ sessionDogs' = [sessionDogs EXCEPT ![s] = @ \ inactive']
      /\ gatherers' = {d \in sessionDogs'[s] : moving[d]}
      /\ UNCHANGED <<idVars, playerVars, sessionMap, lost, bag, credited,
                     records, delta, collected>>
  BY DEF MoveSession, EnterSession, RemoveInactiveDogs
<1>2. moving' \in [Ids -> BOOLEAN] /\ idle' \in [Ids -> Int]
  <2>1. delta \in Int /\ idle \in [Ids -> Int] /\ moving \in [Ids -> BOOLEAN]
    BY BoundsAssumption DEF PInv, PTypeOK, TypeOK
  <2> QED
    BY <2>1 DEF MoveSession, MoveDogsByTick, IdleTime
<1>3. inactive' \subseteq sessionDogs[s]
  BY DEF MoveSession, RemoveInactiveDogs
<1>4. cur = None /\ inactive = {} /\ s # None
  BY <1>1, IdFacts DEF PInv, PShape
<1>5. sessionDogs[s] \subseteq Ids
  BY DEF PInv, PTypeOK, TypeOK
<1>6. TypeOK'
  BY <1>1, <1>2, <1>3, <1>5
  DEF PInv, PTypeOK, TypeOK, idVars, playerVars, Opt, Phases
<1>7. DogsListed'
  BY <1>1, <1>3, <1>4, <1>5
  DEF PInv, PTypeOK, TypeOK, DogsListed, Leaving, playerVars
<1>8. inactive' \cap sessionDogs'[cur'] = {}
  BY <1>1, <1>5 DEF PInv, PTypeOK, TypeOK
<1> QED
  BY <1>1, <1>4, <1>6, <1>7, <1>8, PQuiet DEF idVars

LEMMA PGatherItem ==
  ASSUME PInv, NEW d \in Ids, NEW o \in LostObjects, GatherItem(d, o),
         UNCHANGED pVars
  PROVE  PInv'
<1>1. TypeOK'
  <2>1. collected' \subseteq LostObjects /\ bag' \in [Ids -> SUBSET LostObjects]
    BY DEF GatherItem, PInv, PTypeOK, TypeOK
  <2> QED
    BY <2>1 DEF GatherItem, PInv, PTypeOK, TypeOK, idVars, playerVars, sessionVars
<1> QED
  BY <1>1, PQuiet
  DEF GatherItem, PInv, PShape, DogsListed, Leaving, idVars, playerVars,
      sessionVars

LEMMA PGatherOffice ==
  ASSUME PInv, NEW d \in Ids, GatherOffice(d), UNCHANGED pVars
  PROVE  PInv'
<1>1. TypeOK'
  <2>1. /\ bag' \in [Ids -> SUBSET LostObjects]
        /\ credited' \in [Ids -> SUBSET LostObjects]
    BY DEF GatherOffice, PInv, PTypeOK, TypeOK
  <2> QED
    BY <2>1 DEF GatherOffice, PInv, PTypeOK, TypeOK, idVars, playerVars,
                sessionVars, tickVars
<1> QED
  BY <1>1, PQuiet
  DEF GatherOffice, PInv, PShape, DogsListed, Leaving, idVars, playerVars,
      sessionVars, tickVars

LEMMA PFinishSession ==
  ASSUME PInv, NEW n \in Nat, FinishSession(n), UNCHANGED pVars
  PROVE  PInv'
<1>1. cur \in Ids /\ nextLoot + n <= MaxLoot /\ inactive = {} /\ TypeOK
  BY DEF FinishSession, PInv, PTypeOK, TypeOK, PShape, Opt
<1>2. lost' \in [Ids -> SUBSET LostObjects] /\ nextLoot' \in 0 .. MaxLoot
  <2>1. RemoveCollectedObjects(cur) \in SUBSET LostObjects
    BY <1>1 DEF RemoveCollectedObjects, TypeOK
  <2>2. AddLostObjects(RemoveCollectedObjects(cur), nextLoot .. nextLoot + n - 1)
          \subseteq LostObjects
    BY <1>1, <2>1, NewObjects
  <2> QED
    BY <1>1, <2>2, BoundsAssumption DEF FinishSession, TypeOK
<1>3. TypeOK'
  BY <1>1, <1>2, IdFacts
  DEF FinishSession, TypeOK, Opt, Phases, playerVars, dogVars
<1>4. DogsListed'
  BY <1>1, IdFacts DEF FinishSession, PInv, DogsListed, Leaving, playerVars
<1> QED
  BY <1>1, <1>3, <1>4, PQuiet DEF FinishSession

LEMMA PJoin ==
  ASSUME PInv, NEW m \in Maps, JoinGame(m), UNCHANGED pVars
  PROVE  PInv'
<1> DEFINE p == nextPlayer
           t == joins
<1>1. PICK s \in JoinableSessions(m) :
        /\ joins' = t + 1
        /\ nextPlayer' = p + 1 /\ nextDog' = p + 1
        /\ nextSession' = IF s = nextSession THEN s + 1 ELSE nextSession
        /\ players' = players \cup {p}
        /\ name' = [name EXCEPT ![p] = t]
        /\ tokens' = [tokens EXCEPT ![t] = p]
        /\ sessionMap' = [sessionMap EXCEPT ![s] = m]
        /\ sessionPlayers' = [sessionPlayers EXCEPT ![s] = @ \cup {p}]
        /\ playerSession' = [playerSession EXCEPT ![p] = s]
        /\ playerDog' = [playerDog EXCEPT ![p] = p]
        /\ sessionDogs' = [sessionDogs EXCEPT ![s] = @ \cup {p}]
        /\ GenerateLoot(s, 1)
  BY DEF JoinGame, PInv, MemoryRegistered, Registered
<1>2. /\ phase = "idle" /\ joins < MaxJoins
      /\ UNCHANGED <<boot, dogVars, records, tickVars>>
  BY DEF JoinGame
<1>3. /\ TypeOK /\ p \in Ids /\ t \in Ids /\ p <= t
      /\ cur = None /\ inactive = {} /\ clean = FALSE
  BY <1>2, BoundsAssumption, IdFacts
  DEF PInv, PTypeOK, TypeOK, MemoryRegistered, Registered, PShape
<1>4. /\ p \notin players /\ tokens[t] = None
      /\ \A u \in Ids : tokens[u] # p
  BY <1>3, IdFacts
  DEF PInv, MemoryRegistered, Registered, PlayersKnown, Known, TypeOK
<1>5. s \in Ids /\ (s \in Sessions \/ s = nextSession) /\ m # None
  BY NoneAssumption DEF JoinableSessions, OpenSessions, NewSession, Sessions
<1>6. TypeOK'
  <2>1. /\ joins' \in 0 .. MaxJoins /\ nextPlayer' \in 0 .. MaxJoins
        /\ nextDog' \in 0 .. MaxJoins /\ nextSession' \in 0 .. MaxJoins
    BY <1>1, <1>2, <1>3, <1>5, BoundsAssumption, IdFacts DEF TypeOK
  <2>2. /\ players' \subseteq Ids /\ name' \in [Ids -> Opt(Ids)]
        /\ tokens' \in [Ids -> Opt(Ids)] /\ playerDog' \in [Ids -> Opt(Ids)]
        /\ playerSession' \in [Ids -> Opt(Ids)]
    BY <1>1, <1>3, <1>5 DEF TypeOK, Opt
  <2>3. /\ sessionPlayers' \in [Ids -> SUBSET Ids]
        /\ sessionDogs' \in [Ids -> SUBSET Ids]
        /\ sessionMap' \in [Ids -> Opt(Maps)]
    BY <1>1, <1>3, <1>5 DEF TypeOK, Opt
  <2>4. lost' \in [Ids -> SUBSET LostObjects] /\ nextLoot' \in 0 .. MaxLoot
    <3>1. /\ lost[s] \in SUBSET LostObjects /\ nextLoot + 1 <= MaxLoot
          /\ lost' = [lost EXCEPT ![s] =
                        AddLostObjects(lost[s], nextLoot .. nextLoot + 1 - 1)]
          /\ nextLoot' = nextLoot + 1
      BY <1>1, <1>3, <1>5 DEF TypeOK, GenerateLoot
    <3>2. AddLostObjects(lost[s], nextLoot .. nextLoot + 1 - 1)
            \subseteq LostObjects
      BY <1>3, <3>1, NewObjects
    <3>3. nextLoot \in 0 .. MaxLoot /\ lost \in [Ids -> SUBSET LostObjects]
      BY <1>3 DEF TypeOK
    <3>4. nextLoot' \in 0 .. MaxLoot
      BY <3>1, <3>3, BoundsAssumption
    <3>5. lost' \in [Ids -> SUBSET LostObjects]
      BY <3>1, <3>2, <3>3, Zenon
    <3> QED
      BY <3>4, <3>5
  <2> QED
    BY <1>2, <1>3, <2>1, <2>2, <2>3, <2>4 DEF TypeOK, dogVars, tickVars
<1>7. MemoryRegistered'
  <2>1. nextDog' = nextPlayer' /\ nextPlayer' <= joins'
    BY <1>1, <1>3, IdFacts
  <2>2. \A r \in Ids : sessionMap'[r] # None => r < nextSession'
    BY <1>1, <1>3, <1>5, BoundsAssumption, IdFacts
    DEF TypeOK, PInv, MemoryRegistered, Registered, Sessions
  <2>3. ASSUME NEW u \in Ids, tokens'[u] # None
        PROVE  /\ u < joins' /\ tokens'[u] \in Ids /\ tokens'[u] < nextPlayer'
               /\ name'[tokens'[u]] = u /\ playerDog'[tokens'[u]] = tokens'[u]
               /\ playerSession'[tokens'[u]] \in Ids
               /\ sessionMap'[playerSession'[tokens'[u]]] # None
    <3>1. CASE u = t
      <4>1. tokens'[u] = p
        BY <1>1, <1>3, <3>1 DEF TypeOK
      <4>2. /\ name'[p] = t /\ playerDog'[p] = p /\ playerSession'[p] = s
            /\ sessionMap'[s] = m
        BY <1>1, <1>3, <1>5 DEF TypeOK
      <4> QED
        BY <1>1, <1>3, <1>5, <3>1, <4>1, <4>2, IdFacts
    <3>2. CASE u # t
      <4>1. tokens'[u] = tokens[u] /\ tokens[u] # p
        BY <1>1, <1>3, <1>4, <3>2 DEF TypeOK
      <4>2. /\ u < joins /\ tokens[u] \in Ids /\ tokens[u] < nextPlayer
            /\ name[tokens[u]] = u /\ playerDog[tokens[u]] = tokens[u]
            /\ playerSession[tokens[u]] \in Ids
            /\ sessionMap[playerSession[tokens[u]]] # None
        BY <2>3, <4>1 DEF PInv, MemoryRegistered, Registered
      <4>3. /\ name'[tokens[u]] = u /\ playerDog'[tokens[u]] = tokens[u]
            /\ playerSession'[tokens[u]] = playerSession[tokens[u]]
            /\ sessionMap'[playerSession[tokens[u]]] # None
        BY <1>1, <1>3, <1>5, <4>1, <4>2 DEF TypeOK
      <4>4. u < joins' /\ tokens[u] < nextPlayer'
        BY <1>1, <1>3, <4>2, IdFacts
      <4> QED
        BY <4>1, <4>2, <4>3, <4>4
    <3> QED
      BY <3>1, <3>2
  <2> QED
    BY <2>1, <2>2, <2>3 DEF MemoryRegistered, Registered
<1>8. PlayersKnown'
  <2>1. players = Known(tokens) /\ p # None
    BY <1>3, IdFacts DEF PInv, PlayersKnown
  <2>2. \A u \in Ids : tokens'[u] = IF u = t THEN p ELSE tokens[u]
    BY <1>1, <1>3 DEF TypeOK
  <2> QED
    BY <1>1, <1>3, <1>4, <2>1, <2>2 DEF PlayersKnown, Known
<1>9. SessionLists'
  BY <1>1, <1>3, <1>4, <1>5 DEF PInv, TypeOK, SessionLists
<1>10. DogsListed'
  BY <1>1, <1>2, <1>3, <1>5 DEF PInv, TypeOK, DogsListed, Leaving, tickVars
<1>11. DiskRegistered'
  <2> SUFFICES ASSUME Complete(disk) PROVE DiskRegistered'
    BY DEF DiskRegistered, Complete, pVars
  <2>1. /\ disk.nextPlayer <= joins' /\ disk' = disk
        /\ \A u \in Ids : disk.tokens[u] # None => u < joins'
    BY <1>1, <1>3, IdFacts
    DEF PInv, PTypeOK, TypeOK, StateReprs, DiskRegistered, Loadable, Registered, pVars
  <2> QED
    BY <2>1 DEF PInv, DiskRegistered, Loadable, Registered
<1>12. PShape' /\ PRows'
  <2>1. PShape'
    BY <1>2, <1>3 DEF PInv, PShape, pVars, tickVars
  <2>2. PRows'
    BY <1>1, <1>2, <1>3, IdFacts, BoundsAssumption
    DEF PInv, TypeOK, PRows, pVars
  <2> QED
    BY <2>1, <2>2
<1> QED
  BY <1>6, <1>7, <1>8, <1>9, <1>10, <1>11, <1>12 DEF PInv, PTypeOK, pVars

LEMMA PRetirePlayer ==
  ASSUME PInv, NEW d \in Ids, NEW written \in BOOLEAN, RetirePlayer(d, written),
         UNCHANGED pVars
  PROVE  PInv'
<1>1. phase = "session" /\ d \in inactive /\ cur \in Ids /\ TypeOK
  BY IdFacts DEF RetirePlayer, PInv, PTypeOK, TypeOK, PShape, Opt
<1>2. d \in players /\ playerSession[d] = cur /\ d \notin sessionDogs[cur]
  <2>1. d \in sessionPlayers[cur]
    BY <1>1 DEF PInv, DogsListed, Leaving
  <2> QED
    BY <1>1, <2>1, IdFacts DEF PInv, SessionLists, PShape
<1>3. PICK t \in Ids : tokens[t] = d
  BY <1>2 DEF PInv, PlayersKnown, Known
<1>4. /\ name[d] = t /\ t < joins /\ \A u \in Ids : tokens[u] = d => u = t
  BY <1>3, IdFacts DEF PInv, MemoryRegistered, Registered
<1>5. {p \in players : playerDog[p] = d} = {d}
  <2>1. \A p \in players : playerDog[p] = p
    BY DEF PInv, PlayersKnown, Known, MemoryRegistered, Registered
  <2> QED
    BY <1>2, <2>1
<1>6. /\ WriteRecord({d}, written)
      /\ RemovePlayerToken({d}) /\ RemovePlayerFromSession({d})
      /\ players' = players \ {d}
      /\ name' = [p \in Ids |-> IF p = d THEN None ELSE name[p]]
      /\ playerSession' = [p \in Ids |-> IF p = d THEN None ELSE playerSession[p]]
      /\ playerDog' = [p \in Ids |-> IF p = d THEN None ELSE playerDog[p]]
      /\ DropDog(d)
      /\ UNCHANGED <<idVars, sessionVars, phase, delta, todo, cur, gatherers,
                     collected>>
  BY <1>5 DEF RetirePlayer
<1>7. tokens' = [u \in Ids |-> IF tokens[u] = d THEN None ELSE tokens[u]]
  BY <1>6 DEF RemovePlayerToken
<1>8. sessionPlayers' = [s \in Ids |-> IF s = cur THEN sessionPlayers[s] \ {d}
                                       ELSE sessionPlayers[s]]
  BY <1>1, <1>2, <1>6 DEF RemovePlayerFromSession, TypeOK
<1>9. records' = [n \in Ids |-> IF n = t /\ written THEN records[n] + 1
                                ELSE records[n]]
  BY <1>4, <1>6 DEF WriteRecord
<1>10. /\ inactive' = inactive \ {d}
       /\ moving' \in [Ids -> BOOLEAN] /\ idle' \in [Ids -> Int]
       /\ bag' \in [Ids -> SUBSET LostObjects]
       /\ credited' \in [Ids -> SUBSET LostObjects]
  BY <1>1, <1>6 DEF DropDog, TypeOK
<1>11. TypeOK'
  BY <1>1, <1>6, <1>7, <1>8, <1>9, <1>10
  DEF TypeOK, idVars, sessionVars, Opt
<1>12. MemoryRegistered'
  <2> SUFFICES ASSUME NEW u \in Ids, tokens'[u] # None
               PROVE  /\ tokens'[u] \in Ids /\ u < joins /\ tokens'[u] < nextPlayer
                      /\ name'[tokens'[u]] = u
                      /\ playerDog'[tokens'[u]] = tokens'[u]
                      /\ playerSession'[tokens'[u]] \in Ids
                      /\ sessionMap[playerSession'[tokens'[u]]] # None
    BY <1>6
    DEF PInv, MemoryRegistered, Registered, idVars, sessionVars
  <2>1. tokens'[u] = tokens[u] /\ tokens[u] # d
    BY <1>7
  <2> QED
    BY <1>6, <2>1 DEF PInv, MemoryRegistered, Registered
<1>13. PlayersKnown'
  <2>1. \A u \in Ids : tokens'[u] = IF tokens[u] = d THEN None ELSE tokens[u]
    BY <1>7
  <2>2. players' = Known(tokens) \ {d}
    BY <1>6 DEF PInv, PlayersKnown
  <2> QED
    BY <2>1, <2>2, IdFacts DEF PlayersKnown, Known
<1>14. SessionLists'
  BY <1>1, <1>2, <1>6, <1>8 DEF PInv, TypeOK, SessionLists
<1>15. DogsListed'
  <2> SUFFICES ASSUME NEW s \in Ids
               PROVE  sessionDogs[s] \cup (IF cur = s THEN inactive \ {d} ELSE {})
                      = sessionPlayers'[s]
    BY <1>6, <1>10 DEF DogsListed, Leaving, sessionVars
  <2>1. sessionDogs[s] \cup (IF cur = s THEN inactive ELSE {}) = sessionPlayers[s]
    BY DEF PInv, DogsListed, Leaving
  <2> QED
    BY <2>1, <1>1, <1>2, <1>8
<1>16. DiskRegistered' /\ PShape'
  <2>1. DiskRegistered'
    BY <1>6 DEF PInv, DiskRegistered, Loadable, Registered, Known, idVars, pVars
  <2>2. PShape'
    BY <1>1, <1>6, <1>10 DEF PInv, PShape, idVars, sessionVars, pVars
  <2> QED
    BY <2>1, <2>2
<1>17. PRows'
  <2> SUFFICES ASSUME ~lossy
               PROVE  /\ \A n \in Ids : records'[n] <= 1
                      /\ \A n \in Ids : n >= joins \/ tokens'[n] # None
                                          => records'[n] = 0
    BY <1>6 DEF PRows, idVars, pVars
  <2>1. records[t] = 0 /\ tokens'[t] = None /\ ~(t >= joins)
    BY <1>3, <1>4, <1>7, IdFacts, BoundsAssumption DEF PInv, PRows, PTypeOK, TypeOK
  <2>2. \A n \in Ids : n # t => records'[n] = records[n] /\ tokens'[n] = tokens[n]
    BY <1>4, <1>7, <1>9
  <2>3. records'[t] \in {0, 1}
    BY <1>9, <2>1
  <2> QED
    BY <2>1, <2>2, <2>3 DEF PInv, PRows
<1> QED
  BY <1>11, <1>12, <1>13, <1>14, <1>15, <1>16, <1>17 DEF PInv, PTypeOK, pVars

----------------------------------------------------------------------------
(* Saves, stops, crashes and starts *)

\* Between two handlers and at the end of a Tick the memory can be saved.
LEMMA CaptureLoadable ==
  ASSUME PInv, cur = None
  PROVE  CaptureState \in StateReprs /\ Loadable(CaptureState)
<1>1. CaptureState \in StateReprs
  BY DEF PInv, PTypeOK, TypeOK, CaptureState, CaptureStateCounters, SavedCounters,
         StateReprs
<1>2. ASSUME NEW s \in Ids
      PROVE  sessionDogs[s] = {p \in Known(tokens) : playerSession[p] = s}
  <2>1. sessionDogs[s] = sessionPlayers[s]
    BY IdFacts DEF PInv, DogsListed, Leaving
  <2>2. players = Known(tokens) /\ players \subseteq Ids
    BY DEF PInv, PlayersKnown, PTypeOK, TypeOK
  <2> QED
    BY <2>1, <2>2 DEF PInv, SessionLists, PTypeOK, TypeOK
<1> QED
  BY <1>1, <1>2
  DEF PInv, MemoryRegistered, Loadable, CaptureState, CaptureStateCounters,
      SavedCounters

LEMMA PListenerOnTick ==
  ASSUME PInv, NEW outcome \in SaveOutcomes, ListenerOnTick(outcome)
  PROVE  PInv'
<1>1. /\ phase = "sessions" /\ phase' = "idle" /\ delta' = 0
      /\ UNCHANGED <<idVars, playerVars, sessionVars, dogVars, records, todo,
                     cur, inactive, gatherers, collected, clean, lossy>>
  BY DEF ListenerOnTick, TickEnd
<1>2. cur = None /\ clean = FALSE
  BY <1>1 DEF PInv, PShape, PTypeOK
<1>3. disk' = disk \/ disk' = CaptureState \/ disk' = Truncated
  BY PersistenceAssumption DEF ListenerOnTick, SaveState, FileAfter
<1>4. sinceSave' \in Int
  BY BoundsAssumption, PersistenceAssumption
  DEF ListenerOnTick, PInv, PTypeOK, TypeOK, Opt
<1>5. TypeOK'
  BY <1>1
  DEF PInv, PTypeOK, TypeOK, Phases, idVars, playerVars, sessionVars, dogVars
<1>6. PTypeOK' /\ DiskRegistered'
  <2>1. Complete(disk') => disk' \in StateReprs
    BY <1>2, <1>3, CaptureLoadable DEF PInv, PTypeOK, Complete
  <2>2. Complete(disk') => Loadable(disk')
    BY <1>2, <1>3, CaptureLoadable DEF PInv, DiskRegistered, Complete
  <2>3. Loadable(disk') => Loadable(disk)'
    BY <1>1 DEF Loadable, Registered, idVars
  <2> QED
    BY <1>1, <1>4, <1>5, <2>1, <2>2, <2>3 DEF PInv, PTypeOK, DiskRegistered, Complete
<1>7. MemoryRegistered' /\ PlayersKnown' /\ SessionLists' /\ DogsListed'
  BY <1>1
  DEF PInv, MemoryRegistered, Registered, PlayersKnown, Known, SessionLists,
      DogsListed, Leaving, idVars, playerVars, sessionVars
<1>8. PShape' /\ PRows'
  BY <1>1, <1>2 DEF PInv, PShape, PRows, idVars, playerVars
<1> QED
  BY <1>6, <1>7, <1>8 DEF PInv

\* What a process without a memory trivially satisfies.
LEMMA ForgetInv ==
  ASSUME PInv, Forget, joins' = joins, cur' = None, inactive' = {}
  PROVE  /\ MemoryRegistered' /\ PlayersKnown' /\ SessionLists' /\ DogsListed'
         /\ tokens' = Nowhere
<1>1. joins \in Nat
  BY BoundsAssumption DEF PInv, PTypeOK, TypeOK
<1>2. MemoryRegistered' /\ PlayersKnown' /\ tokens' = Nowhere
  BY <1>1
  DEF Forget, MemoryRegistered, Registered, PlayersKnown, Known, Nowhere
<1>3. SessionLists' /\ DogsListed'
  BY IdFacts DEF Forget, SessionLists, DogsListed, Leaving, Empty
<1> QED
  BY <1>2, <1>3

LEMMA ForgetType ==
  ASSUME Forget
  PROVE  /\ nextPlayer' \in 0 .. MaxJoins /\ nextDog' \in 0 .. MaxJoins
         /\ nextSession' \in 0 .. MaxJoins /\ nextLoot' \in 0 .. MaxLoot
         /\ players' \subseteq Ids
         /\ name' \in [Ids -> Opt(Ids)] /\ playerSession' \in [Ids -> Opt(Ids)]
         /\ playerDog' \in [Ids -> Opt(Ids)] /\ tokens' \in [Ids -> Opt(Ids)]
         /\ sessionPlayers' \in [Ids -> SUBSET Ids]
         /\ sessionMap' \in [Ids -> Opt(Maps)]
         /\ sessionDogs' \in [Ids -> SUBSET Ids]
         /\ lost' \in [Ids -> SUBSET LostObjects]
         /\ moving' \in [Ids -> BOOLEAN] /\ idle' \in [Ids -> Int]
         /\ bag' \in [Ids -> SUBSET LostObjects]
         /\ credited' \in [Ids -> SUBSET LostObjects]
BY BoundsAssumption DEF Forget, Nowhere, Empty, Opt

LEMMA PShutdown ==
  ASSUME PInv, NEW outcome \in SaveOutcomes, Shutdown(outcome)
  PROVE  PInv'
<1> DEFINE saved == outcome = "saved"
<1>1. /\ phase = "idle" /\ boot < MaxBoots /\ phase' = "down"
      /\ clean' = saved /\ lossy' = (lossy \/ ~saved)
      /\ UNCHANGED <<joins, boot, records, delta, todo, cur, inactive, gatherers,
                     collected, sinceSave>>
  BY DEF Shutdown, idVars
<1>2. cur = None /\ inactive = {}
  BY <1>1 DEF PInv, PShape
<1>3. /\ saved => disk' = CaptureState
      /\ disk' = disk \/ disk' = CaptureState \/ disk' = Truncated
  BY PersistenceAssumption DEF Shutdown, SaveState, FileAfter
<1>4. PTypeOK'
  <2>1. TypeOK'
    <3>1. CASE saved
      BY <1>1, <3>1
      DEF Shutdown, PInv, PTypeOK, TypeOK, Phases, idVars, playerVars,
          sessionVars, dogVars
    <3>2. CASE ~saved
      BY <1>1, <3>2, ForgetType DEF Shutdown, PInv, PTypeOK, TypeOK, Phases
    <3> QED
      BY <3>1, <3>2
  <2>2. Complete(disk') => disk' \in StateReprs
    BY <1>2, <1>3, CaptureLoadable DEF PInv, PTypeOK, Complete
  <2>3. sinceSave' \in Int /\ clean' \in BOOLEAN /\ lossy' \in BOOLEAN
    BY <1>1 DEF PInv, PTypeOK
  <2> QED
    BY <2>1, <2>2, <2>3 DEF PTypeOK, Complete
<1>5. MemoryRegistered' /\ PlayersKnown' /\ SessionLists' /\ DogsListed'
  <2>1. CASE saved
    BY <1>1, <2>1
    DEF Shutdown, PInv, MemoryRegistered, Registered, PlayersKnown, Known,
        SessionLists, DogsListed, Leaving, idVars, playerVars, sessionVars
  <2>2. CASE ~saved
    BY <1>1, <1>2, <2>2, ForgetInv DEF Shutdown
  <2> QED
    BY <2>1, <2>2
<1>6. DiskRegistered'
  <2>1. Complete(disk') => Loadable(disk')
    BY <1>2, <1>3, CaptureLoadable DEF PInv, DiskRegistered, Complete
  <2>2. Loadable(disk') => Loadable(disk)'
    BY <1>1 DEF Loadable, Registered
  <2> QED
    BY <2>1, <2>2 DEF DiskRegistered, Complete
<1>7. PShape'
  <2>1. saved => CaptureState' = CaptureState
    BY DEF Shutdown, CaptureState, CaptureStateCounters, SavedCounters, idVars,
           playerVars, sessionVars, dogVars
  <2> QED
    BY <1>1, <1>2, <1>3, <2>1 DEF PShape
<1>8. PRows'
  BY <1>1 DEF PInv, PRows, Shutdown, playerVars
<1> QED
  BY <1>4, <1>5, <1>6, <1>7, <1>8 DEF PInv

LEMMA PCrash ==
  ASSUME PInv, Crash
  PROVE  PInv'
<1>1. /\ phase # "down" /\ boot < MaxBoots /\ phase' = "down"
      /\ clean' = FALSE /\ lossy' = TRUE /\ Forget /\ sinceSave' = 0
      /\ delta' = 0 /\ todo' = {} /\ cur' = None
      /\ inactive' = {} /\ gatherers' = {} /\ collected' = {}
      /\ UNCHANGED <<joins, boot, records, disk>>
  BY DEF Crash
<1>2. PTypeOK'
  <2>1. TypeOK'
    BY <1>1, ForgetType DEF PInv, PTypeOK, TypeOK, Phases, Opt
  <2>2. Complete(disk') => disk' \in StateReprs
    BY <1>1 DEF PInv, PTypeOK
  <2>3. sinceSave' \in Int
    BY <1>1
  <2>4. clean' \in BOOLEAN /\ lossy' \in BOOLEAN
    BY <1>1
  <2> QED
    BY <2>1, <2>2, <2>3, <2>4 DEF PTypeOK, Complete
<1>3. MemoryRegistered' /\ PlayersKnown' /\ SessionLists' /\ DogsListed'
  BY <1>1, ForgetInv
<1>4. DiskRegistered'
  BY <1>1 DEF PInv, DiskRegistered, Loadable, Registered, Complete
<1>5. PShape' /\ PRows'
  BY <1>1 DEF PShape, PRows
<1> QED
  BY <1>2, <1>3, <1>4, <1>5 DEF PInv

\* What ApplyState gives the new process.
LEMMA Applied ==
  ASSUME PInv, phase = "down", Complete(disk), ApplyState(disk), joins' = joins,
         cur' = cur, inactive' = inactive
  PROVE  MemoryRegistered' /\ PlayersKnown' /\ SessionLists' /\ DogsListed'
<1>1. /\ cur = None /\ inactive = {} /\ Loadable(disk) /\ disk \in StateReprs
  BY DEF PInv, PTypeOK, PShape, DiskRegistered
<1>2. /\ nextPlayer' = disk.nextPlayer /\ nextDog' = disk.nextDog
      /\ nextSession' = disk.nextSession /\ sessionMap' = disk.sessionMap
      /\ sessionDogs' = disk.sessionDogs /\ tokens' = disk.tokens
      /\ name' = disk.name /\ playerSession' = disk.playerSession
      /\ playerDog' = disk.playerDog /\ players' = Known(disk.tokens)
      /\ sessionPlayers' = [s \in Ids |-> {p \in players' : playerSession'[p] = s}]
  BY DEF ApplyState, RestoreCounters, RestorePlayers, Known
<1>3. MemoryRegistered' /\ PlayersKnown'
  BY <1>1, <1>2
  DEF Loadable, MemoryRegistered, Registered, PlayersKnown, Known
<1>4. SessionLists'
  BY <1>2 DEF SessionLists
<1>5. DogsListed'
  <2>1. \A s \in Ids : sessionDogs'[s] = sessionPlayers'[s]
    BY <1>1, <1>2 DEF Loadable
  <2>2. \A s \in Ids : Leaving(s)' = {}
    BY <1>1 DEF Leaving
  <2> QED
    BY <2>1, <2>2 DEF DogsListed
<1> QED
  BY <1>3, <1>4, <1>5

LEMMA AppliedType ==
  ASSUME PInv, phase = "down", Complete(disk), ApplyState(disk)
  PROVE  /\ nextPlayer' \in 0 .. MaxJoins /\ nextDog' \in 0 .. MaxJoins
         /\ nextSession' \in 0 .. MaxJoins /\ nextLoot' \in 0 .. MaxLoot
         /\ players' \subseteq Ids
         /\ name' \in [Ids -> Opt(Ids)] /\ playerSession' \in [Ids -> Opt(Ids)]
         /\ playerDog' \in [Ids -> Opt(Ids)] /\ tokens' \in [Ids -> Opt(Ids)]
         /\ sessionPlayers' \in [Ids -> SUBSET Ids]
         /\ sessionMap' \in [Ids -> Opt(Maps)]
         /\ sessionDogs' \in [Ids -> SUBSET Ids]
         /\ lost' \in [Ids -> SUBSET LostObjects]
         /\ moving' \in [Ids -> BOOLEAN] /\ idle' \in [Ids -> Int]
         /\ bag' \in [Ids -> SUBSET LostObjects]
         /\ credited' \in [Ids -> SUBSET LostObjects]
<1>1. disk \in StateReprs
  BY DEF PInv, PTypeOK
<1>2. players' \subseteq Ids
  BY <1>1 DEF StateReprs, ApplyState, RestorePlayers, Opt
<1>3. lost' \in [Ids -> SUBSET LostObjects]
  BY <1>1 DEF StateReprs, ApplyState, RestoredLost
<1>4. sessionPlayers' \in [Ids -> SUBSET Ids]
  BY <1>2 DEF ApplyState, RestorePlayers
<1> QED
  BY <1>1, <1>2, <1>3, <1>4, BoundsAssumption
  DEF StateReprs, ApplyState, RestoreCounters, RestorePlayers, RestoreDogs

LEMMA PStart ==
  ASSUME PInv, Start
  PROVE  PInv'
<1>1. /\ phase = "down" /\ boot' = boot + 1 /\ phase' = "idle"
      /\ sinceSave' = 0 /\ clean' = FALSE
      /\ IF disk # None THEN ApplyState(disk) ELSE Forget
      /\ disk # None => Complete(disk)
      /\ UNCHANGED <<joins, records, delta, todo, cur, inactive, gatherers,
                     collected, disk, lossy>>
  BY DEF Start, Complete
<1>2. cur = None /\ inactive = {} /\ boot' \in Boots
  BY <1>1, BoundsAssumption DEF PInv, PTypeOK, TypeOK, PShape, Boots
<1>3. PTypeOK'
  <2>1. TypeOK'
    <3>1. CASE disk # None
      BY <1>1, <1>2, <3>1, AppliedType DEF PInv, PTypeOK, TypeOK, Phases
    <3>2. CASE disk = None
      BY <1>1, <1>2, <3>2, ForgetType DEF PInv, PTypeOK, TypeOK, Phases
    <3> QED
      BY <3>1, <3>2
  <2>2. Complete(disk') => disk' \in StateReprs
    BY <1>1 DEF PInv, PTypeOK
  <2>3. sinceSave' \in Int
    BY <1>1
  <2>4. clean' \in BOOLEAN /\ lossy' \in BOOLEAN
    BY <1>1 DEF PInv, PTypeOK
  <2> QED
    BY <2>1, <2>2, <2>3, <2>4 DEF PTypeOK, Complete
<1>4. MemoryRegistered' /\ PlayersKnown' /\ SessionLists' /\ DogsListed'
  BY <1>1, <1>2, ForgetInv, Applied
<1>5. DiskRegistered' /\ PShape'
  BY <1>1, <1>2 DEF PInv, DiskRegistered, Loadable, Registered, PShape, Complete
<1>6. PRows'
  <2> SUFFICES ASSUME ~lossy PROVE PRows'
    BY <1>1 DEF PRows
  <2>1. disk = CaptureState /\ disk # None
    BY <1>1, <1>2, CaptureLoadable, StateAssumption DEF PInv, PShape
  <2>2. tokens' = tokens
    BY <1>1, <2>1
    DEF ApplyState, RestorePlayers, CaptureState, CaptureStateCounters
  <2> QED
    BY <1>1, <2>2 DEF PInv, PRows
<1> QED
  BY <1>3, <1>4, <1>5, <1>6 DEF PInv

LEMMA PNextInv == PInv /\ [PNext]_allVars => PInv'
<1> SUFFICES ASSUME PInv, [PNext]_allVars PROVE PInv'
  OBVIOUS
<1>1. CASE Request /\ sinceSave + delta' >= -MaxDebt /\ UNCHANGED pVars
  BY <1>1, PJoin, PPlayerAction, PTickStart DEF Request
<1>2. CASE TickStep /\ UNCHANGED pVars
  BY <1>2, BoundsAssumption, PMoveSession, PRetirePlayer, PGatherItem,
     PGatherOffice, PFinishSession DEF TickStep
<1>3. CASE \E outcome \in SaveOutcomes : ListenerOnTick(outcome)
  BY <1>3, PListenerOnTick
<1>4. CASE \E outcome \in SaveOutcomes : Shutdown(outcome)
  BY <1>4, PShutdown
<1>5. CASE Crash \/ Start
  BY <1>5, PCrash, PStart
<1>6. CASE UNCHANGED allVars
  BY <1>6
  DEF allVars, pVars, vars, idVars, playerVars, sessionVars, dogVars, tickVars,
      PInv, PTypeOK, TypeOK, MemoryRegistered, Registered, PlayersKnown, Known,
      SessionLists, DogsListed, Leaving, DiskRegistered, Loadable, PShape, PRows,
      Complete, Sessions, CaptureState, CaptureStateCounters, SavedCounters
<1> QED
  BY <1>1, <1>2, <1>3, <1>4, <1>5, <1>6 DEF PNext

THEOREM PInvHolds == PSpec => []PInv
BY PInitInv, PNextInv, PTL DEF PSpec

----------------------------------------------------------------------------
(* The properties *)

\* Every variable keeps its type across crashes and restarts, the state file
\* included.
THEOREM PTypeHolds == PSpec => []PTypeOK
BY PInvHolds, PTL DEF PInv

\* A state file written to its end can be loaded: TryLoadState never meets in it a
\* player without a session or without a dog, a dog without a player, or a player,
\* dog or session id that will be handed out again.
LEMMA PInvSaved == PInv => SavedStateLoads
<1> SUFFICES ASSUME PInv, Complete(disk) PROVE SavedStateLoads
  BY DEF SavedStateLoads
<1>1. Loadable(disk)
  BY DEF PInv, DiskRegistered
<1>2. ASSUME NEW t \in Ids, disk.tokens[t] # None
      PROVE  LET p == disk.tokens[t]
             IN  /\ disk.playerSession[p] # None
                 /\ disk.sessionMap[disk.playerSession[p]] # None
                 /\ disk.playerDog[p] \in disk.sessionDogs[disk.playerSession[p]]
                 /\ p < disk.nextPlayer /\ disk.playerDog[p] < disk.nextDog
                 /\ disk.playerSession[p] < disk.nextSession
  BY <1>1, <1>2, IdFacts DEF Loadable, Registered, Known
<1>3. ASSUME NEW s \in Ids
      PROVE  disk.sessionDogs[s] \subseteq {disk.playerDog[p] : p \in Known(disk.tokens)}
  <2>1. \A p \in Known(disk.tokens) : disk.playerDog[p] = p
    BY <1>1 DEF Loadable, Registered, Known
  <2> QED
    BY <1>1, <2>1 DEF Loadable
<1> QED
  BY <1>2, <1>3 DEF SavedStateLoads, Known
THEOREM SavedStateLoadsHolds == PSpec => []SavedStateLoads
BY PInvHolds, PInvSaved, PTL

\* Tokens, players and session lists stay one registry, whatever was lost.
LEMMA PInvRegistry == PInv => RegistrySurvives
<1> SUFFICES ASSUME PInv PROVE TokenRegistry /\ DogsOwned
  BY DEF PInv, RegistrySurvives, SessionRegistry
<1>1. TokenRegistry
  BY IdFacts
  DEF PInv, MemoryRegistered, Registered, PlayersKnown, Known, TokenRegistry,
      TokenMeansOwner, PlayersHoldTokens
<1>2. \A p \in players : playerDog[p] = p
  BY DEF PInv, MemoryRegistered, Registered, PlayersKnown, Known
<1>3. ASSUME NEW s \in Ids
      PROVE  {playerDog[p] : p \in sessionPlayers[s]} = sessionPlayers[s]
  BY <1>2 DEF PInv, SessionLists, PTypeOK, TypeOK
<1> QED
  BY <1>1, <1>3 DEF PInv, DogsListed, DogsOwned
THEOREM RegistrySurvivesHolds == PSpec => []RegistrySurvives
BY PInvHolds, PInvRegistry, PTL

\* Only a process that went down without saving can give a client a second row.
LEMMA PInvRecords == PInv => RecordOnceIfSaved
BY DEF PInv, PTypeOK, TypeOK, PRows, MemoryRegistered, Registered, PlayersKnown,
       Known, RecordOnceIfSaved, RecordOnce
THEOREM RecordOnceIfSavedHolds == PSpec => []RecordOnceIfSaved
BY PInvHolds, PInvRecords, PTL

----------------------------------------------------------------------------
(* A graceful restart *)

LEMMA LeastNat ==
  ASSUME NEW T, T \subseteq Nat, T # {}
  PROVE  \E x \in T : \A y \in T : ~ (y < x)
<1> DEFINE Before == OpToRel(<, Nat)
<1>1. IsWellFoundedOn(Before, Nat)
  BY NatLessThanWellFounded
<1>2. \A x, y \in Nat : y < x => <<y, x>> \in Before
  BY DEF OpToRel
<1> HIDE DEF Before
<1>3. PICK x \in T : \A y \in T : ~ (<<y, x>> \in Before)
  BY <1>1, WFMin
<1> QED
  BY <1>2, <1>3

\* Whatever the order of the sessions, each gets an object for every id it had:
\* the one of the first session that has the id.
LEMMA RestoredIds ==
  ASSUME NEW saved \in [Ids -> SUBSET LostObjects], NEW rank \in LoadOrders,
         NEW s \in Ids
  PROVE  IdsOf(RestoredLost(saved, rank)[s]) = IdsOf(saved[s])
<1> DEFINE mine == RestoredLost(saved, rank)[s]
<1>1. ASSUME NEW o \in mine PROVE \E m \in saved[s] : m.id = o.id
  BY DEF RestoredLost
<1>2. ASSUME NEW m \in saved[s] PROVE \E o \in mine : o.id = m.id
  <2> DEFINE Having == {k \in Ids : \E o \in saved[k] : o.id = m.id}
             T == {rank[k] : k \in Having}
  <2>1. /\ rank \in [Ids -> Ids] /\ Ids \subseteq Nat
        /\ s \in Having
    BY IdFacts DEF LoadOrders
  <2>2. T \subseteq Nat /\ T # {}
    BY <2>1
  <2>3. PICK x \in T : \A y \in T : ~ (y < x)
    BY <2>2, LeastNat
  <2>4. PICK k \in Having : rank[k] = x
    OBVIOUS
  <2>5. PICK o \in saved[k] : o.id = m.id
    OBVIOUS
  <2>6. ASSUME NEW r \in Ids, rank[r] < rank[k], NEW other \in saved[r]
        PROVE  other.id # o.id
    BY <2>3, <2>4, <2>5, <2>6
  <2>7. o \in mine
    BY <2>5, <2>6 DEF RestoredLost
  <2> QED
    BY <2>5, <2>7
<1> QED
  BY <1>1, <1>2 DEF IdsOf

\* Only Start follows a graceful stop, and it loads what the stop has saved.
LEMMA GracefulStart ==
  ASSUME PInv, [PNext]_allVars, clean, phase' = "idle"
  PROVE  /\ disk = CaptureState /\ disk # None /\ phase = "down"
         /\ ApplyState(CaptureState)
<1>1. phase = "down" /\ disk = CaptureState /\ cur = None
  BY DEF PInv, PShape
<1>2. disk # None
  BY <1>1, CaptureLoadable, StateAssumption
<1>3. Start
  <2>1. ~Request
    BY <1>1 DEF Request, JoinGame, PlayerAction, TickStart
  <2>2. ~TickStep
    BY <1>1
    DEF TickStep, MoveSession, RetirePlayer, GatherItem, GatherOffice,
        FinishSession
  <2>3. ~ \E outcome \in SaveOutcomes : ListenerOnTick(outcome)
    BY <1>1 DEF ListenerOnTick, TickEnd
  <2>4. ~ \E outcome \in SaveOutcomes : Shutdown(outcome)
    BY <1>1 DEF Shutdown
  <2>5. ~Crash /\ ~UNCHANGED allVars
    BY <1>1 DEF Crash, allVars, vars, tickVars
  <2> QED
    BY <2>1, <2>2, <2>3, <2>4, <2>5 DEF PNext
<1> QED
  BY <1>1, <1>2, <1>3 DEF Start

\* GracefulRestartInvisible: registries, sessions, dogs and the ids of the
\* objects on every map are after the restart what they were before the stop.
THEOREM GracefulRestartInvisibleHolds == PSpec => GracefulRestartInvisible
<1> DEFINE Invisible ==
      clean /\ phase' = "idle" =>
        /\ UNCHANGED <<playerVars, sessionMap, sessionDogs, moving, bag, credited,
                       nextPlayer, nextDog, nextSession>>
        /\ \A s \in Ids : IdsOf(lost'[s]) = IdsOf(lost[s])
<1>1. PInv /\ [PNext]_allVars => [Invisible]_allVars
  <2> SUFFICES ASSUME PInv, [PNext]_allVars, clean, phase' = "idle"
               PROVE  /\ UNCHANGED <<playerVars, sessionMap, sessionDogs, moving,
                                     bag, credited, nextPlayer, nextDog, nextSession>>
                      /\ \A s \in Ids : IdsOf(lost'[s]) = IdsOf(lost[s])
    OBVIOUS
  <2>1. ApplyState(CaptureState)
    BY GracefulStart
  <2>2. UNCHANGED <<sessionMap, sessionDogs, moving, bag, credited, nextPlayer,
                    nextDog, nextSession, tokens, name, playerSession, playerDog>>
    BY <2>1
    DEF ApplyState, RestoreCounters, RestoreDogs, RestorePlayers, CaptureState,
        CaptureStateCounters, SavedCounters
  <2>3. players' = players
    BY <2>1
    DEF ApplyState, RestorePlayers, CaptureState, CaptureStateCounters, PInv,
        PlayersKnown, Known
  <2>4. sessionPlayers' = sessionPlayers
    <3>1. sessionPlayers' = [s \in Ids |-> {p \in players : playerSession[p] = s}]
      BY <2>1, <2>2, <2>3 DEF ApplyState, RestorePlayers
    <3>2. \A s \in Ids : sessionPlayers[s] = {p \in players : playerSession[p] = s}
      BY DEF PInv, SessionLists, PTypeOK, TypeOK
    <3> QED
      BY <3>1, <3>2 DEF PInv, PTypeOK, TypeOK
  <2>5. \A s \in Ids : IdsOf(lost'[s]) = IdsOf(lost[s])
    <3>1. PICK rank \in LoadOrders : lost' = RestoredLost(lost, rank)
      BY <2>1 DEF ApplyState, CaptureState, CaptureStateCounters
    <3> QED
      BY <3>1, RestoredIds DEF PInv, PTypeOK, TypeOK
  <2> QED
    BY <2>2, <2>3, <2>4, <2>5 DEF playerVars
<1> QED
  BY <1>1, PInvHolds, PTL DEF PSpec, GracefulRestartInvisible
=============================================================================
