------------------------- MODULE Application_proofs -------------------------
(***************************************************************************)
(* Proofs about Application, for every value of its constants.             *)
(*                                                                         *)
(* One inductive invariant, Inv, carries the registries, the shape of a    *)
(* running Tick and the table of records.  LootInv carries who holds the   *)
(* lost objects and how many they are, with Inv at both ends of a step.    *)
(* Last, Application implements Rooms.  Each theorem draws a property of   *)
(* Application from these.                                                 *)
(***************************************************************************)
EXTENDS Application, FiniteSetTheorems, TLAPS

\* The three static counters and what they number.  Within one process the
\* n-th JoinGame makes player n, dog n and token n.
Numbering ==
  /\ nextPlayer = joins /\ nextDog = joins
  /\ \A s \in Sessions : s < nextSession
  /\ \A p \in players :
       /\ p < joins /\ name[p] = p /\ playerDog[p] = p
       /\ playerSession[p] \in Ids /\ playerSession[p] < nextSession
  /\ \A t \in Ids : tokens[t] = IF t \in players THEN t ELSE None

\* DogsOwned once dogs and players have the same numbers.
DogsListed == \A s \in Ids : sessionDogs[s] \cup Leaving(s) = sessionPlayers[s]

\* What the local variables of Tick say of each other at every cut.
TickShape ==
  /\ phase # "down"
  /\ phase = "session" <=> cur # None
  /\ cur = None => inactive = {} /\ gatherers = {} /\ collected = {}
  /\ cur # None => inactive \cap sessionDogs[cur] = {}
  /\ \A d \in inactive : ~moving[d] /\ idle[d] >= RetirementTime

\* RecordOnce, and no row for a client that has not joined yet.
RowsCounted ==
  /\ \A n \in Ids : records[n] <= 1
  /\ \A n \in Ids : n >= joins \/ n \in players => records[n] = 0

Inv ==
  TypeOK /\ Numbering /\ SessionLists /\ DogsListed /\ TickShape /\ RowsCounted
----------------------------------------------------------------------------
(* The steps *)

\* An id below joins is one of the Ids; a None is not.
LEMMA IdFacts ==
  /\ None \notin Ids
  /\ \A i \in Nat : i < MaxJoins => i \in Ids
  /\ \A i \in Ids : i \in Nat /\ i < MaxJoins
BY BoundsAssumption, NoneAssumption DEF Ids

LEMMA InitInv == Init => Inv
BY BoundsAssumption, IdFacts
DEF Init, Inv, TypeOK, Numbering, SessionLists, DogsListed, Leaving, TickShape,
    RowsCounted, FreshProcess, FreshIds, FreshPlayers, FreshSessions, FreshDogs,
    NoTick, Empty, Nowhere, Opt, Phases, Boots, Sessions

\* New objects are objects: their ids stay below the bound.
LEMMA NewObjects ==
  ASSUME TypeOK, NEW objects \in SUBSET LostObjects, NEW n \in Nat,
         nextLoot + n <= MaxLoot
  PROVE  AddLostObjects(objects, nextLoot .. nextLoot + n - 1) \subseteq LostObjects
BY BoundsAssumption DEF TypeOK, AddLostObjects, LostObjects, LootIds

LEMMA JoinInv ==
  ASSUME Inv, NEW m \in Maps, JoinGame(m)
  PROVE  Inv'
<1> DEFINE p == joins
<1>1. PICK s \in JoinableSessions(m) :
        /\ joins' = joins + 1
        /\ nextPlayer' = p + 1 /\ nextDog' = p + 1
        /\ nextSession' = IF s = nextSession THEN s + 1 ELSE nextSession
        /\ players' = players \cup {p}
        /\ name' = [name EXCEPT ![p] = p]
        /\ tokens' = [tokens EXCEPT ![p] = p]
        /\ sessionMap' = [sessionMap EXCEPT ![s] = m]
        /\ sessionPlayers' = [sessionPlayers EXCEPT ![s] = @ \cup {p}]
        /\ playerSession' = [playerSession EXCEPT ![p] = s]
        /\ playerDog' = [playerDog EXCEPT ![p] = p]
        /\ sessionDogs' = [sessionDogs EXCEPT ![s] = @ \cup {p}]
        /\ GenerateLoot(s, 1)
  BY DEF JoinGame, Inv, Numbering
<1>2. /\ phase = "idle" /\ joins < MaxJoins
      /\ UNCHANGED <<boot, dogVars, records, tickVars>>
  BY DEF JoinGame
<1>3. p \in Ids /\ p \notin players /\ cur = None /\ inactive = {}
  BY <1>2, BoundsAssumption, IdFacts DEF Inv, TypeOK, Numbering, TickShape
<1>4. s \in Ids /\ (s \in Sessions \/ s = nextSession)
  BY DEF JoinableSessions, OpenSessions, NewSession, Sessions
<1>5. lost' \in [Ids -> SUBSET LostObjects] /\ nextLoot' \in 0 .. MaxLoot
  <2>1. /\ lost[s] \in SUBSET LostObjects /\ nextLoot + 1 <= MaxLoot
        /\ lost' = [lost EXCEPT ![s] =
                      AddLostObjects(lost[s], nextLoot .. nextLoot + 1 - 1)]
        /\ nextLoot' = nextLoot + 1
    BY <1>1, <1>4 DEF Inv, TypeOK, GenerateLoot
  <2>2. AddLostObjects(lost[s], nextLoot .. nextLoot + 1 - 1)
          \subseteq LostObjects
    BY <2>1, NewObjects DEF Inv
  <2>3. nextLoot \in 0 .. MaxLoot /\ lost \in [Ids -> SUBSET LostObjects]
    BY DEF Inv, TypeOK
  <2>4. nextLoot' \in 0 .. MaxLoot
    BY <2>1, <2>3, BoundsAssumption
  <2>5. lost' \in [Ids -> SUBSET LostObjects]
    BY <2>1, <2>2, <2>3, Zenon
  <2> QED
    BY <2>4, <2>5
<1>6. TypeOK'
  <2>1. /\ joins' \in 0 .. MaxJoins /\ nextPlayer' \in 0 .. MaxJoins
        /\ nextDog' \in 0 .. MaxJoins /\ nextSession' \in 0 .. MaxJoins
    BY <1>1, <1>2, <1>4, BoundsAssumption, IdFacts DEF Inv, TypeOK
  <2>2. /\ players' \subseteq Ids /\ name' \in [Ids -> Opt(Ids)]
        /\ tokens' \in [Ids -> Opt(Ids)] /\ playerDog' \in [Ids -> Opt(Ids)]
        /\ playerSession' \in [Ids -> Opt(Ids)]
    BY <1>1, <1>3, <1>4 DEF Inv, TypeOK, Opt
  <2>3. /\ sessionPlayers' \in [Ids -> SUBSET Ids]
        /\ sessionDogs' \in [Ids -> SUBSET Ids]
        /\ sessionMap' \in [Ids -> Opt(Maps)]
    BY <1>1, <1>3, <1>4 DEF Inv, TypeOK, Opt
  <2> QED
    BY <1>2, <1>5, <2>1, <2>2, <2>3 DEF Inv, TypeOK, dogVars, tickVars
<1>7. Numbering'
  <2>1. \A q \in players' :
          /\ q < joins' /\ name'[q] = q /\ playerDog'[q] = q
          /\ playerSession'[q] \in Ids /\ playerSession'[q] < nextSession'
    <3> SUFFICES ASSUME NEW q \in players'
                 PROVE  /\ q < joins' /\ name'[q] = q /\ playerDog'[q] = q
                        /\ playerSession'[q] \in Ids
                        /\ playerSession'[q] < nextSession'
      OBVIOUS
    <3>1. CASE q = p
      BY <1>1, <1>3, <1>4, <3>1, BoundsAssumption, IdFacts
      DEF Inv, TypeOK, Numbering
    <3>2. CASE q # p
      <4>1. /\ q \in players /\ name'[q] = name[q] /\ playerDog'[q] = playerDog[q]
            /\ playerSession'[q] = playerSession[q] /\ q \in Ids
        BY <1>1, <1>3, <3>2 DEF Inv, TypeOK
      <4>2. /\ q < joins /\ name[q] = q /\ playerDog[q] = q
            /\ playerSession[q] \in Ids /\ playerSession[q] < nextSession
        BY <4>1 DEF Inv, Numbering
      <4>3. /\ joins \in Nat /\ nextSession \in Nat /\ q \in Nat
            /\ playerSession[q] \in Nat
        BY <4>1, <4>2, IdFacts, BoundsAssumption DEF Inv, TypeOK
      <4> QED
        BY <1>1, <4>1, <4>2, <4>3
    <3> QED
      BY <3>1, <3>2
  <2>2. \A t \in Ids : tokens'[t] = IF t \in players' THEN t ELSE None
    BY <1>1, <1>3 DEF Inv, TypeOK, Numbering
  <2>3. \A r \in Sessions' : r < nextSession'
    BY <1>1, <1>4, BoundsAssumption, IdFacts
    DEF Inv, TypeOK, Numbering, Sessions
  <2> QED
    BY <1>1, <2>1, <2>2, <2>3 DEF Inv, Numbering
<1>8. SessionLists' /\ DogsListed'
  <2>1. SessionLists'
    BY <1>1, <1>3, <1>4 DEF Inv, TypeOK, SessionLists
  <2>2. DogsListed'
    BY <1>1, <1>2, <1>3, <1>4
    DEF Inv, TypeOK, DogsListed, Leaving, tickVars
  <2> QED
    BY <2>1, <2>2
<1>9. TickShape' /\ RowsCounted'
  BY <1>1, <1>2, <1>3, IdFacts, BoundsAssumption
  DEF Inv, TypeOK, TickShape, RowsCounted, dogVars, tickVars
<1> QED
  BY <1>6, <1>7, <1>8, <1>9 DEF Inv

LEMMA PlayerActionInv ==
  ASSUME Inv, NEW t \in Ids, NEW go \in BOOLEAN, PlayerAction(t, go)
  PROVE  Inv'
<1>1. moving' \in [Ids -> BOOLEAN]
  BY DEF PlayerAction, Inv, TypeOK
<1>2. inactive = {} /\ cur = None
  BY DEF PlayerAction, Inv, TickShape
<1> QED
  BY <1>1, <1>2
  DEF PlayerAction, idVars, playerVars, sessionVars, tickVars, Inv, TypeOK,
      Numbering, SessionLists, DogsListed, Leaving, Sessions, TickShape,
      RowsCounted

LEMMA TickStartInv ==
  ASSUME Inv, NEW dt \in Deltas, TickStart(dt)
  PROVE  Inv'
BY BoundsAssumption
DEF TickStart, idVars, playerVars, sessionVars, dogVars, Inv, TypeOK, Phases,
    Numbering, SessionLists, DogsListed, Leaving, Sessions, TickShape,
    RowsCounted

LEMMA TickEndInv ==
  ASSUME Inv, TickEnd
  PROVE  Inv'
BY BoundsAssumption
DEF TickEnd, idVars, playerVars, sessionVars, dogVars, Inv, TypeOK, Phases,
    Numbering, SessionLists, DogsListed, Leaving, Sessions, TickShape,
    RowsCounted

LEMMA MoveSessionInv ==
  ASSUME Inv, NEW s \in Ids, MoveSession(s)
  PROVE  Inv'
<1>1. /\ phase = "sessions" /\ phase' = "session"
      /\ cur' = s /\ todo' = todo \ {s}
      /\ sessionDogs' = [sessionDogs EXCEPT ![s] = @ \ inactive']
      /\ gatherers' = {d \in sessionDogs'[s] : moving[d]}
      /\ UNCHANGED <<idVars, playerVars, sessionMap, lost, bag, credited,
                     records, delta, collected>>
  BY DEF MoveSession, EnterSession, RemoveInactiveDogs
<1>2. moving' \in [Ids -> BOOLEAN] /\ idle' \in [Ids -> Int]
  <2>1. delta \in Int /\ idle \in [Ids -> Int] /\ moving \in [Ids -> BOOLEAN]
    BY BoundsAssumption DEF Inv, TypeOK
  <2> QED
    BY <2>1 DEF MoveSession, MoveDogsByTick, IdleTime
<1>3. /\ inactive' \subseteq sessionDogs[s]
      /\ \A d \in inactive' : ~moving'[d] /\ idle'[d] >= RetirementTime
  BY DEF MoveSession, RemoveInactiveDogs, IsInactive
<1>4. cur = None /\ inactive = {} /\ s # None
  BY <1>1, IdFacts DEF Inv, TickShape
<1>5. sessionDogs[s] \subseteq Ids
  BY DEF Inv, TypeOK
<1>6. TypeOK'
  BY <1>1, <1>2, <1>3, <1>5
  DEF Inv, TypeOK, idVars, playerVars, Opt, Phases
<1>7. Numbering' /\ SessionLists' /\ RowsCounted'
  BY <1>1 DEF Inv, Numbering, SessionLists, RowsCounted, Sessions, idVars,
              playerVars
<1>8. DogsListed'
  BY <1>1, <1>3, <1>4, <1>5 DEF Inv, TypeOK, DogsListed, Leaving, playerVars
<1>9. TickShape'
  BY <1>1, <1>3, <1>4, <1>5 DEF Inv, TypeOK, TickShape
<1> QED
  BY <1>6, <1>7, <1>8, <1>9 DEF Inv

\* An inactive dog has exactly one owner, whose name is the dog's number.
LEMMA OneOwner ==
  ASSUME Inv, NEW d \in inactive, phase = "session"
  PROVE  /\ {p \in players : playerDog[p] = d} = {d}
         /\ d \in Ids /\ d \in players /\ d < joins /\ name[d] = d
         /\ cur \in Ids /\ playerSession[d] = cur /\ d \notin sessionDogs[cur]
<1>1. d \in Ids /\ cur \in Ids
  BY IdFacts DEF Inv, TypeOK, TickShape, Opt
<1>2. d \in sessionPlayers[cur]
  BY <1>1 DEF Inv, DogsListed, Leaving
<1>3. d \in players /\ playerSession[d] = cur
  BY <1>1, <1>2 DEF Inv, SessionLists
<1> QED
  BY <1>1, <1>3, IdFacts DEF Inv, Numbering, TickShape

LEMMA RetirePlayerInv ==
  ASSUME Inv, NEW d \in Ids, NEW written \in BOOLEAN, RetirePlayer(d, written)
  PROVE  Inv'
<1>1. phase = "session" /\ d \in inactive
  BY DEF RetirePlayer
<1>2. /\ {p \in players : playerDog[p] = d} = {d}
      /\ d \in players /\ d < joins /\ name[d] = d /\ cur \in Ids
      /\ playerSession[d] = cur /\ d \notin sessionDogs[cur]
  BY <1>1, OneOwner
<1>3. /\ WriteRecord({d}, written)
      /\ RemovePlayerToken({d}) /\ RemovePlayerFromSession({d})
      /\ players' = players \ {d}
      /\ name' = [p \in Ids |-> IF p = d THEN None ELSE name[p]]
      /\ playerSession' = [p \in Ids |-> IF p = d THEN None ELSE playerSession[p]]
      /\ playerDog' = [p \in Ids |-> IF p = d THEN None ELSE playerDog[p]]
      /\ DropDog(d)
      /\ UNCHANGED <<idVars, sessionVars, phase, delta, todo, cur, gatherers,
                     collected>>
  BY <1>2 DEF RetirePlayer
<1>4. tokens' = [t \in Ids |-> IF tokens[t] = d THEN None ELSE tokens[t]]
  BY <1>3 DEF RemovePlayerToken
<1>5. sessionPlayers' = [s \in Ids |-> IF s = cur THEN sessionPlayers[s] \ {d}
                                       ELSE sessionPlayers[s]]
  BY <1>2, <1>3 DEF RemovePlayerFromSession, Inv, TypeOK
<1>6. records' = [n \in Ids |-> IF n = d /\ written THEN records[n] + 1
                                ELSE records[n]]
  BY <1>2, <1>3 DEF WriteRecord
<1>7. /\ inactive' = inactive \ {d}
      /\ moving' \in [Ids -> BOOLEAN] /\ idle' \in [Ids -> Int]
      /\ bag' \in [Ids -> SUBSET LostObjects]
      /\ credited' \in [Ids -> SUBSET LostObjects]
      /\ \A e \in Ids \ {d} : moving'[e] = moving[e] /\ idle'[e] = idle[e]
  BY <1>3 DEF DropDog, Inv, TypeOK
<1>8. TypeOK'
  BY <1>3, <1>4, <1>5, <1>6, <1>7 DEF Inv, TypeOK, idVars, sessionVars, Opt
<1>9. Numbering'
  BY <1>2, <1>3, <1>4, IdFacts
  DEF Inv, TypeOK, Numbering, Sessions, idVars, sessionVars
<1>10. SessionLists'
  BY <1>2, <1>3, <1>5 DEF Inv, TypeOK, SessionLists
<1>11. DogsListed'
  <2> SUFFICES ASSUME NEW s \in Ids
               PROVE  sessionDogs[s] \cup (IF cur = s THEN inactive \ {d} ELSE {})
                      = sessionPlayers'[s]
    BY <1>3, <1>7 DEF DogsListed, Leaving, sessionVars
  <2>1. sessionDogs[s] \cup (IF cur = s THEN inactive ELSE {}) = sessionPlayers[s]
    BY DEF Inv, DogsListed, Leaving
  <2> QED
    BY <2>1, <1>2, <1>5
<1>12. TickShape'
  BY <1>2, <1>3, <1>7 DEF Inv, TypeOK, TickShape, sessionVars
<1>13. RowsCounted'
  BY <1>2, <1>3, <1>6, BoundsAssumption, IdFacts
  DEF Inv, TypeOK, RowsCounted, idVars
<1> QED
  BY <1>8, <1>9, <1>10, <1>11, <1>12, <1>13 DEF Inv

LEMMA GatherItemInv ==
  ASSUME Inv, NEW d \in Ids, NEW o \in LostObjects, GatherItem(d, o)
  PROVE  Inv'
<1>1. collected' \subseteq LostObjects /\ bag' \in [Ids -> SUBSET LostObjects]
  BY DEF GatherItem, Inv, TypeOK
<1>2. cur # None
  BY DEF GatherItem, Inv, TickShape
<1> QED
  BY <1>1, <1>2
  DEF GatherItem, idVars, playerVars, sessionVars, Inv, TypeOK, Numbering,
      SessionLists, DogsListed, Leaving, Sessions, TickShape, RowsCounted

LEMMA GatherOfficeInv ==
  ASSUME Inv, NEW d \in Ids, GatherOffice(d)
  PROVE  Inv'
<1>1. /\ bag' \in [Ids -> SUBSET LostObjects]
      /\ credited' \in [Ids -> SUBSET LostObjects]
  BY DEF GatherOffice, Inv, TypeOK
<1> QED
  BY <1>1
  DEF GatherOffice, idVars, playerVars, sessionVars, tickVars, Inv, TypeOK,
      Numbering, SessionLists, DogsListed, Leaving, Sessions, TickShape,
      RowsCounted

LEMMA FinishSessionInv ==
  ASSUME Inv, NEW n \in Nat, FinishSession(n)
  PROVE  Inv'
<1>1. cur \in Ids /\ nextLoot + n <= MaxLoot /\ inactive = {}
  BY DEF FinishSession, Inv, TypeOK, TickShape, Opt
<1>2. lost' \in [Ids -> SUBSET LostObjects] /\ nextLoot' \in 0 .. MaxLoot
  <2>1. RemoveCollectedObjects(cur) \in SUBSET LostObjects
    BY <1>1 DEF RemoveCollectedObjects, Inv, TypeOK
  <2>2. AddLostObjects(RemoveCollectedObjects(cur), nextLoot .. nextLoot + n - 1)
          \subseteq LostObjects
    BY <1>1, <2>1, NewObjects DEF Inv
  <2> QED
    BY <1>1, <2>2, BoundsAssumption DEF FinishSession, Inv, TypeOK
<1>3. TypeOK'
  BY <1>2, IdFacts
  DEF FinishSession, Inv, TypeOK, Opt, Phases, playerVars, dogVars
<1>4. Numbering' /\ SessionLists' /\ RowsCounted'
  BY DEF FinishSession, Inv, Numbering, SessionLists, RowsCounted, Sessions,
         playerVars
<1>5. DogsListed' /\ TickShape'
  BY <1>1, IdFacts
  DEF FinishSession, Inv, DogsListed, Leaving, TickShape, playerVars, dogVars
<1> QED
  BY <1>3, <1>4, <1>5 DEF Inv

LEMMA NextInv == Inv /\ [Next]_vars => Inv'
<1> SUFFICES ASSUME Inv, [Next]_vars PROVE Inv'
  OBVIOUS
<1>1. CASE Request
  BY <1>1, JoinInv, PlayerActionInv, TickStartInv DEF Request
<1>2. CASE TickStep
  BY <1>2, BoundsAssumption, MoveSessionInv, RetirePlayerInv, GatherItemInv,
     GatherOfficeInv, FinishSessionInv DEF TickStep
<1>3. CASE TickEnd
  BY <1>3, TickEndInv
<1>4. CASE UNCHANGED vars
  BY <1>4
  DEF vars, idVars, playerVars, sessionVars, dogVars, tickVars, Inv, TypeOK,
      Numbering, SessionLists, DogsListed, Leaving, Sessions, TickShape,
      RowsCounted
<1> QED
  BY <1>1, <1>2, <1>3, <1>4 DEF Next

THEOREM InvHolds == Spec => []Inv
BY InitInv, NextInv, PTL DEF Spec

\* Every variable keeps its type: counters stay below their bounds and every
\* pointer of the registries points at an id or at nothing.
THEOREM TypeCorrect == Spec => []TypeOK
BY InvHolds, PTL DEF Inv

\* FindPlayerByToken: token_to_player_ and players_ are one registry.
LEMMA InvTokenRegistry == Inv => TokenRegistry
BY IdFacts
DEF Inv, TypeOK, Numbering, TokenRegistry, TokenMeansOwner, PlayersHoldTokens
THEOREM TokenRegistryHolds == Spec => []TokenRegistry
BY InvHolds, InvTokenRegistry, PTL

\* The players listed for a session, the players who point at it and the dogs
\* it moves are the same.
LEMMA InvSessionRegistry == Inv => SessionRegistry
<1> SUFFICES ASSUME Inv PROVE DogsOwned
  BY DEF Inv, SessionRegistry
<1> SUFFICES ASSUME NEW s \in Ids
             PROVE  sessionDogs[s] \cup Leaving(s)
                    = {playerDog[p] : p \in sessionPlayers[s]}
  BY DEF DogsOwned
<1>1. \A p \in sessionPlayers[s] : playerDog[p] = p
  BY DEF Inv, TypeOK, SessionLists, Numbering
<1>2. {playerDog[p] : p \in sessionPlayers[s]} = sessionPlayers[s]
  BY <1>1
<1> QED
  BY <1>2 DEF Inv, DogsListed
THEOREM SessionRegistryHolds == Spec => []SessionRegistry
BY InvHolds, InvSessionRegistry, PTL

\* Between two handlers /players and /state show a client its own session.
LEMMA InvClientsSee == Inv => ClientsSeeTheirSession
<1> SUFFICES ASSUME Inv, phase = "idle", NEW t \in Ids, tokens[t] # None
             PROVE  /\ tokens[t] \in PlayersSeen(t)
                    /\ DogsSeen(t) = sessionDogs[playerSession[tokens[t]]]
                    /\ ObjectsSeen(t) = lost[playerSession[tokens[t]]]
  BY DEF ClientsSeeTheirSession
<1> DEFINE s == playerSession[t]
<1>1. tokens[t] = t /\ t \in players /\ s \in Ids
  BY DEF Inv, Numbering
<1>2. /\ t \in sessionPlayers[s]
      /\ \A p \in sessionPlayers[s] : playerSession[p] = s
  BY <1>1 DEF Inv, TypeOK, SessionLists
<1>3. {playerDog[p] : p \in sessionPlayers[s]} = sessionDogs[s]
  BY <1>1, InvSessionRegistry
  DEF SessionRegistry, DogsOwned, Leaving, Inv, TickShape
<1>4. UNION {lost[playerSession[p]] : p \in sessionPlayers[s]} = lost[s]
  BY <1>2
<1> QED
  BY <1>1, <1>2, <1>3, <1>4 DEF PlayersSeen, DogsSeen, ObjectsSeen
THEOREM ClientsSeeHolds == Spec => []ClientsSeeTheirSession
BY InvHolds, InvClientsSee, PTL

\* RetirePlayer writes at most one row for a client, and only as it leaves.
LEMMA InvRecordOnce == Inv => RecordOnce
BY DEF Inv, TypeOK, RowsCounted, Numbering, RecordOnce
THEOREM RecordOnceHolds == Spec => []RecordOnce
BY InvHolds, InvRecordOnce, PTL

\* The dogs a Tick retires still stand idle when their turn comes.
LEMMA OnlyIdleLeaveStep ==
  Inv /\ [Next]_vars =>
    [\A p \in players \ players' :
       ~moving[playerDog[p]] /\ idle[playerDog[p]] >= RetirementTime]_vars
<1> SUFFICES ASSUME Inv, Next, NEW p \in players \ players'
             PROVE  ~moving[playerDog[p]] /\ idle[playerDog[p]] >= RetirementTime
  OBVIOUS
<1>1. PICK d \in Ids, written \in InsertOutcomes : RetirePlayer(d, written)
  BY DEF Next, Request, TickStep, JoinGame, PlayerAction, TickStart, TickEnd,
         MoveSession, GatherItem, GatherOffice, FinishSession, playerVars
<1>2. d \in inactive /\ {q \in players : playerDog[q] = d} = {d}
  BY <1>1, OneOwner DEF RetirePlayer
<1>3. p = d /\ playerDog[p] = d
  BY <1>1, <1>2 DEF RetirePlayer
<1> QED
  BY <1>2, <1>3 DEF Inv, TickShape
THEOREM OnlyIdleLeaveHolds == Spec => OnlyIdleLeave
BY InvHolds, OnlyIdleLeaveStep, PTL DEF Spec, OnlyIdleLeave

----------------------------------------------------------------------------
(* Lost objects: who holds them, how many lie on a map, the two capacities *)

\* Ids come from one counter, so an object not made yet is nowhere.
OldObjects ==
  \A i \in Ids : \A o \in lost[i] \cup bag[i] \cup credited[i] : o.id < nextLoot

\* Only an object of the session at hand can be flagged.
CollectedHere == cur # None => collected \subseteq lost[cur]

\* An object on a map is in no bag, unless it has just been flagged.
LootInv == ObjectOnce /\ OldObjects /\ CollectedHere

\* What AddLostObjects adds is new, and it adds no more than one per id.
LEMMA AddedObjects ==
  ASSUME TypeOK, NEW objects \in SUBSET LostObjects, NEW n \in Nat,
         NEW new, new = AddLostObjects(objects, nextLoot .. nextLoot + n - 1)
  PROVE  /\ objects \subseteq new
         /\ \A o \in new \ objects : o.id >= nextLoot /\ o.id < nextLoot + n
BY DEF AddLostObjects, TypeOK

LEMMA InitLoot == Init => LootInv
BY DEF Init, LootInv, ObjectOnce, OldObjects, CollectedHere, Held, FreshProcess,
       FreshSessions, FreshDogs, NoTick, Empty

\* Objects are added to one map while nothing is flagged there.
LEMMA AddLoot ==
  ASSUME Inv, LootInv, Inv', NEW s \in Ids, NEW n \in Nat,
         NEW left \in SUBSET lost[s],
         lost' = [lost EXCEPT ![s] =
                    AddLostObjects(left, nextLoot .. nextLoot + n - 1)],
         nextLoot' = nextLoot + n, UNCHANGED <<bag, credited>>,
         cur' = None, \A d \in Ids : left \cap Held(d) = {},
         \A r \in Ids \ {s} : cur # r
  PROVE  LootInv'
<1> DEFINE new == AddLostObjects(left, nextLoot .. nextLoot + n - 1)
<1>1. /\ lost \in [Ids -> SUBSET LostObjects] /\ left \in SUBSET LostObjects
      /\ nextLoot \in Nat /\ TypeOK
  BY BoundsAssumption DEF Inv, TypeOK
<1>2. \A o \in LostObjects : o.id \in Nat
  BY BoundsAssumption DEF LostObjects, LootIds
<1>3. \A o \in new \ left : o.id >= nextLoot /\ o.id < nextLoot + n
  BY <1>1, AddedObjects
<1>4. lost' = [lost EXCEPT ![s] = new]
  OBVIOUS
<1> HIDE DEF new
<1>5. /\ lost'[s] = new
      /\ \A r \in Ids \ {s} : lost'[r] = lost[r]
  BY <1>1, <1>4
<1>6. \A i \in Ids : \A o \in lost[i] \cup bag[i] \cup credited[i] :
        o.id < nextLoot /\ o.id \in Nat
  BY <1>1, <1>2 DEF LootInv, OldObjects, Inv, TypeOK
<1>7. \A o \in new \ left, i \in Ids : o \notin lost[i] \cup bag[i] \cup credited[i]
  <2> SUFFICES ASSUME NEW o \in new \ left, NEW i \in Ids,
                      o \in lost[i] \cup bag[i] \cup credited[i]
               PROVE  FALSE
    OBVIOUS
  <2> QED
    BY <1>1, <1>3, <1>6
<1>8. \A r, q \in Ids : r # q => lost'[r] \cap lost'[q] = {}
  BY <1>1, <1>5, <1>7 DEF LootInv, ObjectOnce
<1>9. \A r, d \in Ids : lost'[r] \cap Held(d) = {}
  <2> SUFFICES ASSUME NEW r \in Ids, NEW d \in Ids
               PROVE  lost'[r] \cap Held(d) = {}
    OBVIOUS
  <2>1. CASE r = s
    BY <2>1, <1>5, <1>7 DEF Held
  <2>2. CASE r # s
    BY <2>2, <1>5 DEF LootInv, ObjectOnce
  <2> QED
    BY <2>1, <2>2
<1>10. ObjectOnce'
  BY <1>8, <1>9 DEF LootInv, ObjectOnce, Held
<1>11. OldObjects'
  <2> SUFFICES ASSUME NEW i \in Ids, NEW o \in lost'[i] \cup bag[i] \cup credited[i]
               PROVE  o.id < nextLoot + n
    BY DEF OldObjects
  <2>1. CASE o \in lost[i] \cup bag[i] \cup credited[i]
    BY <2>1, <1>1, <1>6
  <2>2. CASE o \notin lost[i] \cup bag[i] \cup credited[i]
    <3>1. i = s /\ o \in new \ left
      BY <2>2, <1>1, <1>5
    <3> QED
      BY <3>1, <1>3
  <2> QED
    BY <2>1, <2>2
<1> QED
  BY <1>10, <1>11 DEF LootInv, CollectedHere

LEMMA LootStep == Inv /\ LootInv /\ Inv' /\ [Next]_vars => LootInv'
<1> SUFFICES ASSUME Inv, LootInv, Inv', [Next]_vars PROVE LootInv'
  OBVIOUS
<1>1. ASSUME NEW m \in Maps, JoinGame(m) PROVE LootInv'
  <2>1. PICK s \in JoinableSessions(m) : GenerateLoot(s, 1)
    BY <1>1 DEF JoinGame
  <2>2. s \in Ids /\ phase = "idle" /\ UNCHANGED <<dogVars, tickVars>>
    BY <1>1 DEF JoinGame, JoinableSessions, OpenSessions, NewSession, Sessions
  <2>3. cur = None /\ cur' = None /\ UNCHANGED <<bag, credited>>
    BY <2>2 DEF Inv, TickShape, dogVars, tickVars
  <2>4. lost' = [lost EXCEPT ![s] =
                   AddLostObjects(lost[s], nextLoot .. nextLoot + 1 - 1)]
    BY <2>1, <2>2 DEF GenerateLoot, Inv, TypeOK
  <2>5. /\ \A d \in Ids : lost[s] \cap Held(d) = {}
        /\ \A r \in Ids : cur # r
    BY <2>2, <2>3, IdFacts DEF LootInv, ObjectOnce
  <2>6. nextLoot' = nextLoot + 1
    BY <2>1 DEF GenerateLoot
  <2> QED
    BY <2>2, <2>3, <2>4, <2>5, <2>6, AddLoot
<1>2. ASSUME NEW n \in Nat, FinishSession(n) PROVE LootInv'
  <2> DEFINE left == RemoveCollectedObjects(cur)
  <2>1. /\ cur \in Ids /\ cur' = None /\ UNCHANGED <<bag, credited>>
        /\ nextLoot' = nextLoot + n
    BY <1>2 DEF FinishSession, Inv, TypeOK, TickShape, Opt, dogVars
  <2>2. lost' = [lost EXCEPT ![cur] =
                   AddLostObjects(left, nextLoot .. nextLoot + n - 1)]
    BY <1>2 DEF FinishSession
  <2>3. /\ left \in SUBSET lost[cur]
        /\ \A d \in Ids : left \cap Held(d) = {}
    BY <2>1 DEF RemoveCollectedObjects, LootInv, ObjectOnce
  <2> HIDE DEF left
  <2> QED
    BY <2>1, <2>2, <2>3, AddLoot
<1>3. ASSUME NEW s \in Ids, MoveSession(s) PROVE LootInv'
  <2>1. /\ cur = None /\ collected = {} /\ cur' = s /\ s # None
        /\ UNCHANGED <<lost, bag, credited, nextLoot, collected>>
    BY <1>3, IdFacts
    DEF MoveSession, EnterSession, Inv, TickShape, idVars
  <2>2. ObjectOnce'
    BY <2>1 DEF LootInv, ObjectOnce, Held
  <2> QED
    BY <2>1, <2>2 DEF LootInv, OldObjects, CollectedHere
<1>4. ASSUME NEW d \in Ids, NEW written \in BOOLEAN, RetirePlayer(d, written)
      PROVE  LootInv'
  <2>1. /\ UNCHANGED <<lost, nextLoot, collected, cur>>
        /\ bag' = [bag EXCEPT ![d] = {}]
        /\ credited' = [credited EXCEPT ![d] = {}]
    BY <1>4 DEF RetirePlayer, DropDog, idVars, sessionVars
  <2>2. \A e \in Ids : bag'[e] \subseteq bag[e] /\ credited'[e] \subseteq credited[e]
    BY <2>1 DEF Inv, TypeOK
  <2>3. ObjectOnce'
    BY <2>1, <2>2 DEF LootInv, ObjectOnce, Held
  <2> QED
    BY <2>1, <2>2, <2>3 DEF LootInv, OldObjects, CollectedHere
<1>5. ASSUME NEW d \in Ids, NEW o \in LostObjects, GatherItem(d, o)
      PROVE  LootInv'
  <2>1. /\ UNCHANGED <<lost, nextLoot, cur, credited>>
        /\ cur \in Ids /\ o \in lost[cur] \ collected
        /\ collected' = collected \cup {o}
        /\ bag' = [bag EXCEPT ![d] = @ \cup {o}]
    BY <1>5
    DEF GatherItem, MayCollect, idVars, sessionVars, Inv, TypeOK, TickShape, Opt
  <2>2. /\ bag'[d] = bag[d] \cup {o}
        /\ \A e \in Ids \ {d} : bag'[e] = bag[e]
    BY <2>1 DEF Inv, TypeOK
  <2>3. \A e \in Ids : o \notin bag[e] \cup credited[e]
    BY <2>1 DEF LootInv, ObjectOnce, Held
  <2>4. \A r \in Ids \ {cur} : o \notin lost[r]
    BY <2>1 DEF LootInv, ObjectOnce
  <2>5. ObjectOnce'
    <3>1. \A e \in Ids : bag'[e] \cap credited[e] = {}
      BY <2>2, <2>3 DEF LootInv, ObjectOnce
    <3>2. \A e, f \in Ids : e # f =>
            (bag'[e] \cup credited[e]) \cap (bag'[f] \cup credited[f]) = {}
      BY <2>2, <2>3 DEF LootInv, ObjectOnce, Held
    <3>3. \A s, e \in Ids :
            lost[s] \cap (bag'[e] \cup credited[e])
              \subseteq IF s = cur THEN collected' ELSE {}
      BY <2>1, <2>2, <2>4 DEF LootInv, ObjectOnce, Held
    <3> QED
      BY <2>1, <3>1, <3>2, <3>3 DEF LootInv, ObjectOnce, Held
  <2>6. OldObjects'
    BY <2>1, <2>2 DEF LootInv, OldObjects
  <2> QED
    BY <2>1, <2>5, <2>6 DEF LootInv, CollectedHere
<1>6. ASSUME NEW d \in Ids, GatherOffice(d) PROVE LootInv'
  <2>1. /\ UNCHANGED <<lost, nextLoot, cur, collected>>
        /\ credited' = [credited EXCEPT ![d] = @ \cup bag[d]]
        /\ bag' = [bag EXCEPT ![d] = {}]
    BY <1>6 DEF GatherOffice, idVars, sessionVars, tickVars
  <2>2. /\ bag'[d] = {} /\ credited'[d] = credited[d] \cup bag[d]
        /\ \A e \in Ids \ {d} : bag'[e] = bag[e] /\ credited'[e] = credited[e]
    BY <2>1 DEF Inv, TypeOK
  <2>3. \A e \in Ids : bag'[e] \cup credited'[e] = bag[e] \cup credited[e]
    BY <2>2
  <2>4. ObjectOnce'
    BY <2>1, <2>2, <2>3 DEF LootInv, ObjectOnce, Held
  <2>5. OldObjects'
    BY <2>1, <2>3 DEF LootInv, OldObjects
  <2> QED
    BY <2>1, <2>4, <2>5 DEF LootInv, CollectedHere
<1>7. ASSUME UNCHANGED <<lost, bag, credited, nextLoot, cur, collected>>
      PROVE  LootInv'
  BY <1>7 DEF LootInv, ObjectOnce, OldObjects, CollectedHere, Held
<1>8. CASE Request
  BY <1>8, <1>1, <1>7
  DEF Request, PlayerAction, TickStart, idVars, sessionVars, dogVars, tickVars
<1>9. CASE TickStep
  BY <1>9, <1>2, <1>3, <1>4, <1>5, <1>6, BoundsAssumption DEF TickStep
<1>10. CASE TickEnd \/ UNCHANGED vars
  BY <1>10, <1>7
  DEF TickEnd, vars, idVars, sessionVars, dogVars, tickVars
<1> QED
  BY <1>8, <1>9, <1>10 DEF Next

\* A lost object is on one map, in one bag or in one score, never in two.
THEOREM ObjectOnceHolds == Spec => []ObjectOnce
<1>1. LootInv => ObjectOnce
  BY DEF LootInv
<1> QED
  BY InvHolds, InitLoot, LootStep, <1>1, PTL DEF Spec

----------------------------------------------------------------------------
(* Capacities *)

LEMMA FiniteIds ==
  /\ IsFiniteSet(Ids)
  /\ \A S \in SUBSET Ids : IsFiniteSet(S) /\ Cardinality(S) \in Nat
<1>1. IsFiniteSet(Ids)
  BY FS_Interval, BoundsAssumption DEF Ids
<1> QED
  BY <1>1, FS_Subset, FS_CardinalityType

\* The dogs of a session are players who have joined.
LEMMA DogsJoined ==
  ASSUME Inv, NEW s \in Ids
  PROVE  /\ IsFiniteSet(sessionDogs[s]) /\ Cardinality(sessionDogs[s]) \in Nat
         /\ Cardinality(sessionDogs[s]) <= joins
<1>1. sessionDogs[s] \subseteq Ids
  BY DEF Inv, TypeOK
<1>2. sessionDogs[s] \subseteq 0 .. joins - 1
  BY <1>1, BoundsAssumption, IdFacts
  DEF Inv, TypeOK, DogsListed, SessionLists, Numbering
<1>3. IsFiniteSet(0 .. joins - 1) /\ Cardinality(0 .. joins - 1) = joins
  <2>1. joins \in Nat /\ joins - 1 \in Int
    BY BoundsAssumption DEF Inv, TypeOK
  <2>2. /\ IsFiniteSet(0 .. joins - 1)
        /\ Cardinality(0 .. joins - 1) =
             IF 0 > joins - 1 THEN 0 ELSE (joins - 1) - 0 + 1
    BY <2>1, FS_Interval
  <2> QED
    BY <2>1, <2>2
<1> QED
  BY <1>1, <1>2, <1>3, FiniteIds, FS_Subset

\* The dogs of a session and the bag of a dog, sets to count.
Bounded ==
  /\ \A s \in Ids : Cardinality(sessionDogs[s]) <= MaxDogs
  /\ \A d \in Ids : IsFiniteSet(bag[d]) /\ Cardinality(bag[d]) <= BagCapacity

LEMMA InitBounded == Init => Bounded
BY FS_EmptySet, BoundsAssumption
DEF Init, Bounded, FreshProcess, FreshSessions, FreshDogs, Empty

LEMMA JoinBounded ==
  ASSUME Inv, Bounded, NEW m \in Maps, JoinGame(m)
  PROVE  Bounded'
<1>1. PICK s \in JoinableSessions(m) :
        sessionDogs' = [sessionDogs EXCEPT ![s] = @ \cup {nextDog}]
  BY DEF JoinGame
<1>2. s \in Ids /\ UNCHANGED bag
  BY DEF JoinGame, JoinableSessions, OpenSessions, NewSession, Sessions, dogVars
<1>3. Cardinality(sessionDogs[s]) < MaxDogs
  <2>1. CASE s \in OpenSessions(m)
    BY <2>1, <1>2, DogsJoined, BoundsAssumption
    DEF OpenSessions, IsSessionFull, Bounded
  <2>2. CASE s = nextSession
    <3>1. sessionDogs[s] = {}
      <4> SUFFICES ASSUME NEW d \in sessionDogs[s] PROVE FALSE
        OBVIOUS
      <4>1. d \in Ids /\ d \in sessionPlayers[s]
        BY <1>2 DEF Inv, TypeOK, DogsListed
      <4>2. playerSession[d] = s /\ playerSession[d] < nextSession
        BY <4>1, <1>2 DEF Inv, SessionLists, Numbering
      <4> QED
        BY <4>2, <2>2, <1>2, IdFacts
    <3> QED
      BY <3>1, FS_EmptySet, BoundsAssumption
  <2> QED
    BY <2>1, <2>2 DEF JoinableSessions, NewSession
<1>4. Cardinality(sessionDogs[s] \cup {nextDog}) <= MaxDogs
  <2>1. IsFiniteSet(sessionDogs[s]) /\ Cardinality(sessionDogs[s]) \in Nat
    BY <1>2, DogsJoined
  <2>2. Cardinality(sessionDogs[s] \cup {nextDog}) =
          IF nextDog \in sessionDogs[s] THEN Cardinality(sessionDogs[s])
          ELSE Cardinality(sessionDogs[s]) + 1
    BY <2>1, FS_AddElement
  <2> QED
    BY <1>3, <2>1, <2>2, BoundsAssumption
<1>5. sessionDogs \in [Ids -> SUBSET Ids]
  BY DEF Inv, TypeOK
<1> QED
  BY <1>1, <1>2, <1>4, <1>5 DEF Bounded

LEMMA GatherItemBounded ==
  ASSUME Inv, Bounded, NEW d \in Ids, NEW o \in LostObjects, GatherItem(d, o)
  PROVE  Bounded'
<1>1. bag' = [bag EXCEPT ![d] = @ \cup {o}] /\ UNCHANGED sessionDogs
  BY DEF GatherItem, sessionVars
<1>2. IsFiniteSet(bag[d]) /\ Cardinality(bag[d]) \in Nat
  BY FS_CardinalityType DEF Bounded
<1>3. ~(Cardinality(bag[d]) >= BagCapacity)
  BY DEF GatherItem, MayCollect, IsFull
<1>4. IsFiniteSet(bag[d] \cup {o}) /\ Cardinality(bag[d] \cup {o}) <= BagCapacity
  <2>1. /\ IsFiniteSet(bag[d] \cup {o})
        /\ Cardinality(bag[d] \cup {o}) =
             IF o \in bag[d] THEN Cardinality(bag[d]) ELSE Cardinality(bag[d]) + 1
    BY <1>2, FS_AddElement
  <2> QED
    BY <1>2, <1>3, <2>1, BoundsAssumption
<1>5. bag \in [Ids -> SUBSET LostObjects]
  BY DEF Inv, TypeOK
<1> QED
  BY <1>1, <1>4, <1>5 DEF Bounded

\* Every other step only takes dogs out of dogs_, or empties a bag.
LEMMA ShrinkBounded ==
  ASSUME Inv, Bounded,
         \A i \in Ids : /\ sessionDogs'[i] \subseteq sessionDogs[i]
                        /\ bag'[i] \in {bag[i], {}}
  PROVE  Bounded'
<1>1. ASSUME NEW s \in Ids PROVE Cardinality(sessionDogs'[s]) <= MaxDogs
  <2>1. /\ Cardinality(sessionDogs'[s]) <= Cardinality(sessionDogs[s])
        /\ Cardinality(sessionDogs'[s]) \in Nat
    BY DogsJoined, FS_Subset, FS_CardinalityType
  <2> QED
    BY <2>1, DogsJoined, BoundsAssumption DEF Bounded
<1>2. ASSUME NEW d \in Ids
      PROVE  IsFiniteSet(bag'[d]) /\ Cardinality(bag'[d]) <= BagCapacity
  BY FS_EmptySet, BoundsAssumption DEF Bounded
<1> QED
  BY <1>1, <1>2 DEF Bounded

LEMMA BoundedStep == Inv /\ Bounded /\ [Next]_vars => Bounded'
<1> SUFFICES ASSUME Inv, Bounded, [Next]_vars PROVE Bounded'
  OBVIOUS
<1>1. ASSUME NEW s \in Ids, MoveSession(s) PROVE Bounded'
  BY <1>1, ShrinkBounded DEF MoveSession, RemoveInactiveDogs, Inv, TypeOK
<1>2. ASSUME NEW d \in Ids, NEW written \in BOOLEAN, RetirePlayer(d, written)
      PROVE  Bounded'
  BY <1>2, ShrinkBounded DEF RetirePlayer, DropDog, sessionVars, Inv, TypeOK
<1>3. ASSUME NEW d \in Ids, GatherOffice(d) PROVE Bounded'
  BY <1>3, ShrinkBounded DEF GatherOffice, sessionVars, Inv, TypeOK
<1>4. ASSUME UNCHANGED <<sessionDogs, bag>> PROVE Bounded'
  BY <1>4 DEF Bounded
<1>5. CASE Request
  BY <1>5, <1>4, JoinBounded
  DEF Request, PlayerAction, TickStart, sessionVars, dogVars
<1>6. CASE TickStep
  BY <1>6, <1>1, <1>2, <1>3, <1>4, GatherItemBounded, BoundsAssumption
  DEF TickStep, FinishSession, dogVars
<1>7. CASE TickEnd \/ UNCHANGED vars
  BY <1>7, <1>4 DEF TickEnd, vars, sessionVars, dogVars
<1> QED
  BY <1>5, <1>6, <1>7 DEF Next

\* max_dogs_amount_ and the capacity of a bag hold after every step.
THEOREM CapacityHeldHolds == Spec => []CapacityHeld
<1>1. Bounded => CapacityHeld
  BY DEF Bounded, CapacityHeld
<1> QED
  BY InvHolds, InitBounded, BoundedStep, <1>1, PTL DEF Spec

----------------------------------------------------------------------------
(* How many objects lie on a map *)

\* AddLostObjects adds at most one object per id.
LEMMA AddedCount ==
  ASSUME TypeOK, NEW objects \in SUBSET LostObjects, IsFiniteSet(objects),
         NEW n \in Nat
  PROVE  LET new == AddLostObjects(objects, nextLoot .. nextLoot + n - 1)
         IN  /\ IsFiniteSet(new) /\ Cardinality(new) \in Nat
             /\ Cardinality(new) <= Cardinality(objects) + n
<1> DEFINE ids == {k \in nextLoot .. nextLoot + n - 1 : \A o \in objects : o.id # k}
           added == {[id |-> i, boot |-> boot] : i \in ids}
           f == [o \in added |-> o.id]
<1>1. IsFiniteSet(ids) /\ Cardinality(ids) <= n
  <2>1. nextLoot \in Nat
    BY BoundsAssumption DEF TypeOK
  <2>2. /\ IsFiniteSet(nextLoot .. nextLoot + n - 1)
        /\ Cardinality(nextLoot .. nextLoot + n - 1) = n
    BY <2>1, FS_Interval
  <2> QED
    BY <2>2, FS_Subset
<1>2. f \in Injection(added, ids)
  BY DEF Injection, IsInjective
<1>3. IsFiniteSet(added) /\ Cardinality(added) <= n
  <2> HIDE DEF ids, added, f
  <2>1. IsFiniteSet(added) /\ Cardinality(added) <= Cardinality(ids)
    BY <1>1, <1>2, FS_Injection
  <2> QED
    BY <1>1, <2>1, FS_CardinalityType
<1>4. AddLostObjects(objects, nextLoot .. nextLoot + n - 1) = objects \cup added
  BY DEF AddLostObjects
<1> HIDE DEF ids, added, f
<1>5. /\ IsFiniteSet(objects \cup added)
      /\ Cardinality(objects \cup added) =
           Cardinality(objects) + Cardinality(added) - Cardinality(objects \cap added)
      /\ IsFiniteSet(objects \cap added)
  BY <1>3, FS_Union, FS_Subset
<1> QED
  <2>1. /\ Cardinality(objects) \in Nat /\ Cardinality(added) \in Nat
        /\ Cardinality(objects \cap added) \in Nat
        /\ Cardinality(objects \cup added) \in Nat
    BY <1>3, <1>5, FS_CardinalityType
  <2>2. Cardinality(objects \cup added) <= Cardinality(objects) + n
    BY <1>3, <1>5, <2>1
  <2> QED
    BY <1>4, <1>5, <2>1, <2>2

Counted ==
  \A s \in Ids : IsFiniteSet(lost[s]) /\ Cardinality(lost[s]) <= joins

LEMMA InitCounted == Init => Counted
BY FS_EmptySet DEF Init, Counted, FreshProcess, FreshSessions, Empty

LEMMA CountedStep == Inv /\ Counted /\ [Next]_vars => Counted'
<1> SUFFICES ASSUME Inv, Counted, [Next]_vars PROVE Counted'
  OBVIOUS
<1>1. /\ TypeOK /\ joins \in Nat /\ lost \in [Ids -> SUBSET LostObjects]
      /\ \A s \in Ids : lost[s] \in SUBSET LostObjects
  BY BoundsAssumption DEF Inv, TypeOK
<1>2. ASSUME NEW m \in Maps, JoinGame(m) PROVE Counted'
  <2>1. PICK s \in JoinableSessions(m) : GenerateLoot(s, 1)
    BY <1>2 DEF JoinGame
  <2>2. s \in Ids /\ joins' = joins + 1
    BY <1>2 DEF JoinGame, JoinableSessions, OpenSessions, NewSession, Sessions
  <2> DEFINE new == AddLostObjects(lost[s], nextLoot .. nextLoot + 1 - 1)
  <2>3. lost' = [lost EXCEPT ![s] = new]
    BY <2>1, <2>2, <1>1 DEF GenerateLoot
  <2>4. IsFiniteSet(new) /\ Cardinality(new) <= Cardinality(lost[s]) + 1
    BY <1>1, <2>2, AddedCount DEF Counted
  <2> HIDE DEF new
  <2>5. \A r \in Ids : IsFiniteSet(lost[r]) /\ Cardinality(lost[r]) \in Nat
    BY FS_CardinalityType DEF Counted
  <2>6. IsFiniteSet(new) /\ Cardinality(new) \in Nat /\ Cardinality(new) <= joins + 1
    BY <1>1, <2>2, <2>4, <2>5, FS_CardinalityType DEF Counted
  <2> QED
    BY <1>1, <2>2, <2>3, <2>5, <2>6 DEF Counted
<1>3. ASSUME NEW n \in Nat, FinishSession(n) PROVE Counted'
  <2> DEFINE left == RemoveCollectedObjects(cur)
             new == AddLostObjects(left, nextLoot .. nextLoot + n - 1)
  <2>1. /\ cur \in Ids /\ joins' = joins /\ lost' = [lost EXCEPT ![cur] = new]
        /\ WithinShortage(Cardinality(left), n)
    BY <1>3 DEF FinishSession, Inv, TypeOK, TickShape, Opt
  <2>2. left \in SUBSET lost[cur] /\ left \in SUBSET LostObjects
    BY <2>1, <1>1 DEF RemoveCollectedObjects
  <2>3. /\ IsFiniteSet(left) /\ Cardinality(left) \in Nat
        /\ Cardinality(left) <= joins
    BY <1>1, <2>1, <2>2, FS_Subset, FS_CardinalityType DEF Counted
  <2>4. Cardinality(left) + n <= joins
    BY <1>1, <2>1, <2>3, DogsJoined DEF WithinShortage
  <2>5. /\ IsFiniteSet(new) /\ Cardinality(new) \in Nat
        /\ Cardinality(new) <= Cardinality(left) + n
    BY <1>1, <2>2, <2>3, AddedCount
  <2> HIDE DEF left, new
  <2> QED
    BY <1>1, <2>1, <2>3, <2>4, <2>5 DEF Counted
<1>4. ASSUME UNCHANGED <<lost, joins>> PROVE Counted'
  BY <1>4 DEF Counted
<1>5. CASE Request
  BY <1>5, <1>2, <1>4
  DEF Request, PlayerAction, TickStart, idVars, sessionVars
<1>6. CASE TickStep
  <2>1. ASSUME NEW s \in Ids, MoveSession(s) PROVE Counted'
    BY <2>1, <1>4 DEF MoveSession, idVars
  <2>2. ASSUME NEW d \in Ids, NEW written \in BOOLEAN, RetirePlayer(d, written)
        PROVE  Counted'
    BY <2>2, <1>4 DEF RetirePlayer, idVars, sessionVars
  <2>3. ASSUME NEW d \in Ids, NEW o \in LostObjects,
               GatherItem(d, o)
        PROVE  Counted'
    BY <2>3, <1>4 DEF GatherItem, idVars, sessionVars
  <2>4. ASSUME NEW d \in Ids, GatherOffice(d) PROVE Counted'
    BY <2>4, <1>4 DEF GatherOffice, idVars, sessionVars
  <2> QED
    BY <1>6, <1>3, <2>1, <2>2, <2>3, <2>4, BoundsAssumption DEF TickStep
<1>7. CASE TickEnd \/ UNCHANGED vars
  BY <1>7, <1>4 DEF TickEnd, vars, idVars, sessionVars
<1> QED
  BY <1>5, <1>6, <1>7 DEF Next

\* The loot of a map never outgrows the players that have ever joined.
THEOREM LootBoundedHolds == Spec => []LootBounded
<1>1. Counted => LootBounded
  BY DEF Counted, LootBounded
<1> QED
  BY InvHolds, InitCounted, CountedStep, <1>1, PTL DEF Spec

----------------------------------------------------------------------------
(* Rooms: a join is an Enter, a retirement is a Leave, and every other step of *)
(* the server is invisible there. *)

\* The room of a client, without the detour through its token.
LEMMA RoomFacts ==
  ASSUME Inv
  PROVE  RoomOf = [t \in Ids |-> IF t \in players THEN playerSession[t] ELSE None]
BY IdFacts DEF Inv, TypeOK, Numbering, RoomOf

\* The instance has its own copy of the operator of FiniteSets.
LEMMA SameCardinality == ASSUME NEW S PROVE R!Cardinality(S) = Cardinality(S)
BY DEF R!Cardinality, Cardinality

LEMMA InitRooms == Init => R!RoomsInit
BY BoundsAssumption
DEF Init, FreshProcess, FreshPlayers, Nowhere, RoomOf, R!RoomsInit

LEMMA JoinEnters ==
  ASSUME Inv, Bounded, Inv', NEW m \in Maps, JoinGame(m)
  PROVE  \E c \in Ids, r \in Ids : R!Enter(c, r)
<1>1. PICK s \in JoinableSessions(m) :
        /\ joins' = joins + 1 /\ players' = players \cup {joins}
        /\ playerSession' = [playerSession EXCEPT ![joins] = s]
        /\ sessionDogs' = [sessionDogs EXCEPT ![s] = @ \cup {joins}]
  BY DEF JoinGame, Inv, Numbering
<1>2. /\ s \in Ids /\ phase = "idle" /\ joins < MaxJoins /\ UNCHANGED records
  BY DEF JoinGame, JoinableSessions, OpenSessions, NewSession, Sessions
<1>3. joins \in Ids /\ joins \notin players
  BY <1>2, BoundsAssumption, IdFacts DEF Inv, TypeOK, Numbering
<1>4. R!Members(s) = sessionDogs[s]
  <2>1. sessionDogs[s] = sessionPlayers[s]
    BY <1>2, IdFacts DEF Inv, TickShape, DogsListed, Leaving
  <2>2. R!Members(s) = {c \in Ids : c \in players /\ playerSession[c] = s}
    BY <1>2, RoomFacts, IdFacts DEF R!Members
  <2> QED
    BY <2>1, <2>2, <1>2 DEF Inv, TypeOK, SessionLists
<1>5. Cardinality(R!Members(s)) < MaxDogs
  <2>1. joins \notin sessionDogs[s]
    BY <1>2, <1>3 DEF Inv, TypeOK, DogsListed, SessionLists
  <2>2. IsFiniteSet(sessionDogs[s]) /\ Cardinality(sessionDogs[s]) \in Nat
    BY <1>2, DogsJoined
  <2>3. Cardinality(sessionDogs[s] \cup {joins}) = Cardinality(sessionDogs[s]) + 1
    BY <2>1, <2>2, FS_AddElement
  <2>4. Cardinality(sessionDogs'[s]) <= MaxDogs
    BY <1>2, JoinBounded DEF Bounded
  <2>5. sessionDogs'[s] = sessionDogs[s] \cup {joins}
    BY <1>1, <1>2 DEF Inv, TypeOK
  <2> QED
    BY <1>4, <2>2, <2>3, <2>4, <2>5, BoundsAssumption
<1>6. 0 .. joins' - 1 = (0 .. joins - 1) \cup {joins} /\ joins \notin 0 .. joins - 1
  BY <1>1, BoundsAssumption DEF Inv, TypeOK
<1>7. RoomOf' = [RoomOf EXCEPT ![joins] = s]
  <2>1. RoomOf' = [t \in Ids |-> IF t \in players' THEN playerSession'[t] ELSE None]
    BY IdFacts DEF Inv, TypeOK, Numbering, RoomOf
  <2> QED
    BY <1>1, <1>2, <1>3, <2>1, RoomFacts DEF Inv, TypeOK
<1>8. R!Enter(joins, s)
  BY <1>2, <1>5, <1>6, <1>7, SameCardinality DEF R!Enter
<1> QED
  BY <1>2, <1>3, <1>8

LEMMA RetirementLeaves ==
  ASSUME Inv, Inv', NEW d \in Ids, NEW written \in BOOLEAN,
         RetirePlayer(d, written)
  PROVE  \E c \in Ids, w \in BOOLEAN : R!Leave(c, w)
<1>1. /\ {p \in players : playerDog[p] = d} = {d}
      /\ d \in players /\ name[d] = d /\ playerSession[d] \in Ids
  BY OneOwner DEF RetirePlayer
<1>2. /\ players' = players \ {d} /\ UNCHANGED joins
      /\ playerSession' = [p \in Ids |-> IF p = d THEN None ELSE playerSession[p]]
      /\ WriteRecord({d}, written)
  BY <1>1 DEF RetirePlayer, idVars
<1>3. RoomOf' = [RoomOf EXCEPT ![d] = None]
  <2>1. RoomOf' = [t \in Ids |-> IF t \in players' THEN playerSession'[t] ELSE None]
    BY IdFacts DEF Inv, TypeOK, Numbering, RoomOf
  <2> QED
    BY <1>1, <1>2, <2>1, RoomFacts DEF Inv, TypeOK
<1>4. RoomOf[d] # None
  BY <1>1, RoomFacts, IdFacts
<1>5. records' = IF written THEN [records EXCEPT ![d] = 1] ELSE records
  <2>1. records[d] = 0 /\ records \in [Ids -> Nat]
    BY <1>1 DEF Inv, RowsCounted, TypeOK
  <2>2. records' = [n \in Ids |-> IF written /\ n = d THEN records[n] + 1
                                  ELSE records[n]]
    BY <1>1, <1>2 DEF WriteRecord
  <2>3. CASE written
    <3>1. records' = [n \in Ids |-> IF n = d THEN 1 ELSE records[n]]
      BY <2>1, <2>2, <2>3
    <3> QED
      BY <2>1, <2>3, <3>1
  <2>4. CASE ~written
    BY <2>1, <2>2, <2>4
  <2> QED
    BY <2>3, <2>4
<1> QED
  BY <1>2, <1>3, <1>4, <1>5 DEF R!Leave

LEMMA RoomsStep ==
  Inv /\ Bounded /\ Inv' /\ [Next]_vars => [R!RoomsNext]_R!roomVars
<1> SUFFICES ASSUME Inv, Bounded, Inv', [Next]_vars
             PROVE  R!RoomsNext \/ UNCHANGED R!roomVars
  OBVIOUS
<1>1. ASSUME UNCHANGED <<joins, tokens, playerSession, records>>
      PROVE  UNCHANGED R!roomVars
  BY <1>1 DEF R!roomVars, RoomOf
<1>2. ASSUME NEW m \in Maps, JoinGame(m) PROVE R!RoomsNext
  BY <1>2, JoinEnters DEF R!RoomsNext
<1>3. ASSUME NEW d \in Ids, NEW written \in BOOLEAN, RetirePlayer(d, written)
      PROVE  R!RoomsNext
  BY <1>3, RetirementLeaves DEF R!RoomsNext
<1>4. CASE Request
  BY <1>4, <1>1, <1>2
  DEF Request, PlayerAction, TickStart, idVars, playerVars
<1>5. CASE TickStep
  <2>1. ASSUME NEW s \in Ids, MoveSession(s) PROVE UNCHANGED R!roomVars
    BY <2>1, <1>1 DEF MoveSession, idVars, playerVars
  <2>2. ASSUME NEW d \in Ids, NEW o \in LostObjects, GatherItem(d, o)
        PROVE  UNCHANGED R!roomVars
    BY <2>2, <1>1 DEF GatherItem, idVars, playerVars
  <2>3. ASSUME NEW d \in Ids, GatherOffice(d) PROVE UNCHANGED R!roomVars
    BY <2>3, <1>1 DEF GatherOffice, idVars, playerVars
  <2>4. ASSUME NEW n \in Nat, FinishSession(n) PROVE UNCHANGED R!roomVars
    BY <2>4, <1>1 DEF FinishSession, playerVars
  <2> QED
    BY <1>5, <1>3, <2>1, <2>2, <2>3, <2>4, BoundsAssumption DEF TickStep
<1>6. CASE TickEnd \/ UNCHANGED vars
  BY <1>6, <1>1 DEF TickEnd, vars, idVars, playerVars
<1> QED
  BY <1>4, <1>5, <1>6 DEF Next

\* A client enters one room that is not full, stays, and leaves at most one row.
THEOREM ImplementsRoomsHolds == Spec => ImplementsRooms
<1>1. Spec => []Bounded
  BY InvHolds, InitBounded, BoundedStep, PTL DEF Spec
<1> QED
  BY <1>1, InvHolds, InitRooms, RoomsStep, PTL
  DEF Spec, ImplementsRooms, R!RoomsSpec
=============================================================================
