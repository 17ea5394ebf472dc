---------------------------- MODULE Application ----------------------------
(***************************************************************************)
(* The game proper: application::Application with the model classes it     *)
(* drives (GameSession, Dog, Bag, LostObject) and the table of records.    *)
(*                                                                         *)
(* Every handler that reaches this state runs on one strand (api_strand),  *)
(* so the state changes of a request are one action.  Application::Tick is *)
(* cut where its outcome branches: moving a session's dogs, retiring each  *)
(* inactive one (a row goes to the database), each gathering event, the    *)
(* rest of the session, the return.  Join and player actions wait for      *)
(* phase "idle", as the strand makes them; Persistence.tla lets the        *)
(* process crash at any cut.                                               *)
(*                                                                         *)
(* Abstracted data: positions (a moving dog may pass any lost object and   *)
(* any office of its map, in any order; DogMovement and CollisionDetector  *)
(* say which it really passes), user names and tokens (the number of the   *)
(* JoinGame call that brought them; a 128 bit random token is taken never  *)
(* to repeat), an object's value (a score is the set of objects credited). *)
(***************************************************************************)
EXTENDS Integers, FiniteSets

CONSTANTS
  Maps,            \* the maps of the configuration file
  MaxDogs,         \* GameSession::max_dogs_amount_
  BagCapacity,     \* Map::GetBagCapacityOnMap
  RetirementTime,  \* Game::GetMaxInactivityTime
  Deltas,          \* the time deltas of Ticks; POST /game/tick takes any number
  InsertOutcomes,  \* how the INSERT of a record may end: TRUE, FALSE or both
  MaxJoins,        \* bound: JoinGame calls in a behaviour
  MaxLoot,         \* bound: lost object ids handed out by one process
  MaxDebt,         \* bound: how far below 0 negative deltas take idle times
  MaxBoots,        \* bound: restarts of the process (0 in this module)
  None             \* a null pointer, an absent map entry

ASSUME BoundsAssumption ==
  /\ MaxJoins \in Nat /\ MaxLoot \in Nat /\ MaxBoots \in Nat
  /\ MaxDogs \in Nat \ {0}
  /\ BagCapacity \in Nat /\ RetirementTime \in Nat
  /\ Deltas \subseteq Int /\ MaxDebt \in Nat
  /\ InsertOutcomes \subseteq BOOLEAN

ASSUME NoneAssumption == None \notin Nat /\ None \notin Maps

Ids == 0 .. MaxJoins - 1     \* player, dog and session ids; names; tokens
LootIds == 0 .. MaxLoot - 1
Boots == 0 .. MaxBoots

\* Two objects with the same id made by different runs of the process differ.
LostObjects == [id : LootIds, boot : Boots]

Opt(S) == S \cup {None}

\* No Tick is running; Tick is between two sessions; it is in session cur
\* (retiring while inactive # {}, then colliding); the process is down.
Phases == {"idle", "sessions", "session", "down"}

VARIABLES
  joins,           \* JoinGame calls so far, over all runs (history)
  boot,            \* restarts so far (history)
  nextPlayer,      \* Player::players_ids_
  nextDog,         \* Dog::dogs_ids_
  nextSession,     \* GameSession::sessions_ids_
  nextLoot,        \* GameSession::lost_objects_ids_
  players,         \* Application::players_
  name,            \* Player::name_
  playerSession,   \* Player::session_
  playerDog,       \* Player::dog_
  tokens,          \* PlayerTokens::token_to_player_
  sessionPlayers,  \* Application::session_id_to_players_
  sessionMap,      \* Game::map_id_to_sessions_, inverted
  sessionDogs,     \* GameSession::dogs_
  lost,            \* GameSession::lost_objects_
  moving,          \* Dog::speed_ is not zero
  idle,            \* Dog::time_since_last_move_
  bag,             \* Dog::bag_
  credited,        \* Dog::score_, as the set of objects it sums up
  records,         \* rows of the database, per name
  phase,           \* what Application::Tick does next
  delta,           \* time_delta of the running Tick
  todo,            \* sessions the running Tick has not reached
  cur,             \* the session the running Tick is in
  inactive,        \* inactive_dogs not retired yet
  gatherers,       \* dogs of `cur' whose position may have changed
  collected        \* lost objects of `cur' with is_collected_ set

idVars == <<joins, boot, nextPlayer, nextDog, nextSession, nextLoot>>
playerVars == <<players, name, playerSession, playerDog, tokens, sessionPlayers>>
sessionVars == <<sessionMap, sessionDogs, lost>>
dogVars == <<moving, idle, bag, credited>>
tickVars == <<phase, delta, todo, cur, inactive, gatherers, collected>>
vars == <<idVars, playerVars, sessionVars, dogVars, records, tickVars>>

Sessions == {s \in Ids : sessionMap[s] # None}

TypeOK ==
  /\ joins \in 0 .. MaxJoins /\ boot \in Boots
  /\ nextPlayer \in 0 .. MaxJoins /\ nextDog \in 0 .. MaxJoins
  /\ nextSession \in 0 .. MaxJoins /\ nextLoot \in 0 .. MaxLoot
  /\ players \subseteq Ids
  /\ name \in [Ids -> Opt(Ids)]
  /\ playerSession \in [Ids -> Opt(Ids)]
  /\ playerDog \in [Ids -> Opt(Ids)]
  /\ tokens \in [Ids -> Opt(Ids)]
  /\ sessionPlayers \in [Ids -> SUBSET Ids]
  /\ sessionMap \in [Ids -> Opt(Maps)]
  /\ sessionDogs \in [Ids -> SUBSET Ids]
  /\ lost \in [Ids -> SUBSET LostObjects]
  /\ moving \in [Ids -> BOOLEAN] /\ idle \in [Ids -> Int]
  /\ bag \in [Ids -> SUBSET LostObjects]
  /\ credited \in [Ids -> SUBSET LostObjects]
  /\ records \in [Ids -> Nat]
  /\ phase \in Phases /\ delta \in Deltas \cup {0}
  /\ todo \subseteq Ids /\ cur \in Opt(Ids) /\ inactive \subseteq Ids
  /\ gatherers \subseteq Ids /\ collected \subseteq LostObjects

Empty == [i \in Ids |-> {}]
Nowhere == [i \in Ids |-> None]

\* A process that has just constructed its Application.
FreshIds == nextPlayer = 0 /\ nextDog = 0 /\ nextSession = 0 /\ nextLoot = 0
FreshPlayers ==
  /\ players = {} /\ name = Nowhere /\ playerSession = Nowhere
  /\ playerDog = Nowhere /\ tokens = Nowhere /\ sessionPlayers = Empty
FreshSessions == sessionMap = Nowhere /\ sessionDogs = Empty /\ lost = Empty
FreshDogs ==
  /\ moving = [d \in Ids |-> FALSE] /\ idle = [d \in Ids |-> 0]
  /\ bag = Empty /\ credited = Empty
NoTick ==
  /\ delta = 0 /\ todo = {} /\ cur = None
  /\ inactive = {} /\ gatherers = {} /\ collected = {}

FreshProcess == FreshIds /\ FreshPlayers /\ FreshSessions /\ FreshDogs

Init ==
  /\ joins = 0 /\ boot = 0 /\ FreshProcess
  /\ records = [n \in Ids |-> 0]
  /\ phase = "idle" /\ NoTick

----------------------------------------------------------------------------
(* Lost objects and bags *)

\* unordered_map::emplace keeps the entry an id already has.
AddLostObjects(objects, ids) ==
  objects \cup {[id |-> i, boot |-> boot] :
                  i \in {k \in ids : \A o \in objects : o.id # k}}

\* GenerateLoot(count) on session s: consecutive ids from the global counter.
GenerateLoot(s, count) ==
  /\ nextLoot + count <= MaxLoot
  /\ lost' = [lost EXCEPT ![s] =
                AddLostObjects(@, nextLoot .. nextLoot + count - 1)]
  /\ nextLoot' = nextLoot + count

IsFull(d) == Cardinality(bag[d]) >= BagCapacity

IsSessionFullLate(s) == Cardinality(sessionDogs[s]) = MaxDogs + 1
IsSessionFull(s) == Cardinality(sessionDogs[s]) = MaxDogs

IsInactiveEither(running, time) == ~running \/ time >= RetirementTime
IsInactive(running, time) == ~running /\ time >= RetirementTime

----------------------------------------------------------------------------
(* Requests *)

\* FindSession, and a new session when it returns null.
NewSession == {nextSession} \cap Ids
OpenSessions(m) == {s \in Sessions : sessionMap[s] = m /\ ~IsSessionFull(s)}
JoinableSessions(m) ==
  IF OpenSessions(m) # {} THEN OpenSessions(m) ELSE NewSession

JoinGame(m) ==
  /\ phase = "idle" /\ joins < MaxJoins
  /\ \E s \in JoinableSessions(m) :
       LET p == nextPlayer
           d == nextDog
       IN /\ joins' = joins + 1
          /\ nextPlayer' = p + 1 /\ nextDog' = d + 1
          /\ nextSession' = IF s = nextSession THEN s + 1 ELSE nextSession
          /\ players' = players \cup {p}
          /\ name' = [name EXCEPT ![p] = joins]
          /\ tokens' = [tokens EXCEPT ![joins] = p]
          /\ sessionMap' = [sessionMap EXCEPT ![s] = m]
          /\ sessionPlayers' = [sessionPlayers EXCEPT ![s] = @ \cup {p}]
          /\ playerSession' = [playerSession EXCEPT ![p] = s]
          /\ playerDog' = [playerDog EXCEPT ![p] = d]
          /\ sessionDogs' = [sessionDogs EXCEPT ![s] = @ \cup {d}]
          /\ GenerateLoot(s, 1)
  /\ UNCHANGED <<boot, dogVars, records, tickVars>>

\* A player action: an unknown token changes nothing, "" stops the dog.
PlayerAction(t, go) ==
  /\ phase = "idle" /\ tokens[t] # None
  /\ moving' = [moving EXCEPT ![playerDog[tokens[t]]] = go]
  /\ UNCHANGED <<idVars, playerVars, sessionVars, idle, bag, credited,
                 records, tickVars>>

\* GET players and GET state of a known token: the players listed for the
\* session, their dogs, and the objects of the first one's session.
PlayersSeen(t) == sessionPlayers[playerSession[tokens[t]]]
DogsSeen(t) == {playerDog[p] : p \in PlayersSeen(t)}
ObjectsSeen(t) == UNION {lost[playerSession[p]] : p \in PlayersSeen(t)}

----------------------------------------------------------------------------
(* Tick *)

TickStartInSeconds(dt) ==
  /\ phase = "idle"
  /\ phase' = "sessions" /\ delta' = dt * 1000 /\ todo' = Sessions
  /\ UNCHANGED <<idVars, playerVars, sessionVars, dogVars, records,
                 cur, inactive, gatherers, collected>>
TickStart(dt) ==
  /\ phase = "idle"
  /\ \A d \in Ids : idle[d] + dt >= -MaxDebt
  /\ phase' = "sessions" /\ delta' = dt /\ todo' = Sessions
  /\ UNCHANGED <<idVars, playerVars, sessionVars, dogVars, records,
                 cur, inactive, gatherers, collected>>

\* Dog::time_since_last_move_ after MoveDogByTick: a standing dog grows idle, a
\* wall resets a running one, and a free move leaves the time as it is.
IdleTimeRestarted(d, walled) ==
  IF moving[d] THEN IF d \in walled THEN 0 ELSE idle[d] ELSE delta - delta
IdleTime(d, walled) ==
  IF moving[d] THEN IF d \in walled THEN 0 ELSE idle[d] ELSE idle[d] + delta

EnterSessionAgain(s) == cur' = s /\ UNCHANGED todo
EnterSession(s) == cur' = s /\ todo' = todo \ {s}

\* SetPrevPosition and MoveDogByTick on every dog; `walled' run into a wall and
\* lose their speed.
MoveDogsByTick(s, walled) ==
  /\ moving' = [d \in Ids |-> moving[d] /\ d \notin walled]
  /\ idle' = [d \in Ids |-> IF d \in sessionDogs[s] THEN IdleTime(d, walled)
                            ELSE idle[d]]

RemoveInactiveDogsFromListOnly(s) ==
  /\ inactive' = {}
  /\ sessionDogs' = [sessionDogs EXCEPT
       ![s] = {d \in @ : ~IsInactive(moving'[d], idle'[d])}]

\* Inactive dogs leave the session before it looks for collisions.
RemoveInactiveDogs(s) ==
  /\ inactive' = {d \in sessionDogs[s] : IsInactive(moving'[d], idle'[d])}
  /\ sessionDogs' = [sessionDogs EXCEPT ![s] = @ \ inactive']

MoveSession(s) ==
  /\ phase = "sessions" /\ s \in todo
  /\ \E walled \in SUBSET {d \in sessionDogs[s] : moving[d]} :
       MoveDogsByTick(s, walled)
  /\ RemoveInactiveDogs(s)
  /\ gatherers' = {d \in sessionDogs'[s] : moving[d]}
  /\ EnterSession(s) /\ phase' = "session"
  /\ UNCHANGED <<idVars, playerVars, sessionMap, lost, bag, credited, records,
                 delta, collected>>

\* The dog's last reference goes with its player.
DropDog(d) ==
  /\ inactive' = inactive \ {d}
  /\ moving' = [moving EXCEPT ![d] = FALSE]
  /\ idle' = [idle EXCEPT ![d] = 0]
  /\ bag' = [bag EXCEPT ![d] = {}]
  /\ credited' = [credited EXCEPT ![d] = {}]

RemovePlayerTokenForgotten(leaving) == UNCHANGED tokens
RemovePlayerToken(leaving) ==
  tokens' = [t \in Ids |-> IF tokens[t] \in leaving THEN None ELSE tokens[t]]

RemovePlayerFromSessionForgotten(leaving) == UNCHANGED sessionPlayers
RemovePlayerFromSession(leaving) ==
  sessionPlayers' = [s \in Ids |->
    sessionPlayers[s] \ {p \in leaving : playerSession[p] = s}]

\* The row RetirePlayer inserts, once, whether or not the INSERT succeeds.
WriteRecordRetried(leaving, written) ==
  records' = [n \in Ids |-> IF \E p \in leaving : name[p] = n
                            THEN records[n] + (IF written THEN 1 ELSE 2)
                            ELSE records[n]]
WriteRecord(leaving, written) ==
  records' = [n \in Ids |-> IF written /\ \E p \in leaving : name[p] = n
                            THEN records[n] + 1 ELSE records[n]]

\* A failed INSERT is logged and the player leaves all the same; a dog nobody
\* owns (`leaving' is empty) is only dropped.
RetirePlayer(d, written) ==
  /\ phase = "session" /\ d \in inactive
  /\ LET leaving == {p \in players : playerDog[p] = d}
     IN /\ WriteRecord(leaving, written)
        /\ RemovePlayerToken(leaving)
        /\ RemovePlayerFromSession(leaving)
        /\ players' = players \ leaving
        /\ name' = [p \in Ids |-> IF p \in leaving THEN None ELSE name[p]]
        /\ playerSession' =
             [p \in Ids |-> IF p \in leaving THEN None ELSE playerSession[p]]
        /\ playerDog' =
             [p \in Ids |-> IF p \in leaving THEN None ELSE playerDog[p]]
  /\ DropDog(d)
  /\ UNCHANGED <<idVars, sessionVars, phase, delta, todo, cur, gatherers,
                 collected>>

MayCollectAgain(d, o) == o \in lost[cur] /\ ~IsFull(d)
MayCollect(d, o) == o \in lost[cur] \ collected /\ ~IsFull(d)

\* One gathering event of a dog and a lost object.
GatherItem(d, o) ==
  /\ phase = "session" /\ inactive = {} /\ d \in gatherers /\ MayCollect(d, o)
  /\ collected' = collected \cup {o}
  /\ bag' = [bag EXCEPT ![d] = @ \cup {o}]
  /\ UNCHANGED <<idVars, playerVars, sessionVars, moving, idle, credited,
                 records, phase, delta, todo, cur, inactive, gatherers>>

\* One gathering event of a dog and an office.
GatherOffice(d) ==
  /\ phase = "session" /\ inactive = {} /\ d \in gatherers
  /\ credited' = [credited EXCEPT ![d] = @ \cup bag[d]]
  /\ bag' = [bag EXCEPT ![d] = {}]
  /\ UNCHANGED <<idVars, playerVars, sessionVars, moving, idle, records,
                 tickVars>>

\* LootGenerator::Generate yields at most the shortage (Ticking.tla).
WithinTotal(lying, n) == n <= Cardinality(sessionDogs[cur])
WithinShortage(lying, n) ==
  n = 0 \/ lying + n <= Cardinality(sessionDogs[cur])

RemoveCollectedObjects(s) == lost[s] \ collected

\* The end of HandleCollisions and the objects the generator asks for.
FinishSession(n) ==
  /\ phase = "session" /\ inactive = {}
  /\ nextLoot + n <= MaxLoot
  /\ LET left == RemoveCollectedObjects(cur)
     IN /\ WithinShortage(Cardinality(left), n)
        /\ lost' = [lost EXCEPT ![cur] =
                      AddLostObjects(left, nextLoot .. nextLoot + n - 1)]
  /\ nextLoot' = nextLoot + n
  /\ collected' = {} /\ gatherers' = {} /\ cur' = None /\ phase' = "sessions"
  /\ UNCHANGED <<joins, boot, nextPlayer, nextDog, nextSession, playerVars,
                 sessionMap, sessionDogs, dogVars, records, delta, todo,
                 inactive>>

\* The loop over the sessions is over and, without a listener, Tick returns.
TickEnd ==
  /\ phase = "sessions" /\ todo = {}
  /\ phase' = "idle" /\ delta' = 0
  /\ UNCHANGED <<idVars, playerVars, sessionVars, dogVars, records, todo,
                 cur, inactive, gatherers, collected>>

TickStep ==
  \/ \E s \in Ids : MoveSession(s)
  \/ \E d \in Ids, written \in InsertOutcomes : RetirePlayer(d, written)
  \/ \E d \in Ids, o \in LostObjects : GatherItem(d, o)
  \/ \E d \in Ids : GatherOffice(d)
  \/ \E n \in 0 .. MaxLoot : FinishSession(n)

Request ==
  \/ \E m \in Maps : JoinGame(m)
  \/ \E t \in Ids, go \in BOOLEAN : PlayerAction(t, go)
  \/ \E dt \in Deltas : TickStart(dt)

Next == Request \/ TickStep \/ TickEnd

Spec == Init /\ [][Next]_vars

\* The strand runs a Tick it has begun to its end, and the ticker (or the
\* client that drives time) goes on calling Tick with a positive delta, if
\* perhaps with negative ones between.
Fairness ==
  /\ WF_vars(TickStep \/ TickEnd)
  /\ WF_vars(\E dt \in Deltas : dt > 0 /\ TickStart(dt))

LiveSpec == Spec /\ Fairness

----------------------------------------------------------------------------
(* Safety *)

\* Inactive dogs have left dogs_ and wait in inactive_dogs.
Leaving(s) == IF cur = s THEN inactive ELSE {}

\* A token opens the account it was issued for, or none: FindPlayerByToken
\* never lets a client act for a player that joined later (or earlier).
TokenMeansOwner ==
  \A t \in Ids : tokens[t] # None =>
    tokens[t] \in players /\ name[tokens[t]] = t

\* Every player in players_ can still be reached by the token its client has.
PlayersHoldTokens ==
  \A p \in players : name[p] \in Ids /\ tokens[name[p]] = p

\* token_to_player_ and players_ are one registry: tokens and players are in
\* one-to-one correspondence through joins, retirements and ticks.
TokenRegistry == TokenMeansOwner /\ PlayersHoldTokens

\* players_ and session_id_to_players_ agree on who is in which session.
SessionLists ==
  \A s, p \in Ids :
    p \in sessionPlayers[s] <=> p \in players /\ playerSession[p] = s

\* The dogs of a session (the retiring ones included) are exactly the dogs of
\* the players listed for it.
DogsOwned ==
  \A s \in Ids : sessionDogs[s] \cup Leaving(s)
                 = {playerDog[p] : p \in sessionPlayers[s]}

\* What /players lists (session_id_to_players_), what /state walks through
\* (those players' dogs) and what Tick moves (dogs_) never drift apart.
SessionRegistry == SessionLists /\ DogsOwned

\* Between two handlers every client with a live token sees its own player, and
\* the dogs and objects it sees are those its session moves and collides.
ClientsSeeTheirSession ==
  phase = "idle" =>
    \A t \in Ids : tokens[t] # None =>
      LET s == playerSession[tokens[t]]
      IN /\ tokens[t] \in PlayersSeen(t)
         /\ DogsSeen(t) = sessionDogs[s] /\ ObjectsSeen(t) = lost[s]

\* max_dogs_amount_ and the bag's capacity hold whatever the order of joins,
\* retirements and gathering events.
CapacityHeld ==
  /\ \A s \in Ids : Cardinality(sessionDogs[s]) <= MaxDogs
  /\ \A d \in Ids : Cardinality(bag[d]) <= BagCapacity

Held(d) == bag[d] \cup credited[d]

\* A lost object is on one map, or in one bag, or in one score: two dogs never
\* share it, and it is not credited twice.  While a session's events are being
\* applied, exactly the flagged objects are still on its map too.
ObjectOnce ==
  /\ \A d \in Ids : bag[d] \cap credited[d] = {}
  /\ \A d, e \in Ids : d # e => Held(d) \cap Held(e) = {}
  /\ \A s, r \in Ids : s # r => lost[s] \cap lost[r] = {}
  /\ \A s, d \in Ids :
       lost[s] \cap Held(d) \subseteq IF s = cur THEN collected ELSE {}

\* A client gets at most one row in the table of records, and none while it
\* plays, however the INSERT of RetirePlayer ends.
RecordOnce ==
  /\ \A n \in Ids : records[n] <= 1
  /\ \A p \in players : records[name[p]] = 0

\* Objects that nobody collects pile up, but never beyond one per join: the
\* generator only makes up a shortage.
LootBounded == \A s \in Ids : Cardinality(lost[s]) <= joins

\* A player leaves only when its dog stands still and has been idle for the
\* retirement time: an action accepted in between has saved it.
OnlyIdleLeave ==
  [][\A p \in players \ players' :
       ~moving[playerDog[p]] /\ idle[playerDog[p]] >= RetirementTime]_vars

\* "We generate one new object on every player's join" (CreateDog).
JoinDropsObject ==
  [][joins' # joins =>
       \E s \in Ids : Cardinality(lost'[s]) = Cardinality(lost[s]) + 1]_vars

----------------------------------------------------------------------------
(* Refinement *)

RoomOf ==
  [t \in Ids |-> IF tokens[t] = None THEN None ELSE playerSession[tokens[t]]]

R == INSTANCE Rooms WITH Clients <- Ids, RoomIds <- Ids, RoomSize <- MaxDogs,
       Nowhere <- None, entered <- 0 .. joins - 1, room <- RoomOf,
       rows <- records

\* The server keeps the promise of Rooms: a client enters a session that is not
\* full, stays in it, and leaves once with at most one row.
ImplementsRooms == R!RoomsSpec

----------------------------------------------------------------------------
(* Liveness *)

\* Unless time is turned back again and again, no dog stands idle for ever: its
\* player is retired in the end.
IdleLeaves ==
  <>[](delta >= 0) =>
    \A p \in Ids : ~<>[](p \in players /\ ~moving[playerDog[p]])

\* Every Tick returns, so requests waiting for the strand are served.
TickReturns == phase # "idle" ~> phase = "idle"
=============================================================================
