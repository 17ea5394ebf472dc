# gaming-server in TLA+

TLA+ models of the game server under `src/` (a multiplayer "dogs on roads"
game: a C++ server with an HTTP API, a PostgreSQL table of records, a state file
and a browser client), checked with TLC on small instances and proved with TLAPS
for every value of the constants.

Paths below are relative to `src/src/` unless they start with `src/`.

## 1. The system

All requests to the API and the ticker run on one strand (`api_strand`,
`main.cpp`), so the handlers that change the game never overlap. What is hard is
not a data race but the order of the handlers, what a `Tick` does in between, a
process that dies in the middle of one, and numbers at their boundaries.

| component | state | operations | interacts with |
|---|---|---|---|
| Game core (`application.*`, `model.*`) | `players_`, `token_to_player_`, `session_id_to_players_`, sessions with `dogs_` and `lost_objects_`, dogs with speed, idle time, bag and score, four static id counters | `JoinGame`, player actions, `Tick` (move, retire, collide, generate loot), `/players`, `/state` | called by the API handler and the ticker; inserts records; calls the listener at the end of a `Tick` |
| Dog movement (`model.cpp` 25-227) | position, speed, `time_since_last_move_`, the map from cells to roads | `MoveDog`, `MoveDogByTick`, `GetWallStopAndSetPosition`, `IsInactive` | called by `Tick` for every dog |
| Collision detector (`collision_detector.*`) | none | `FindGatherEvents`: events of moving dogs with objects and offices, by time | called by `HandleCollisions` |
| Loot generator (`loot_generator.*`) | `time_without_loot_` | `Generate` | one object for all sessions, called once per session and tick |
| State saving (`serialization_listener.*`, `model_serialization.*`) | the state file, `time_since_last_save_` | `OnTick`, `OnShutdown`, `CaptureState`, `ApplyState`, `TryLoadState` | reads and rebuilds the game core |
| Connection pool and records (`database/postgres`) | stack of connections, `used_connections_`, `thread_connections_`; the table | `GetConnection`, `ReturnConnection`, INSERT, SELECT | called by `RetirePlayer` and `/records` |
| HTTP server (`http_server.*`) | acceptor, one session per connection | accept, read, handle, write, close | dispatches to the strand |
| API handler (`api_request_handler.*`) | none | routing, checks, answers | calls the game core |
| Ticker (`ticker.*`) | timer, `last_tick_` | `Start`, `OnTick`, `ScheduleTick` | calls `Tick` on the strand |
| Configuration loader (`json_loader.*`) | none | `LoadGame` | builds maps and sessions once |
| Browser client (`src/static/js/game.js`) | pressed keys, the last answer, the scene with its clones | keys, polls of `/state` and `/players`, `_applyDesiredState`, `_updatePlayersList` | the API |

What makes each correct:

* Game core: a token opens its own account or none; the registries, the session
  lists and the sessions' dogs describe the same players; a lost object is in one
  place; a player leaves only when idle, once, with at most one record; sizes hold.
* Movement: a dog's cell is always known, a dog stays on roads, it is idle only
  while it stands; it takes what it passes, in the order of its way.
* Loot and time: a tick loses less than a millisecond of the clock's time, objects
  keep coming and never outnumber the dogs.
* State saving: whatever was saved to its end can be loaded; a restart loses or
  invents nothing; a graceful one is invisible; a save that fails leaves the old file.
* Pool: a connection has one user, none is lost, nobody sleeps beside a free one.
* Strand and connections: every request that reaches the strand is answered,
  ticks neither stop nor pile up, and the dog ends up following the keys as far
  as walls and its retirement let it, whichever connections break meanwhile.
* Client: whatever is lost or overtaken, the page shows one moment of the
  session and comes to show the present one.

`PROJECT.json` lists the hazards line by line and the property that covers each,
or says that none does yet.

## 2. The modules

| module | models | extends |
|---|---|---|
| `Rooms` | the promise to a client: enter one room that is not full, stay, leave once, at most one row | |
| `Application` | the game core, cut at the branches of `Tick` | instantiates `Rooms` |
| `Persistence` | `Application` with the listener, the state file, stops, crashes and restarts | `Application` |
| `DogMovement` | one dog on the roads of a map, with integer coordinates | |
| `CollisionDetector` | `TryCollectPoint` and `FindGatherEvents` as operators | |
| `Gathering` | a dog that moves and collects: movement, detector and `HandleCollisions` together | `DogMovement`, `CollisionDetector` |
| `ConnectionPool` | the pool, its mutex and its condition variable | |
| `Ticking` | the clock, the ticker's deltas, and the one loot generator of all sessions | |
| `Server` | from the keys of the page over its connections and the strand to the dog; the ticker's jobs; signals | |
| `Client` | the page: polls, answers and the picture | |
| `Application_proofs` | theorems of the game core: registries, objects, limits, `Rooms` | `Application` |
| `Persistence_proofs` | theorems of saving and restarting | `Persistence`, `Application_proofs` |
| `Gathering_proofs`, `ConnectionPool_proofs`, `Ticking_proofs`, `Server_proofs` | theorems of the module they are named after | that module |
| `Client_proofs`, `Scene_proofs` | theorems of the page: its answers, and its scene | `Client` |
| `MC*` | the modules TLC is given | |

What composes with what: `Persistence` wraps `Application`; `Rooms` is what
`Application` implements; `Gathering` composes movement with the detector;
`Server` composes the page's keys, the HTTP sessions, the strand and the ticker;
`Client` composes the page with the server as its answers show it. `Application`
takes from `Gathering` only that a moving dog may meet anything in any order, and
from `Ticking` only that the generator never yields more than the shortage, so
what is checked of it holds for every geometry and every generator.

The operators that are defined just before another one with a similar name and
used nowhere (`TickStartInSeconds`, `RemovePlayerTokenForgotten`, ...) are faulty
variants: `PROJECT.json` names, for each property of each passing run, the
variant that makes TLC report that property.

### Application

State: one variable per field, named after it (the declaration says which). Ids of
players, dogs and sessions are the numbers the static counters give; a user's name
and token are the number of the `JoinGame` call; a lost object is its id and the
run of the process that made it, so two objects with equal ids stay different.

| action | code |
|---|---|
| `JoinGame(m)` | `Application::JoinGame`, `AddPlayer`, `CreateDog`, `GenerateLoot(1)` |
| `PlayerAction(t, go)` | `/player/action` with a known token; an unknown one changes nothing |
| `TickStart(dt)` | entry of `Application::Tick` |
| `MoveSession(s)` | the loop over a session's dogs and `RemoveInactiveDogs` |
| `RetirePlayer(d, written)` | `Application::RetirePlayer`, with both outcomes of the INSERT |
| `GatherItem(d, o)`, `GatherOffice(d)` | one event of `HandleCollisions` each |
| `FinishSession(n)` | `RemoveCollectedObjects` and the loot generator |
| `TickEnd` | `Tick` returns |

The delta of a tick may be negative: `POST /game/tick` takes any number
(`api_request_handler.cpp` 822-848), and a standing dog's idle time then falls.

`phase` says what `Tick` does next; requests are taken in phase `idle` only,
because they wait for the strand. Positions are abstracted: a moving dog may pass
any object and any office in any order, which covers every order
`FindGatherEvents` can produce. `FinishSession` uses of the generator only that
it never yields more than the shortage (`loot_generator.cpp` 14-19).

### Persistence

`CaptureState` saves three of the four counters, as the code does; idle times
are not saved. `FileAfter` says how a save ends: the file is replaced (temporary file
and rename); or kept, when the temporary file cannot be opened, a write inside the
archive throws, or the rename does; or, when only the last flush fails, in the
destructor of the stream, which reports nothing, a truncated file replaces it
(`serialization_listener.cpp` 180-183). From a truncated file no process starts
(`TryLoadState` returns false and `main.cpp` 91-94 ends it), so `Start` has no step there.
`Shutdown` waits for phase `idle`, since `ioc.stop()` lets the running handler
return and the workers are joined before `OnShutdown`. `Crash` may come between
any two actions. `ApplyState` rebuilds the memory from the file; one table of
objects serves all sessions there, which `RestoredLost` keeps.

### DogMovement

Distances are integers: `Tenth` of them are 0.1 of the code, and `Epsilon` of them its
EPSILON of 0.001 (100 and 1 would be to scale). A step translates `MoveDogByTick`: the
cell is rounded, the roads of that cell decide whether the new position is valid,
EPSILON beyond their borders included, and if not the wall stop takes the farthest
clamped one. The clamp knows no EPSILON, so a dog that has run over a border by
less is moved back by the next wall stop. A negative delta moves the dog backwards.

### Gathering and CollisionDetector

`TryCollectPoint` is translated with its quotients multiplied out, so the
comparison of times is exact; the rounding of doubles is left out. Equal times
are put in any order, as `std::sort` may. A `GatheringTick` moves the dog, takes
the events of its old and new position, and `Gathered` applies the body of the loop
of `HandleCollisions` to them one after the other: an object goes into the bag unless it is full, an office empties it. Widths are
those of the code (0.3 for a dog, 0.5 for an office, none for an object). A dog that the tick
retires is gone before the collisions, as in `Application::Tick`.

### Ticking

The clock counts parts of a millisecond. `OnTick` truncates to whole milliseconds and
restarts `last_tick_` before the handler runs, so the time of a slow handler
belongs to the next delta. `TickSession` is the turn of one session, with any
number of retired dogs and collected objects, and calls the one generator. The power
of `1 - probability_` is the exact fraction `(Stay / Odds) ^ t`;
`time_without_loot_` is counted up to `Enough`, from where every shortage yields.
`TickDone` may come before all sessions have had their turn: a `Tick` may throw.

### Server

`keyDown` and `keyUp` change `pressedKeys` and send the last key held. A POST
waits for a free connection (external: the browser), reaches its session in any
order with others, is queued on the strand, handled, and answered; only then does
the session read again. The strand is a queue, which holds the ticker's `OnTick`
as well. A `Tick` may stop the dog at a wall and may retire it (`TickDog`; where walls are is
`DogMovement`'s); the requests of a retired player are refused. A connection may break
at any time of a request. While the handler is on the strand the server does not
notice: the handler becomes an orphan, a move on the strand without a connection, which
acts on the dog all the same, and the connection the browser opens instead may have its own
handler behind it. `hit` remembers that a wall has stopped the dog since its last
action. `Signal` stops everything where it is. `mixed` remembers whether two POSTs were on their way at
once or one was lost: then the order in which they reach the strand is open, and
nothing can be said of the dog.

### Client

Every callback of the page is one action; the network decides their order, and
several polls of each kind may be under way. `ApplyDesiredState` is
`_applyDesiredState` with `_processLostObjects`, `_attachLootToPlayers`, `_dropLoot`
and `_createLoot`: an answer is applied as a difference to the picture before, and
`scene` holds the clones the drawing library has been given. `UpdatePlayersList`
is the other answer. The server appears as the client sees it (players join and
leave, objects appear, are carried and handed in).

`regular` is a history of the run, used by two invariants only. It becomes false
when an answer overtakes a newer one or a player leaves before the page has seen
its last bag. Overtaken answers can leave clones in the scene that no later answer
removes. The usual retirement is of a dog that has stood still for many polls, and keeps
`regular`. It is not the only one: by `move_idle` a dog that has just run and taken an
object may be retired at once, so ordinary play can leave `regular`, and the two
invariants then promise nothing. `ShowsOneMoment`, `NeverUndefined` and the rest of
`Converges` do not depend on it.

### ConnectionPool

A critical section is one action. A thread sleeps, is woken (also spuriously) and
takes the mutex again in separate actions, and a return notifies after it has
unlocked. In this server every use of the pool comes from the strand and there is
a connection per worker thread, so there is one user at a time and nobody sleeps; the
model and its properties are about the class as written, with more threads than
connections, and answer no hazard of this server.

## 3. The runs

| run | question | bounds |
|---|---|---|
| `app` | registries, objects, records, limits; `Application` implements `Rooms`; a `Tick` returns and a dog left standing is retired | 3 joins, 3 loot ids, sessions of 2, bags of 1, deltas 1 and -1, retirement after 1, idle times down to -1, INSERT may fail |
| `persist` | saves that may leave a truncated file, crashes at every cut, stops, a restart, with two players in one session or in two | 2 maps, 2 joins, 1 restart, a save per tick, delta 1 |
| `persist_loot_ids` | violation: a join after a restart may add no object | as `persist` |
| `persist_truncated` | violation: a save whose last flush fails replaces a complete file by a truncated one | as `persist` |
| `move` | one dog on crossing, ending and continuing roads, short, long and negative ticks, objects and an office on its way | 4 roads, `Tenth` 3, `Epsilon` 1, speed 13, deltas -1, 1, 4; 2 objects, 1 office, bags of 1; idle times from -1 to 1 |
| `move_off_road` | violation: a wall stop can leave the dog beside all roads | as `move`, deltas 1, 4, retirement after 2 |
| `move_idle` | violation: a dog that has just run is retired | as `move_off_road` |
| `pool` | sharing, loss, lost wakeups, sleeping beside free connections | 4 threads, 2 connections |
| `client` | one moment shown, nothing undefined, no orphans, convergence | 2 players, 1 object, 2 polls of the state and 1 of the list under way, 4 clones |
| `server` | the dog follows the keys, one job each on the strand, answers and ticks come | 2 keys, 3 presses, 2 connections |
| `ticking` | deltas tell the real time, objects within dogs, objects keep coming | 2 sessions of 2 dogs, half milliseconds, 1 ms late |
| `loot_time` | violation: with two sessions the generator counts every tick twice | as `ticking` |

Why these bounds are enough to see the interesting cases. Three joins with rooms
of two give a full session, a second session, a session that is full again after
a retirement, and a token that outlives its player. A bag of one makes full bags
and two dogs at one object happen. A negative delta takes a standing dog
away from its retirement: it then needs two ticks, and an action can come between them. In `persist` a player can be
retired and come back from an older file, and a join can follow the restart.
With four threads and two connections two returns can be under way while two
threads sleep, which is where a lost wakeup needs to be looked for. What holds
only because of the bounds is what the proofs are for.

The map of `move` has a crossing, a T, a corner and a seam of two collinear roads;
speed 13 and the deltas put the dog on every kind of cell border and EPSILON beyond
the border of a road, and the objects lie between grid points, at the edge of the
radius and next to an office. In
`client` two polls of the state can overtake each other, and with them a list; one
object goes the whole way from the map over a bag to an office or away with its
player. In `server` three key presses fill both connections and leave a move
waiting, or leave an orphan of a broken connection on the strand and another handler, of
the connection opened instead, behind it. In `ticking` one session can use up the time that another needs.

Bounds in the guards are named: `MaxJoins`, `MaxLoot`, `MaxBoots`, `MaxPresses`,
`MaxDebt` (how far negative deltas take a clock below zero), `Late`, `Enough`, `Copies`
and the slots of polls. The runs of `Persistence` have no negative delta, and `persist`
no save that leaves the old file (to the next process it is what a crash before the
save is): either would multiply their states; the theorems hold for both. A join needs a loot id, so
`MaxLoot` also bounds joins.

Deadlock checking is off where the system may stop: the `move` runs (a retired dog
is gone; a dog in a cell without roads would make `unordered_map::at` throw,
which `CellKnown` reports as itself), the `persist` runs (no
process starts from a truncated file), `server` (a signal) and `client` (the page
has gone to the records and everybody has left).

### Fairness

`app` assumes that a `Tick` that has begun goes on (a strand runs its
handler to the end) and that ticks with a positive delta keep coming (the ticker
re-arms its timer after each tick, `ticker.cpp` 16-31; without a ticker the client
that drives time does). `IdleLeaves` promises nothing while negative deltas come again
and again, which only such a client can send. It assumes nothing about clients. `pool` assumes that
statements end, that a thread that has returned a connection goes on to notify,
and that a woken thread gets the mutex; it does not assume which sleeper a
notification wakes, nor that a new caller comes.

`server`: the workers run what is ready and a strand its handlers in order
(`io_context::run`), timers expire, the network carries what is sent. A
connection that is free again and again is used by the browser in the end
(strong fairness of `SendPost`). No key has to be pressed, and connections may break
at any time. `ticking`: time passes, the timer fires, and a `Tick` comes to each
session again and again, since only a map without loot types makes it throw.
`client`: frames keep coming (`requestAnimationFrame`) and ask again when a poll
is due; of the polls of each kind that are made again and again not all
fail; the second of a fading object passes. Neither the server's players nor
its objects have to do anything, and `Converges` is about the time after the last
change, which the bounds of the model bring about.

## 4. What is proved

For every value of the constants that satisfies the assumptions of the modules:
numbers are numbers, a session has room for one dog, `None` is not a value of
the set it is added to, a player's id is not the name of a place, roads are straight
and spawn points lie on them, objects and offices are finite sets with integer
positions, no key is `Stop` and connections, moves and the `Tick` are different. `ChanceAssumption` says that
the powers in `Ticking` are natural numbers and `Stay ^ t <= Odds ^ t`; that follows from
`Stay < Odds`, and is assumed because the prover has no theory of powers. TLC evaluates
each assumption in some run.

| theorem | statement |
|---|---|
| `TypeCorrect` | `Spec => []TypeOK` |
| `TokenRegistryHolds`, `SessionRegistryHolds` | the registries of players are one |
| `ClientsSeeHolds` | `/players` and `/state` show a client its own session |
| `RecordOnceHolds` | one row per client at most, none for a client that plays |
| `OnlyIdleLeaveHolds` | only a standing dog, idle long enough, is retired |
| `ObjectOnceHolds` | a lost object is in one place |
| `CapacityHeldHolds`, `LootBoundedHolds` | sessions, bags and maps keep their limits |
| `ImplementsRoomsHolds` | `Application` implements `Rooms` |
| `ConnectionsConservedHolds` | a connection has one user and none is lost |
| `OnlyFullPoolBlocksHolds` | a thread sleeps only while others hold all connections |
| `NoLostWakeupHolds` | every free connection has somebody on the way while threads sleep |
| `PTypeHolds`, `SavedStateLoadsHolds` | types; what is saved to its end can be loaded |
| `RegistrySurvivesHolds` | the registries are one across crashes, failed saves and restarts |
| `RecordOnceIfSavedHolds` | only a stop without a save can give a client a second row |
| `GracefulRestartInvisibleHolds` | a graceful restart changes nothing a client sees |
| `MTypeHolds`, `CellKnownHolds`, `NearRoadHolds` | a dog's cell is known on every map, with every speed and delta |
| `ForwardFromRoadHolds` | from a road a dog is moved along its way, no farther than its speed takes it, and back by EPSILON at the most |
| `TakenUnlessFullHolds` | a tick takes what the dog's way passes, except with a full bag, and nothing else |
| `HandedInOnTheWayHolds` | objects and offices count in the order of the way |
| `TickTimeIsRealHolds` | the deltas of the ticks tell the clock's time but for less than a millisecond each |
| `LootWithinLootersHolds` | what a tick adds leaves an object per dog at most |
| `OneJobEachHolds`, `DogFollowsKeysHolds` | one handler per connection and one tick on the strand, besides orphans; the dog follows the keys as far as walls and retirement let it |
| `CTypeHolds`, `ShowsOneMomentHolds`, `NeverUndefinedHolds` | the page shows one moment and meets nothing undefined |
| `NoOrphansHolds`, `NothingInvisibleHolds` | unless an answer is overtaken, the scene has no clone but those of the picture, and all of them |

The argument for `Application`. None of the properties is inductive: that the
token of a retiring player is the only one that goes, for instance, needs that
the retiring dog has exactly one owner. `Inv` adds what the code takes for
granted:

* `Numbering`: within one process the n-th join makes player n, dog n and token n,
  and live ids are below the counters, so a new id is never in use;
* `DogsListed` and `SessionLists`: a session's dogs, the retiring ones included,
  are its listed players;
* `TickShape`: the local variables of `Tick` agree with each other at every cut
  (nobody retires outside a session, a retiring dog has left `dogs_` and stands);
* `RowsCounted`: who has not joined or still plays has no row.

`OneOwner` then says that a retirement removes one player, the one in that
session, and each action's lemma follows. The loot proofs run a second
induction on top of `Inv`: `OldObjects` (an object not made yet is nowhere) and
`CollectedHere` (only objects on the map at hand are flagged). The capacities
count finite sets. The refinement maps a join to `Enter` (the session has room
because the capacity invariant holds after the step), a retirement to `Leave`,
and the rest to stuttering.

For the pool, `Shape` (who is using has a connection, slots below
`used_connections_` are empty) makes `ConnectionsConserved` inductive, and
`NoLostWakeup` is inductive given both: it counts free connections against
woken and notifying threads, so that a thread that barges in pays for the
connection it takes.

For `Persistence`, the numbering of `Inv` does not survive a restart from an
older file: the numbers of players run behind the joins. `Registered` is what is
left of it (player and dog are counted together; a token opens a player of its name
in a session that has a map), and `PInv` states it twice, for the memory and for the
file (`Loadable`), so that a save carries it one way and a load the other. `PShape`
says where a `Tick` is cut, and that after a graceful stop the file is what
`CaptureState` gives; hence the restart after it finds what it left. For the
objects, `RestoredIds` takes the session that comes first among those with an id, which
is the least rank of a non-empty set of numbers.

For `Gathering`, `CellKnown` with the types is inductive: a valid position is inside
a road of its cell (`InsideCell`), and a wall stop stays in a cell of the road that
clamps it (`WallStopCell`). `RoadSpans` says that each road of a cell covers the
whole width of it and either ends in it or goes on through the next one; then
the stop that is farther than the one of the dog's own road still lies on its way, give or
take the EPSILON the dog may be beyond the border (`StopOnTheWay`), which is
`ForwardFromRoad`. That a dog may be off its road is why
the theorem, like the property, speaks of dogs on roads.

What a dog gathers is proved in three parts. *Geometry*: a dog runs on one axis
(`TickStraight`), so the products of `TryCollectPoint` reduce to comparisons of
distances along and across the way (`OneAxis`, `Collects`), and the order of the
quotients to the order of distances (`AlongOrder`). *Events*: an injective sequence
as long as a finite set is onto it (`AllInSequence`); hence `FindGatherEvents` has every
passed item once, in the order of the way (`EventsOf`). *The loop*: `Kept` says of any
prefix of the events what the bag and the score are: what is new was met
(`Holds`), what was met is there or the bag was full (`Took`), an office has what came
before it (`Paid`) and the bag what came after (`Left`). `KeptObject` and `KeptOffice`
are the two branches of the loop's body, and `GatheredKept` the induction over the
events. The library states induction with an operator as a parameter, out of
reach here, so `NatSetInduction` states it for a set of numbers, from the least
element of its complement; `GatheredSteps` shows in the same way that the recursive
function exists. Across ticks only `Apart` is needed: what is on the map was not taken.

For `Ticking`, `ClockInv` says that `last_tick_` is set once per tick and nowhere else,
so the clock and the history agree; truncation then loses less than one millisecond.
`LootWithinLooters` needs no more than types (`CountsInv`) and that what the generator
rounds is a part of the shortage (`YieldWithinShortage`), whatever time it has counted,
which is why the double counting of `loot_time` cannot break it.

For `Server`, `WantInv` follows the last wish from where it is: the last move
waiting, else the one on its way (there is at most one unless `mixed`), else the last
handler of a request on the strand, an orphan's included, else the dog, unless a wall or its
retirement has come between. A break leaves the move of a handler in its place on
the strand, so the last wish stays where it was.

For `Client`, `CInv` carries that answers under way are the server's (this page's
player is in them) and that a started game has both answers; `Applied` shows that
the difference between any picture and any answer yields the answer, in
particular that every clone it needs was among the created ones.

The scene (`Scene_proofs`). `NoOrphans` is not inductive: whether the next answer
removes a clone depends on what the page was told before. `SceneInv` adds

* `InOrder`: all that the page has been or may still be told are moments of one course
  of events that lie behind the server, so no object goes into a second bag;
* `OneHolder`: a clone is held by one part of the picture, so removing it for one
  player takes nothing from another;
* `BagsLinked`, `Lists`, `NothingShown`: whose data is gone has no bag, the listed
  players are those of the last list, and before the game starts there is nothing;
* `Tidy`, while the run is regular: the scene has every clone of the picture but the bags of
  players the last list said had left, and no other clone;
* `LeftKnown`, while the run is regular: of a player that has left, the page already
  knows the last bag, so an answer still under way cannot bring another one.

The step that needs them all is an answer applied after a list has removed a player
(`AppliedTidy`): it creates and removes clones by the difference to the picture before, and
without `LeftKnown` it adds a clone to a bag that is no longer in the scene.

Every safety invariant and action property of the passing runs has a theorem. Only
model-checked is liveness (`IdleLeaves`, `TickReturns`, `PoolNotIdle`, `Converges`,
`AnswersComeBack`, `TicksGoOn`, `LootComes`), which is beyond the prover: it has neither
fairness nor `ENABLED`. What the models leave out is not proved either: the rounding
of doubles in `TryCollectPoint` and in the power of the generator.

## 5. Where the code and what is said of it differ

* `persist_loot_ids`: the id counter of lost objects is not saved
  (`serialization_listener.cpp` 36-37). After a restart new objects meet ids that
  are on the map and `emplace` drops them.
* `persist_truncated`: the errors of the last flush, in the destructor of the stream, are
  not seen (`serialization_listener.cpp` 180), and the rename, which is there to keep the old
  file until the new one is whole, replaces it by a truncated one.
* `move_off_road`: the wall stop clamps along a crossing road the dog is not on
  (`model.cpp` 147), and the dog ends beside every road.
* `move_idle`: a free move does not reset `time_since_last_move_`
  (`model.cpp` 212), so standing times add up across runs.
* `loot_time`: `Application::Tick` gives the whole delta to the one generator once per
  session (`application.cpp` 153), so with two sessions it counts twice the time
  that `loot_generator.h` 32 says it is given.

## 6. Not modelled

* Vendored JavaScript: `three.js`, its loaders, controls and utilities are nearly all
  lines of JavaScript in the repository and third-party code. `Client` has what
  the page uses of them: a model arrives or not, a clone is in the scene or not. The
  map therefore covers the stateful part of the game's own C++ and of `game.js`, and
  a small share of all lines.
* Accepting connections and parsing HTTP; routing, checks and error answers, which
  change no state; formatting, logging and static files.
* The configuration loader: it reads one file at the start and keeps nothing.
* Of the page: positions, rotations, camera, drawing of roads and buildings, the
  choice of a map and the table of records.
* Play time and the value of objects: a score is the set of objects credited.
* Numbers out of range: a delta so large that positions or clocks overflow, which
  `POST /game/tick` accepts as any other.
* A connection that is reset between the read and `GetClientIP()` (`http_server.h` 40, 124):
  `remote_endpoint()` throws and ends the process; `Crash` of `Persistence` is what follows.
* Token collisions: a 128 bit random token is taken not to repeat.
* A map without loot types (`GenerateLoot` throws inside a join), and a state file
  whose maps are not configured any more: listed as hazards. `Server` and `Ticking`
  have the `Tick` that throws.
* A pool of size zero (`hardware_concurrency()` may return 0).
* The first poll of the page that fails: nothing repeats it, and nothing is promised.

## 7. What is left

1. The partial failure of `JoinGame` on a map without loot types: a second exit of
   the action, after the player and its dog exist and before the answer.
2. The safety lemmas behind the liveness properties (what each fair action brings
   nearer), as far as they can be stated without `ENABLED`.
