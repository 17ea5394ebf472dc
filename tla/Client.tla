-------------------------------- MODULE Client --------------------------------
(***************************************************************************)
(* The browser client of static/js/game.js: it polls /state and /players,  *)
(* and turns every answer into changes of the picture (the scene): lost    *)
(* objects appear and fade, fly to the dog that took them, and leave with  *)
(* their player.                                                           *)
(*                                                                         *)
(* The callbacks of a page never overlap, so each is one action; what is   *)
(* concurrent is the network.  The flags updateInProgress and              *)
(* playersSuncInProgress are set and cleared inside one callback and so    *)
(* are never seen set: several polls of each kind may be under way, be     *)
(* answered by the server in any order, arrive in any order, or fail.      *)
(*                                                                         *)
(* The server appears as the client sees it: players join and leave,       *)
(* objects appear, are collected and returned, each once.  Positions,      *)
(* directions, names, scores and animations are left out.  An object of    *)
(* the scene is a lost object's id and the number of its clone.            *)
(***************************************************************************)
EXTENDS Naturals, FiniteSets

CONSTANTS
  Players,     \* ids of players
  Me,          \* the player of this page (the playerId cookie)
  Loot,        \* ids of lost objects
  StateSlots,  \* bound: polls of /state under way
  ListSlots,   \* bound: polls of /players under way
  Copies,      \* bound: clones of one object that exist together
  None         \* undefined

ASSUME ClientAssumption ==
  /\ Me \in Players /\ None \notin Copies
  /\ Copies \subseteq Nat

Opt(S) == S \cup {None}

VARIABLES
  world,        \* the session on the server: where its dogs and objects are
  actorLoaded,  \* loadedActor is there
  toLoad,       \* lost objects whose model loadLootTypes still waits for
  page,         \* no GameState yet; a GameState; replaced by the hall of fame
  states,       \* polls of /state under way
  lists,        \* polls of /players under way
  stateLoaded, playersLoaded, started,
  desired,      \* desiredState
  lastList,     \* the last answer to /players (history)
  lostObjects,  \* self.lostObjects: the clone shown for each object on the map
  shown,        \* the keys of currentState.players
  carried,      \* data.bag of each player: the clones that follow its dog
  listed,       \* the keys of self.players, each with its actor in the scene
  linked,       \* those among them whose data is set
  disappearing, \* disappearingLoot
  scene,        \* the clones that scene.add has put into the picture
  regular       \* no answer was overtaken, no player left in a rush (history)

assetVars == <<actorLoaded, toLoad, page>>
startVars == <<stateLoaded, playersLoaded, started>>
pictureVars == <<lostObjects, shown, carried, listed, linked, disappearing, scene>>
cVars == <<world, assetVars, states, lists, startVars, desired, lastList,
           pictureVars, regular>>

Places == {"absent", "map", "gone"} \cup Players
Dogs == [Players -> {"out", "in", "left"}]
Worlds == [dogs : Dogs, where : [Loot -> Places]]

ASSUME NoneAssumption == None \notin Worlds /\ None \notin Dogs

\* The id of a player is not the name of a place or of a stage.
ASSUME PlaceAssumption ==
  Players \cap {"absent", "map", "gone", "out", "in", "left"} = {}

\* What an answer says: the players of the session, the objects on its map, and
\* the bag of each dog.
In(dogs) == {p \in Players : dogs[p] = "in"}
PlayersOf(w) == In(w.dogs)
LostOf(w) == {o \in Loot : w.where[o] = "map"}
BagOf(w, p) == {o \in Loot : w.where[o] = p}

\* Dogs only go from out to in to left, objects from absent to map to a bag or
\* the end: an answer is older than another if something is less far in it.
Stage(place) ==
  CASE place \in {"out", "absent"} -> 0 [] place \in {"in", "map"} -> 1
    [] place \in Players -> 2 [] OTHER -> 3
OlderDogs(a, b) == \E p \in Players : Stage(a[p]) < Stage(b[p])
Older(v, w) ==
  OlderDogs(v.dogs, w.dogs) \/ \E o \in Loot : Stage(v.where[o]) < Stage(w.where[o])

\* A poll under way: asked, answered, or refused with 401.
Free == [status |-> "free", body |-> None]
Asked == [status |-> "asked", body |-> None]
Unauthorized == [status |-> "refused", body |-> None]
Polls(S) == {Free, Asked, Unauthorized} \cup [status : {"ok"}, body : S]

NoClone == [o \in Loot |-> None]
Clones(f) == {<<o, f[o]>> : o \in {k \in Loot : f[k] # None}}

CInit ==
  /\ world = [dogs |-> [p \in Players |-> IF p = Me THEN "in" ELSE "out"],
              where |-> [o \in Loot |-> "absent"]]
  /\ actorLoaded = FALSE /\ toLoad = Loot /\ page = "loading"
  /\ states = [i \in StateSlots |-> Free] /\ lists = [i \in ListSlots |-> Free]
  /\ stateLoaded = FALSE /\ playersLoaded = FALSE /\ started = FALSE
  /\ desired = None /\ lastList = None
  /\ lostObjects = NoClone /\ disappearing = NoClone
  /\ shown = {} /\ listed = {} /\ linked = {} /\ scene = {}
  /\ carried = [p \in Players |-> NoClone]
  /\ regular = TRUE

----------------------------------------------------------------------------
(* The server *)

\* The usual retirement, of a dog that has stood still for many polls: the page
\* has its player, its bag as it is, and nothing else is on the way.  The server
\* does not promise it: idle times of separate stops add up, so that a dog that
\* has just run, and perhaps taken an object, may be retired at once.
KnownAsItIs(p) ==
  /\ p \in listed /\ p \in shown
  /\ {o \in Loot : carried[p][o] # None} = BagOf(world, p)
  /\ \A i \in StateSlots : states[i].status = "ok" =>
       /\ p \in PlayersOf(states[i].body)
       /\ BagOf(states[i].body, p) = BagOf(world, p)
  /\ \A i \in ListSlots : lists[i].status = "ok" => p \in In(lists[i].body)

PlayerJoins(p) ==
  /\ world.dogs[p] = "out"
  /\ world' = [world EXCEPT !.dogs[p] = "in"]
  /\ UNCHANGED regular

PlayerLeaves(p) ==
  /\ world.dogs[p] = "in"
  /\ world' = [world EXCEPT !.dogs[p] = "left",
                 !.where = [o \in Loot |-> IF @[o] = p THEN "gone" ELSE @[o]]]
  /\ regular' = (regular /\ KnownAsItIs(p))

\* An object appears, goes into a bag, or is handed in at an office.
LootMoves(o, from, to) ==
  /\ world.where[o] = from
  /\ world' = [world EXCEPT !.where[o] = to]
  /\ UNCHANGED regular

WorldStep ==
  /\ \/ \E p \in Players : PlayerJoins(p) \/ PlayerLeaves(p)
     \/ \E o \in Loot : LootMoves(o, "absent", "map")
     \/ \E o \in Loot, p \in PlayersOf(world) :
          LootMoves(o, "map", p) \/ LootMoves(o, p, "gone")
  /\ UNCHANGED <<assetVars, states, lists, startVars, desired, lastList,
                 pictureVars>>

\* The token of a retired player is refused.
Answer(body) ==
  IF Me \in PlayersOf(world) THEN [status |-> "ok", body |-> body]
  ELSE Unauthorized

ServerAnswers(i) ==
  /\ \/ /\ i \in StateSlots /\ states[i] = Asked
        /\ states' = [states EXCEPT ![i] = Answer(world)] /\ UNCHANGED lists
     \/ /\ i \in ListSlots /\ lists[i] = Asked
        /\ lists' = [lists EXCEPT ![i] = Answer(world.dogs)] /\ UNCHANGED states
  /\ UNCHANGED <<world, assetVars, startVars, desired, lastList, pictureVars,
                 regular>>

\* A poll that fails is not repeated; only a refused list has a fail handler.
PollFails(i) ==
  /\ \/ /\ i \in StateSlots /\ states[i] # Free
        /\ states' = [states EXCEPT ![i] = Free] /\ UNCHANGED lists
     \/ /\ i \in ListSlots /\ lists[i] # Free
        /\ lists' = [lists EXCEPT ![i] = Free] /\ UNCHANGED states
  /\ UNCHANGED <<world, assetVars, startVars, desired, lastList, pictureVars,
                 regular>>

----------------------------------------------------------------------------
(* Loading *)

\* Models arrive in any order; then() of loadLootTypes waits for the last one.
LoadActor ==
  /\ ~actorLoaded /\ actorLoaded' = TRUE /\ UNCHANGED toLoad
LoadLootType(o) ==
  /\ o \in toLoad /\ toLoad' = toLoad \ {o} /\ UNCHANGED actorLoaded
Load ==
  /\ page # "records"
  /\ LoadActor \/ \E o \in Loot : LoadLootType(o)
  /\ UNCHANGED <<world, page, states, lists, startVars, desired, lastList,
                 pictureVars, regular>>

IsReadyWithActor == actorLoaded
IsReady == actorLoaded /\ toLoad = {}

\* The first frame after that makes the GameState, which asks for both.
NewGameState ==
  /\ page = "loading" /\ IsReady
  /\ page' = "game"
  /\ \E i \in StateSlots : states' = [states EXCEPT ![i] = Asked]
  /\ \E i \in ListSlots : lists' = [lists EXCEPT ![i] = Asked]
  /\ UNCHANGED <<world, actorLoaded, toLoad, startVars, desired, lastList,
                 pictureVars, regular>>

----------------------------------------------------------------------------
(* The picture *)

Referenced(o) ==
  {lostObjects[o], disappearing[o]} \cup {carried[p][o] : p \in Players}

\* SkeletonUtils.clone: an object that is nowhere yet.
UnusedCopies(o) == {c \in Copies : <<o, c>> \notin scene /\ c \notin Referenced(o)}
NewClone(o) == CHOOSE c \in UnusedCopies(o) : TRUE

\* _processLostObjects returns the clones that are no longer on the map.
AbandonedLoot(w) ==
  [o \in Loot |-> IF o \in LostOf(w) THEN None ELSE lostObjects[o]]
ProcessLostObjects(w) ==
  [o \in Loot |-> IF o \notin LostOf(w) THEN None
                  ELSE IF lostObjects[o] # None THEN lostObjects[o]
                  ELSE NewClone(o)]

\* The data an answer starts from: a player not shown so far gets a fresh one.
OldBag(p) == IF p \in shown THEN carried[p] ELSE NoClone

\* _attachLootToPlayers: an object keeps its clone when it goes from the map to
\* a bag, and gets a new one when the map did not show it.
AttachLootCloning(w, p) ==
  [o \in Loot |-> IF o \notin BagOf(w, p) THEN None
                  ELSE IF OldBag(p)[o] # None THEN OldBag(p)[o]
                  ELSE NewClone(o)]
AttachLootKeeping(w, p) ==
  [o \in Loot |-> IF OldBag(p)[o] # None THEN OldBag(p)[o]
                  ELSE IF o \notin BagOf(w, p) THEN None
                  ELSE IF AbandonedLoot(w)[o] # None THEN AbandonedLoot(w)[o]
                  ELSE NewClone(o)]
AttachLoot(w, p) ==
  [o \in Loot |-> IF o \notin BagOf(w, p) THEN None
                  ELSE IF OldBag(p)[o] # None THEN OldBag(p)[o]
                  ELSE IF AbandonedLoot(w)[o] # None THEN AbandonedLoot(w)[o]
                  ELSE NewClone(o)]

\* _dropLoot: what has left a bag, then what nobody took from the map.
DroppedFromBags(w, o) ==
  {OldBag(p)[o] : p \in {q \in PlayersOf(w) : o \notin BagOf(w, q)}} \ {None}
Attached(w, o) ==
  \E p \in PlayersOf(w) : o \in BagOf(w, p) /\ OldBag(p)[o] = None
DropLoot(w) ==
  [o \in Loot |->
     IF AbandonedLoot(w)[o] # None /\ ~Attached(w, o) THEN AbandonedLoot(w)[o]
     ELSE IF DroppedFromBags(w, o) # {}
     THEN CHOOSE c \in DroppedFromBags(w, o) : TRUE
     ELSE disappearing[o]]

\* _createLoot adds a clone to the scene.
CreatedLoot(w) ==
  {o \in LostOf(w) : lostObjects[o] = None}
    \cup {o \in Loot : AbandonedLoot(w)[o] = None /\ Attached(w, o)}

\* _applyDesiredState.  Bags of players that are not in the answer go, unless
\* self.players still holds their data.  elems are the keys of self.players.
ApplyDesiredState(w, elems) ==
  /\ \A o \in CreatedLoot(w) : UnusedCopies(o) # {}   \* bound: Copies
  /\ lostObjects' = ProcessLostObjects(w)
  /\ disappearing' = DropLoot(w)
  /\ carried' = [p \in Players |->
                   IF p \in PlayersOf(w) THEN AttachLoot(w, p)
                   ELSE IF p \in linked THEN carried[p] ELSE NoClone]
  /\ linked' = linked \cup (elems \cap (PlayersOf(w) \ shown))
  /\ listed' = elems /\ shown' = PlayersOf(w)
  /\ scene' = scene \cup {<<o, NewClone(o)>> : o \in CreatedLoot(w)}

\* _deletePlayer takes the bag of a player out of the scene if it has its data.
RemoveAllBags(gone) == scene' = scene \ UNION {Clones(carried[p]) : p \in listed}
RemoveBags(gone) == scene' = scene \ UNION {Clones(carried[p]) : p \in gone}

\* _updatePlayersList with _addPlayer and _deletePlayer.
UpdatePlayersListOnlyActors(ps) ==
  /\ listed' = ps /\ RemoveBags({})
  /\ UNCHANGED <<lostObjects, shown, carried, linked, disappearing>>
UpdatePlayersList(ps) ==
  LET gone == listed \ ps
      new == ps \ listed
  IN /\ listed' = ps
     /\ linked' = (linked \ gone) \cup (new \cap shown)
     /\ RemoveBags(gone \cap linked)
     /\ carried' = [p \in Players |-> IF p \in gone \ shown THEN NoClone
                                      ELSE carried[p]]
     /\ UNCHANGED <<lostObjects, shown, disappearing>>

----------------------------------------------------------------------------
(* Answers and frames *)

NotOvertaken(w) == desired = None \/ ~Older(w, desired)

\* done() of a poll of /state: the first one waits for the list of players, any
\* later one is shown at once.  A refusal is ignored.
GetState(i) ==
  /\ page = "game" /\ states[i].status \in {"ok", "refused"}
  /\ states' = [states EXCEPT ![i] = Free]
  /\ IF states[i] = Unauthorized
     THEN UNCHANGED <<startVars, desired, pictureVars, regular>>
     ELSE LET w == states[i].body
          IN /\ desired' = w /\ regular' = (regular /\ NotOvertaken(w))
             /\ stateLoaded' = TRUE /\ started' = playersLoaded
             /\ IF playersLoaded THEN ApplyDesiredState(w, listed)
                ELSE UNCHANGED pictureVars
             /\ UNCHANGED playersLoaded
  /\ UNCHANGED <<world, assetVars, lists, lastList>>

\* done() of a poll of /players: the first one starts the game when a state has
\* come already, and shows it.
GetPlayers(i) ==
  /\ page = "game" /\ lists[i].status = "ok"
  /\ LET dogs == lists[i].body
     IN /\ regular' = (regular /\ (lastList = None \/ ~OlderDogs(dogs, lastList)))
        /\ lastList' = dogs
        /\ IF stateLoaded /\ ~started
           THEN ApplyDesiredState(desired, In(dogs))
           ELSE UpdatePlayersList(In(dogs))
  /\ lists' = [lists EXCEPT ![i] = Free]
  /\ playersLoaded' = TRUE /\ started' = stateLoaded
  /\ UNCHANGED <<world, assetVars, states, stateLoaded, desired>>

\* fail() of a refused list: goToRecords.
IgnoreRefusal(i) ==
  /\ page = "game" /\ lists[i] = Unauthorized
  /\ lists' = [lists EXCEPT ![i] = Free]
  /\ UNCHANGED <<world, assetVars, states, startVars, desired, lastList,
                 pictureVars, regular>>
GoToRecords(i) ==
  /\ page = "game" /\ lists[i] = Unauthorized
  /\ page' = "records"
  /\ states' = [j \in StateSlots |-> Free] /\ lists' = [j \in ListSlots |-> Free]
  /\ stateLoaded' = FALSE /\ playersLoaded' = FALSE /\ started' = FALSE
  /\ desired' = None /\ lastList' = None
  /\ lostObjects' = NoClone /\ disappearing' = NoClone
  /\ shown' = {} /\ listed' = {} /\ linked' = {} /\ scene' = {}
  /\ carried' = [p \in Players |-> NoClone]
  /\ UNCHANGED <<world, actorLoaded, toLoad, regular>>

\* A poll that a frame sends takes a slot when the server handles it: until then
\* it concerns nobody.
Ask(polls, answer) ==
  {[polls EXCEPT ![i] = answer] : i \in {k \in DOMAIN polls : polls[k] = Free}}

\* tick() of a frame: polls when they are due, and the clones that have been
\* disappearing for a second leave the scene.
Frame(askState, askPlayers, done) ==
  /\ page = "game" /\ started
  /\ states' \in IF askState THEN Ask(states, Answer(world)) ELSE {states}
  /\ lists' \in IF askPlayers THEN Ask(lists, Answer(world.dogs)) ELSE {lists}
  /\ done \subseteq {o \in Loot : disappearing[o] # None}
  /\ disappearing' = [o \in Loot |-> IF o \in done THEN None ELSE disappearing[o]]
  /\ scene' = scene \ {<<o, disappearing[o]>> : o \in done}
  /\ UNCHANGED <<world, assetVars, startVars, desired, lastList, lostObjects,
                 shown, carried, listed, linked, regular>>

CNext ==
  \/ WorldStep
  \/ \E i \in StateSlots \cup ListSlots : ServerAnswers(i) \/ PollFails(i)
  \/ Load \/ NewGameState
  \/ \E i \in StateSlots : GetState(i)
  \/ \E i \in ListSlots : GetPlayers(i) \/ GoToRecords(i)
  \/ \E askState, askPlayers \in BOOLEAN, done \in SUBSET Loot :
       Frame(askState, askPlayers, done)

CSpec == CInit /\ [][CNext]_cVars

\* Frames keep coming and ask again; not every poll fails; a second passes.
CFairness ==
  /\ \A i \in StateSlots : SF_cVars(GetState(i))
  /\ \A i \in ListSlots : SF_cVars(GetPlayers(i)) /\ SF_cVars(GoToRecords(i))
  /\ WF_cVars(\E done \in SUBSET Loot : Frame(TRUE, FALSE, done))
  /\ WF_cVars(\E done \in SUBSET Loot : Frame(FALSE, TRUE, done))
  /\ \A o \in Loot :
       WF_cVars(\E done \in SUBSET Loot : o \in done /\ Frame(FALSE, FALSE, done))

CLiveSpec == CSpec /\ CFairness

----------------------------------------------------------------------------
(* Properties *)

CloneFunctions == [Loot -> Opt(Copies)]

CTypeOK ==
  /\ world \in Worlds
  /\ actorLoaded \in BOOLEAN /\ toLoad \subseteq Loot
  /\ page \in {"loading", "game", "records"}
  /\ states \in [StateSlots -> Polls(Worlds)] /\ lists \in [ListSlots -> Polls(Dogs)]
  /\ stateLoaded \in BOOLEAN /\ playersLoaded \in BOOLEAN /\ started \in BOOLEAN
  /\ desired \in Opt(Worlds) /\ lastList \in Opt(Dogs)
  /\ lostObjects \in CloneFunctions /\ disappearing \in CloneFunctions
  /\ carried \in [Players -> CloneFunctions]
  /\ shown \subseteq Players /\ listed \subseteq Players /\ linked \subseteq listed
  /\ scene \subseteq Loot \X Copies /\ regular \in BOOLEAN

IdsOf(f) == {o \in Loot : f[o] # None}

\* Whatever was lost or overtaken on the way, the page shows one moment of the
\* server: the players, the objects on the map and the bags of one answer, although
\* every answer is applied as a difference to the picture before.
ShowsOneMoment ==
  started =>
    /\ shown = PlayersOf(desired)
    /\ IdsOf(lostObjects) = LostOf(desired)
    /\ \A p \in shown : IdsOf(carried[p]) = BagOf(desired, p)

\* No frame or answer meets something undefined, which would end the loop of
\* frames: a model that is not loaded (_createLoot), an answer without players
\* (_applyDesiredState), a player with no state (_interpolateState).
NeverUndefined ==
  /\ page = "game" => actorLoaded /\ toLoad = {}
  /\ started => /\ desired # None /\ PlayersOf(desired) # {}
                /\ PlayersOf(desired) \subseteq shown
  /\ \A i \in StateSlots : states[i].status = "ok" => PlayersOf(states[i].body) # {}

\* Clones that somebody will still move or remove.
Followed ==
  Clones(lostObjects) \cup Clones(disappearing)
    \cup UNION {Clones(carried[p]) : p \in shown \cup linked}

\* Nothing is left behind in the scene when players leave and objects change
\* hands, provided answers are not overtaken and outrun a retirement.
NoOrphans == regular => scene \subseteq Followed

\* What the page shows of the map and of the players it lists is in the scene:
\* a player's leaving does not take another's objects away.
NothingInvisible ==
  regular =>
    /\ Clones(lostObjects) \subseteq scene
    /\ \A p \in shown \cap listed : Clones(carried[p]) \subseteq scene

\* Once the session is quiet the page comes to show it, and only it: after lost
\* and overtaken answers, and with every faded object gone.
Settled ==
  /\ shown = PlayersOf(world) /\ listed = PlayersOf(world)
  /\ IdsOf(lostObjects) = LostOf(world) /\ IdsOf(disappearing) = {}
  /\ \A p \in shown : IdsOf(carried[p]) = BagOf(world, p)
  /\ regular => scene = Clones(lostObjects) \cup UNION {Clones(carried[p]) : p \in shown}
Converges == <>[](started => Settled)
=============================================================================
