---------------------------- MODULE Client_proofs ----------------------------
(***************************************************************************)
(* Proofs about Client, for every value of its constants: the page shows   *)
(* one moment of the server, and nothing it meets is undefined, however    *)
(* answers are lost, reordered or duplicated by several polls under way.   *)
(***************************************************************************)
EXTENDS Client, TLAPS

\* What an answer may say: this page's player is in it.
GoodState(w) == w \in Worlds /\ Me \in PlayersOf(w)

\* Every answer under way is one the server may give.
Answers ==
  /\ world \in Worlds
  /\ \A i \in StateSlots : states[i].status = "ok" => GoodState(states[i].body)
  /\ states \in [StateSlots -> Polls(Worlds)]

\* A game that has a state has a good one, and starts with both answers.
Loaded ==
  /\ page = "game" => actorLoaded /\ toLoad = {}
  /\ stateLoaded => GoodState(desired)
  /\ started \in BOOLEAN /\ stateLoaded \in BOOLEAN /\ playersLoaded \in BOOLEAN
  /\ started => stateLoaded /\ playersLoaded

CInv == Answers /\ Loaded /\ ShowsOneMoment

----------------------------------------------------------------------------
(* The picture *)

\* Whatever the page showed before, an answer that has been applied is shown.
LEMMA Applied ==
  ASSUME NEW w \in Worlds, NEW elems, ApplyDesiredState(w, elems)
  PROVE  /\ shown' = PlayersOf(w)
         /\ IdsOf(lostObjects') = LostOf(w)
         /\ \A p \in shown' : IdsOf(carried'[p]) = BagOf(w, p)
<1>1. \A o \in CreatedLoot(w) : NewClone(o) # None
  BY ClientAssumption DEF ApplyDesiredState, NewClone, UnusedCopies
<1>2. shown' = PlayersOf(w) /\ PlayersOf(w) \subseteq Players
  BY DEF ApplyDesiredState, PlayersOf, In
<1>3. IdsOf(lostObjects') = LostOf(w)
  <2>1. lostObjects' = ProcessLostObjects(w)
    BY DEF ApplyDesiredState
  <2>2. \A o \in LostOf(w) : lostObjects[o] = None => o \in CreatedLoot(w)
    BY DEF CreatedLoot
  <2>3. \A o \in Loot : ProcessLostObjects(w)[o] # None <=> o \in LostOf(w)
    BY <1>1, <2>2 DEF ProcessLostObjects
  <2> QED
    BY <2>1, <2>3 DEF IdsOf, LostOf
<1>4. ASSUME NEW p \in PlayersOf(w)
      PROVE  IdsOf(carried'[p]) = BagOf(w, p)
  <2>1. carried'[p] = AttachLoot(w, p)
    BY <1>2 DEF ApplyDesiredState
  <2>2. ASSUME NEW o \in BagOf(w, p), OldBag(p)[o] = None, AbandonedLoot(w)[o] = None
        PROVE  o \in CreatedLoot(w)
    BY <2>2 DEF CreatedLoot, Attached, BagOf
  <2>3. \A o \in Loot : AttachLoot(w, p)[o] # None <=> o \in BagOf(w, p)
    BY <1>1, <2>2 DEF AttachLoot
  <2> QED
    BY <2>1, <2>3 DEF IdsOf, BagOf
<1> QED
  BY <1>2, <1>3, <1>4

\* A list of players changes no bag of a player that the last state named.
LEMMA Listed ==
  ASSUME NEW ps, UpdatePlayersList(ps)
  PROVE  /\ shown' = shown /\ lostObjects' = lostObjects
         /\ \A p \in shown \cap Players : carried'[p] = carried[p]
BY DEF UpdatePlayersList

\* The answer to a poll is one the server may give.
LEMMA AnswerGood ==
  ASSUME world \in Worlds
  PROVE  /\ Answer(world) \in Polls(Worlds)
         /\ Answer(world).status = "ok" => GoodState(Answer(world).body)
BY DEF Answer, Polls, GoodState, Unauthorized

\* Slots get a free, asked or answered poll; nothing else.
LEMMA SlotSet ==
  ASSUME Answers, NEW i \in StateSlots, NEW poll \in Polls(Worlds),
         poll.status = "ok" => GoodState(poll.body),
         states' = [states EXCEPT ![i] = poll], world' = world
  PROVE  Answers'
BY DEF Answers, GoodState, PlayersOf, In

LEMMA SimplePolls ==
  /\ Free \in Polls(Worlds) /\ Free.status = "free"
  /\ Asked \in Polls(Worlds) /\ Asked.status = "asked"
BY DEF Polls, Free, Asked

----------------------------------------------------------------------------
(* The steps *)

LEMMA CInitInv == CInit => CInv
<1> SUFFICES ASSUME CInit PROVE CInv
  OBVIOUS
<1>1. world \in Worlds
  BY ClientAssumption DEF CInit, Worlds, Dogs, Places
<1>2. Answers
  BY <1>1, SimplePolls DEF CInit, Answers
<1> QED
  BY <1>2 DEF CInit, CInv, Loaded, ShowsOneMoment

LEMMA WorldStepInv ==
  ASSUME CInv, WorldStep
  PROVE  CInv'
<1>1. world' \in Worlds
  <2>1. world \in Worlds
    BY DEF CInv, Answers
  <2>2. ASSUME NEW p \in Players, PlayerJoins(p) \/ PlayerLeaves(p)
        PROVE  world' \in Worlds
    <3>1. CASE PlayerJoins(p)
      BY <2>1, <3>1 DEF PlayerJoins, Worlds, Dogs
    <3>2. CASE PlayerLeaves(p)
      <4> DEFINE kept == [o \in Loot |-> IF world.where[o] = p THEN "gone"
                                         ELSE world.where[o]]
                 dogs == [world.dogs EXCEPT ![p] = "left"]
      <4>1. kept \in [Loot -> Places] /\ dogs \in Dogs
        BY <2>1 DEF Worlds, Dogs, Places
      <4>2. world' = [[world EXCEPT !.dogs = dogs] EXCEPT !.where = kept]
        BY <2>1, <3>2 DEF PlayerLeaves, Worlds
      <4> QED
        BY <2>1, <4>1, <4>2 DEF Worlds
    <3> QED
      BY <2>2, <3>1, <3>2
  <2>3. ASSUME NEW o \in Loot, NEW from, NEW to \in Places, LootMoves(o, from, to)
        PROVE  world' \in Worlds
    BY <2>1, <2>3 DEF LootMoves, Worlds
  <2> QED
    BY <2>2, <2>3 DEF WorldStep, Places, PlayersOf, In
<1>2. UNCHANGED <<assetVars, states, lists, startVars, desired, lastList,
                  pictureVars>>
  BY DEF WorldStep
<1> QED
  BY <1>1, <1>2
  DEF CInv, Answers, Loaded, ShowsOneMoment, GoodState, PlayersOf, In, LostOf,
      BagOf, IdsOf, assetVars, startVars, pictureVars

LEMMA ServerAnswersInv ==
  ASSUME CInv, NEW i, ServerAnswers(i) \/ PollFails(i)
  PROVE  CInv'
<1>1. Answers'
  <2>1. world' = world /\ Answers
    BY DEF ServerAnswers, PollFails, CInv
  <2>2. CASE states' = states
    BY <2>1, <2>2 DEF Answers, GoodState, PlayersOf, In
  <2>3. CASE i \in StateSlots /\ states' = [states EXCEPT ![i] = Answer(world)]
    BY <2>1, <2>3, AnswerGood, SlotSet DEF Answers
  <2>4. CASE i \in StateSlots /\ states' = [states EXCEPT ![i] = Free]
    BY <2>1, <2>4, SimplePolls, SlotSet
  <2> QED
    BY <2>2, <2>3, <2>4 DEF ServerAnswers, PollFails
<1> QED
  BY <1>1
  DEF CInv, ServerAnswers, PollFails, Loaded, ShowsOneMoment, GoodState,
      PlayersOf, In, LostOf, BagOf, IdsOf, assetVars, startVars, pictureVars

LEMMA LoadInv ==
  ASSUME CInv, Load
  PROVE  CInv'
BY DEF Load, LoadActor, LoadLootType, CInv, Answers, Loaded, ShowsOneMoment,
       GoodState, PlayersOf, In, LostOf, BagOf, IdsOf, startVars, pictureVars

LEMMA NewGameStateInv ==
  ASSUME CInv, NewGameState
  PROVE  CInv'
<1>1. Answers'
  <2>1. PICK i \in StateSlots : states' = [states EXCEPT ![i] = Asked]
    BY DEF NewGameState
  <2> QED
    BY <2>1, SimplePolls, SlotSet DEF NewGameState, CInv
<1> QED
  BY <1>1
  DEF NewGameState, IsReady, CInv, Loaded, ShowsOneMoment, GoodState, PlayersOf,
      In, LostOf, BagOf, IdsOf, startVars, pictureVars

LEMMA GetStateInv ==
  ASSUME CInv, NEW i \in StateSlots, GetState(i)
  PROVE  CInv'
<1>1. /\ states' = [states EXCEPT ![i] = Free]
      /\ UNCHANGED <<world, assetVars>>
      /\ page = "game" /\ states[i].status \in {"ok", "refused"}
  BY DEF GetState
<1>2. Answers'
  BY <1>1, SimplePolls, SlotSet DEF CInv
<1>3. CASE states[i] = Unauthorized
  BY <1>1, <1>2, <1>3
  DEF GetState, CInv, Loaded, ShowsOneMoment, GoodState, PlayersOf, In, LostOf,
      BagOf, IdsOf, assetVars, startVars, pictureVars
<1>4. CASE states[i] # Unauthorized
  <2> DEFINE w == states[i].body
  <2>1. GoodState(w)
    BY <1>1, <1>4 DEF CInv, Answers, Polls, Free, Asked, Unauthorized
  <2>2. /\ desired' = w /\ stateLoaded' = TRUE /\ started' = playersLoaded
        /\ playersLoaded' = playersLoaded
        /\ playersLoaded => ApplyDesiredState(w, listed)
    BY <1>4 DEF GetState
  <2>3. Loaded'
    BY <1>1, <2>1, <2>2 DEF CInv, Loaded, GoodState, PlayersOf, In, assetVars
  <2>4. ShowsOneMoment'
    <3>1. CASE playersLoaded
      BY <2>1, <2>2, <3>1, Applied
      DEF GoodState, ShowsOneMoment, PlayersOf, In, LostOf, BagOf, IdsOf
    <3>2. CASE ~playersLoaded
      BY <2>2, <3>2 DEF ShowsOneMoment
    <3> QED
      BY <3>1, <3>2
  <2> QED
    BY <1>2, <2>3, <2>4 DEF CInv
<1> QED
  BY <1>3, <1>4

LEMMA GetPlayersInv ==
  ASSUME CInv, NEW i \in ListSlots, GetPlayers(i)
  PROVE  CInv'
<1> DEFINE dogs == lists[i].body
<1>1. /\ UNCHANGED <<world, assetVars, states, stateLoaded, desired>>
      /\ playersLoaded' = TRUE /\ started' = stateLoaded
  BY DEF GetPlayers
<1>2. Answers' /\ Loaded'
  BY <1>1 DEF CInv, Answers, Loaded, GoodState, PlayersOf, In, assetVars
<1>3. ShowsOneMoment'
  <2>1. CASE ~stateLoaded
    BY <1>1, <2>1 DEF ShowsOneMoment
  <2>2. CASE stateLoaded /\ ~started
    <3>1. ApplyDesiredState(desired, In(dogs))
      BY <2>2 DEF GetPlayers
    <3>2. desired \in Worlds
      BY <2>2 DEF CInv, Loaded, GoodState
    <3> QED
      BY <1>1, <3>1, <3>2, Applied
      DEF ShowsOneMoment, PlayersOf, In, LostOf, BagOf, IdsOf
  <2>3. CASE stateLoaded /\ started
    <3>1. UpdatePlayersList(In(dogs))
      BY <2>3 DEF GetPlayers
    <3>2. /\ shown' = shown /\ lostObjects' = lostObjects
          /\ \A p \in shown \cap Players : carried'[p] = carried[p]
      BY <3>1, Listed
    <3>3. shown \subseteq Players
      BY <2>3 DEF CInv, ShowsOneMoment, PlayersOf, In
    <3> QED
      BY <1>1, <2>3, <3>2, <3>3
      DEF CInv, ShowsOneMoment, PlayersOf, In, LostOf, BagOf, IdsOf
  <2> QED
    BY <2>1, <2>2, <2>3 DEF CInv, Loaded
<1> QED
  BY <1>2, <1>3 DEF CInv

LEMMA GoToRecordsInv ==
  ASSUME CInv, NEW i \in ListSlots, GoToRecords(i)
  PROVE  CInv'
<1>1. Answers'
  BY SimplePolls DEF GoToRecords, CInv, Answers
<1> QED
  BY <1>1 DEF GoToRecords, CInv, Loaded, ShowsOneMoment

LEMMA FrameInv ==
  ASSUME CInv, NEW askState \in BOOLEAN, NEW askPlayers \in BOOLEAN, NEW done,
         Frame(askState, askPlayers, done)
  PROVE  CInv'
<1>1. Answers'
  <2>1. CASE states' = states
    BY <2>1 DEF Frame, CInv, Answers, GoodState, PlayersOf, In
  <2>2. CASE states' # states
    <3>1. PICK i \in StateSlots : states' = [states EXCEPT ![i] = Answer(world)]
      BY <2>2 DEF Frame, Ask, CInv, Answers
    <3> QED
      BY <3>1, AnswerGood, SlotSet DEF Frame, CInv, Answers
  <2> QED
    BY <2>1, <2>2
<1> QED
  BY <1>1
  DEF Frame, CInv, Loaded, ShowsOneMoment, GoodState, PlayersOf, In, LostOf,
      BagOf, IdsOf, assetVars, startVars

LEMMA CNextInv == CInv /\ [CNext]_cVars => CInv'
<1> SUFFICES ASSUME CInv, [CNext]_cVars PROVE CInv'
  OBVIOUS
<1>1. CASE CNext
  BY <1>1, WorldStepInv, ServerAnswersInv, LoadInv, NewGameStateInv, GetStateInv,
     GetPlayersInv, GoToRecordsInv, FrameInv DEF CNext
<1>2. CASE UNCHANGED cVars
  BY <1>2
  DEF cVars, CInv, Answers, Loaded, ShowsOneMoment, GoodState, PlayersOf, In,
      LostOf, BagOf, IdsOf, assetVars, startVars, pictureVars
<1> QED
  BY <1>1, <1>2

THEOREM CInvHolds == CSpec => []CInv
BY CInitInv, CNextInv, PTL DEF CSpec

\* _applyDesiredState and the functions it calls turn the difference between two
\* answers, which may be any two moments in any order, into exactly the picture of
\* the second.
THEOREM ShowsOneMomentHolds == CSpec => []ShowsOneMoment
BY CInvHolds, PTL DEF CInv

\* The frames never meet a model, an answer or a player that is not there.
LEMMA CInvNeverUndefined == CInv => NeverUndefined
BY NoneAssumption
DEF CInv, Answers, Loaded, GoodState, ShowsOneMoment, NeverUndefined
THEOREM NeverUndefinedHolds == CSpec => []NeverUndefined
BY CInvHolds, CInvNeverUndefined, PTL

----------------------------------------------------------------------------
(* Types *)

\* Before the first list of players no player is on the page.
Fresh ==
  /\ started <=> stateLoaded /\ playersLoaded
  /\ ~playersLoaded => listed = {}

TypeInv == CTypeOK /\ Fresh

\* Everything _applyDesiredState puts into the picture is a clone.
LEMMA AppliedType ==
  ASSUME CTypeOK, NEW w \in Worlds, NEW elems \in SUBSET Players,
         linked \subseteq elems, ApplyDesiredState(w, elems)
  PROVE  /\ lostObjects' \in CloneFunctions /\ disappearing' \in CloneFunctions
         /\ carried' \in [Players -> CloneFunctions]
         /\ shown' \subseteq Players /\ listed' = elems /\ linked' \subseteq listed'
         /\ scene' \subseteq Loot \X Copies
<1>1. \A o \in CreatedLoot(w) : NewClone(o) \in Copies /\ o \in Loot
  BY DEF ApplyDesiredState, NewClone, UnusedCopies, CreatedLoot, LostOf
<1>2. /\ lostObjects \in CloneFunctions /\ disappearing \in CloneFunctions
      /\ carried \in [Players -> CloneFunctions] /\ scene \subseteq Loot \X Copies
      /\ CloneFunctions = [Loot -> Opt(Copies)]
      /\ None \in Opt(Copies) /\ Copies \subseteq Opt(Copies)
  BY DEF CTypeOK, CloneFunctions, Opt
<1>3. \A p \in Players : OldBag(p) \in CloneFunctions
  BY <1>2 DEF OldBag, NoClone
<1>4. AbandonedLoot(w) \in CloneFunctions
  BY <1>2 DEF AbandonedLoot
<1>5. lostObjects' \in CloneFunctions
  <2>1. \A o \in Loot : ProcessLostObjects(w)[o] \in Opt(Copies)
    BY <1>1, <1>2 DEF ProcessLostObjects, CreatedLoot
  <2> QED
    BY <1>2, <2>1 DEF ApplyDesiredState, ProcessLostObjects
<1>6. disappearing' \in CloneFunctions
  <2>1. \A o \in Loot : DroppedFromBags(w, o) \subseteq Opt(Copies)
    BY <1>2, <1>3 DEF DroppedFromBags, PlayersOf, In
  <2>2. \A o \in Loot : DropLoot(w)[o] \in Opt(Copies)
    BY <1>2, <1>4, <2>1 DEF DropLoot
  <2> QED
    BY <1>2, <2>2 DEF ApplyDesiredState, DropLoot
<1>7. carried' \in [Players -> CloneFunctions]
  <2>1. ASSUME NEW p \in PlayersOf(w) PROVE AttachLoot(w, p) \in CloneFunctions
    <3>1. p \in Players
      BY DEF PlayersOf, In
    <3>2. ASSUME NEW o \in Loot, o \in BagOf(w, p), OldBag(p)[o] = None,
                 AbandonedLoot(w)[o] = None
          PROVE  o \in CreatedLoot(w)
      BY <3>2 DEF CreatedLoot, Attached
    <3>3. \A o \in Loot : AttachLoot(w, p)[o] \in Opt(Copies)
      BY <1>1, <1>2, <1>3, <1>4, <3>1, <3>2 DEF AttachLoot
    <3> QED
      BY <1>2, <3>3 DEF AttachLoot
  <2>2. NoClone \in CloneFunctions
    BY <1>2 DEF NoClone
  <2> QED
    BY <1>2, <2>1, <2>2 DEF ApplyDesiredState
<1>8. scene' \subseteq Loot \X Copies
  BY <1>1, <1>2 DEF ApplyDesiredState
<1>9. shown' \subseteq Players /\ listed' = elems /\ linked' \subseteq listed'
  BY DEF ApplyDesiredState, PlayersOf, In
<1> QED
  BY <1>5, <1>6, <1>7, <1>8, <1>9

LEMMA DogsAnswer ==
  ASSUME world \in Worlds
  PROVE  Answer(world.dogs) \in Polls(Dogs)
BY DEF Answer, Polls, Unauthorized, Worlds

LEMMA SimpleLists == Free \in Polls(Dogs) /\ Asked \in Polls(Dogs)
BY DEF Polls, Free, Asked

LEMMA ListBody ==
  ASSUME NEW poll \in Polls(Dogs), poll.status = "ok"
  PROVE  poll.body \in Dogs
BY DEF Polls, Free, Asked, Unauthorized

LEMMA TypeInit == CInit => TypeInv
<1> SUFFICES ASSUME CInit PROVE TypeInv
  OBVIOUS
<1>1. world \in Worlds /\ states \in [StateSlots -> Polls(Worlds)]
  BY CInitInv DEF CInv, Answers
<1>2. NoClone \in CloneFunctions /\ None \in Opt(Worlds) /\ None \in Opt(Dogs)
  BY DEF NoClone, CloneFunctions, Opt
<1> QED
  BY <1>1, <1>2, SimpleLists DEF CInit, TypeInv, CTypeOK, Fresh

LEMMA TypeNext == TypeInv /\ CInv /\ CInv' /\ [CNext]_cVars => TypeInv'
<1> SUFFICES ASSUME TypeInv, CInv, CInv', [CNext]_cVars PROVE TypeInv'
  OBVIOUS
<1>1. /\ world \in Worlds /\ world' \in Worlds
      /\ states' \in [StateSlots -> Polls(Worlds)]
  BY DEF CInv, Answers
<1>2. CASE WorldStep
  BY <1>1, <1>2
  DEF WorldStep, PlayerJoins, PlayerLeaves, LootMoves, TypeInv, CTypeOK, Fresh,
      assetVars, startVars, pictureVars
<1>3. ASSUME NEW i, ServerAnswers(i) \/ PollFails(i) PROVE TypeInv'
  <2>1. lists' \in [ListSlots -> Polls(Dogs)]
    BY <1>1, <1>3, DogsAnswer, SimpleLists
    DEF ServerAnswers, PollFails, TypeInv, CTypeOK
  <2> QED
    BY <1>1, <1>3, <2>1
    DEF ServerAnswers, PollFails, TypeInv, CTypeOK, Fresh, assetVars, startVars,
        pictureVars
<1>4. CASE Load
  BY <1>4 DEF Load, LoadActor, LoadLootType, TypeInv, CTypeOK, Fresh, startVars,
              pictureVars
<1>5. CASE NewGameState
  <2>1. lists' \in [ListSlots -> Polls(Dogs)]
    BY <1>5, SimpleLists DEF NewGameState, TypeInv, CTypeOK
  <2> QED
    BY <1>1, <1>5, <2>1
    DEF NewGameState, TypeInv, CTypeOK, Fresh, startVars, pictureVars
<1>6. ASSUME NEW i \in StateSlots, GetState(i) PROVE TypeInv'
  <2>1. /\ UNCHANGED <<world, assetVars, lists, lastList, playersLoaded>>
        /\ stateLoaded' \in BOOLEAN /\ regular' \in BOOLEAN
        /\ started' <=> stateLoaded' /\ playersLoaded'
        /\ desired' \in Opt(Worlds)
    <3>1. CASE states[i] = Unauthorized
      BY <1>6, <3>1 DEF GetState, TypeInv, CTypeOK, Fresh, startVars
    <3>2. CASE states[i] # Unauthorized
      BY <1>6, <3>2
      DEF GetState, TypeInv, CTypeOK, NotOvertaken, CInv, Loaded, GoodState, Opt
    <3> QED
      BY <3>1, <3>2
  <2>2. CASE UNCHANGED pictureVars
    BY <1>1, <2>1, <2>2
    DEF TypeInv, CTypeOK, Fresh, assetVars, pictureVars, CInv, Loaded
  <2>3. CASE playersLoaded /\ ApplyDesiredState(states[i].body, listed)
             /\ states[i] # Unauthorized
    <3>1. states[i].body \in Worlds
      BY <1>6, <2>3
      DEF GetState, CInv, Answers, Polls, Free, Asked, Unauthorized, GoodState
    <3>2. CTypeOK /\ listed \in SUBSET Players /\ linked \subseteq listed
      BY DEF TypeInv, CTypeOK
    <3> QED
      BY <1>1, <2>1, <2>3, <3>1, <3>2, AppliedType
      DEF TypeInv, CTypeOK, Fresh, assetVars, CInv, Loaded
  <2> QED
    BY <1>6, <2>2, <2>3 DEF GetState
<1>7. ASSUME NEW i \in ListSlots, GetPlayers(i) PROVE TypeInv'
  <2> DEFINE dogs == lists[i].body
  <2>1. /\ UNCHANGED <<world, assetVars, states, stateLoaded, desired>>
        /\ playersLoaded' = TRUE /\ started' = stateLoaded
        /\ lists' = [lists EXCEPT ![i] = Free] /\ lastList' = dogs
        /\ regular' \in BOOLEAN
    BY <1>7 DEF GetPlayers, TypeInv, CTypeOK
  <2>2. dogs \in Dogs /\ In(dogs) \in SUBSET Players
    BY <1>7, ListBody DEF GetPlayers, TypeInv, CTypeOK, In
  <2>3. lists' \in [ListSlots -> Polls(Dogs)] /\ lastList' \in Opt(Dogs)
    BY <2>1, <2>2, SimpleLists DEF TypeInv, CTypeOK, Opt
  <2>4. CASE stateLoaded /\ ~started
    <3>1. ApplyDesiredState(desired, In(dogs))
      BY <1>7, <2>4 DEF GetPlayers
    <3>2. desired \in Worlds /\ linked \subseteq In(dogs) /\ CTypeOK
      BY <2>4 DEF TypeInv, CTypeOK, Fresh, CInv, Loaded, GoodState
    <3> QED
      BY <1>1, <2>1, <2>2, <2>3, <3>1, <3>2, AppliedType
      DEF TypeInv, CTypeOK, Fresh, assetVars, CInv, Loaded
  <2>5. CASE ~(stateLoaded /\ ~started)
    <3>1. UpdatePlayersList(In(dogs))
      BY <1>7, <2>5 DEF GetPlayers
    <3>2. /\ listed' = In(dogs) /\ linked' \subseteq In(dogs)
          /\ scene' \subseteq Loot \X Copies
          /\ UNCHANGED <<lostObjects, shown, disappearing>>
      BY <3>1 DEF UpdatePlayersList, RemoveBags, TypeInv, CTypeOK
    <3>3. carried' \in [Players -> CloneFunctions]
      <4>1. NoClone \in CloneFunctions
        BY DEF NoClone, CloneFunctions, Opt
      <4> QED
        BY <3>1, <4>1 DEF UpdatePlayersList, TypeInv, CTypeOK
    <3> QED
      BY <1>1, <2>1, <2>2, <2>3, <3>2, <3>3
      DEF TypeInv, CTypeOK, Fresh, assetVars, CInv, Loaded
  <2> QED
    BY <2>4, <2>5
<1>8. ASSUME NEW i \in ListSlots, GoToRecords(i) PROVE TypeInv'
  <2>1. NoClone \in CloneFunctions /\ None \in Opt(Worlds) /\ None \in Opt(Dogs)
    BY DEF NoClone, CloneFunctions, Opt
  <2> QED
    BY <1>1, <1>8, <2>1, SimpleLists DEF GoToRecords, TypeInv, CTypeOK, Fresh
<1>9. ASSUME NEW askState \in BOOLEAN, NEW askPlayers \in BOOLEAN, NEW done,
             Frame(askState, askPlayers, done)
      PROVE  TypeInv'
  <2>1. lists' \in [ListSlots -> Polls(Dogs)]
    BY <1>1, <1>9, DogsAnswer DEF Frame, Ask, TypeInv, CTypeOK
  <2>2. disappearing' \in CloneFunctions /\ scene' \subseteq Loot \X Copies
    BY <1>9 DEF Frame, TypeInv, CTypeOK, CloneFunctions, Opt
  <2> QED
    BY <1>1, <1>9, <2>1, <2>2
    DEF Frame, TypeInv, CTypeOK, Fresh, assetVars, startVars
<1>10. CASE UNCHANGED cVars
  BY <1>10 DEF cVars, TypeInv, CTypeOK, Fresh, assetVars, startVars, pictureVars
<1> QED
  BY <1>2, <1>3, <1>4, <1>5, <1>6, <1>7, <1>8, <1>9, <1>10 DEF CNext

\* The type invariant: every slot of the picture holds a clone or nothing.
THEOREM CTypeHolds == CSpec => []CTypeOK
<1>1. TypeInv => CTypeOK
  BY DEF TypeInv
<1> QED
  BY <1>1, TypeInit, TypeNext, CInvHolds, PTL DEF CSpec
==============================================================================
