---------------------------- MODULE Scene_proofs ----------------------------
(***************************************************************************)
(* Proofs about the scene of Client, for every value of its constants: no  *)
(* clone is left behind in it and none that is shown is missing from it,   *)
(* as long as no answer is overtaken.                                      *)
(*                                                                         *)
(* InOrder: whatever the page may still be told is a moment of one course  *)
(* of events that lies behind the server.  OneHolder: a clone is held by   *)
(* one part of the picture.  Tidy: what the scene has to do with the       *)
(* picture; this is what an answer, a list or a frame keeps.               *)
(***************************************************************************)
EXTENDS Client_proofs

----------------------------------------------------------------------------
(* The order of the answers *)

\* A list or a state says nothing that is less far than another one.
NoEarlierDogs(e, d) ==
  \A p \in Players : /\ d[p] = "left" => e[p] = "left"
                     /\ d[p] = "in" => e[p] # "out"
NoEarlier(w, v) ==
  /\ NoEarlierDogs(w.dogs, v.dogs)
  /\ \A o \in Loot : /\ v.where[o] = "gone" => w.where[o] = "gone"
                     /\ v.where[o] \in Players => w.where[o] \in Players \cup {"gone"}
                     /\ v.where[o] = "map" => w.where[o] # "absent"

LEMMA NotOlderDogs ==
  ASSUME NEW d \in Dogs, NEW e \in Dogs
  PROVE  ~OlderDogs(e, d) <=> NoEarlierDogs(e, d)
<1>1. /\ Stage("out") = 0 /\ Stage("in") = 1 /\ Stage("left") = 3
  BY PlaceAssumption DEF Stage
<1>2. \A p \in Players : d[p] \in {"out", "in", "left"} /\ e[p] \in {"out", "in", "left"}
  BY DEF Dogs
<1>3. ASSUME NEW p \in Players
      PROVE  ~(Stage(e[p]) < Stage(d[p])) <=>
               (d[p] = "left" => e[p] = "left") /\ (d[p] = "in" => e[p] # "out")
  <2>1. d[p] \in {"out", "in", "left"} /\ e[p] \in {"out", "in", "left"}
    BY <1>2
  <2> QED
    BY <1>1, <2>1
<1> QED
  BY <1>3 DEF OlderDogs, NoEarlierDogs

LEMMA NotOlder ==
  ASSUME NEW v \in Worlds, NEW w \in Worlds
  PROVE  ~Older(w, v) <=> NoEarlier(w, v)
<1>1. /\ Stage("absent") = 0 /\ Stage("map") = 1 /\ Stage("gone") = 3
      /\ \A p \in Players : Stage(p) = 2
  BY PlaceAssumption DEF Stage
<1>2. \A o \in Loot : v.where[o] \in Places /\ w.where[o] \in Places
  BY DEF Worlds
<1>3. ASSUME NEW o \in Loot
      PROVE  ~(Stage(w.where[o]) < Stage(v.where[o])) <=>
               /\ v.where[o] = "gone" => w.where[o] = "gone"
               /\ v.where[o] \in Players => w.where[o] \in Players \cup {"gone"}
               /\ v.where[o] = "map" => w.where[o] # "absent"
  <2>1. v.where[o] \in Places /\ w.where[o] \in Places
    BY <1>2
  <2> QED
    BY <1>1, <2>1, PlaceAssumption DEF Places
<1>4. ~OlderDogs(w.dogs, v.dogs) <=> NoEarlierDogs(w.dogs, v.dogs)
  BY NotOlderDogs DEF Worlds
<1> QED
  BY <1>3, <1>4 DEF Older, NoEarlier

\* The moments of the server that the page has or may still get.
Said == {states[i].body : i \in {j \in StateSlots : states[j].status = "ok"}}
Moments == {world} \cup Said \cup ({desired} \ {None})
SaidDogs == {lists[i].body : i \in {j \in ListSlots : lists[j].status = "ok"}}
DogMoments == SaidDogs \cup ({lastList} \ {None})

\* An object is in no other bag at another moment.
OneOwner(v, w) ==
  \A o \in Loot : v.where[o] \in Players /\ w.where[o] \in Players =>
                    v.where[o] = w.where[o]
CarriersIn(w) ==
  \A o \in Loot, p \in Players : w.where[o] = p => w.dogs[p] = "in"

\* All of them lie behind the server, and are moments of one course of events.
InOrder ==
  /\ \A v \in Moments : v \in Worlds /\ NoEarlier(world, v) /\ CarriersIn(v)
  /\ \A v, w \in Moments : OneOwner(v, w)
  /\ \A d \in DogMoments : d \in Dogs /\ NoEarlierDogs(world.dogs, d)

LEMMA InOrderKept ==
  ASSUME InOrder, world' = world, Moments' \subseteq Moments,
         DogMoments' \subseteq DogMoments \cup {world.dogs}
  PROVE  InOrder'
<1>1. world \in Worlds /\ world.dogs \in Dogs
  BY DEF InOrder, Moments, Worlds
<1>2. NoEarlierDogs(world.dogs, world.dogs)
  BY DEF NoEarlierDogs
<1> QED
  BY <1>1, <1>2 DEF InOrder, NoEarlier, NoEarlierDogs, OneOwner, CarriersIn

LEMMA InOrderWorld ==
  ASSUME InOrder, world' \in Worlds, NoEarlier(world', world), CarriersIn(world'),
         \A v \in Moments : OneOwner(v, world'),
         UNCHANGED <<states, lists, desired, lastList>>
  PROVE  InOrder'
<1>1. Moments' \subseteq Moments \cup {world'} /\ DogMoments' = DogMoments
  BY DEF Moments, Said, DogMoments, SaidDogs
<1>2. \A v \in Moments : NoEarlier(world', v)
  <2> SUFFICES ASSUME NEW v \in Moments PROVE NoEarlier(world', v)
    OBVIOUS
  <2>1. NoEarlier(world, v) /\ NoEarlier(world', world)
    BY DEF InOrder
  <2>2. /\ \A p \in Players : world.dogs[p] \in {"out", "in", "left"}
        /\ \A o \in Loot : world.where[o] \in Places
    BY DEF InOrder, Moments, Worlds, Dogs
  <2>3. NoEarlierDogs(world'.dogs, v.dogs)
    BY <2>1, <2>2 DEF NoEarlier, NoEarlierDogs
  <2>4. ASSUME NEW o \in Loot
        PROVE  /\ v.where[o] = "gone" => world'.where[o] = "gone"
               /\ v.where[o] \in Players => world'.where[o] \in Players \cup {"gone"}
               /\ v.where[o] = "map" => world'.where[o] # "absent"
    BY <2>1, <2>2, PlaceAssumption DEF NoEarlier, Places
  <2> QED
    BY <2>3, <2>4 DEF NoEarlier
<1>3. NoEarlier(world', world') /\ OneOwner(world', world')
  BY DEF NoEarlier, NoEarlierDogs, OneOwner
<1>4. \A v \in Moments : OneOwner(world', v)
  BY DEF OneOwner
<1>5. \A d \in DogMoments : NoEarlierDogs(world'.dogs, d)
  <2> SUFFICES ASSUME NEW d \in DogMoments PROVE NoEarlierDogs(world'.dogs, d)
    OBVIOUS
  <2>1. NoEarlierDogs(world.dogs, d) /\ NoEarlierDogs(world'.dogs, world.dogs)
    BY DEF InOrder, NoEarlier
  <2>2. \A p \in Players : world.dogs[p] \in {"out", "in", "left"}
    BY DEF InOrder, Moments, Worlds, Dogs
  <2> QED
    BY <2>1, <2>2 DEF NoEarlierDogs
<1>6. \A v \in Moments' : v \in Worlds /\ NoEarlier(world', v) /\ CarriersIn(v)
  BY <1>1, <1>2, <1>3 DEF InOrder
<1>7. \A v, w \in Moments' : OneOwner(v, w)
  BY <1>1, <1>3, <1>4 DEF InOrder
<1>8. \A d \in DogMoments' : d \in Dogs /\ NoEarlierDogs(world'.dogs, d)
  BY <1>1, <1>5 DEF InOrder
<1> QED
  BY <1>6, <1>7, <1>8 DEF InOrder, NoEarlier, NoEarlierDogs, CarriersIn, OneOwner

----------------------------------------------------------------------------
(* The clones *)

\* A clone has one holder.
OneHolder ==
  \A o \in Loot :
    /\ lostObjects[o] # None => lostObjects[o] # disappearing[o]
    /\ \A p \in Players : carried[p][o] # None =>
         /\ carried[p][o] \notin {lostObjects[o], disappearing[o]}
         /\ \A q \in Players \ {p} : carried[p][o] # carried[q][o]

\* Whose data is gone has no bag, and whoever is listed and shown is linked.
BagsLinked ==
  /\ \A p \in Players \ (shown \cup linked) : carried[p] = NoClone
  /\ listed \cap shown \subseteq linked

\* The picture shows v, with the players of gone taken off the page.
Tidy(v, gone) ==
  /\ \A o \in Loot : disappearing[o] # None => v.where[o] = "gone"
  /\ \A p \in linked \ shown : v.dogs[p] = "left"
  /\ \A p \in gone, o \in Loot : carried[p][o] # None => <<o, carried[p][o]>> \notin scene
  /\ \A p \in shown \ gone, o \in Loot : carried[p][o] # None => <<o, carried[p][o]>> \in scene
  /\ \A o \in Loot : lostObjects[o] # None => <<o, lostObjects[o]>> \in scene
  /\ \A o \in Loot, c \in Copies : <<o, c>> \in scene =>
       c \in {lostObjects[o], disappearing[o]} \cup {carried[p][o] : p \in Players}

Shows(v) ==
  /\ shown = PlayersOf(v) /\ IdsOf(lostObjects) = LostOf(v)
  /\ \A p \in shown : IdsOf(carried[p]) = BagOf(v, p)

\* A clone made for o is new, and one is made when an answer shows an object that
\* had none.
LEMMA NewCloneNew ==
  ASSUME NEW w \in Worlds, NEW elems, ApplyDesiredState(w, elems),
         NEW o \in CreatedLoot(w)
  PROVE  /\ NewClone(o) \in Copies /\ NewClone(o) # None
         /\ <<o, NewClone(o)>> \notin scene
         /\ NewClone(o) \notin {lostObjects[o], disappearing[o]}
         /\ \A p \in Players : NewClone(o) # carried[p][o]
<1>1. UnusedCopies(o) # {}
  BY DEF ApplyDesiredState
<1>2. NewClone(o) \in UnusedCopies(o)
  BY <1>1 DEF NewClone
<1> QED
  BY <1>2, ClientAssumption DEF UnusedCopies, Referenced

\* One object before and after an answer: where each clone of it comes from.
LEMMA Origins ==
  ASSUME CTypeOK, NEW w \in Worlds, NEW elems, ApplyDesiredState(w, elems),
         NEW o \in Loot
  PROVE  /\ w.where[o] = "map" =>
              IF lostObjects[o] # None THEN lostObjects'[o] = lostObjects[o]
              ELSE lostObjects'[o] = NewClone(o) /\ o \in CreatedLoot(w)
         /\ w.where[o] # "map" => lostObjects'[o] = None
         /\ \A p \in PlayersOf(w) :
              /\ w.where[o] # p => carried'[p][o] = None
              /\ w.where[o] = p /\ OldBag(p)[o] # None => carried'[p][o] = OldBag(p)[o]
              /\ w.where[o] = p /\ OldBag(p)[o] = None =>
                   IF lostObjects[o] # None THEN carried'[p][o] = lostObjects[o]
                   ELSE carried'[p][o] = NewClone(o) /\ o \in CreatedLoot(w)
         /\ \A p \in Players \ PlayersOf(w) :
              carried'[p] = IF p \in linked THEN carried[p] ELSE NoClone
         /\ \A c : <<o, c>> \in scene' <=>
              <<o, c>> \in scene \/ (o \in CreatedLoot(w) /\ c = NewClone(o))
<1>1. /\ LostOf(w) = {k \in Loot : w.where[k] = "map"}
      /\ \A p : BagOf(w, p) = {k \in Loot : w.where[k] = p}
      /\ "map" \notin Players
  BY PlaceAssumption DEF LostOf, BagOf
<1>2. /\ lostObjects' = ProcessLostObjects(w)
      /\ carried' = [p \in Players |->
                      IF p \in PlayersOf(w) THEN AttachLoot(w, p)
                      ELSE IF p \in linked THEN carried[p] ELSE NoClone]
      /\ scene' = scene \cup {<<k, NewClone(k)>> : k \in CreatedLoot(w)}
      /\ PlayersOf(w) \subseteq Players
  BY DEF ApplyDesiredState, PlayersOf, In
<1>3. /\ lostObjects'[o] = IF o \notin LostOf(w) THEN None
                           ELSE IF lostObjects[o] # None THEN lostObjects[o]
                           ELSE NewClone(o)
      /\ o \in LostOf(w) /\ lostObjects[o] = None => o \in CreatedLoot(w)
  BY <1>2 DEF ProcessLostObjects, CreatedLoot
<1>4. ASSUME NEW p \in PlayersOf(w)
      PROVE  /\ carried'[p][o] = IF o \notin BagOf(w, p) THEN None
                                 ELSE IF OldBag(p)[o] # None THEN OldBag(p)[o]
                                 ELSE IF AbandonedLoot(w)[o] # None
                                 THEN AbandonedLoot(w)[o] ELSE NewClone(o)
             /\ o \in BagOf(w, p) /\ OldBag(p)[o] = None => Attached(w, o)
  BY <1>2 DEF AttachLoot, Attached
<1>5. /\ AbandonedLoot(w)[o] = IF o \in LostOf(w) THEN None ELSE lostObjects[o]
      /\ AbandonedLoot(w)[o] = None /\ Attached(w, o) => o \in CreatedLoot(w)
  BY DEF AbandonedLoot, CreatedLoot
<1>6. \A p \in PlayersOf(w) :
        /\ w.where[o] # p => carried'[p][o] = None
        /\ w.where[o] = p /\ OldBag(p)[o] # None => carried'[p][o] = OldBag(p)[o]
        /\ w.where[o] = p /\ OldBag(p)[o] = None =>
             IF lostObjects[o] # None THEN carried'[p][o] = lostObjects[o]
             ELSE carried'[p][o] = NewClone(o) /\ o \in CreatedLoot(w)
  <2> TAKE p \in PlayersOf(w)
  <2>1. p # "map"
    BY <1>1, <1>2
  <2>2. o \in BagOf(w, p) <=> w.where[o] = p
    BY <1>1
  <2>3. w.where[o] = p => AbandonedLoot(w)[o] = lostObjects[o]
    BY <1>1, <1>5, <2>1
  <2> QED
    BY <1>4, <1>5, <2>2, <2>3
<1>7. \A c : <<o, c>> \in scene' <=>
              <<o, c>> \in scene \/ (o \in CreatedLoot(w) /\ c = NewClone(o))
  BY <1>2
<1>8. \A p \in Players \ PlayersOf(w) :
        carried'[p] = IF p \in linked THEN carried[p] ELSE NoClone
  BY <1>2
<1> QED
  BY <1>1, <1>3, <1>6, <1>7, <1>8

\* What disappears was on the map, in a bag, or disappearing before.
LEMMA Disappears ==
  ASSUME NEW w \in Worlds, NEW elems, ApplyDesiredState(w, elems), NEW o \in Loot
  PROVE  \/ /\ disappearing'[o] = lostObjects[o] /\ lostObjects[o] # None
            /\ w.where[o] # "map" /\ ~Attached(w, o)
         \/ /\ AbandonedLoot(w)[o] = None \/ Attached(w, o)
            /\ \E q \in PlayersOf(w) :
                 /\ disappearing'[o] = OldBag(q)[o] /\ OldBag(q)[o] # None
                 /\ w.where[o] # q
         \/ /\ AbandonedLoot(w)[o] = None \/ Attached(w, o)
            /\ DroppedFromBags(w, o) = {}
            /\ disappearing'[o] = disappearing[o]
<1>1. disappearing' = DropLoot(w)
  BY DEF ApplyDesiredState
<1>2. /\ AbandonedLoot(w)[o] = IF o \in LostOf(w) THEN None ELSE lostObjects[o]
      /\ o \in LostOf(w) <=> w.where[o] = "map"
  BY DEF AbandonedLoot, LostOf
<1>3. CASE AbandonedLoot(w)[o] # None /\ ~Attached(w, o)
  BY <1>1, <1>2, <1>3 DEF DropLoot
<1>4. CASE ~(AbandonedLoot(w)[o] # None /\ ~Attached(w, o)) /\ DroppedFromBags(w, o) # {}
  <2>1. disappearing'[o] \in DroppedFromBags(w, o)
    <3>1. disappearing'[o] = CHOOSE c \in DroppedFromBags(w, o) : TRUE
      BY <1>1, <1>4 DEF DropLoot
    <3> QED
      BY <1>4, <3>1
  <2>2. PICK q \in PlayersOf(w) :
          /\ disappearing'[o] = OldBag(q)[o] /\ OldBag(q)[o] # None
          /\ o \notin BagOf(w, q)
    BY <2>1 DEF DroppedFromBags
  <2> QED
    BY <1>4, <2>2 DEF BagOf
<1>5. CASE ~(AbandonedLoot(w)[o] # None /\ ~Attached(w, o)) /\ DroppedFromBags(w, o) = {}
  BY <1>1, <1>5 DEF DropLoot
<1> QED
  BY <1>3, <1>4, <1>5

LEMMA AppliedOneHolder ==
  ASSUME CTypeOK, OneHolder, BagsLinked, NEW w \in Worlds, NEW elems,
         ApplyDesiredState(w, elems)
  PROVE  OneHolder'
<1> SUFFICES ASSUME NEW o \in Loot
    PROVE  /\ lostObjects'[o] # None => lostObjects'[o] # disappearing'[o]
           /\ \A p \in Players : carried'[p][o] # None =>
                /\ carried'[p][o] \notin {lostObjects'[o], disappearing'[o]}
                /\ \A q \in Players \ {p} : carried'[p][o] # carried'[q][o]
  BY DEF OneHolder
<1> DEFINE new == NewClone(o)
           made == o \in CreatedLoot(w)
<1>1. /\ lostObjects[o] # None => lostObjects[o] # disappearing[o]
      /\ \A p \in Players : carried[p][o] # None =>
           /\ carried[p][o] \notin {lostObjects[o], disappearing[o]}
           /\ \A q \in Players \ {p} : carried[p][o] # carried[q][o]
  BY DEF OneHolder
<1>2. made => /\ new # None /\ new \notin {lostObjects[o], disappearing[o]}
              /\ \A p \in Players : new # carried[p][o]
  BY NewCloneNew
<1>3. "map" \notin Players /\ PlayersOf(w) \subseteq Players
  BY PlaceAssumption DEF PlayersOf, In
<1>4. \A p \in Players : OldBag(p)[o] # None => OldBag(p)[o] = carried[p][o]
  BY DEF OldBag, NoClone
<1>5. \A p \in Players : w.where[o] # p =>
        carried'[p][o] \in {None, carried[p][o]} /\ (p \in PlayersOf(w) => carried'[p][o] = None)
  BY Origins DEF NoClone
<1>6. \A p \in Players : w.where[o] = p =>
        \/ carried'[p][o] \in {None, carried[p][o]}
        \/ /\ lostObjects[o] # None /\ carried'[p][o] = lostObjects[o]
           /\ p \in PlayersOf(w) /\ OldBag(p)[o] = None
        \/ lostObjects[o] = None /\ made /\ carried'[p][o] = new
  <2> TAKE p \in Players
  <2>1. CASE p \in PlayersOf(w)
    BY <1>4, <2>1, Origins
  <2>2. CASE p \notin PlayersOf(w)
    BY <2>2, Origins DEF NoClone
  <2> QED
    BY <2>1, <2>2
<1>7. lostObjects'[o] # None =>
        /\ w.where[o] = "map"
        /\ lostObjects'[o] = lostObjects[o] \/ (made /\ lostObjects'[o] = new)
  BY Origins
<1>8. \/ /\ disappearing'[o] = lostObjects[o] /\ lostObjects[o] # None
         /\ w.where[o] # "map" /\ ~Attached(w, o)
      \/ \E q \in PlayersOf(w) :
           /\ disappearing'[o] = carried[q][o] /\ carried[q][o] # None
           /\ w.where[o] # q
      \/ disappearing'[o] = disappearing[o]
  BY <1>3, <1>4, Disappears
<1>9. \A p \in PlayersOf(w) : w.where[o] = p /\ OldBag(p)[o] = None => Attached(w, o)
  BY DEF Attached, BagOf
<1> HIDE DEF new, made
<1>10. lostObjects'[o] # None => lostObjects'[o] # disappearing'[o]
  BY <1>1, <1>2, <1>3, <1>7, <1>8
<1>11. ASSUME NEW p \in Players, carried'[p][o] # None
       PROVE  carried'[p][o] # lostObjects'[o]
  BY <1>1, <1>2, <1>3, <1>5, <1>6, <1>7, <1>11
<1>12. ASSUME NEW p \in Players, carried'[p][o] # None
       PROVE  carried'[p][o] # disappearing'[o]
  <2>1. CASE disappearing'[o] = lostObjects[o] /\ lostObjects[o] # None
             /\ w.where[o] # "map" /\ ~Attached(w, o)
    BY <1>1, <1>2, <1>5, <1>6, <1>9, <1>12, <2>1
  <2>2. ASSUME NEW q \in PlayersOf(w), disappearing'[o] = carried[q][o],
               carried[q][o] # None, w.where[o] # q
        PROVE  carried'[p][o] # disappearing'[o]
    <3>1. CASE p = q
      BY <1>3, <1>5, <1>12, <2>2, <3>1
    <3>2. CASE p # q
      BY <1>1, <1>2, <1>3, <1>5, <1>6, <1>12, <2>2, <3>2
    <3> QED
      BY <3>1, <3>2
  <2>3. CASE disappearing'[o] = disappearing[o]
    BY <1>1, <1>2, <1>5, <1>6, <1>12, <2>3
  <2> QED
    BY <1>8, <2>1, <2>2, <2>3
<1>13. ASSUME NEW p \in Players, carried'[p][o] # None, NEW q \in Players \ {p}
       PROVE  carried'[p][o] # carried'[q][o]
  <2>1. CASE w.where[o] # p /\ w.where[o] # q
    BY <1>1, <1>5, <1>13, <2>1
  <2>2. CASE w.where[o] = p
    BY <1>1, <1>2, <1>5, <1>6, <1>13, <2>2
  <2>3. CASE w.where[o] = q
    BY <1>1, <1>2, <1>5, <1>6, <1>13, <2>3
  <2> QED
    BY <2>1, <2>2, <2>3
<1> QED
  BY <1>10, <1>11, <1>12, <1>13

LEMMA AppliedBagsLinked ==
  ASSUME BagsLinked, linked \subseteq listed, NEW w \in Worlds, NEW elems,
         ApplyDesiredState(w, elems), elems = listed \/ listed \cup shown = {}
  PROVE  BagsLinked'
<1>1. /\ carried' = [p \in Players |->
                      IF p \in PlayersOf(w) THEN AttachLoot(w, p)
                      ELSE IF p \in linked THEN carried[p] ELSE NoClone]
      /\ linked' = linked \cup (elems \cap (PlayersOf(w) \ shown))
      /\ listed' = elems /\ shown' = PlayersOf(w)
  BY DEF ApplyDesiredState
<1> QED
  BY <1>1 DEF BagsLinked, NoClone

\* The page shows v, and an answer w may come: w is not earlier, and knows of the
\* players of gone what v does.
Follows(w, v, gone) ==
  /\ v \in Worlds /\ w \in Worlds
  /\ NoEarlier(w, v) /\ OneOwner(v, w) /\ CarriersIn(w)
  /\ gone \subseteq Players
  /\ \A p \in gone : /\ v.dogs[p] # "out"
                     /\ v.dogs[p] = "in" /\ w.dogs[p] = "in" => BagOf(w, p) = BagOf(v, p)
  /\ \A p \in shown \ linked : w.dogs[p] = "left" => p \in gone

\* What the page shows of v, object by object.
LEMMA ShownObjects ==
  ASSUME NEW v \in Worlds, Shows(v), NEW o \in Loot
  PROVE  /\ lostObjects[o] # None <=> v.where[o] = "map"
         /\ \A p \in Players : OldBag(p)[o] # None <=> v.dogs[p] = "in" /\ v.where[o] = p
         /\ \A p \in Players : OldBag(p)[o] # None => p \in shown /\ OldBag(p)[o] = carried[p][o]
         /\ \A p \in Players : p \in shown <=> v.dogs[p] = "in"
<1>1. \A p \in Players : p \in shown <=> v.dogs[p] = "in"
  BY DEF Shows, PlayersOf, In
<1>2. lostObjects[o] # None <=> v.where[o] = "map"
  BY DEF Shows, IdsOf, LostOf
<1>3. \A p \in shown : carried[p][o] # None <=> v.where[o] = p
  BY DEF Shows, IdsOf, BagOf
<1> QED
  BY <1>1, <1>2, <1>3 DEF OldBag, NoClone

\* An answer that is not overtaken leaves a tidy picture: every clone of the picture
\* before has a holder or was out of the scene, and what it shows is in the scene.
LEMMA AppliedTidy ==
  ASSUME CTypeOK, OneHolder, BagsLinked, NEW w, NEW v, NEW gone, NEW elems,
         Shows(v), Follows(w, v, gone), Tidy(v, gone), ApplyDesiredState(w, elems)
  PROVE  Tidy(w, gone)'
<1>1. /\ v \in Worlds /\ w \in Worlds /\ gone \subseteq Players
      /\ PlayersOf(w) \subseteq Players /\ "map" \notin Players /\ "gone" \notin Players
      /\ shown \subseteq Players
  BY PlaceAssumption DEF Follows, PlayersOf, In, CTypeOK
<1>2. /\ shown' = PlayersOf(w) /\ linked' = linked \cup (elems \cap (PlayersOf(w) \ shown))
      /\ \A p \in Players : p \in PlayersOf(w) <=> w.dogs[p] = "in"
  BY DEF ApplyDesiredState, PlayersOf, In
<1>3. \A p \in Players : w.dogs[p] \in {"out", "in", "left"}
  BY <1>1 DEF Worlds, Dogs
<1>4. \A p \in Players : /\ v.dogs[p] = "left" => w.dogs[p] = "left"
                         /\ v.dogs[p] = "in" => w.dogs[p] # "out"
  BY DEF Follows, NoEarlier, NoEarlierDogs
<1>6. ASSUME NEW o \in Loot, disappearing'[o] # None
      PROVE  w.where[o] = "gone"
  <2>1. /\ v.where[o] = "gone" => w.where[o] = "gone"
        /\ v.where[o] \in Players => w.where[o] \in Players \cup {"gone"}
        /\ v.where[o] = "map" => w.where[o] # "absent"
        /\ v.where[o] \in Players /\ w.where[o] \in Players => v.where[o] = w.where[o]
        /\ \A p \in Players : w.where[o] = p => w.dogs[p] = "in"
        /\ w.where[o] \in {"absent", "map", "gone"} \cup Players
    BY DEF Follows, NoEarlier, OneOwner, CarriersIn, Worlds, Places
  <2>2. CASE lostObjects[o] # None /\ w.where[o] # "map" /\ ~Attached(w, o)
    <3>1. v.where[o] = "map"
      BY <1>1, <2>2, ShownObjects
    <3>2. ASSUME NEW p \in Players, w.where[o] = p PROVE FALSE
      <4>1. p \in PlayersOf(w) /\ o \in BagOf(w, p)
        BY <1>2, <2>1, <3>2 DEF BagOf
      <4>2. OldBag(p)[o] = None
        BY <1>1, <3>1, ShownObjects
      <4> QED
        BY <2>2, <4>1, <4>2 DEF Attached
    <3> QED
      BY <2>1, <2>2, <3>1, <3>2
  <2>3. ASSUME NEW q \in PlayersOf(w), OldBag(q)[o] # None, w.where[o] # q
        PROVE  w.where[o] = "gone"
    <3>1. v.where[o] = q /\ q \in Players
      BY <1>1, <2>3, ShownObjects
    <3> QED
      BY <2>1, <2>3, <3>1
  <2>4. CASE disappearing'[o] = disappearing[o]
    BY <1>6, <2>1, <2>4 DEF Tidy
  <2> QED
    BY <1>1, <2>2, <2>3, <2>4, Disappears
<1>7. ASSUME NEW p \in linked' \ shown' PROVE w.dogs[p] = "left"
  <2>1. p \in linked /\ p \in Players /\ w.dogs[p] # "in"
    BY <1>2, <1>7 DEF CTypeOK
  <2>2. CASE p \in shown
    BY <1>1, <1>3, <1>4, <2>1, <2>2 DEF Shows, PlayersOf, In
  <2>3. CASE p \notin shown
    BY <1>4, <2>1, <2>3 DEF Tidy
  <2> QED
    BY <2>2, <2>3
<1>8. ASSUME NEW p \in gone, NEW o \in Loot, carried'[p][o] # None
      PROVE  <<o, carried'[p][o]>> \notin scene'
  <2>1. p \in Players
    BY <1>1
  <2>2. carried'[p][o] = carried[p][o]
    <3>1. CASE p \in PlayersOf(w)
      <4>1. v.dogs[p] = "in" /\ BagOf(w, p) = BagOf(v, p)
        <5>1. w.dogs[p] = "in" /\ v.dogs[p] \in {"out", "in", "left"}
          BY <1>1, <1>2, <2>1, <3>1 DEF Worlds, Dogs
        <5>2. v.dogs[p] # "out"
          BY DEF Follows
        <5>3. v.dogs[p] = "in"
          BY <1>4, <2>1, <5>1, <5>2
        <5> QED
          BY <5>1, <5>3 DEF Follows
      <4>2. w.where[o] = p
        BY <1>1, <1>8, <3>1, Origins
      <4>3. v.where[o] = p
        BY <4>1, <4>2 DEF BagOf
      <4>4. OldBag(p)[o] # None /\ OldBag(p)[o] = carried[p][o]
        BY <1>1, <2>1, <4>1, <4>3, ShownObjects
      <4> QED
        BY <1>1, <3>1, <4>2, <4>4, Origins
    <3>2. CASE p \notin PlayersOf(w)
      BY <1>1, <1>8, <2>1, <3>2, Origins DEF NoClone
    <3> QED
      BY <3>1, <3>2
  <2>3. <<o, carried[p][o]>> \notin scene
    BY <1>8, <2>2 DEF Tidy
  <2>4. o \in CreatedLoot(w) => carried[p][o] # NewClone(o)
    BY <1>1, <2>1, NewCloneNew
  <2> QED
    BY <1>1, <2>2, <2>3, <2>4, Origins
<1>9. ASSUME NEW p \in shown' \ gone, NEW o \in Loot, carried'[p][o] # None
      PROVE  <<o, carried'[p][o]>> \in scene'
  <2>1. p \in PlayersOf(w) /\ p \in Players
    BY <1>1, <1>2, <1>9
  <2>2. w.where[o] = p
    BY <1>1, <1>9, <2>1, Origins
  <2>3. CASE OldBag(p)[o] # None
    <3>1. p \in shown /\ OldBag(p)[o] = carried[p][o]
      BY <1>1, <2>1, <2>3, ShownObjects
    <3>2. carried'[p][o] = carried[p][o]
      BY <1>1, <2>1, <2>2, <2>3, <3>1, Origins
    <3>3. <<o, carried[p][o]>> \in scene
      BY <1>9, <3>1, <3>2 DEF Tidy
    <3> QED
      BY <1>1, <3>2, <3>3, Origins
  <2>4. CASE OldBag(p)[o] = None
    <3>1. IF lostObjects[o] # None THEN carried'[p][o] = lostObjects[o]
          ELSE carried'[p][o] = NewClone(o) /\ o \in CreatedLoot(w)
      BY <1>1, <2>1, <2>2, <2>4, Origins
    <3>2. lostObjects[o] # None => <<o, lostObjects[o]>> \in scene
      BY DEF Tidy
    <3>3. \A c : <<o, c>> \in scene' <=>
              <<o, c>> \in scene \/ (o \in CreatedLoot(w) /\ c = NewClone(o))
      BY <1>1, Origins
    <3> QED
      BY <3>1, <3>2, <3>3
  <2> QED
    BY <2>3, <2>4
<1>10. ASSUME NEW o \in Loot, lostObjects'[o] # None
       PROVE  <<o, lostObjects'[o]>> \in scene'
  <2>1. lostObjects[o] # None => <<o, lostObjects[o]>> \in scene
    BY DEF Tidy
  <2>2. IF lostObjects[o] # None THEN lostObjects'[o] = lostObjects[o]
        ELSE lostObjects'[o] = NewClone(o) /\ o \in CreatedLoot(w)
    BY <1>1, <1>10, Origins
  <2>3. \A c : <<o, c>> \in scene' <=>
              <<o, c>> \in scene \/ (o \in CreatedLoot(w) /\ c = NewClone(o))
    BY <1>1, Origins
  <2> QED
    BY <2>1, <2>2, <2>3
<1>11. ASSUME NEW o \in Loot, NEW c \in Copies, <<o, c>> \in scene'
       PROVE  c \in {lostObjects'[o], disappearing'[o]} \cup {carried'[p][o] : p \in Players}
  <2> DEFINE held == c \in {lostObjects'[o], disappearing'[o]} \cup {carried'[p][o] : p \in Players}
  <2>1. c # None
    BY ClientAssumption
  <2>2. CASE o \in CreatedLoot(w) /\ c = NewClone(o)
    <3>1. CASE w.where[o] = "map" /\ lostObjects[o] = None
      BY <1>1, <2>2, <3>1, Origins
    <3>2. CASE AbandonedLoot(w)[o] = None /\ Attached(w, o)
      <4>1. PICK p \in PlayersOf(w) : o \in BagOf(w, p) /\ OldBag(p)[o] = None
        BY <3>2 DEF Attached
      <4>2. w.where[o] = p /\ w.where[o] # "map"
        BY <1>1, <4>1 DEF BagOf
      <4>3. lostObjects[o] = None
        BY <3>2, <4>2 DEF AbandonedLoot, LostOf
      <4>4. carried'[p][o] = NewClone(o) /\ p \in Players
        BY <1>1, <4>1, <4>2, <4>3, Origins
      <4> QED
        BY <2>2, <4>4
    <3> QED
      BY <2>2, <3>1, <3>2 DEF CreatedLoot, LostOf
  <2>3. CASE <<o, c>> \in scene /\ c = lostObjects[o]
    <3>1. lostObjects[o] # None
      BY <2>1, <2>3
    <3>2. CASE w.where[o] = "map"
      BY <1>1, <2>3, <3>1, <3>2, Origins
    <3>3. CASE w.where[o] # "map" /\ Attached(w, o)
      <4>1. PICK p \in PlayersOf(w) : o \in BagOf(w, p) /\ OldBag(p)[o] = None
        BY <3>3 DEF Attached
      <4>2. carried'[p][o] = lostObjects[o] /\ p \in Players
        BY <1>1, <3>1, <4>1, Origins DEF BagOf
      <4> QED
        BY <2>3, <4>2
    <3>4. CASE w.where[o] # "map" /\ ~Attached(w, o)
      <4>1. AbandonedLoot(w)[o] = lostObjects[o]
        BY <3>4 DEF AbandonedLoot, LostOf
      <4>2. disappearing'[o] = lostObjects[o]
        BY <1>1, <3>1, <3>4, <4>1, Disappears
      <4> QED
        BY <2>3, <4>2
    <3> QED
      BY <3>2, <3>3, <3>4
  <2>4. CASE <<o, c>> \in scene /\ c = disappearing[o]
    <3>1. v.where[o] = "gone" /\ w.where[o] = "gone"
      BY <2>1, <2>4 DEF Tidy, Follows, NoEarlier
    <3>2. lostObjects[o] = None /\ \A p \in Players : OldBag(p)[o] = None
      BY <1>1, <3>1, ShownObjects
    <3>3. disappearing'[o] = disappearing[o]
      BY <1>1, <3>2, Disappears
    <3> QED
      BY <2>4, <3>3
  <2>5. ASSUME NEW p \in Players, <<o, c>> \in scene, c = carried[p][o]
        PROVE  held
    <3>1. CASE p \in PlayersOf(w) /\ p \in shown
      <4>1. OldBag(p)[o] = c
        BY <2>5, <3>1 DEF OldBag
      <4>2. CASE w.where[o] = p
        BY <1>1, <2>1, <2>5, <3>1, <4>1, <4>2, Origins
      <4>3. CASE w.where[o] # p
        <5>1. v.where[o] = p
          BY <1>1, <2>1, <4>1, ShownObjects
        <5>2. lostObjects[o] = None
          BY <1>1, <5>1, ShownObjects
        <5>3. AbandonedLoot(w)[o] = None
          BY <5>2 DEF AbandonedLoot
        <5>4. OldBag(p)[o] \in DroppedFromBags(w, o)
          <6>1. p \in {q \in PlayersOf(w) : o \notin BagOf(w, q)}
            BY <3>1, <4>3 DEF BagOf
          <6> QED
            BY <2>1, <4>1, <6>1 DEF DroppedFromBags
        <5>5. PICK q \in PlayersOf(w) : disappearing'[o] = OldBag(q)[o] /\ OldBag(q)[o] # None
          BY <1>1, <5>2, <5>4, Disappears
        <5>6. q = p
          BY <1>1, <5>1, <5>5, ShownObjects
        <5> QED
          BY <4>1, <5>5, <5>6
      <4> QED
        BY <4>2, <4>3
    <3>2. CASE p \in PlayersOf(w) /\ p \notin shown
      <4>1. p \in linked
        BY <2>1, <2>5, <3>2 DEF BagsLinked, NoClone
      <4>2. v.dogs[p] = "left"
        BY <3>2, <4>1 DEF Tidy
      <4> QED
        BY <1>2, <1>4, <2>5, <3>2, <4>2
    <3>3. CASE p \notin PlayersOf(w) /\ p \in linked
      <4>1. carried'[p] = carried[p]
        BY <1>1, <3>3, Origins
      <4> QED
        BY <2>5, <4>1
    <3>4. CASE p \notin PlayersOf(w) /\ p \notin linked
      <4>1. p \in shown
        BY <2>1, <2>5, <3>4 DEF BagsLinked, NoClone
      <4>2. w.dogs[p] = "left"
        BY <1>1, <1>2, <1>3, <1>4, <3>4, <4>1 DEF Shows, PlayersOf, In
      <4>3. p \in gone
        BY <3>4, <4>1, <4>2 DEF Follows
      <4> QED
        BY <2>1, <2>5, <4>3 DEF Tidy
    <3> QED
      BY <3>1, <3>2, <3>3, <3>4
  <2>6. <<o, c>> \in scene \/ (o \in CreatedLoot(w) /\ c = NewClone(o))
    BY <1>1, <1>11, Origins
  <2>7. <<o, c>> \in scene =>
          c \in {lostObjects[o], disappearing[o]} \cup {carried[p][o] : p \in Players}
    BY DEF Tidy
  <2> QED
    BY <2>2, <2>3, <2>4, <2>5, <2>6, <2>7
<1> QED
  BY <1>6, <1>7, <1>8, <1>9, <1>10, <1>11 DEF Tidy

\* A list takes the players it misses off the page, and only their clones.
LEMMA UpdatedTidy ==
  ASSUME CTypeOK, OneHolder, BagsLinked, NEW v, NEW gone \in SUBSET Players, NEW ps,
         NEW left, left = listed \ ps, UpdatePlayersList(ps), Tidy(v, gone)
  PROVE  Tidy(v, gone \cup left)'
<1>1. /\ linked' = (linked \ left) \cup ((ps \ listed) \cap shown)
      /\ carried' = [p \in Players |-> IF p \in left \ shown THEN NoClone ELSE carried[p]]
      /\ scene' = scene \ UNION {Clones(carried[p]) : p \in left \cap linked}
      /\ UNCHANGED <<lostObjects, shown, disappearing>>
  BY DEF UpdatePlayersList, RemoveBags
<1>2. left \subseteq Players /\ shown \subseteq Players
  BY DEF CTypeOK
<1>3. \A p \in Players, o \in Loot : carried'[p][o] # None => carried'[p][o] = carried[p][o]
  BY <1>1 DEF NoClone
<1>4. \A o \in Loot, c \in Copies : <<o, c>> \in scene' <=>
        <<o, c>> \in scene /\ \A p \in left \cap linked : carried[p][o] # c
  <2> TAKE o \in Loot, c \in Copies
  <2>1. \A p \in left \cap linked : <<o, c>> \in Clones(carried[p]) <=> carried[p][o] = c
    BY ClientAssumption DEF Clones
  <2> QED
    BY <1>1, <2>1
<1>5. \A o \in Loot, p \in Players : carried[p][o] \in Opt(Copies)
  BY DEF CTypeOK, CloneFunctions
<1>6. \A o \in Loot : lostObjects[o] \in Opt(Copies)
  BY DEF CTypeOK, CloneFunctions
<1>7. \A o \in Loot : disappearing'[o] # None => v.where[o] = "gone"
  BY <1>1 DEF Tidy
<1>8. \A p \in linked' \ shown' : v.dogs[p] = "left"
  BY <1>1 DEF Tidy
<1>9. ASSUME NEW p \in gone \cup left, NEW o \in Loot, carried'[p][o] # None
      PROVE  <<o, carried'[p][o]>> \notin scene'
  <2>1. carried'[p][o] = carried[p][o] /\ carried[p][o] \in Copies /\ p \in Players
    BY <1>2, <1>3, <1>5, <1>9 DEF Opt
  <2>2. CASE p \in gone
    <3>1. <<o, carried[p][o]>> \notin scene
      BY <1>9, <2>1, <2>2 DEF Tidy
    <3> QED
      BY <1>1, <2>1, <3>1
  <2>3. CASE p \in left /\ p \in linked
    BY <1>4, <2>1, <2>3
  <2>4. CASE p \in left /\ p \notin linked
    <3>1. p \notin shown
      BY <2>4 DEF BagsLinked
    <3> QED
      BY <1>1, <1>2, <1>9, <2>4, <3>1 DEF NoClone
  <2> QED
    BY <1>9, <2>2, <2>3, <2>4
<1>10. ASSUME NEW p \in shown' \ (gone \cup left), NEW o \in Loot, carried'[p][o] # None
       PROVE  <<o, carried'[p][o]>> \in scene'
  <2>1. /\ carried'[p][o] = carried[p][o] /\ carried[p][o] \in Copies
        /\ p \in Players /\ p \in shown \ gone
    BY <1>1, <1>2, <1>3, <1>5, <1>10 DEF Opt
  <2>2. <<o, carried[p][o]>> \in scene
    BY <1>10, <2>1 DEF Tidy
  <2>3. \A q \in left \cap linked : carried[q][o] # carried[p][o]
    BY <1>2, <1>10, <2>1 DEF OneHolder
  <2> QED
    BY <1>4, <2>1, <2>2, <2>3
<1>11. ASSUME NEW o \in Loot, lostObjects'[o] # None
       PROVE  <<o, lostObjects'[o]>> \in scene'
  <2>1. lostObjects'[o] = lostObjects[o] /\ lostObjects[o] \in Copies
    BY <1>1, <1>6, <1>11 DEF Opt
  <2>2. <<o, lostObjects[o]>> \in scene
    BY <1>11, <2>1 DEF Tidy
  <2>3. \A q \in left \cap linked : carried[q][o] # lostObjects[o]
    BY <1>2, <1>11, <2>1 DEF OneHolder
  <2> QED
    BY <1>4, <2>1, <2>2, <2>3
<1>12. ASSUME NEW o \in Loot, NEW c \in Copies, <<o, c>> \in scene'
       PROVE  c \in {lostObjects'[o], disappearing'[o]} \cup {carried'[p][o] : p \in Players}
  <2>1. <<o, c>> \in scene /\ \A p \in left \cap linked : carried[p][o] # c
    BY <1>4, <1>12
  <2>2. c \in {lostObjects[o], disappearing[o]} \cup {carried[p][o] : p \in Players}
    BY <2>1 DEF Tidy
  <2>3. ASSUME NEW p \in Players, c = carried[p][o]
        PROVE  c = carried'[p][o]
    <3>1. CASE p \notin left \ shown
      BY <1>1, <2>3, <3>1
    <3>2. CASE p \in left \ shown
      BY <2>1, <2>3, <3>2, ClientAssumption DEF BagsLinked, NoClone
    <3> QED
      BY <3>1, <3>2
  <2> QED
    BY <1>1, <2>2, <2>3
<1> QED
  BY <1>7, <1>8, <1>9, <1>10, <1>11, <1>12 DEF Tidy

LEMMA UpdatedHolders ==
  ASSUME OneHolder, BagsLinked, CTypeOK, NEW ps, UpdatePlayersList(ps)
  PROVE  OneHolder' /\ BagsLinked'
<1> DEFINE left == listed \ ps
<1>1. /\ linked' = (linked \ left) \cup ((ps \ listed) \cap shown) /\ listed' = ps
      /\ carried' = [p \in Players |-> IF p \in left \ shown THEN NoClone ELSE carried[p]]
      /\ UNCHANGED <<lostObjects, shown, disappearing>>
  BY DEF UpdatePlayersList
<1>2. \A p \in Players, o \in Loot : carried'[p][o] \in {None, carried[p][o]}
  BY <1>1 DEF NoClone
<1>3. OneHolder'
  BY <1>1, <1>2 DEF OneHolder
<1>4. BagsLinked'
  BY <1>1 DEF BagsLinked
<1> QED
  BY <1>3, <1>4

\* A frame takes out of the scene what has disappeared.
LEMMA FrameTidy ==
  ASSUME CTypeOK, OneHolder, NEW v, NEW gone \in SUBSET Players,
         NEW askState, NEW askPlayers, NEW done, Frame(askState, askPlayers, done),
         Tidy(v, gone)
  PROVE  Tidy(v, gone)'
<1>1. /\ disappearing' = [o \in Loot |-> IF o \in done THEN None ELSE disappearing[o]]
      /\ scene' = scene \ {<<o, disappearing[o]>> : o \in done} /\ done \subseteq Loot
      /\ UNCHANGED <<lostObjects, shown, carried, linked>>
  BY DEF Frame
<1>2. \A o \in Loot : \A c : <<o, c>> \in scene' <=>
        <<o, c>> \in scene /\ ~(o \in done /\ c = disappearing[o])
  BY <1>1
<1>3. ASSUME NEW p \in shown \ gone, NEW o \in Loot, carried[p][o] # None
      PROVE  <<o, carried[p][o]>> \in scene'
  <2>1. <<o, carried[p][o]>> \in scene
    BY <1>3 DEF Tidy
  <2>2. carried[p][o] # disappearing[o]
    BY <1>3 DEF OneHolder, CTypeOK
  <2> QED
    BY <1>2, <2>1, <2>2
<1>4. ASSUME NEW o \in Loot, lostObjects[o] # None
      PROVE  <<o, lostObjects[o]>> \in scene'
  <2>1. <<o, lostObjects[o]>> \in scene /\ lostObjects[o] # disappearing[o]
    BY <1>4 DEF Tidy, OneHolder
  <2> QED
    BY <1>2, <2>1
<1>5. ASSUME NEW o \in Loot, NEW c \in Copies, <<o, c>> \in scene'
      PROVE  c \in {lostObjects'[o], disappearing'[o]} \cup {carried'[p][o] : p \in Players}
  <2>1. <<o, c>> \in scene /\ ~(o \in done /\ c = disappearing[o])
    BY <1>2, <1>5
  <2>2. c \in {lostObjects[o], disappearing[o]} \cup {carried[p][o] : p \in Players}
    BY <2>1 DEF Tidy
  <2> QED
    BY <1>1, <2>1, <2>2
<1>6. \A o \in Loot : disappearing'[o] # None => v.where[o] = "gone"
  BY <1>1 DEF Tidy
<1>7. /\ \A p \in linked' \ shown' : v.dogs[p] = "left"
      /\ \A p \in gone, o \in Loot : carried'[p][o] # None =>
           <<o, carried'[p][o]>> \notin scene'
  BY <1>1 DEF Tidy
<1> QED
  BY <1>1, <1>3, <1>4, <1>5, <1>6, <1>7 DEF Tidy

LEMMA FrameHolders ==
  ASSUME OneHolder, BagsLinked, NEW askState, NEW askPlayers, NEW done,
         Frame(askState, askPlayers, done)
  PROVE  OneHolder' /\ BagsLinked'
<1>1. /\ disappearing' = [o \in Loot |-> IF o \in done THEN None ELSE disappearing[o]]
      /\ UNCHANGED <<lostObjects, shown, carried, linked, listed>>
  BY DEF Frame
<1>2. \A o \in Loot : disappearing'[o] \in {None, disappearing[o]}
  BY <1>1
<1> QED
  BY <1>1, <1>2 DEF OneHolder, BagsLinked

----------------------------------------------------------------------------
(* The scene *)

NothingShown ==
  /\ lostObjects = NoClone /\ disappearing = NoClone
  /\ carried = [p \in Players |-> NoClone]
  /\ shown = {} /\ linked = {} /\ scene = {}

Gone == {p \in Players : lastList # None /\ lastList[p] = "left"}

\* The page knows all that is to be known of the players that have left.
LeftKnown ==
  \A p \in Players : world.dogs[p] = "left" =>
    /\ started /\ desired.dogs[p] # "out" /\ lastList[p] # "out"
    /\ \A v \in Said : v.dogs[p] = "in" /\ desired.dogs[p] = "in" =>
         BagOf(v, p) = BagOf(desired, p)

Lists ==
  /\ playersLoaded <=> lastList # None
  /\ listed = IF lastList = None THEN {} ELSE In(lastList)

SceneInv ==
  /\ InOrder /\ OneHolder /\ BagsLinked /\ Lists
  /\ ~started => NothingShown
  /\ page # "game" => ~started
  /\ regular /\ started => Tidy(desired, Gone)
  /\ regular /\ page # "records" => LeftKnown

\* All that the steps of the page start from.
All == SceneInv /\ CInv /\ TypeInv

LEMMA NothingShownHolders == NothingShown => OneHolder /\ (Lists /\ ~playersLoaded => BagsLinked)
BY DEF NothingShown, OneHolder, BagsLinked, NoClone, Lists

LEMMA AllSays ==
  ASSUME All
  PROVE  /\ world \in Worlds /\ CTypeOK /\ OneHolder /\ BagsLinked /\ InOrder /\ Lists
         /\ linked \subseteq listed
         /\ started => desired \in Worlds /\ desired # None /\ Shows(desired)
         /\ started => lastList \in Dogs /\ lastList # None
BY NoneAssumption
DEF All, SceneInv, CInv, TypeInv, Answers, Loaded, GoodState, ShowsOneMoment,
    Shows, Fresh, CTypeOK, Lists, Opt

\* An answer of the server is a moment of it.
LEMMA SaidSet ==
  ASSUME states \in [StateSlots -> Polls(Worlds)], NEW i \in StateSlots, NEW poll,
         states' = [states EXCEPT ![i] = poll],
         poll.status = "ok" => poll.body = world
  PROVE  Said' \subseteq Said \cup {world}
BY DEF Said

LEMMA SaidDogsSet ==
  ASSUME lists \in [ListSlots -> Polls(Dogs)], NEW i \in ListSlots, NEW poll,
         lists' = [lists EXCEPT ![i] = poll],
         poll.status = "ok" => poll.body = world.dogs
  PROVE  SaidDogs' \subseteq SaidDogs \cup {world.dogs}
BY DEF SaidDogs

LEMMA AnswerSays ==
  /\ Answer(world).status = "ok" => Answer(world).body = world
  /\ Answer(world.dogs).status = "ok" => Answer(world.dogs).body = world.dogs
  /\ Free.status # "ok" /\ Asked.status # "ok"
BY DEF Answer, Unauthorized, Free, Asked

\* Polls that are sent, answered or lost change nothing.
LEMMA Unmoved ==
  ASSUME All, UNCHANGED <<world, pictureVars, startVars, desired, lastList, regular>>,
         Said' \subseteq Said \cup {world}, SaidDogs' \subseteq SaidDogs \cup {world.dogs},
         page' = page \/ (page = "loading" /\ page' = "game")
  PROVE  SceneInv'
<1>1. InOrder'
  <2>1. Moments' \subseteq Moments /\ DogMoments' \subseteq DogMoments \cup {world.dogs}
    BY DEF Moments, DogMoments
  <2> QED
    BY <2>1, InOrderKept DEF All, SceneInv
<1>2. OneHolder' /\ BagsLinked' /\ Lists' /\ (~started => NothingShown)'
  BY DEF All, SceneInv, OneHolder, BagsLinked, Lists, NothingShown, pictureVars,
         startVars
<1>3. (page # "game" => ~started)'
  BY DEF All, SceneInv, startVars
<1>4. (regular /\ started => Tidy(desired, Gone))'
  BY DEF All, SceneInv, Tidy, Gone, pictureVars, startVars
<1>5. (regular /\ page # "records" => LeftKnown)'
  <2> SUFFICES ASSUME regular, page' # "records", NEW p \in Players, world.dogs[p] = "left"
      PROVE  /\ started /\ desired.dogs[p] # "out" /\ lastList[p] # "out"
             /\ \A v \in Said' : v.dogs[p] = "in" /\ desired.dogs[p] = "in" =>
                  BagOf(v, p) = BagOf(desired, p)
    BY DEF LeftKnown, startVars, BagOf
  <2>1. LeftKnown
    BY DEF All, SceneInv
  <2> QED
    BY <2>1 DEF LeftKnown
<1> QED
  BY <1>1, <1>2, <1>3, <1>4, <1>5 DEF SceneInv

LEMMA ServerAnswersScene ==
  ASSUME All, NEW i, ServerAnswers(i) \/ PollFails(i)
  PROVE  SceneInv'
<1>1. /\ UNCHANGED <<world, pictureVars, startVars, desired, lastList, regular>>
      /\ page' = page
  BY DEF ServerAnswers, PollFails, assetVars
<1>2. /\ states \in [StateSlots -> Polls(Worlds)] /\ lists \in [ListSlots -> Polls(Dogs)]
  BY DEF All, TypeInv, CTypeOK
<1>3. Said' \subseteq Said \cup {world}
  <2>1. CASE states' = states
    BY <2>1 DEF Said
  <2>2. CASE states' # states
    BY <1>2, <2>2, SaidSet, AnswerSays DEF ServerAnswers, PollFails
  <2> QED
    BY <2>1, <2>2
<1>4. SaidDogs' \subseteq SaidDogs \cup {world.dogs}
  <2>1. CASE lists' = lists
    BY <2>1 DEF SaidDogs
  <2>2. CASE lists' # lists
    BY <1>2, <2>2, SaidDogsSet, AnswerSays DEF ServerAnswers, PollFails
  <2> QED
    BY <2>1, <2>2
<1> QED
  BY <1>1, <1>3, <1>4, Unmoved

LEMMA LoadScene ==
  ASSUME All, Load \/ NewGameState
  PROVE  SceneInv'
<1>1. /\ states \in [StateSlots -> Polls(Worlds)] /\ lists \in [ListSlots -> Polls(Dogs)]
  BY DEF All, TypeInv, CTypeOK
<1>2. CASE Load
  BY <1>2, Unmoved DEF Load, Said, SaidDogs
<1>3. CASE NewGameState
  <2>1. Said' \subseteq Said \cup {world} /\ SaidDogs' \subseteq SaidDogs \cup {world.dogs}
    BY <1>1, <1>3, SaidSet, SaidDogsSet, AnswerSays DEF NewGameState
  <2> QED
    BY <1>3, <2>1, Unmoved DEF NewGameState
<1> QED
  BY <1>2, <1>3

LEMMA FrameScene ==
  ASSUME All, NEW askState \in BOOLEAN, NEW askPlayers \in BOOLEAN, NEW done,
         Frame(askState, askPlayers, done)
  PROVE  SceneInv'
<1>1. /\ UNCHANGED <<world, assetVars, startVars, desired, lastList, lostObjects,
                     shown, carried, listed, linked, regular>>
      /\ page = "game" /\ started
  BY DEF Frame
<1>2. /\ states \in [StateSlots -> Polls(Worlds)] /\ lists \in [ListSlots -> Polls(Dogs)]
  BY DEF All, TypeInv, CTypeOK
<1>3. Said' \subseteq Said \cup {world}
  <2>1. CASE states' = states
    BY <2>1 DEF Said
  <2>2. CASE states' # states
    <3>1. PICK i \in StateSlots : states' = [states EXCEPT ![i] = Answer(world)]
      BY <1>2, <2>2 DEF Frame, Ask
    <3> QED
      BY <1>2, <3>1, SaidSet, AnswerSays
  <2> QED
    BY <2>1, <2>2
<1>4. SaidDogs' \subseteq SaidDogs \cup {world.dogs}
  <2>1. CASE lists' = lists
    BY <2>1 DEF SaidDogs
  <2>2. CASE lists' # lists
    <3>1. PICK i \in ListSlots : lists' = [lists EXCEPT ![i] = Answer(world.dogs)]
      BY <1>2, <2>2 DEF Frame, Ask
    <3> QED
      BY <1>2, <3>1, SaidDogsSet, AnswerSays
  <2> QED
    BY <2>1, <2>2
<1>5. InOrder'
  <2>1. Moments' \subseteq Moments /\ DogMoments' \subseteq DogMoments \cup {world.dogs}
    BY <1>1, <1>3, <1>4 DEF Moments, DogMoments
  <2> QED
    BY <1>1, <2>1, InOrderKept DEF All, SceneInv
<1>6. OneHolder' /\ BagsLinked'
  BY FrameHolders, AllSays
<1>7. Lists' /\ (~started => NothingShown)' /\ (page # "game" => ~started)'
  BY <1>1 DEF All, SceneInv, Lists, startVars, assetVars
<1>8. ASSUME regular' PROVE Tidy(desired, Gone)'
  <2>1. PICK v : v = desired
    OBVIOUS
  <2>2. PICK gone \in SUBSET Players : gone = Gone
    BY DEF Gone
  <2>3. Tidy(v, gone)
    BY <1>1, <1>8, <2>1, <2>2 DEF All, SceneInv
  <2>4. Tidy(v, gone)'
    BY <2>3, AllSays, FrameTidy
  <2>5. desired' = v /\ Gone' = gone
    BY <1>1, <2>1, <2>2 DEF Gone
  <2> QED
    BY <2>4, <2>5 DEF Tidy
<1>9. ASSUME regular' PROVE LeftKnown'
  <2>1. LeftKnown
    BY <1>1, <1>9 DEF All, SceneInv
  <2> QED
    BY <1>1, <1>3, <2>1 DEF LeftKnown, BagOf, startVars
<1> QED
  BY <1>5, <1>6, <1>7, <1>8, <1>9 DEF SceneInv

LEMMA WorldMovesOn ==
  ASSUME InOrder, WorldStep, world' \in Worlds
  PROVE  /\ NoEarlier(world', world) /\ CarriersIn(world')
         /\ \A v \in Moments : OneOwner(v, world')
<1>1. /\ world \in Worlds /\ CarriersIn(world)
      /\ \A v \in Moments : OneOwner(v, world) /\ NoEarlier(world, v)
  BY DEF InOrder, Moments
<1>2. /\ \A p \in Players : world.dogs[p] \in {"out", "in", "left"}
      /\ \A o \in Loot : world.where[o] \in Places
      /\ world = [dogs |-> world.dogs, where |-> world.where]
      /\ world.dogs \in [Players -> {"out", "in", "left"}]
      /\ world.where \in [Loot -> Places]
  BY <1>1 DEF Worlds, Dogs
<1>3. ASSUME NEW p \in Players, PlayerJoins(p)
      PROVE  /\ NoEarlier(world', world) /\ CarriersIn(world')
             /\ \A v \in Moments : OneOwner(v, world')
  <2>1. /\ world.dogs[p] = "out" /\ world'.where = world.where
        /\ world'.dogs = [world.dogs EXCEPT ![p] = "in"]
    BY <1>2, <1>3 DEF PlayerJoins
  <2>2. NoEarlier(world', world)
    BY <1>2, <2>1 DEF NoEarlier, NoEarlierDogs
  <2>3. CarriersIn(world')
    BY <1>1, <1>2, <2>1 DEF CarriersIn
  <2> QED
    BY <1>1, <2>1, <2>2, <2>3 DEF OneOwner
<1>4. ASSUME NEW p \in Players, PlayerLeaves(p)
      PROVE  /\ NoEarlier(world', world) /\ CarriersIn(world')
             /\ \A v \in Moments : OneOwner(v, world')
  <2>1. /\ world.dogs[p] = "in"
        /\ world'.where = [o \in Loot |-> IF world.where[o] = p THEN "gone"
                                          ELSE world.where[o]]
        /\ world'.dogs = [world.dogs EXCEPT ![p] = "left"]
    BY <1>2, <1>4 DEF PlayerLeaves
  <2>2. NoEarlierDogs(world'.dogs, world.dogs)
    BY <1>2, <2>1 DEF NoEarlierDogs
  <2>3. NoEarlier(world', world)
    BY <1>2, <2>1, <2>2, PlaceAssumption DEF NoEarlier, Places
  <2>4. CarriersIn(world')
    BY <1>1, <1>2, <2>1, PlaceAssumption DEF CarriersIn
  <2> QED
    BY <1>1, <2>1, <2>3, <2>4, PlaceAssumption DEF OneOwner
<1>5. ASSUME NEW o \in Loot, NEW from, NEW to, LootMoves(o, from, to),
             \/ from = "absent" /\ to = "map"
             \/ from = "map" /\ to \in PlayersOf(world)
             \/ from \in Players /\ to = "gone"
      PROVE  /\ NoEarlier(world', world) /\ CarriersIn(world')
             /\ \A v \in Moments : OneOwner(v, world')
  <2>1. /\ world.where[o] = from /\ world'.dogs = world.dogs
        /\ world'.where = [world.where EXCEPT ![o] = to]
    BY <1>2, <1>5 DEF LootMoves
  <2>2. to \in PlayersOf(world) => to \in Players /\ world.dogs[to] = "in"
    BY DEF PlayersOf, In
  <2>3. NoEarlierDogs(world'.dogs, world.dogs)
    BY <2>1 DEF NoEarlierDogs
  <2>4. NoEarlier(world', world)
    BY <1>2, <1>5, <2>1, <2>2, <2>3, PlaceAssumption DEF NoEarlier
  <2>5. CarriersIn(world')
    BY <1>1, <1>2, <1>5, <2>1, <2>2, PlaceAssumption DEF CarriersIn
  <2>6. ASSUME NEW v \in Moments PROVE OneOwner(v, world')
    <3>1. OneOwner(v, world) /\ NoEarlier(world, v)
      BY <1>1
    <3>2. from = "map" => v.where[o] \notin Players
      BY <1>2, <2>1, <3>1, PlaceAssumption DEF NoEarlier
    <3> QED
      BY <1>2, <1>5, <2>1, <2>2, <3>1, <3>2, PlaceAssumption DEF OneOwner
  <2> QED
    BY <2>4, <2>5, <2>6
<1> QED
  BY <1>3, <1>4, <1>5 DEF WorldStep, PlayersOf, In

LEMMA WorldStepScene ==
  ASSUME All, WorldStep, world' \in Worlds
  PROVE  SceneInv'
<1>1. UNCHANGED <<assetVars, states, lists, startVars, desired, lastList, pictureVars>>
  BY DEF WorldStep
<1>2. InOrder'
  BY <1>1, WorldMovesOn, InOrderWorld DEF All, SceneInv
<1>3. OneHolder' /\ BagsLinked' /\ Lists' /\ (~started => NothingShown)'
      /\ (page # "game" => ~started)'
  BY <1>1 DEF All, SceneInv, OneHolder, BagsLinked, Lists, NothingShown, pictureVars,
              startVars, assetVars
<1>4. regular' => regular
  BY DEF WorldStep, PlayerJoins, PlayerLeaves, LootMoves
<1>5. (regular /\ started => Tidy(desired, Gone))'
  BY <1>1, <1>4 DEF All, SceneInv, Tidy, Gone, pictureVars, startVars
<1>6. Said' = Said
  BY <1>1 DEF Said
<1>7. ASSUME regular', page # "records", NEW p \in Players, world'.dogs[p] = "left"
      PROVE  /\ started /\ desired.dogs[p] # "out" /\ lastList[p] # "out"
             /\ \A v \in Said : v.dogs[p] = "in" /\ desired.dogs[p] = "in" =>
                  BagOf(v, p) = BagOf(desired, p)
  <2>1. CASE world.dogs[p] = "left"
    BY <1>4, <1>7, <2>1 DEF All, SceneInv, LeftKnown
  <2>2. CASE world.dogs[p] # "left"
    <3>1. world \in Worlds
      BY AllSays
    <3>2. PlayerLeaves(p)
      BY <1>7, <2>2, <3>1 DEF WorldStep, PlayerJoins, PlayerLeaves, LootMoves, Worlds, Dogs
    <3>3. KnownAsItIs(p)
      BY <1>7, <3>2 DEF PlayerLeaves
    <3>4. started /\ lastList # None
      BY <3>3, AllSays DEF KnownAsItIs, All, SceneInv, NothingShown
    <3>5. desired.dogs[p] = "in" /\ IdsOf(carried[p]) = BagOf(desired, p)
      BY <3>3, <3>4, AllSays DEF KnownAsItIs, Shows, PlayersOf, In
    <3>6. lastList[p] = "in"
      BY <3>3, <3>4 DEF KnownAsItIs, All, SceneInv, Lists, In
    <3>7. BagOf(desired, p) = BagOf(world, p)
      BY <3>3, <3>5 DEF KnownAsItIs, IdsOf
    <3>8. \A v \in Said : BagOf(v, p) = BagOf(world, p)
      BY <3>3 DEF KnownAsItIs, Said
    <3> QED
      BY <3>4, <3>5, <3>6, <3>7, <3>8
  <2> QED
    BY <2>1, <2>2
<1>8. (regular /\ page # "records" => LeftKnown)'
  BY <1>1, <1>6, <1>7 DEF LeftKnown, BagOf, startVars, assetVars
<1> QED
  BY <1>2, <1>3, <1>5, <1>8 DEF SceneInv

LEMMA InitScene == CInit => SceneInv
<1> SUFFICES ASSUME CInit PROVE SceneInv
  OBVIOUS
<1>1. /\ Moments = {world} /\ DogMoments = {} /\ Said = {}
  BY DEF CInit, Moments, DogMoments, Said, SaidDogs, Free
<1>2. world \in Worlds /\ \A o \in Loot : world.where[o] = "absent"
  BY ClientAssumption DEF CInit, Worlds, Dogs, Places
<1>3. NoEarlier(world, world) /\ CarriersIn(world) /\ OneOwner(world, world)
  BY <1>2, PlaceAssumption DEF NoEarlier, NoEarlierDogs, CarriersIn, OneOwner
<1>4. InOrder
  BY <1>1, <1>2, <1>3 DEF InOrder
<1>5. NothingShown /\ Lists /\ ~started /\ ~playersLoaded
  BY DEF CInit, NothingShown, Lists
<1>6. LeftKnown
  BY DEF CInit, LeftKnown
<1> QED
  BY <1>4, <1>5, <1>6, NothingShownHolders DEF SceneInv

LEMMA GoToRecordsScene ==
  ASSUME All, NEW i \in ListSlots, GoToRecords(i)
  PROVE  SceneInv'
<1>1. /\ world' = world /\ desired' = None /\ lastList' = None
      /\ ~started' /\ ~playersLoaded' /\ page' = "records"
      /\ states' = [j \in StateSlots |-> Free] /\ lists' = [j \in ListSlots |-> Free]
      /\ listed' = {}
  BY DEF GoToRecords
<1>2. InOrder'
  <2>1. Said' = {} /\ SaidDogs' = {}
    BY <1>1 DEF Said, SaidDogs, Free
  <2>2. Moments' \subseteq Moments /\ DogMoments' \subseteq DogMoments
    BY <1>1, <2>1 DEF Moments, DogMoments
  <2> QED
    BY <1>1, <2>2, InOrderKept DEF All, SceneInv
<1>3. NothingShown' /\ Lists'
  BY <1>1 DEF GoToRecords, NothingShown, Lists
<1>4. OneHolder' /\ BagsLinked'
  BY <1>1, <1>3 DEF NothingShown, OneHolder, BagsLinked, NoClone
<1> QED
  BY <1>1, <1>2, <1>3, <1>4 DEF SceneInv

\* A list that lacks a player for good speaks of one who has left.
LEMMA GoneHaveLeft ==
  ASSUME All, NEW p \in Gone
  PROVE  world.dogs[p] = "left"
BY DEF All, SceneInv, InOrder, DogMoments, NoEarlierDogs, Gone

\* Before the game has started nobody has left without the page knowing.
LEMMA NoneGone ==
  ASSUME All, regular, page = "game", ~started
  PROVE  \A p \in Players : world.dogs[p] # "left"
BY DEF All, SceneInv, LeftKnown

\* The first answer shown is applied to an empty picture, which shows this.
Nowhere == [dogs |-> [p \in Players |-> "out"], where |-> [o \in Loot |-> "absent"]]

LEMMA NowhereTidy ==
  ASSUME NothingShown, NEW w \in Worlds, CarriersIn(w)
  PROVE  Shows(Nowhere) /\ Tidy(Nowhere, {}) /\ Follows(w, Nowhere, {})
<1>1. Nowhere \in Worlds
  BY DEF Nowhere, Worlds, Dogs, Places
<1>2. Shows(Nowhere)
  BY PlaceAssumption
  DEF NothingShown, Nowhere, Shows, PlayersOf, In, IdsOf, LostOf, NoClone
<1>3. Tidy(Nowhere, {})
  BY DEF NothingShown, Tidy, NoClone
<1>4. Follows(w, Nowhere, {})
  BY <1>1, PlaceAssumption
  DEF NothingShown, Nowhere, Follows, NoEarlier, NoEarlierDogs, OneOwner
<1> QED
  BY <1>2, <1>3, <1>4

\* What it means for an answer not to be overtaken.
LEMMA NextAnswer ==
  ASSUME All, NEW w \in Said, regular, page = "game", started, NotOvertaken(w)
  PROVE  NoEarlier(w, desired) /\ Follows(w, desired, Gone)
<1>1. w \in Moments /\ desired \in Moments
  BY AllSays DEF Moments
<1>2. /\ w \in Worlds /\ desired \in Worlds /\ desired # None
      /\ CarriersIn(w) /\ OneOwner(desired, w) /\ NoEarlier(world, w)
  BY <1>1, AllSays DEF InOrder
<1>3. NoEarlier(w, desired)
  BY <1>2, NotOlder DEF NotOvertaken
<1>4. LeftKnown
  BY DEF All, SceneInv
<1>5. \A p \in Gone :
        /\ desired.dogs[p] # "out"
        /\ desired.dogs[p] = "in" /\ w.dogs[p] = "in" => BagOf(w, p) = BagOf(desired, p)
  BY <1>4, GoneHaveLeft DEF LeftKnown, Gone
<1>6. ASSUME NEW p \in shown \ linked, w.dogs[p] = "left"
      PROVE  p \in Gone
  <2>1. p \in Players /\ p \notin listed
    BY <1>6, AllSays DEF BagsLinked, CTypeOK
  <2>2. world.dogs[p] = "left"
    BY <1>2, <1>6, <2>1 DEF NoEarlier, NoEarlierDogs
  <2>3. lastList[p] # "out" /\ lastList[p] # "in"
    BY <1>4, <2>1, <2>2, AllSays DEF LeftKnown, Lists, In
  <2>4. lastList[p] \in {"out", "in", "left"} /\ lastList # None
    BY <2>1, AllSays DEF Dogs
  <2> QED
    BY <2>1, <2>3, <2>4 DEF Gone
<1> QED
  BY <1>2, <1>3, <1>5, <1>6 DEF Follows, Gone

LEMMA GetStateScene ==
  ASSUME All, NEW i \in StateSlots, GetState(i)
  PROVE  SceneInv'
<1>1. /\ states' = [states EXCEPT ![i] = Free]
      /\ UNCHANGED <<world, assetVars, lists, lastList>> /\ page = "game" /\ page' = page
  BY DEF GetState, assetVars
<1>2. Said' \subseteq Said /\ SaidDogs' = SaidDogs
  BY <1>1 DEF Said, SaidDogs, Free, All, TypeInv, CTypeOK
<1>3. CASE states[i] = Unauthorized
  BY <1>1, <1>2, <1>3, Unmoved DEF GetState
<1>4. CASE states[i] # Unauthorized
  <2>1. PICK w : w = states[i].body
    OBVIOUS
  <2>2. /\ desired' = w /\ regular' = (regular /\ NotOvertaken(w))
        /\ started' = playersLoaded /\ playersLoaded' = playersLoaded
        /\ playersLoaded => ApplyDesiredState(w, listed)
        /\ ~playersLoaded => UNCHANGED pictureVars
    BY <1>4, <2>1 DEF GetState
  <2>3. w \in Said
    BY <1>4, <2>1 DEF GetState, Said, All, TypeInv, CTypeOK, Polls, Free, Asked,
                      Unauthorized
  <2>4. w \in Worlds /\ CarriersIn(w)
    BY <2>3 DEF All, SceneInv, InOrder, Moments
  <2>5. InOrder'
    <3>1. Moments' \subseteq Moments /\ DogMoments' \subseteq DogMoments
      BY <1>1, <1>2, <2>2, <2>3 DEF Moments, DogMoments
    <3> QED
      BY <1>1, <3>1, InOrderKept DEF All, SceneInv
  <2>6. started => playersLoaded
    BY DEF All, CInv, Loaded
  <2>7. Lists'
    BY <1>1, <2>2 DEF All, SceneInv, Lists, ApplyDesiredState, pictureVars
  <2>8. ASSUME regular', NEW p \in Players, world.dogs[p] = "left"
        PROVE  /\ started' /\ w.dogs[p] # "out" /\ lastList[p] # "out"
               /\ \A v \in Said : v.dogs[p] = "in" /\ w.dogs[p] = "in" =>
                    BagOf(v, p) = BagOf(w, p)
    <3>1. /\ started /\ desired.dogs[p] # "out" /\ lastList[p] # "out"
          /\ \A v \in Said : v.dogs[p] = "in" /\ desired.dogs[p] = "in" =>
               BagOf(v, p) = BagOf(desired, p)
      BY <1>1, <2>2, <2>8 DEF All, SceneInv, LeftKnown
    <3>2. NoEarlier(w, desired)
      BY <1>1, <2>2, <2>3, <2>8, <3>1, NextAnswer
    <3>3. desired.dogs[p] \in {"out", "in", "left"}
      BY <2>8, <3>1, AllSays DEF Worlds, Dogs
    <3>4. w.dogs[p] # "out" /\ (w.dogs[p] = "in" => desired.dogs[p] = "in")
      BY <2>8, <3>1, <3>2, <3>3 DEF NoEarlier, NoEarlierDogs
    <3> QED
      BY <2>2, <2>3, <2>6, <3>1, <3>4
  <2>9. (regular /\ page # "records" => LeftKnown)'
    BY <1>1, <1>2, <2>2, <2>8 DEF LeftKnown, BagOf
  <2>10. CASE ~playersLoaded
    <3>1. OneHolder' /\ BagsLinked' /\ NothingShown'
      BY <2>2, <2>6, <2>10 DEF All, SceneInv, OneHolder, BagsLinked, NothingShown, pictureVars
    <3> QED
      BY <1>1, <2>2, <2>5, <2>7, <2>9, <2>10, <3>1 DEF SceneInv
  <2>11. CASE playersLoaded
    <3>1. ApplyDesiredState(w, listed)
      BY <2>2, <2>11
    <3>2. OneHolder' /\ BagsLinked'
      BY <2>4, <3>1, AllSays, AppliedOneHolder, AppliedBagsLinked
    <3>3. PICK gone : gone = Gone
      OBVIOUS
    <3>4. ASSUME regular' PROVE Tidy(w, gone)'
      <4>1. CASE started
        <5>1. PICK v : v = desired
          OBVIOUS
        <5>2. Shows(v) /\ Follows(w, v, gone) /\ Tidy(v, gone)
          <6>1. Shows(v)
            BY <4>1, <5>1, AllSays
          <6>2. Follows(w, v, gone)
            BY <1>1, <2>2, <2>3, <3>3, <3>4, <4>1, <5>1, NextAnswer
          <6>3. Tidy(v, gone)
            BY <2>2, <3>3, <3>4, <4>1, <5>1 DEF All, SceneInv
          <6> QED
            BY <6>1, <6>2, <6>3
        <5> QED
          BY <3>1, <5>2, AllSays, AppliedTidy
      <4>2. CASE ~started
        <5>1. gone = {}
          BY <1>1, <2>2, <3>3, <3>4, <4>2, NoneGone, GoneHaveLeft DEF Gone
        <5>2. Shows(Nowhere) /\ Tidy(Nowhere, gone) /\ Follows(w, Nowhere, gone)
          BY <2>4, <4>2, <5>1, NowhereTidy DEF All, SceneInv
        <5> QED
          BY <3>1, <5>2, AllSays, AppliedTidy
      <4> QED
        BY <4>1, <4>2
    <3>5. (regular /\ started => Tidy(desired, Gone))'
      BY <1>1, <2>2, <3>3, <3>4 DEF Tidy, Gone
    <3> QED
      BY <1>1, <2>2, <2>5, <2>7, <2>9, <2>11, <3>2, <3>5 DEF SceneInv
  <2> QED
    BY <2>10, <2>11
<1> QED
  BY <1>3, <1>4

LEMMA GetPlayersScene ==
  ASSUME All, NEW i \in ListSlots, GetPlayers(i)
  PROVE  SceneInv'
<1>1. PICK dogs : dogs = lists[i].body
  OBVIOUS
<1>2. /\ page = "game" /\ lists[i].status = "ok"
      /\ regular' = (regular /\ (lastList = None \/ ~OlderDogs(dogs, lastList)))
      /\ lastList' = dogs
      /\ lists' = [lists EXCEPT ![i] = Free]
      /\ playersLoaded' = TRUE /\ started' = stateLoaded
      /\ UNCHANGED <<world, assetVars, states, stateLoaded, desired>> /\ page' = page
      /\ stateLoaded /\ ~started => ApplyDesiredState(desired, In(dogs))
      /\ ~(stateLoaded /\ ~started) => UpdatePlayersList(In(dogs))
  BY <1>1 DEF GetPlayers, assetVars
<1>3. dogs \in SaidDogs
  BY <1>1, <1>2 DEF SaidDogs
<1>4. /\ dogs \in Dogs /\ dogs # None /\ NoEarlierDogs(world.dogs, dogs)
      /\ In(dogs) = {p \in Players : dogs[p] = "in"}
  BY <1>3, NoneAssumption DEF All, SceneInv, InOrder, DogMoments, In
<1>5. Said' = Said /\ SaidDogs' \subseteq SaidDogs
  BY <1>2 DEF Said, SaidDogs, Free, All, TypeInv, CTypeOK
<1>6. InOrder'
  <2>1. Moments' \subseteq Moments /\ DogMoments' \subseteq DogMoments
    BY <1>2, <1>3, <1>5 DEF Moments, DogMoments
  <2> QED
    BY <1>2, <2>1, InOrderKept DEF All, SceneInv
<1>7. Lists'
  <2>1. listed' = In(dogs)
    BY <1>2 DEF ApplyDesiredState, UpdatePlayersList
  <2> QED
    BY <1>2, <1>4, <2>1 DEF Lists
<1>8. regular' /\ started => NoEarlierDogs(dogs, lastList)
  BY <1>2, <1>4, AllSays, NotOlderDogs
<1>9. (regular /\ page # "records" => LeftKnown)'
  <2> SUFFICES ASSUME regular', NEW p \in Players, world.dogs[p] = "left"
      PROVE  /\ started' /\ desired.dogs[p] # "out" /\ dogs[p] # "out"
             /\ \A v \in Said : v.dogs[p] = "in" /\ desired.dogs[p] = "in" =>
                  BagOf(v, p) = BagOf(desired, p)
    BY <1>2, <1>5 DEF LeftKnown, BagOf
  <2>1. /\ started /\ desired.dogs[p] # "out" /\ lastList[p] # "out"
        /\ \A v \in Said : v.dogs[p] = "in" /\ desired.dogs[p] = "in" =>
             BagOf(v, p) = BagOf(desired, p)
    BY <1>2 DEF All, SceneInv, LeftKnown
  <2>2. lastList[p] \in {"out", "in", "left"}
    BY <2>1, AllSays DEF Dogs
  <2>3. dogs[p] # "out"
    BY <1>8, <2>1, <2>2 DEF NoEarlierDogs
  <2>4. started'
    BY <1>2, <2>1 DEF All, CInv, Loaded
  <2> QED
    BY <2>1, <2>3, <2>4
<1>10. CASE stateLoaded /\ ~started
  <2>1. /\ ApplyDesiredState(desired, In(dogs)) /\ NothingShown /\ listed = {}
        /\ lastList = None
    BY <1>2, <1>10 DEF All, SceneInv, TypeInv, Fresh, Lists
  <2>2. desired \in Worlds /\ CarriersIn(desired)
    BY <1>10, NoneAssumption
    DEF All, CInv, Loaded, GoodState, SceneInv, InOrder, Moments
  <2>3. listed \cup shown = {}
    BY <2>1 DEF NothingShown
  <2>4. PICK w : w = desired
    OBVIOUS
  <2>5. OneHolder' /\ BagsLinked'
    BY <2>1, <2>2, <2>3, <2>4, AllSays, AppliedOneHolder, AppliedBagsLinked
  <2>6. ASSUME regular' PROVE Tidy(desired, Gone)'
    <3>1. Shows(Nowhere) /\ Tidy(Nowhere, {}) /\ Follows(w, Nowhere, {})
      BY <2>1, <2>2, <2>4, NowhereTidy
    <3>2. Tidy(w, {})'
      BY <2>1, <2>4, <3>1, AllSays, AppliedTidy
    <3>3. Gone' = {}
      <4>1. \A p \in Players : world.dogs[p] # "left"
        BY <1>2, <1>10, <2>6, NoneGone
      <4> QED
        BY <1>2, <1>4, <4>1 DEF Gone, NoEarlierDogs
    <3> QED
      BY <1>2, <2>4, <3>2, <3>3 DEF Tidy
  <2> QED
    BY <1>2, <1>6, <1>7, <1>9, <1>10, <2>5, <2>6 DEF SceneInv
<1>11. CASE ~(stateLoaded /\ ~started)
  <2>1. UpdatePlayersList(In(dogs))
    BY <1>2, <1>11
  <2>2. OneHolder' /\ BagsLinked'
    BY <2>1, AllSays, UpdatedHolders
  <2>3. CASE started
    <3>1. PICK v : v = desired
      OBVIOUS
    <3>2. PICK gone \in SUBSET Players : gone = Gone
      BY DEF Gone
    <3>3. PICK left : left = listed \ In(dogs)
      OBVIOUS
    <3>4. ASSUME regular' PROVE Tidy(desired, Gone)'
      <4>1. Tidy(v, gone)
        BY <1>2, <2>3, <3>1, <3>2, <3>4 DEF All, SceneInv
      <4>2. Tidy(v, gone \cup left)'
        BY <2>1, <3>3, <4>1, AllSays, UpdatedTidy
      <4>3. Gone' = gone \cup left
        <5>1. /\ Gone = {p \in Players : lastList[p] = "left"}
              /\ Gone' = {p \in Players : dogs[p] = "left"}
              /\ listed = {p \in Players : lastList[p] = "in"}
          BY <1>2, <1>4, <2>3, AllSays DEF Gone, Lists, In
        <5>2. \A p \in Players : /\ lastList[p] \in {"out", "in", "left"}
                                 /\ dogs[p] \in {"out", "in", "left"}
          BY <1>4, <2>3, AllSays DEF Dogs
        <5>3. \A p \in Players : /\ lastList[p] = "left" => dogs[p] = "left"
                                 /\ lastList[p] = "in" => dogs[p] # "out"
          BY <1>8, <2>3, <3>4 DEF NoEarlierDogs
        <5>4. \A p \in Players : dogs[p] = "left" => lastList[p] # "out"
          <6> SUFFICES ASSUME NEW p \in Players, dogs[p] = "left"
              PROVE  lastList[p] # "out"
            OBVIOUS
          <6>1. world.dogs[p] = "left"
            BY <1>4 DEF NoEarlierDogs
          <6> QED
            BY <1>2, <3>4, <6>1 DEF All, SceneInv, LeftKnown
        <5>5. \A p \in Players : p \in Gone' <=> p \in gone \/ p \in left
          <6> SUFFICES ASSUME NEW p \in Players
              PROVE  p \in Gone' <=> p \in gone \/ p \in left
            OBVIOUS
          <6>1. /\ p \in Gone' <=> dogs[p] = "left"
                /\ p \in gone <=> lastList[p] = "left"
                /\ p \in left <=> lastList[p] = "in" /\ dogs[p] # "in"
            BY <1>4, <3>2, <3>3, <5>1
          <6> QED
            BY <5>2, <5>3, <5>4, <6>1
        <5> QED
          BY <3>3, <5>1, <5>5
      <4>4. desired' = v
        BY <1>2, <3>1
      <4> QED
        BY <4>2, <4>3, <4>4 DEF Tidy
    <3>5. started' /\ page' = "game"
      BY <1>2, <2>3 DEF All, CInv, Loaded
    <3> QED
      BY <1>6, <1>7, <1>9, <2>2, <3>4, <3>5 DEF SceneInv
  <2>4. CASE ~started
    <3>1. NothingShown'
      BY <1>11, <2>1, <2>4
      DEF All, SceneInv, NothingShown, UpdatePlayersList, RemoveBags, NoClone
    <3>2. ~started'
      BY <1>2, <1>11, <2>4
    <3> QED
      BY <1>2, <1>6, <1>7, <1>9, <2>2, <3>1, <3>2 DEF SceneInv
  <2> QED
    BY <2>3, <2>4
<1> QED
  BY <1>10, <1>11

LEMMA SceneNext ==
  SceneInv /\ CInv /\ CInv' /\ TypeInv /\ [CNext]_cVars => SceneInv'
<1> SUFFICES ASSUME All, CInv', [CNext]_cVars PROVE SceneInv'
  BY DEF All
<1>1. CASE CNext
  <2>1. world' \in Worlds
    BY DEF CInv, Answers
  <2> QED
    BY <1>1, <2>1, WorldStepScene, ServerAnswersScene, LoadScene, GetStateScene,
       GetPlayersScene, GoToRecordsScene, FrameScene DEF CNext
<1>2. CASE UNCHANGED cVars
  <2>1. UNCHANGED <<world, pictureVars, startVars, desired, lastList, regular,
                    page, states, lists>>
    BY <1>2 DEF cVars, assetVars
  <2>2. Said' \subseteq Said \cup {world} /\ SaidDogs' \subseteq SaidDogs \cup {world.dogs}
    BY <2>1 DEF Said, SaidDogs
  <2> QED
    BY <2>1, <2>2, Unmoved
<1> QED
  BY <1>1, <1>2

\* What lies behind the next two theorems holds in every state.
THEOREM SceneInvHolds == CSpec => []SceneInv
<1>1. CSpec => []CInv /\ []TypeInv
  BY CInvHolds, TypeInit, TypeNext, PTL DEF CSpec
<1> QED
  BY <1>1, InitScene, SceneNext, PTL DEF CSpec

\* While no answer is overtaken, every clone in the scene has somebody who will
\* still move or remove it.
LEMMA SceneNoOrphans == SceneInv /\ TypeInv => NoOrphans
<1> SUFFICES ASSUME SceneInv, TypeInv, regular, NEW s \in scene PROVE s \in Followed
  BY DEF NoOrphans
<1>1. PICK o \in Loot, c \in Copies : s = <<o, c>>
  BY DEF TypeInv, CTypeOK
<1>2. Tidy(desired, Gone)
  BY DEF SceneInv, NothingShown
<1>3. c # None
  BY ClientAssumption
<1>4. c \in {lostObjects[o], disappearing[o]} \cup {carried[p][o] : p \in Players}
  BY <1>1, <1>2 DEF Tidy
<1>5. CASE c \in {lostObjects[o], disappearing[o]}
  BY <1>1, <1>3, <1>5 DEF Followed, Clones
<1>6. ASSUME NEW p \in Players, c = carried[p][o]
      PROVE  s \in Followed
  <2>1. p \in shown \cup linked
    BY <1>3, <1>6 DEF SceneInv, BagsLinked, NoClone
  <2>2. s \in Clones(carried[p])
    BY <1>1, <1>3, <1>6 DEF Clones
  <2> QED
    BY <2>1, <2>2 DEF Followed
<1> QED
  BY <1>4, <1>5, <1>6

THEOREM NoOrphansHolds == CSpec => []NoOrphans
<1>1. CSpec => []TypeInv
  BY CInvHolds, TypeInit, TypeNext, PTL DEF CSpec
<1> QED
  BY <1>1, SceneInvHolds, SceneNoOrphans, PTL

\* And what is shown of the map and of the players on the page is in the scene: no
\* player takes the clones of another along.
LEMMA SceneNothingInvisible == SceneInv /\ TypeInv => NothingInvisible
<1> SUFFICES ASSUME SceneInv, TypeInv, regular
    PROVE  /\ Clones(lostObjects) \subseteq scene
           /\ \A p \in shown \cap listed : Clones(carried[p]) \subseteq scene
  BY DEF NothingInvisible
<1>1. CASE ~started
  BY <1>1 DEF SceneInv, NothingShown, Clones, NoClone
<1>2. CASE started
  <2>1. Tidy(desired, Gone)
    BY <1>2 DEF SceneInv
  <2>2. Clones(lostObjects) \subseteq scene
    BY <2>1 DEF Tidy, Clones
  <2>3. ASSUME NEW p \in shown \cap listed PROVE Clones(carried[p]) \subseteq scene
    <3>1. p \in shown \ Gone
      BY <2>3 DEF SceneInv, Lists, Gone, In
    <3> QED
      BY <2>1, <3>1 DEF Tidy, Clones
  <2> QED
    BY <2>2, <2>3
<1> QED
  BY <1>1, <1>2

THEOREM NothingInvisibleHolds == CSpec => []NothingInvisible
<1>1. CSpec => []TypeInv
  BY CInvHolds, TypeInit, TypeNext, PTL DEF CSpec
<1> QED
  BY <1>1, SceneInvHolds, SceneNothingInvisible, PTL
=============================================================================
