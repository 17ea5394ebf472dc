------------------------ MODULE ConnectionPool_proofs ------------------------
(***************************************************************************)
(* Proofs about ConnectionPool, for any number of threads and connections. *)
(***************************************************************************)
EXTENDS ConnectionPool, FiniteSetTheorems, TLAPS

\* Exactly the threads at "using" have a connection, and the slots below
\* used_connections_ have been moved from.
Shape ==
  /\ \A t \in Threads : pc[t] = "using" <=> conn[t] # None
  /\ \A i \in Slots : i < used => pool[i] = None

PoolInv == PoolTypeOK /\ ConnectionsConserved /\ Shape

\* Every set of threads can be counted.
LEMMA FiniteThreads ==
  \A S \in SUBSET Threads : IsFiniteSet(S) /\ Cardinality(S) \in Nat
BY PoolAssumption, FS_Subset, FS_CardinalityType

LEMMA SlotFacts ==
  /\ \A i \in Slots : i \in Nat /\ i # None
  /\ \A i \in Nat : i < Capacity => i \in Slots
  /\ Connections = Slots /\ None \notin Slots
BY PoolAssumption DEF Slots, Connections

LEMMA PoolInitInv == PoolInit => PoolInv
<1> SUFFICES ASSUME PoolInit PROVE PoolInv
  OBVIOUS
<1>1. Users = {}
  BY DEF PoolInit, Users
<1>2. ConnectionsConserved
  BY <1>1, SlotFacts, FS_EmptySet, PoolAssumption
  DEF PoolInit, ConnectionsConserved, Slots
<1> QED
  BY <1>2, SlotFacts, PoolAssumption
  DEF PoolInit, PoolInv, PoolTypeOK, Shape, Users

\* A connection moves from the first free slot to the thread.
LEMMA TakeInv ==
  ASSUME PoolInv, NEW t \in Threads, Take(t)
  PROVE  PoolInv'
<1>1. /\ used < Capacity /\ used \in Slots /\ used \in Nat /\ used + 1 \in 0 .. Capacity
      /\ conn' = [conn EXCEPT ![t] = pool[used]]
      /\ pool' = [pool EXCEPT ![used] = None]
      /\ used' = used + 1 /\ owners' = owners \cup {t}
      /\ pc' = [pc EXCEPT ![t] = "using"] /\ pc[t] # "using"
  BY SlotFacts, PoolAssumption
  DEF Take, HasFree, InGetConnection, PoolInv, PoolTypeOK
<1>2. PoolTypeOK'
  BY <1>1 DEF PoolInv, PoolTypeOK
<1>3. conn[t] = None /\ pool[used] # None
  BY <1>1, PoolAssumption DEF PoolInv, Shape, ConnectionsConserved
<1>4. Users' = Users \cup {t} /\ t \notin Users
  BY <1>1, <1>3 DEF Users, PoolInv, PoolTypeOK
<1>5. Cardinality(Users') = used'
  <2>1. IsFiniteSet(Users) /\ Cardinality(Users) = used
    BY FiniteThreads DEF PoolInv, ConnectionsConserved, Users
  <2> QED
    BY <1>1, <1>4, <2>1, FS_AddElement
<1>6. \A u \in Users, i \in Slots : conn[u] # pool[i]
  BY DEF PoolInv, ConnectionsConserved
<1>7. \A u, v \in Users' : u # v => conn'[u] # conn'[v]
  BY <1>1, <1>4, <1>6 DEF PoolInv, ConnectionsConserved, Users, PoolTypeOK
<1>8. \A i, j \in used + 1 .. Capacity - 1 :
        pool'[i] # None /\ (i # j => pool'[i] # pool'[j])
  <2>1. \A i \in used + 1 .. Capacity - 1 :
          i \in used .. Capacity - 1 /\ i # used /\ i \in Slots
    BY <1>1, PoolAssumption DEF Slots
  <2> QED
    BY <1>1, <2>1 DEF PoolInv, PoolTypeOK, ConnectionsConserved
<1>9. \A u \in Users', i \in Slots : conn'[u] # pool'[i]
  <2> SUFFICES ASSUME NEW u \in Users', NEW i \in Slots
               PROVE  conn'[u] # pool'[i]
    OBVIOUS
  <2>1. CASE i = used
    BY <2>1, <1>1, <1>3 DEF Users, PoolInv, PoolTypeOK
  <2>2. CASE i # used /\ u # t
    BY <2>2, <1>1, <1>4, <1>6 DEF PoolInv, PoolTypeOK, Users
  <2>3. CASE i # used /\ u = t
    <3>1. conn'[u] = pool[used] /\ pool'[i] = pool[i]
      BY <2>3, <1>1 DEF PoolInv, PoolTypeOK
    <3>2. CASE i < used
      BY <3>1, <3>2, <1>3 DEF PoolInv, Shape
    <3>3. CASE ~(i < used)
      <4>1. i \in used .. Capacity - 1 /\ used \in used .. Capacity - 1
        BY <3>3, <1>1, PoolAssumption DEF Slots
      <4> QED
        BY <4>1, <3>1, <2>3 DEF PoolInv, ConnectionsConserved
    <3> QED
      BY <3>2, <3>3
  <2> QED
    BY <2>1, <2>2, <2>3
<1>10. owners' = Users'
  BY <1>1, <1>4 DEF PoolInv, ConnectionsConserved
<1>11. Shape'
  BY <1>1, <1>3, SlotFacts DEF PoolInv, PoolTypeOK, Shape
<1> QED
  BY <1>1, <1>2, <1>5, <1>7, <1>8, <1>9, <1>10, <1>11
  DEF PoolInv, ConnectionsConserved

\* It moves back to the last slot that is not free.
LEMMA ReturnInv ==
  ASSUME PoolInv, NEW t \in Threads, Return(t)
  PROVE  PoolInv'
<1>1. /\ used' = used - 1 /\ pool' = [pool EXCEPT ![used - 1] = conn[t]]
      /\ conn' = [conn EXCEPT ![t] = None] /\ owners' = owners \ {t}
      /\ pc' = [pc EXCEPT ![t] = "notifying"] /\ pc[t] = "using"
  BY DEF Return, PushBack, AfterReturn
<1>2. conn[t] # None /\ t \in Users /\ conn[t] \in Connections
  BY <1>1 DEF PoolInv, PoolTypeOK, Shape, Users
<1>3. IsFiniteSet(Users) /\ Cardinality(Users) = used
  BY FiniteThreads DEF PoolInv, ConnectionsConserved, Users
<1>4. used >= 1 /\ used \in Nat /\ used - 1 \in Slots /\ used - 1 \in 0 .. Capacity
  <2>1. used # 0
    BY <1>2, <1>3, FS_EmptySet
  <2> QED
    BY <2>1, PoolAssumption DEF PoolInv, PoolTypeOK, Slots
<1>5. PoolTypeOK'
  BY <1>1, <1>2, <1>4 DEF PoolInv, PoolTypeOK
<1>6. Users' = Users \ {t}
  BY <1>1, <1>2 DEF Users, PoolInv, PoolTypeOK
<1>7. Cardinality(Users') = used'
  BY <1>1, <1>2, <1>3, <1>6, FS_RemoveElement
<1>8. \A u, v \in Users' : u # v => conn'[u] # conn'[v]
  BY <1>1, <1>6 DEF PoolInv, ConnectionsConserved, Users, PoolTypeOK
<1>9. \A i, j \in used - 1 .. Capacity - 1 :
        pool'[i] # None /\ (i # j => pool'[i] # pool'[j])
  <2>1. \A i \in used - 1 .. Capacity - 1 :
          i \in Slots /\ (i = used - 1 \/ i \in used .. Capacity - 1)
    BY <1>4, PoolAssumption DEF Slots
  <2>2. \A i \in Slots : pool'[i] = IF i = used - 1 THEN conn[t] ELSE pool[i]
    BY <1>1, <1>4 DEF PoolInv, PoolTypeOK
  <2>3. \A i \in Slots : conn[t] # pool[i]
    BY <1>2 DEF PoolInv, ConnectionsConserved
  <2>4. \A i, j \in used .. Capacity - 1 :
          pool[i] # None /\ (i # j => pool[i] # pool[j])
    BY DEF PoolInv, ConnectionsConserved
  <2> QED
    BY <1>2, <2>1, <2>2, <2>3, <2>4
<1>10. \A u \in Users', i \in Slots : conn'[u] # pool'[i]
  <2> SUFFICES ASSUME NEW u \in Users', NEW i \in Slots
               PROVE  conn'[u] # pool'[i]
    OBVIOUS
  <2>1. u \in Users /\ u # t /\ conn'[u] = conn[u]
    BY <1>1, <1>6 DEF Users, PoolInv, PoolTypeOK
  <2>2. pool'[i] = IF i = used - 1 THEN conn[t] ELSE pool[i]
    BY <1>1, <1>4 DEF PoolInv, PoolTypeOK
  <2> QED
    BY <2>1, <2>2, <1>2 DEF PoolInv, ConnectionsConserved
<1>11. owners' = Users'
  BY <1>1, <1>6 DEF PoolInv, ConnectionsConserved
<1>12. Shape'
  <2>1. \A u \in Threads : pc'[u] = "using" <=> conn'[u] # None
    BY <1>1 DEF PoolInv, PoolTypeOK, Shape
  <2>2. ASSUME NEW i \in Slots, i < used' PROVE pool'[i] = None
    <3>1. i < used /\ i # used - 1
      BY <2>2, <1>1, <1>4, SlotFacts
    <3> QED
      BY <3>1, <1>1, <1>4 DEF PoolInv, PoolTypeOK, Shape
  <2> QED
    BY <2>1, <2>2 DEF Shape
<1> QED
  BY <1>1, <1>5, <1>7, <1>8, <1>9, <1>10, <1>11, <1>12
  DEF PoolInv, ConnectionsConserved

\* The condition variable moves no connection.
LEMMA SignalInv ==
  ASSUME PoolInv, NEW t \in Threads, Wait(t) \/ SpuriousWake(t) \/ NotifyOne(t)
  PROVE  PoolInv'
<1>1. /\ UNCHANGED <<pool, used, owners, conn>>
      /\ pc' \in [Threads -> {"outside", "waiting", "woken", "using", "notifying"}]
      /\ \A u \in Threads : pc'[u] = "using" <=> pc[u] = "using"
  <2>1. CASE Wait(t) \/ SpuriousWake(t)
    BY <2>1 DEF Wait, SpuriousWake, InGetConnection, PoolInv, PoolTypeOK
  <2>2. CASE NotifyOne(t)
    BY <2>2 DEF NotifyOne, WokenBy, At, PoolInv, PoolTypeOK
  <2> QED
    BY <2>1, <2>2
<1> QED
  BY <1>1 DEF PoolInv, PoolTypeOK, ConnectionsConserved, Shape, Users

LEMMA PoolNextInv == PoolInv /\ [PoolNext]_poolVars => PoolInv'
<1> SUFFICES ASSUME PoolInv, [PoolNext]_poolVars PROVE PoolInv'
  OBVIOUS
<1>1. CASE PoolNext
  BY <1>1, TakeInv, ReturnInv, SignalInv DEF PoolNext
<1>2. CASE UNCHANGED poolVars
  BY <1>2
  DEF poolVars, PoolInv, PoolTypeOK, ConnectionsConserved, Shape, Users
<1> QED
  BY <1>1, <1>2

THEOREM PoolInvHolds == PoolSpec => []PoolInv
BY PoolInitInv, PoolNextInv, PTL DEF PoolSpec

\* Taking and returning in any order never shares, loses or drops a connection.
THEOREM ConnectionsConservedHolds == PoolSpec => []ConnectionsConserved
BY PoolInvHolds, PTL DEF PoolInv

\* GetConnection sleeps only while other threads hold every connection.
LEMMA OnlyFullStep ==
  PoolInv /\ [PoolNext]_poolVars =>
    [\A t \in Threads :
       pc[t] # "waiting" /\ pc'[t] = "waiting" =>
         Cardinality(Users \ {t}) >= Capacity]_poolVars
<1> SUFFICES ASSUME PoolInv, PoolNext, NEW t \in Threads,
                    pc[t] # "waiting", pc'[t] = "waiting"
             PROVE  Cardinality(Users \ {t}) >= Capacity
  OBVIOUS
<1>1. Wait(t)
  BY DEF PoolNext, Take, Wait, SpuriousWake, Return, AfterReturn, NotifyOne,
         WokenBy, At, PoolInv, PoolTypeOK
<1>2. t \notin Users
  BY <1>1 DEF Wait, InGetConnection, PoolInv, ConnectionsConserved, Shape, Users
<1>3. Users \ {t} = Users /\ Cardinality(Users) = used
  BY <1>2 DEF PoolInv, ConnectionsConserved
<1> QED
  BY <1>1, <1>3, PoolAssumption DEF Wait, HasFree, PoolInv, PoolTypeOK
THEOREM OnlyFullPoolBlocksHolds == PoolSpec => OnlyFullPoolBlocks
BY PoolInvHolds, OnlyFullStep, PTL DEF PoolSpec, OnlyFullPoolBlocks

----------------------------------------------------------------------------
(* No wakeup is lost *)

\* The two counts NoLostWakeup adds up.
OnTheWay == Cardinality(At("woken")) + Cardinality(At("notifying"))

\* What a thread at a place contributes to OnTheWay.
Counts(place) == IF place \in {"woken", "notifying"} THEN 1 ELSE 0

\* A thread that changes its place changes OnTheWay by what the places count.
LEMMA Moved ==
  ASSUME PoolTypeOK, NEW t \in Threads, NEW to, pc[t] # to,
         pc' = [pc EXCEPT ![t] = to]
  PROVE  OnTheWay' = OnTheWay + Counts(to) - Counts(pc[t])
<1> DEFINE woken == {u \in Threads : pc[u] = "woken"}
           woken2 == {u \in Threads : pc'[u] = "woken"}
           notifying == {u \in Threads : pc[u] = "notifying"}
           notifying2 == {u \in Threads : pc'[u] = "notifying"}
<1>1. /\ woken2 = IF pc[t] = "woken" THEN woken \ {t}
                  ELSE IF to = "woken" THEN woken \cup {t} ELSE woken
      /\ notifying2 = IF pc[t] = "notifying" THEN notifying \ {t}
                      ELSE IF to = "notifying" THEN notifying \cup {t}
                      ELSE notifying
      /\ t \in woken <=> pc[t] = "woken"
      /\ t \in notifying <=> pc[t] = "notifying"
  BY DEF PoolTypeOK
<1>2. /\ IsFiniteSet(woken) /\ Cardinality(woken) \in Nat
      /\ IsFiniteSet(notifying) /\ Cardinality(notifying) \in Nat
  BY FiniteThreads
<1>3. /\ OnTheWay' = Cardinality(woken2) + Cardinality(notifying2)
      /\ OnTheWay = Cardinality(woken) + Cardinality(notifying)
  BY DEF OnTheWay, At
<1> HIDE DEF woken, notifying, woken2, notifying2
<1>4. /\ Cardinality(woken \ {t}) =
           IF t \in woken THEN Cardinality(woken) - 1 ELSE Cardinality(woken)
      /\ Cardinality(woken \cup {t}) =
           IF t \in woken THEN Cardinality(woken) ELSE Cardinality(woken) + 1
      /\ Cardinality(notifying \ {t}) =
           IF t \in notifying THEN Cardinality(notifying) - 1
           ELSE Cardinality(notifying)
      /\ Cardinality(notifying \cup {t}) =
           IF t \in notifying THEN Cardinality(notifying)
           ELSE Cardinality(notifying) + 1
  BY <1>2, FS_AddElement, FS_RemoveElement
<1> QED
  BY <1>1, <1>2, <1>3, <1>4 DEF Counts

LEMMA WakeupStep ==
  ASSUME PoolInv, NoLostWakeup, [PoolNext]_poolVars, PoolInv'
  PROVE  NoLostWakeup'
<1> SUFFICES ASSUME At("waiting")' # {}
             PROVE  Capacity - used' <= OnTheWay'
  BY DEF NoLostWakeup, OnTheWay
<1>1. /\ used \in Nat /\ used' \in Nat /\ Capacity \in Nat /\ used <= Capacity
      /\ PoolTypeOK /\ OnTheWay \in Nat
  BY PoolAssumption, FiniteThreads DEF PoolInv, PoolTypeOK, OnTheWay, At
<1>2. /\ At("waiting") # {} => Capacity - used <= OnTheWay
      /\ OnTheWay' \in Nat
  BY FiniteThreads DEF NoLostWakeup, OnTheWay, At
<1>3. ASSUME NEW t \in Threads, Take(t) PROVE Capacity - used' <= OnTheWay'
  <2>1. /\ pc' = [pc EXCEPT ![t] = "using"] /\ pc[t] \in {"outside", "woken"}
        /\ used' = used + 1
    BY <1>3 DEF Take, InGetConnection
  <2>2. At("waiting") # {}
    BY <2>1 DEF At, PoolInv, PoolTypeOK
  <2>3. OnTheWay' = OnTheWay + Counts("using") - Counts(pc[t])
    BY <1>1, <2>1, Moved
  <2>4. Counts("using") = 0 /\ Counts(pc[t]) \in {0, 1}
    BY DEF Counts
  <2> QED
    BY <1>1, <1>2, <2>1, <2>2, <2>3, <2>4
<1>4. ASSUME NEW t \in Threads, Wait(t) PROVE Capacity - used' <= OnTheWay'
  <2>1. used' = used /\ used >= Capacity
    BY <1>1, <1>4, PoolAssumption DEF Wait, HasFree
  <2>2. OnTheWay' \in Nat
    BY FiniteThreads DEF OnTheWay, At
  <2> QED
    BY <1>1, <2>1, <2>2
<1>5. ASSUME NEW t \in Threads, SpuriousWake(t)
      PROVE  Capacity - used' <= OnTheWay'
  <2>1. /\ pc' = [pc EXCEPT ![t] = "woken"] /\ pc[t] = "waiting" /\ used' = used
    BY <1>5 DEF SpuriousWake
  <2>2. At("waiting") # {}
    BY <2>1 DEF At
  <2>3. OnTheWay' = OnTheWay + Counts("woken") - Counts("waiting")
    BY <1>1, <2>1, Moved
  <2>4. Counts("woken") = 1 /\ Counts("waiting") = 0
    BY DEF Counts
  <2> QED
    BY <1>1, <1>2, <2>1, <2>2, <2>3, <2>4
<1>6. ASSUME NEW t \in Threads, Return(t) PROVE Capacity - used' <= OnTheWay'
  <2>1. /\ pc' = [pc EXCEPT ![t] = "notifying"] /\ pc[t] = "using"
        /\ used' = used - 1
    BY <1>6 DEF Return, PushBack, AfterReturn
  <2>2. At("waiting") # {}
    BY <2>1 DEF At, PoolInv, PoolTypeOK
  <2>3. OnTheWay' = OnTheWay + Counts("notifying") - Counts("using")
    BY <1>1, <2>1, Moved
  <2>4. Counts("notifying") = 1 /\ Counts("using") = 0
    BY DEF Counts
  <2> QED
    BY <1>1, <1>2, <2>1, <2>2, <2>3, <2>4
<1>7. ASSUME NEW t \in Threads, NotifyOne(t)
      PROVE  Capacity - used' <= OnTheWay'
  <2>1. At("waiting") # {}
    BY <1>7 DEF NotifyOne, At, PoolInv, PoolTypeOK
  <2>2. PICK w \in At("waiting") :
          /\ pc' = [[pc EXCEPT ![w] = "woken"] EXCEPT ![t] = "outside"]
          /\ pc[t] = "notifying" /\ used' = used
    BY <2>1, <1>7 DEF NotifyOne, WokenBy
  <2>3. /\ At("woken")' = At("woken") \cup {w} /\ w \notin At("woken")
        /\ At("notifying")' = At("notifying") \ {t} /\ t \in At("notifying")
    BY <2>2 DEF At, PoolInv, PoolTypeOK
  <2>4. /\ IsFiniteSet(At("woken")) /\ Cardinality(At("woken")) \in Nat
        /\ IsFiniteSet(At("notifying")) /\ Cardinality(At("notifying")) \in Nat
    BY FiniteThreads DEF At
  <2>5. /\ Cardinality(At("woken"))' = Cardinality(At("woken")) + 1
        /\ Cardinality(At("notifying"))' = Cardinality(At("notifying")) - 1
    BY <2>3, <2>4, FS_AddElement, FS_RemoveElement
  <2>6. OnTheWay' = OnTheWay
    BY <2>4, <2>5 DEF OnTheWay
  <2> QED
    BY <1>1, <1>2, <2>1, <2>2, <2>6
<1>8. CASE UNCHANGED poolVars
  BY <1>8, <1>2 DEF poolVars, At, OnTheWay
<1> QED
  BY <1>3, <1>4, <1>5, <1>6, <1>7, <1>8 DEF PoolNext

\* For every free connection somebody is awake or about to be woken.
THEOREM NoLostWakeupHolds == PoolSpec => []NoLostWakeup
<1>1. PoolInit => NoLostWakeup
  BY DEF PoolInit, NoLostWakeup, At
<1> QED
  BY <1>1, PoolInvHolds, WakeupStep, PTL DEF PoolSpec
=============================================================================
