--------------------------- MODULE ConnectionPool ---------------------------
(***************************************************************************)
(* postgres::ConnectionPool: a stack of connections that threads take and  *)
(* give back, guarded by a mutex and a condition variable.                 *)
(*                                                                         *)
(* Each critical section is one action.  A thread sleeps, is woken (by a   *)
(* notification or spuriously), and takes the mutex again in separate      *)
(* actions; ReturnConnection notifies after it has released the mutex.     *)
(* The throw of a thread that asks while it has a connection is the guard  *)
(* t \notin owners: such a call changes nothing.                           *)
(***************************************************************************)
EXTENDS Integers, FiniteSets

CONSTANTS
  Threads,
  Capacity,   \* pool_.size(), std::thread::hardware_concurrency()
  None        \* a null shared_ptr

ASSUME PoolAssumption ==
  Capacity \in Nat /\ None \notin Nat /\ IsFiniteSet(Threads)

Slots == 0 .. Capacity - 1
Connections == 0 .. Capacity - 1

VARIABLES
  pool,     \* pool_
  used,     \* used_connections_
  owners,   \* thread_connections_
  conn,     \* the conn_ of the wrapper a thread holds
  pc        \* where a thread is in GetConnection or ReturnConnection

poolVars == <<pool, used, owners, conn, pc>>

PoolTypeOK ==
  /\ pool \in [Slots -> Connections \cup {None}]
  /\ used \in 0 .. Capacity
  /\ owners \subseteq Threads
  /\ conn \in [Threads -> Connections \cup {None}]
  /\ pc \in [Threads -> {"outside", "waiting", "woken", "using", "notifying"}]

At(place) == {t \in Threads : pc[t] = place}

PoolInit ==
  /\ pool = [i \in Slots |-> i] /\ used = 0 /\ owners = {}
  /\ conn = [t \in Threads |-> None]
  /\ pc = [t \in Threads |-> "outside"]

HasFreeButOne == used + 1 < Capacity
HasFree == used < Capacity

\* Holds the mutex: a new caller, refused if it has a connection, or a waiter
\* that wakes up.
InGetConnection(t) ==
  (pc[t] = "outside" /\ t \notin owners) \/ pc[t] = "woken"

Take(t) ==
  /\ InGetConnection(t) /\ HasFree
  /\ conn' = [conn EXCEPT ![t] = pool[used]]
  /\ pool' = [pool EXCEPT ![used] = None]
  /\ used' = used + 1
  /\ owners' = owners \cup {t}
  /\ pc' = [pc EXCEPT ![t] = "using"]

Wait(t) ==
  /\ InGetConnection(t) /\ ~HasFree
  /\ pc' = [pc EXCEPT ![t] = "waiting"]
  /\ UNCHANGED <<pool, used, owners, conn>>

SpuriousWake(t) ==
  /\ pc[t] = "waiting"
  /\ pc' = [pc EXCEPT ![t] = "woken"]
  /\ UNCHANGED <<pool, used, owners, conn>>

PushBackOnTop(c) ==
  /\ used' = used - 1
  /\ pool' = IF used \in Slots THEN [pool EXCEPT ![used] = c] ELSE pool
PushBack(c) ==
  /\ used' = used - 1 /\ pool' = [pool EXCEPT ![used - 1] = c]

NotifyIfExhausted == IF HasFree THEN "outside" ELSE "notifying"
AfterReturn == "notifying"

Return(t) ==
  /\ pc[t] = "using"
  /\ PushBack(conn[t])
  /\ conn' = [conn EXCEPT ![t] = None]
  /\ owners' = owners \ {t}
  /\ pc' = [pc EXCEPT ![t] = AfterReturn]

WokenByNobody(w) == pc
WokenBy(w) == [pc EXCEPT ![w] = "woken"]

NotifyOne(t) ==
  /\ pc[t] = "notifying"
  /\ IF At("waiting") = {} THEN pc' = [pc EXCEPT ![t] = "outside"]
     ELSE \E w \in At("waiting") : pc' = [WokenBy(w) EXCEPT ![t] = "outside"]
  /\ UNCHANGED <<pool, used, owners, conn>>

PoolNext ==
  \E t \in Threads :
    Take(t) \/ Wait(t) \/ SpuriousWake(t) \/ Return(t) \/ NotifyOne(t)

PoolSpec == PoolInit /\ [][PoolNext]_poolVars

\* A statement ends (or throws), destructors run, and a woken thread gets the
\* mutex.  Nothing says which waiter is notified or that a caller comes.
PoolFairness ==
  \A t \in Threads :
    /\ WF_poolVars(Return(t)) /\ WF_poolVars(NotifyOne(t))
    /\ WF_poolVars(pc[t] = "woken" /\ (Take(t) \/ Wait(t)))

PoolLiveSpec == PoolSpec /\ PoolFairness

----------------------------------------------------------------------------
Users == {t \in Threads : conn[t] # None}

\* No connection has two users, or a user and a free slot; none is lost.
ConnectionsConserved ==
  /\ \A t, u \in Users : t # u => conn[t] # conn[u]
  /\ \A i, j \in used .. Capacity - 1 :
       pool[i] # None /\ (i # j => pool[i] # pool[j])
  /\ \A t \in Users, i \in Slots : conn[t] # pool[i]
  /\ Cardinality(Users) = used /\ owners = Users

\* While threads sleep, every free connection has somebody on the way to it: a
\* thread already woken, or one about to call notify_one.
NoLostWakeup ==
  At("waiting") # {} =>
    Capacity - used <= Cardinality(At("woken")) + Cardinality(At("notifying"))

\* A thread goes to sleep only if other threads hold all the connections; with
\* no more threads than connections, as main starts them, none ever does.
OnlyFullPoolBlocks ==
  [][\A t \in Threads :
       pc[t] # "waiting" /\ pc'[t] = "waiting" =>
         Cardinality(Users \ {t}) >= Capacity]_poolVars

\* Threads do not sleep for ever beside a pool nobody uses.
PoolNotIdle == ~<>[](At("waiting") # {} /\ Users = {})
=============================================================================
