------------------------------- MODULE Ticking -------------------------------
(***************************************************************************)
(* Time in the game: the clock, the Ticker that turns it into deltas of    *)
(* whole milliseconds, and the one LootGenerator that Application::Tick    *)
(* calls with each delta, once for every session.                          *)
(*                                                                         *)
(* The clock counts units, Unit to a millisecond.  The generator is the    *)
(* default one (its random number is always 1); its probability_ and       *)
(* base_interval_ appear as the chance (Stay / Odds) ^ t that no object is *)
(* lost in t milliseconds.  Of a session only the numbers of its dogs and  *)
(* lost objects are kept.                                                  *)
(***************************************************************************)
EXTENDS Naturals, FiniteSets

CONSTANTS
  Sessions,
  Unit,        \* units of the clock in a millisecond
  Period,      \* tick_period, in milliseconds
  Late,        \* bound: units by which a handler or a timer may be late
  Stay, Odds,  \* (1 - probability_) ^ (1 ms / base_interval_) = Stay / Odds
  MaxDogs,     \* dogs in a session
  MaxLoot,     \* bound: objects on a map
  Enough       \* bound: time_without_loot_ is counted up to here

ASSUME TickingAssumption ==
  /\ Unit \in Nat \ {0} /\ Period \in Nat \ {0} /\ Late \in Nat
  /\ Stay \in Nat /\ Odds \in Nat /\ Stay < Odds
  /\ MaxDogs \in Nat /\ MaxLoot \in Nat
  /\ Enough \in Nat /\ 2 * MaxDogs * Stay ^ Enough <= Odds ^ Enough

\* The chances of the model are chances.  This follows from Stay < Odds; it is an
\* assumption for the prover, which has no theory of powers.
ASSUME ChanceAssumption ==
  \A t \in 0 .. Enough :
    Stay ^ t \in Nat /\ Odds ^ t \in Nat \ {0} /\ Stay ^ t <= Odds ^ t

VARIABLES
  elapsed,     \* the clock's time since last_tick_
  running,     \* handler_ is running; otherwise timer_ is set
  timerSet,    \* elapsed when the timer was set
  delta,       \* the argument of Tick
  toDo,        \* sessions the Tick has not come to
  looters, loot,
  timeWithoutLoot,  \* LootGenerator::time_without_loot_
  sinceTick,   \* time since the last OnTick began (history)
  sinceLoot    \* game time since the generator last yielded loot (history)

clockVars == <<elapsed, timerSet, sinceTick>>
lVars == <<clockVars, running, delta, toDo, looters, loot, timeWithoutLoot, sinceLoot>>

LInit ==
  /\ elapsed = 0 /\ timerSet = 0 /\ sinceTick = 0
  /\ running = FALSE /\ delta = 0 /\ toDo = {}
  /\ looters = [s \in Sessions |-> 0] /\ loot = [s \in Sessions |-> 0]
  /\ timeWithoutLoot = 0 /\ sinceLoot = 0

----------------------------------------------------------------------------
(* Time and joins *)

Deadline == IF running THEN Late ELSE timerSet + Period * Unit + Late

\* Time passes while the timer waits and while a handler runs.
Pass ==
  /\ elapsed < Deadline
  /\ elapsed' = elapsed + 1 /\ sinceTick' = sinceTick + 1
  /\ UNCHANGED <<running, timerSet, delta, toDo, looters, loot, timeWithoutLoot,
                 sinceLoot>>

\* JoinGame, between two ticks: a dog and an object.
Join(s) ==
  /\ ~running /\ looters[s] < MaxDogs /\ loot[s] < MaxLoot
  /\ looters' = [looters EXCEPT ![s] = @ + 1]
  /\ loot' = [loot EXCEPT ![s] = @ + 1]
  /\ UNCHANGED <<clockVars, running, delta, toDo, timeWithoutLoot, sinceLoot>>

----------------------------------------------------------------------------
(* The ticker *)

AtMost(bound, n) == IF n <= bound THEN n ELSE bound

\* OnTick up to the call of handler_: whole milliseconds, and the clock's time
\* from here on counts for the next tick.
OnTick ==
  /\ ~running /\ elapsed >= timerSet + Period * Unit
  /\ running' = TRUE
  /\ delta' = elapsed \div Unit
  /\ elapsed' = 0 /\ sinceTick' = 0 /\ timerSet' = 0
  /\ toDo' = Sessions
  /\ sinceLoot' = AtMost(Enough, sinceLoot + delta')
  /\ UNCHANGED <<looters, loot, timeWithoutLoot>>

\* The handler has returned, or thrown before it came to all sessions (a map
\* without loot types); ScheduleTick sets the timer.
ScheduleTickRestarting == elapsed' = 0 /\ timerSet' = 0
ScheduleTick == elapsed' = elapsed /\ timerSet' = elapsed
TickDone ==
  /\ running /\ running' = FALSE /\ delta' = 0 /\ toDo' = {}
  /\ ScheduleTick
  /\ UNCHANGED <<sinceTick, looters, loot, timeWithoutLoot, sinceLoot>>

----------------------------------------------------------------------------
(* The loot generator *)

ShortageOf(count, dogs) == IF count > dogs THEN 0 ELSE dogs - count

\* std::round(loot_shortage * (1 - (1 - probability_) ^ ratio)).
Yield(short, time) ==
  (2 * short * (Odds ^ time - Stay ^ time) + Odds ^ time) \div (2 * Odds ^ time)

\* Generate with GenerateLoot, for a session that has `count` objects left.
GenerateForAll(s, count, dogs) ==
  LET time == AtMost(Enough, timeWithoutLoot + delta)
      new == Yield(dogs, time)
  IN /\ loot' = [loot EXCEPT ![s] = count + new]
     /\ timeWithoutLoot' = (IF new > 0 THEN 0 ELSE time)
     /\ sinceLoot' = (IF new > 0 THEN 0 ELSE sinceLoot)
GenerateWithoutMemory(s, count, dogs) ==
  LET new == Yield(ShortageOf(count, dogs), delta)
  IN /\ loot' = [loot EXCEPT ![s] = count + new]
     /\ timeWithoutLoot' = 0
     /\ sinceLoot' = (IF new > 0 THEN 0 ELSE sinceLoot)
Generate(s, count, dogs) ==
  LET time == AtMost(Enough, timeWithoutLoot + delta)
      new == Yield(ShortageOf(count, dogs), time)
  IN /\ loot' = [loot EXCEPT ![s] = count + new]
     /\ timeWithoutLoot' = (IF new > 0 THEN 0 ELSE time)
     /\ sinceLoot' = (IF new > 0 THEN 0 ELSE sinceLoot)

\* Tick for one session: dogs are retired, objects are collected, and the
\* generator is asked.
TickSession(s) ==
  /\ running /\ s \in toDo
  /\ toDo' = toDo \ {s}
  /\ \E dogs \in 0 .. looters[s], count \in 0 .. loot[s] :
       /\ looters' = [looters EXCEPT ![s] = dogs]
       /\ Generate(s, count, dogs)
  /\ UNCHANGED <<clockVars, running, delta>>

LNext ==
  \/ Pass \/ OnTick \/ TickDone
  \/ \E s \in Sessions : Join(s) \/ TickSession(s)

LSpec == LInit /\ [][LNext]_lVars

\* Time goes on, the timer fires, and a Tick comes to each session of a map with
\* loot types.
LFairness ==
  /\ WF_lVars(Pass) /\ WF_lVars(OnTick) /\ WF_lVars(TickDone)
  /\ \A s \in Sessions : SF_lVars(TickSession(s))
LLiveSpec == LSpec /\ LFairness

----------------------------------------------------------------------------
(* Properties *)

\* A tick tells the game the whole milliseconds since the tick before began, no
\* matter how late the timer is and how long that Tick ran: the game does not run
\* ahead of the clock, and loses of it, the time of its handlers included, less
\* than a millisecond per tick.
TickTimeIsReal ==
  [][~running /\ running' =>
       Unit * delta' <= sinceTick /\ sinceTick < Unit * (delta' + 1)]_lVars

\* The generator never gives a map more objects than it has dogs: what a Tick adds
\* in a session of any past leaves the map with an object per dog at most.
LootWithinLooters ==
  [][running => \A s \in Sessions : loot'[s] > loot[s] => loot'[s] <= looters'[s]]_lVars

\* As long as some session has fewer objects than dogs, the generator goes on
\* yielding objects: short ticks add up although each alone rounds to nothing.
LootComes ==
  \A s \in Sessions : []<>(sinceLoot = 0 \/ loot[s] >= looters[s])

\* "time_delta - the time that has passed since the previous call of Generate"
\* (loot_generator.h): the time the generator counts without loot is at most the
\* game time since it last yielded.
LootTimeIsReal == timeWithoutLoot <= sinceLoot
=============================================================================
