--------------------------- MODULE Ticking_proofs ---------------------------
(***************************************************************************)
(* Proofs about Ticking, for every value of its constants: the time a Tick *)
(* is told, and the objects it adds.                                       *)
(***************************************************************************)
EXTENDS Ticking, Integers, TLAPS

----------------------------------------------------------------------------
(* The clock *)

\* The clock's time since last_tick_ is the time since the last OnTick began:
\* nothing else resets it.
ClockInv == elapsed \in Nat /\ sinceTick = elapsed

\* Division by the units of a millisecond, as std::chrono::duration_cast does it.
LEMMA WholeMilliseconds ==
  ASSUME NEW n \in Nat, NEW d \in Nat \ {0}
  PROVE  d * (n \div d) <= n /\ n < d * (n \div d + 1)
OBVIOUS

LEMMA ClockStep ==
  ASSUME ClockInv, [LNext]_lVars
  PROVE  /\ ClockInv'
         /\ ~running /\ running' =>
              Unit * delta' <= sinceTick /\ sinceTick < Unit * (delta' + 1)
<1>1. CASE OnTick
  <2>1. Unit * (elapsed \div Unit) <= elapsed /\ elapsed < Unit * (elapsed \div Unit + 1)
    BY WholeMilliseconds, TickingAssumption DEF ClockInv
  <2> QED
    BY <1>1, <2>1 DEF OnTick, ClockInv
<1>2. CASE Pass
  BY <1>2 DEF Pass, ClockInv
<1>3. CASE TickDone
  BY <1>3 DEF TickDone, ScheduleTick, ClockInv
<1>4. ASSUME NEW s \in Sessions, Join(s) \/ TickSession(s)
      PROVE  UNCHANGED clockVars /\ running' = running
  BY <1>4 DEF Join, TickSession
<1>5. CASE UNCHANGED lVars
  BY <1>5 DEF lVars, clockVars, ClockInv
<1> QED
  BY <1>1, <1>2, <1>3, <1>4, <1>5 DEF LNext, ClockInv, clockVars

\* A Tick is told the whole milliseconds since the one before began, however late
\* the timer was and however long the handlers ran.
THEOREM TickTimeIsRealHolds == LSpec => TickTimeIsReal
<1>1. LInit => ClockInv
  BY DEF LInit, ClockInv
<1> QED
  BY <1>1, ClockStep, PTL DEF LSpec, TickTimeIsReal

----------------------------------------------------------------------------
(* The loot generator *)

\* The generator yields no more than is short: what it rounds is a part of it.
LEMMA YieldWithinShortage ==
  ASSUME NEW short \in Nat, NEW time \in 0 .. Enough
  PROVE  Yield(short, time) \in Nat /\ Yield(short, time) <= short
<1> DEFINE all == Odds ^ time
           none == Stay ^ time
           sum == 2 * short * (all - none) + all
           twice == 2 * all
<1>1. all \in Nat \ {0} /\ none \in Nat /\ none <= all
  BY ChanceAssumption
<1>2. Yield(short, time) = sum \div twice
  BY DEF Yield
<1> HIDE DEF all, none
<1>3. sum \in Nat /\ twice \in Nat \ {0}
  <2>1. all - none \in Nat
    BY <1>1
  <2>2. short * (all - none) \in Nat
    BY <2>1
  <2> QED
    BY <1>1, <2>2
<1>4. sum < twice * (short + 1)
  <2>1. short * (all - none) <= short * all
    BY <1>1
  <2>2. short * (all - none) \in Int /\ short * all \in Int
    BY <1>1
  <2> QED
    BY <1>1, <2>1, <2>2
<1> HIDE DEF sum, twice
<1>5. twice * (sum \div twice) <= sum /\ sum \div twice \in Nat
  BY <1>3, WholeMilliseconds
<1>6. sum \div twice < short + 1
  <2> SUFFICES ASSUME sum \div twice >= short + 1 PROVE FALSE
    BY <1>5
  <2>1. twice * (sum \div twice) >= twice * (short + 1)
    BY <1>3, <1>5
  <2>2. twice * (short + 1) \in Nat /\ twice * (sum \div twice) \in Nat
    BY <1>3, <1>5
  <2> QED
    BY <1>3, <1>4, <1>5, <2>1, <2>2
<1> QED
  BY <1>2, <1>5, <1>6

LEMMA AtMostBound ==
  ASSUME NEW bound \in Nat, NEW n \in Nat
  PROVE  AtMost(bound, n) \in 0 .. bound
BY DEF AtMost

\* The numbers of a session are numbers.
CountsInv ==
  /\ ClockInv /\ delta \in Nat /\ timeWithoutLoot \in Nat
  /\ looters \in [Sessions -> Nat] /\ loot \in [Sessions -> Nat]

\* What one session gets of a Tick.
LEMMA SessionGets ==
  ASSUME CountsInv, NEW s \in Sessions, TickSession(s)
  PROVE  /\ looters' \in [Sessions -> Nat] /\ loot' \in [Sessions -> Nat]
         /\ timeWithoutLoot' \in Nat
         /\ \A r \in Sessions : loot'[r] > loot[r] => loot'[r] <= looters'[r]
<1>1. PICK dogs \in 0 .. looters[s], count \in 0 .. loot[s] :
        looters' = [looters EXCEPT ![s] = dogs] /\ Generate(s, count, dogs)
  BY DEF TickSession
<1>2. dogs \in Nat /\ count \in Nat /\ count <= loot[s]
  BY DEF CountsInv
<1> DEFINE time == AtMost(Enough, timeWithoutLoot + delta)
           short == ShortageOf(count, dogs)
           new == Yield(short, time)
<1>3. /\ loot' = [loot EXCEPT ![s] = count + new]
      /\ timeWithoutLoot' = IF new > 0 THEN 0 ELSE time
  BY <1>1 DEF Generate
<1>4. time \in 0 .. Enough /\ time \in Nat
  <2>1. timeWithoutLoot + delta \in Nat /\ Enough \in Nat
    BY TickingAssumption DEF CountsInv
  <2>2. time \in 0 .. Enough
    BY <2>1, AtMostBound
  <2> QED
    BY <2>1, <2>2
<1>5. short \in Nat /\ (count <= dogs => count + short <= dogs) /\ (count > dogs => short = 0)
  BY <1>2 DEF ShortageOf
<1>6. new \in Nat /\ new <= short
  BY <1>4, <1>5, YieldWithinShortage
<1> HIDE DEF time, short, new
<1>7. \A r \in Sessions : loot'[r] > loot[r] => loot'[r] <= looters'[r]
  BY <1>1, <1>2, <1>3, <1>5, <1>6 DEF CountsInv
<1> QED
  BY <1>1, <1>2, <1>3, <1>4, <1>6, <1>7 DEF CountsInv

LEMMA CountsStep ==
  ASSUME CountsInv, [LNext]_lVars
  PROVE  /\ CountsInv'
         /\ running => \A s \in Sessions : loot'[s] > loot[s] => loot'[s] <= looters'[s]
<1>1. ClockInv'
  BY ClockStep DEF CountsInv
<1>2. CASE Pass
  BY <1>1, <1>2 DEF Pass, CountsInv
<1>3. CASE OnTick
  <2>1. elapsed \div Unit \in Nat
    BY TickingAssumption DEF CountsInv, ClockInv
  <2> QED
    BY <1>1, <1>3, <2>1 DEF OnTick, CountsInv
<1>4. CASE TickDone
  BY <1>1, <1>4 DEF TickDone, CountsInv
<1>5. ASSUME NEW s \in Sessions, Join(s)
      PROVE  CountsInv' /\ ~running
  BY <1>1, <1>5 DEF Join, CountsInv
<1>6. ASSUME NEW s \in Sessions, TickSession(s)
      PROVE  /\ CountsInv'
             /\ \A r \in Sessions : loot'[r] > loot[r] => loot'[r] <= looters'[r]
  <2>1. delta' = delta
    BY <1>6 DEF TickSession
  <2> QED
    BY <1>1, <1>6, <2>1, SessionGets DEF CountsInv
<1>7. CASE UNCHANGED lVars
  BY <1>1, <1>7 DEF lVars, CountsInv
<1> QED
  BY <1>2, <1>3, <1>4, <1>5, <1>6, <1>7 DEF LNext, CountsInv

\* Whatever random past a session has, what a Tick adds to it leaves an object per
\* dog at most.
THEOREM LootWithinLootersHolds == LSpec => LootWithinLooters
<1>1. LInit => CountsInv
  BY DEF LInit, CountsInv, ClockInv
<1> QED
  BY <1>1, CountsStep, PTL DEF LSpec, LootWithinLooters
=============================================================================
