----------------------------- MODULE Server_proofs -----------------------------
(***************************************************************************)
(* Proofs about Server, for any keys, any number of connections and of key *)
(* presses: the strand holds one handler per connection and one Tick at    *)
(* the most, besides the orphans of broken connections, and the dog        *)
(* follows the keys as far as walls and retirement let it.                 *)
(***************************************************************************)
EXTENDS Server, SequenceTheorems, TLAPS

----------------------------------------------------------------------------
(* Facts about sequences *)

\* What the library's theorems say of the operators the queues are built from.
LEMMA LastIn ==
  ASSUME NEW S, NEW s \in Seq(S), s # <<>>
  PROVE  Last(s) \in S
<1>1. Len(s) \in Nat /\ Len(s) > 0
  BY EmptySeq, LenProperties
<1> QED BY <1>1, ElementOfSeq DEF Last

LEMMA LastOfAppend ==
  ASSUME NEW S, NEW s \in Seq(S), NEW x \in S
  PROVE  Append(s, x) # <<>> /\ Last(Append(s, x)) = x
  BY AppendProperties, LenProperties DEF Last

LEMMA LastOfTail ==
  ASSUME NEW S, NEW s \in Seq(S), Tail(s) # <<>>, s # <<>>
  PROVE  Last(Tail(s)) = Last(s)
<1>1. Len(Tail(s)) = Len(s) - 1 /\ Len(s) \in Nat /\ Len(s) > 1
  BY HeadTailProperties, EmptySeq, LenProperties
<1> QED BY <1>1 DEF Last

LEMMA LastAlone ==
  ASSUME NEW S, NEW s \in Seq(S), Tail(s) = <<>>, s # <<>>
  PROVE  Last(s) = Head(s)
<1>1. Len(Tail(s)) = 0 /\ Len(Tail(s)) = Len(s) - 1 /\ Len(s) \in Nat
  BY HeadTailProperties, EmptySeq, LenProperties
<1> QED BY <1>1 DEF Last

LEMMA RemoveAtSeq ==
  ASSUME NEW S, NEW s \in Seq(S), NEW i \in DOMAIN s
  PROVE  RemoveAt(s, i) \in Seq(S)
<1>1. i \in 1 .. Len(s) /\ Len(s) \in Nat
  BY LenProperties
<1>2. SubSeq(s, 1, i - 1) \in Seq(S) /\ SubSeq(s, i + 1, Len(s)) \in Seq(S)
  BY <1>1, SubSeqProperties, ElementOfSeq
<1> QED BY <1>2, ConcatProperties DEF RemoveAt

LEMMA ReplaceAllAt ==
  ASSUME NEW S, NEW s \in Seq(S), NEW x, NEW y \in S
  PROVE  /\ ReplaceAll(s, x, y) \in Seq(S) /\ Len(ReplaceAll(s, x, y)) = Len(s)
         /\ DOMAIN ReplaceAll(s, x, y) = DOMAIN s
         /\ \A i \in DOMAIN s :
              ReplaceAll(s, x, y)[i] = IF s[i] = x THEN y ELSE s[i]
<1> DEFINE f(i) == IF s[i] = x THEN y ELSE s[i]
<1>1. Len(s) \in Nat /\ DOMAIN s = 1 .. Len(s) /\ \A i \in 1 .. Len(s) : f(i) \in S
  BY LenProperties, ElementOfSeq
<1> DEFINE t == [i \in 1 .. Len(s) |-> f(i)]
<1>2. t \in Seq(S) /\ Len(t) = Len(s)
  BY <1>1, IsASeq, LenProperties
<1>3. ReplaceAll(s, x, y) = t
  BY DEF ReplaceAll
<1> QED BY <1>1, <1>2, <1>3

----------------------------------------------------------------------------
(* Types *)

LEMMA AppendSeq ==
  ASSUME NEW S, NEW s \in Seq(S), NEW x \in S
  PROVE  Append(s, x) \in Seq(S)
BY AppendProperties

\* The type invariant.
THEOREM STypeHolds == SSpec => []STypeOK
<1>1. SInit => STypeOK
  <2>1. /\ <<>> \in Seq(Keys) /\ <<>> \in Seq(Moves)
        /\ <<>> \in Seq(Jobs)
    BY EmptySeq
  <2>2. 0 \in 0 .. MaxPresses
    BY ServerAssumption
  <2> QED BY <2>1, <2>2 DEF SInit, STypeOK, ConnStates, Moves
<1>2. STypeOK /\ [SNext]_sVars => STypeOK'
  <2> SUFFICES ASSUME STypeOK, [SNext]_sVars PROVE STypeOK'
    OBVIOUS
  <2>0. /\ pressedKeys \in Seq(Keys) /\ presses \in 0 .. MaxPresses
        /\ waiting \in Seq(Moves)
        /\ conn \in [Conns -> ConnStates] /\ move \in [Conns -> Moves]
        /\ strand \in Seq(Jobs) /\ timer \in BOOLEAN
        /\ dog \in Moves \cup {Gone} /\ hit \in BOOLEAN
        /\ requestInstantUpdate \in BOOLEAN /\ mixed \in BOOLEAN
        /\ running \in BOOLEAN
    BY DEF STypeOK
  <2> DEFINE Rest == /\ conn' \in [Conns -> ConnStates]
                     /\ move' \in [Conns -> Moves]
                     /\ timer' \in BOOLEAN
                     /\ dog' \in Moves \cup {Gone} /\ hit' \in BOOLEAN
                     /\ requestInstantUpdate' \in BOOLEAN
                     /\ mixed' \in BOOLEAN /\ running' \in BOOLEAN
  <2>1. CASE Key
    <3>1. pressedKeys' \in Seq(Keys)
      <4>1. ASSUME NEW k \in Keys, KeyDown(k) PROVE pressedKeys' \in Seq(Keys)
        BY <4>1, <2>0, AppendSeq DEF KeyDown
      <4>2. ASSUME NEW i \in DOMAIN pressedKeys, KeyUp(i)
            PROVE  pressedKeys' \in Seq(Keys)
        BY <4>2, <2>0, RemoveAtSeq DEF KeyUp
      <4> QED BY <2>1, <4>1, <4>2 DEF Key
    <3>2. GetLastKey(pressedKeys') \in Moves
      BY <3>1, LastIn DEF GetLastKey, Moves
    <3>3. waiting' = Append(waiting, GetLastKey(pressedKeys'))
          /\ presses' \in 0 .. MaxPresses
      BY <2>0, <2>1, ServerAssumption DEF Key, KeyDown, KeyUp, PressKey
    <3>4. waiting' \in Seq(Moves)
      BY <2>0, <3>2, <3>3, AppendSeq
    <3>5. UNCHANGED <<serverVars, requestInstantUpdate, mixed, running>>
      BY <2>1 DEF Key
    <3> QED BY <2>0, <3>1, <3>3, <3>4, <3>5 DEF STypeOK, serverVars
  <2>2. CASE PollInstantly \/ Signal
    BY <2>0, <2>2 DEF STypeOK, PollInstantly, Signal, keyVars, serverVars
  <2>3. ASSUME NEW c \in Conns, SendPost(c) PROVE STypeOK'
    <3>1. Head(waiting) \in Moves /\ Tail(waiting) \in Seq(Moves)
      BY <2>0, <2>3, HeadTailProperties DEF SendPost
    <3>2. Rest
      BY <2>0, <2>3, <3>1 DEF SendPost, ConnStates
    <3> QED BY <2>0, <2>3, <3>1, <3>2 DEF STypeOK, SendPost, keyVars
  <2>4. ASSUME NEW c \in Conns, OnRead(c) PROVE STypeOK'
    <3>1. strand' \in Seq(Jobs)
      BY <2>0, <2>4, AppendSeq DEF OnRead, Dispatch, Jobs
    <3>2. Rest
      BY <2>0, <2>4 DEF OnRead, ConnStates
    <3> QED BY <2>0, <2>4, <3>1, <3>2 DEF STypeOK, OnRead, keyVars
  <2>5. ASSUME NEW c \in Conns, OnWrite(c) PROVE STypeOK'
    <3>1. Rest
      BY <2>0, <2>5 DEF OnWrite, ConnStates
    <3> QED BY <2>0, <2>5, <3>1 DEF STypeOK, OnWrite, keyVars
  <2>5a. ASSUME NEW c \in Conns, Break(c) PROVE STypeOK'
    <3>1. strand' \in Seq(Jobs)
      BY <2>0, <2>5a, ReplaceAllAt DEF Break, Jobs
    <3>2. Rest
      BY <2>0, <2>5a DEF Break, ConnStates
    <3> QED BY <2>0, <2>5a, <3>1, <3>2 DEF STypeOK, Break, keyVars
  <2>6. CASE HandleAction
    <3>1. /\ Head(strand) \in Jobs \ {Tick} /\ Tail(strand) \in Seq(Jobs)
          /\ strand' = Tail(strand)
      BY <2>0, <2>6, HeadTailProperties DEF HandleAction
    <3>2. MoveOf(Head(strand)) \in Moves
      BY <2>0, <3>1 DEF MoveOf, Jobs
    <3>3. dog' \in Moves \cup {Gone} /\ hit' \in BOOLEAN
      BY <2>0, <2>6, <3>2 DEF HandleAction, MoveDog
    <3>4. conn' \in [Conns -> ConnStates]
      BY <2>0, <2>6 DEF HandleAction, Write, ConnStates
    <3> QED BY <2>0, <2>6, <3>1, <3>3, <3>4 DEF STypeOK, HandleAction, keyVars
  <2>7. CASE TimerFires
    <3>1. strand' \in Seq(Jobs)
      BY <2>0, <2>7, AppendSeq DEF TimerFires, Dispatch, Jobs
    <3> QED BY <2>0, <2>7, <3>1 DEF STypeOK, TimerFires, keyVars
  <2>8. ASSUME NEW threw \in BOOLEAN, OnTick(threw) PROVE STypeOK'
    <3>1. Tail(strand) \in Seq(Jobs)
      BY <2>0, <2>8, HeadTailProperties DEF OnTick
    <3>2. dog' \in Moves \cup {Gone} /\ hit' \in BOOLEAN
      BY <2>0, <2>8 DEF OnTick, TickDog, Moves
    <3> QED BY <2>0, <2>8, <3>1, <3>2 DEF STypeOK, OnTick, ScheduleTick, keyVars
  <2>9. CASE UNCHANGED sVars
    BY <2>0, <2>9 DEF STypeOK, sVars, keyVars, serverVars
  <2> QED BY <2>1, <2>2, <2>3, <2>4, <2>5, <2>5a, <2>6, <2>7, <2>8, <2>9 DEF SNext
<1> QED BY <1>1, <1>2, PTL DEF SSpec

----------------------------------------------------------------------------
(* The strand *)

LEMMA ContainsAppend ==
  ASSUME NEW S, NEW s \in Seq(S), NEW x \in S, NEW y
  PROVE  Contains(Append(s, x), y) <=> Contains(s, y) \/ y = x
BY AppendProperties, LenProperties DEF Contains

LEMMA AppendOnce ==
  ASSUME NEW S, NEW s \in Seq(S), NEW x \in S, NoneTwice(s), ~Contains(s, x)
  PROVE  NoneTwice(Append(s, x))
BY AppendProperties, LenProperties DEF NoneTwice, Contains

LEMMA TailAt ==
  ASSUME NEW S, NEW s \in Seq(S), s # <<>>
  PROVE  /\ Len(s) \in Nat \ {0} /\ Len(Tail(s)) = Len(s) - 1
         /\ Head(s) = s[1] /\ Tail(s) \in Seq(S)
         /\ \A i \in 1 .. Len(Tail(s)) : Tail(s)[i] = s[i + 1]
<1>1. Len(s) \in Nat /\ Len(s) # 0
  BY EmptySeq, LenProperties
<1> QED BY <1>1, HeadTailProperties

\* A queue without its head has of connections and Ticks all it had but its
\* head.
LEMMA TailOnce ==
  ASSUME NEW S, NEW s \in Seq(S), s # <<>>, NoneTwice(s)
  PROVE  /\ NoneTwice(Tail(s))
         /\ \A y : y \notin Moves =>
              (Contains(Tail(s), y) <=> Contains(s, y) /\ y # Head(s))
<1> DEFINE t == Tail(s)
<1>1. /\ Len(s) \in Nat \ {0} /\ Len(t) = Len(s) - 1 /\ t \in Seq(S)
      /\ Head(s) = s[1] /\ \A i \in 1 .. Len(t) : t[i] = s[i + 1]
  BY TailAt
<1>2. DOMAIN s = 1 .. Len(s) /\ DOMAIN t = 1 .. Len(t)
  BY <1>1, LenProperties
<1> HIDE DEF t
<1>3. NoneTwice(t)
  <2> SUFFICES ASSUME NEW i \in DOMAIN t, NEW j \in DOMAIN t,
                      t[i] = t[j], t[i] \notin Moves
               PROVE  i = j
    BY DEF NoneTwice
  <2>1. /\ i + 1 \in DOMAIN s /\ j + 1 \in DOMAIN s /\ i \in Nat /\ j \in Nat
        /\ t[i] = s[i + 1] /\ t[j] = s[j + 1]
    BY <1>1, <1>2
  <2>2. i + 1 = j + 1
    BY <2>1 DEF NoneTwice
  <2> QED BY <2>1, <2>2
<1>4. ASSUME NEW y, y \notin Moves, Contains(t, y) PROVE Contains(s, y) /\ y # Head(s)
  <2>1. PICK i \in 1 .. Len(t) : t[i] = y
    BY <1>4 DEF Contains
  <2>2. i + 1 \in 1 .. Len(s) /\ 1 \in 1 .. Len(s) /\ i + 1 # 1
    BY <1>1
  <2> QED BY <1>1, <1>2, <1>4, <2>1, <2>2 DEF Contains, NoneTwice
<1>5. ASSUME NEW y, Contains(s, y), y # Head(s) PROVE Contains(t, y)
  <2>1. PICK i \in 1 .. Len(s) : s[i] = y
    BY <1>5 DEF Contains
  <2>2. i - 1 \in 1 .. Len(t) /\ (i - 1) + 1 = i
    BY <1>1, <1>5, <2>1
  <2> QED BY <1>1, <2>1, <2>2 DEF Contains
<1> QED BY <1>3, <1>4, <1>5 DEF t

\* A queue in which a move stands in the place of x has of connections and
\* Ticks all it had but x.
LEMMA ReplaceOnce ==
  ASSUME NEW s \in Seq(Jobs), NEW x, NEW y \in Moves, NoneTwice(s)
  PROVE  /\ NoneTwice(ReplaceAll(s, x, y))
         /\ \A z : z \notin Moves =>
              (Contains(ReplaceAll(s, x, y), z) <=> Contains(s, z) /\ z # x)
<1> DEFINE t == ReplaceAll(s, x, y)
<1>1. /\ Len(t) = Len(s) /\ DOMAIN t = 1 .. Len(s) /\ DOMAIN s = 1 .. Len(s)
      /\ \A i \in 1 .. Len(s) : t[i] = IF s[i] = x THEN y ELSE s[i]
  BY ReplaceAllAt, LenProperties DEF Jobs
<1> HIDE DEF t
<1>2. NoneTwice(t)
  BY <1>1 DEF NoneTwice
<1>3. \A z : z \notin Moves => (Contains(t, z) <=> Contains(s, z) /\ z # x)
  BY <1>1 DEF Contains
<1> QED BY <1>2, <1>3 DEF t

\* OneJobEach: a connection has its own handler on the strand at most once,
\* and a Tick is there exactly while the ticker's timer is not set.
THEOREM OneJobEachHolds == SSpec => []OneJobEach
<1>1. SInit => OneJobEach
  BY EmptySeq DEF SInit, OneJobEach, NoneTwice, Contains
<1>2. STypeOK /\ OneJobEach /\ [SNext]_sVars => OneJobEach'
  <2> SUFFICES ASSUME STypeOK, OneJobEach, [SNext]_sVars PROVE OneJobEach'
    OBVIOUS
  <2>0. /\ strand \in Seq(Jobs) /\ Tick \in Jobs /\ Tick \notin Conns
        /\ Tick \notin Moves /\ Conns \subseteq Jobs
        /\ \A d \in Conns : d \notin Moves
        /\ conn \in [Conns -> ConnStates] /\ move \in [Conns -> Moves]
        /\ NoneTwice(strand)
    BY ServerAssumption DEF STypeOK, OneJobEach, Jobs
  <2>1. CASE UNCHANGED <<strand, conn, timer>>
    BY <2>1 DEF OneJobEach
  <2>2. ASSUME NEW c \in Conns, SendPost(c) \/ OnWrite(c)
        PROVE  OneJobEach'
    <3>1. UNCHANGED <<strand, timer>> /\ conn[c] # "strand"
      BY <2>2 DEF SendPost, OnWrite
    <3>2. \A d \in Conns : conn'[d] = "strand" <=> conn[d] = "strand"
      BY <2>2, <2>0, <3>1 DEF SendPost, OnWrite
    <3> QED BY <3>1, <3>2 DEF OneJobEach
  <2>2a. ASSUME NEW c \in Conns, Break(c) PROVE OneJobEach'
    <3>1. /\ strand' = ReplaceAll(strand, c, move[c]) /\ timer' = timer
          /\ \A d \in Conns : conn'[d] = "strand" <=> conn[d] = "strand" /\ d # c
      BY <2>0, <2>2a DEF Break
    <3>2. /\ NoneTwice(strand')
          /\ \A y : y \notin Moves =>
               (Contains(strand', y) <=> Contains(strand, y) /\ y # c)
      BY <2>0, <3>1, ReplaceOnce
    <3> QED BY <2>0, <3>1, <3>2 DEF OneJobEach
  <2>3. ASSUME NEW c \in Conns, OnRead(c) PROVE OneJobEach'
    <3>1. strand' = Append(strand, c) /\ ~Contains(strand, c) /\ timer' = timer
      BY <2>3 DEF OnRead, Dispatch, OneJobEach
    <3>2. \A y : Contains(strand', y) <=> Contains(strand, y) \/ y = c
      BY <2>0, <3>1, ContainsAppend
    <3>3. NoneTwice(strand')
      BY <2>0, <3>1, AppendOnce
    <3>4. \A d \in Conns : conn'[d] = "strand" <=> conn[d] = "strand" \/ d = c
      BY <2>3, <2>0 DEF OnRead
    <3> QED BY <2>0, <3>1, <3>2, <3>3, <3>4 DEF OneJobEach
  <2>4. CASE HandleAction
    <3> DEFINE job == Head(strand)
    <3>1. strand # <<>> /\ strand' = Tail(strand) /\ timer' = timer /\ job # Tick
      BY <2>4 DEF HandleAction
    <3>2. /\ NoneTwice(strand')
          /\ \A y : y \notin Moves =>
               (Contains(strand', y) <=> Contains(strand, y) /\ y # job)
      BY <2>0, <3>1, TailOnce
    <3>3. \A d \in Conns : conn'[d] = "strand" <=> conn[d] = "strand" /\ d # job
      BY <2>4, <2>0 DEF HandleAction, Write
    <3> QED BY <2>0, <3>1, <3>2, <3>3 DEF OneJobEach
  <2>5. CASE TimerFires
    <3>1. strand' = Append(strand, Tick) /\ ~Contains(strand, Tick)
          /\ timer' = FALSE /\ conn' = conn
      BY <2>5 DEF TimerFires, Dispatch, OneJobEach
    <3>2. \A y : Contains(strand', y) <=> Contains(strand, y) \/ y = Tick
      BY <2>0, <3>1, ContainsAppend
    <3>3. NoneTwice(strand')
      BY <2>0, <3>1, AppendOnce
    <3> QED BY <2>0, <3>1, <3>2, <3>3 DEF OneJobEach
  <2>6. ASSUME NEW threw \in BOOLEAN, OnTick(threw) PROVE OneJobEach'
    <3>1. strand # <<>> /\ strand' = Tail(strand) /\ timer' = TRUE
          /\ Head(strand) = Tick /\ conn' = conn
      BY <2>6 DEF OnTick, ScheduleTick
    <3>2. /\ NoneTwice(strand')
          /\ \A y : y \notin Moves =>
               (Contains(strand', y) <=> Contains(strand, y) /\ y # Tick)
      BY <2>0, <3>1, TailOnce
    <3> QED BY <2>0, <3>1, <3>2 DEF OneJobEach
  <2>7. Key \/ PollInstantly \/ Signal \/ UNCHANGED sVars =>
          UNCHANGED <<strand, conn, timer>>
    BY DEF Key, PollInstantly, Signal, sVars, serverVars
  <2> QED BY <2>1, <2>2, <2>2a, <2>3, <2>4, <2>5, <2>6, <2>7 DEF SNext
<1> QED BY <1>1, <1>2, STypeHolds, PTL DEF SSpec

----------------------------------------------------------------------------
(* The dog *)

Want == GetLastKey(pressedKeys)

\* The handler at i is the last one of a request on the strand.
LastJob(i) == strand[i] # Tick /\ \A j \in DOMAIN strand : j > i => strand[j] = Tick

\* Where the dog will run when everything under way is done: the last move in
\* waiting, else the one that is on its way, else the last one on the strand,
\* else where it runs now, unless a wall or its retirement has come between.
Obeys == dog = Want \/ (hit /\ dog = Stop) \/ dog = Gone
WaitingWant == waiting # <<>> => Last(waiting) = Want
OnTheWayWant ==
  waiting = <<>> => \A c \in OnTheWay : move[c] = Want
StrandWant ==
  waiting = <<>> /\ OnTheWay = {} =>
    /\ \A i \in DOMAIN strand : LastJob(i) => MoveOf(strand[i]) = Want
    /\ (\A i \in DOMAIN strand : strand[i] = Tick) => Obeys
OneOnTheWay == \A c, d \in OnTheWay : c = d

WantInv ==
  running /\ ~mixed => WaitingWant /\ OnTheWayWant /\ StrandWant /\ OneOnTheWay

\* The strengthening of DogFollowsKeys: wherever the last wish is, it is there.
THEOREM WantInvHolds == SSpec => []WantInv
<1>1. SInit => WantInv
  BY DEF SInit, WantInv, WaitingWant, OnTheWayWant, StrandWant, OneOnTheWay,
         OnTheWay, Obeys, Want, GetLastKey
<1>2. STypeOK /\ STypeOK' /\ OneJobEach /\ WantInv /\ [SNext]_sVars => WantInv'
  <2> SUFFICES ASSUME STypeOK, STypeOK', OneJobEach, WantInv, [SNext]_sVars,
                      running', ~mixed'
               PROVE  (WaitingWant /\ OnTheWayWant /\ StrandWant /\ OneOnTheWay)'
    BY DEF WantInv
  <2>0. /\ pressedKeys \in Seq(Keys) /\ waiting \in Seq(Moves)
        /\ conn \in [Conns -> ConnStates] /\ move \in [Conns -> Moves]
        /\ strand \in Seq(Jobs) /\ mixed \in BOOLEAN /\ running \in BOOLEAN
        /\ Conns \subseteq Jobs /\ Moves \subseteq Jobs /\ Tick \in Jobs
        /\ Tick \notin Conns /\ Tick \notin Moves /\ Conns \cap Moves = {}
    BY ServerAssumption DEF STypeOK, Jobs
  <2>a. running /\ ~mixed
    BY <2>0 DEF SNext, Key, PollInstantly, Signal, SendPost, OnRead, OnWrite, Break,
                HandleAction, TimerFires, OnTick, sVars, keyVars, serverVars
  <2>b. WaitingWant /\ OnTheWayWant /\ StrandWant /\ OneOnTheWay
    BY <2>a DEF WantInv
  <2>1. CASE Key
    <3>1. waiting' = Append(waiting, Want')
      BY <2>1 DEF Key, KeyDown, KeyUp, PressKey, Want
    <3>2. Want' \in Moves
      <4>1. pressedKeys' \in Seq(Keys)
        BY DEF STypeOK
      <4> QED BY <4>1, LastIn DEF Want, GetLastKey, Moves
    <3>3. waiting' # <<>> /\ Last(waiting') = Want'
      BY <2>0, <3>1, <3>2, LastOfAppend
    <3>4. OnTheWay' = OnTheWay
      BY <2>1 DEF Key, serverVars, OnTheWay
    <3> QED BY <2>b, <3>3, <3>4
            DEF WaitingWant, OnTheWayWant, StrandWant, OneOnTheWay
  <2>2. ASSUME NEW c \in Conns, SendPost(c)
        PROVE  (WaitingWant /\ OnTheWayWant /\ StrandWant /\ OneOnTheWay)'
    <3>1. /\ waiting # <<>> /\ waiting' = Tail(waiting) /\ Want' = Want
          /\ OnTheWay = {} /\ OnTheWay' = {c} /\ move'[c] = Head(waiting)
      BY <2>0, <2>2 DEF SendPost, keyVars, Want, OnTheWay
    <3>2. WaitingWant' /\ OnTheWayWant'
      BY <2>0, <2>b, <3>1, LastOfTail, LastAlone DEF WaitingWant, OnTheWayWant
    <3> QED BY <3>1, <3>2 DEF StrandWant, OneOnTheWay
  <2>3. ASSUME NEW c \in Conns, OnRead(c)
        PROVE  (WaitingWant /\ OnTheWayWant /\ StrandWant /\ OneOnTheWay)'
    <3>1. /\ UNCHANGED <<waiting, move>> /\ Want' = Want /\ c \in OnTheWay
          /\ OnTheWay' = OnTheWay \ {c} /\ strand' = Append(strand, c)
      BY <2>0, <2>3 DEF OnRead, Dispatch, keyVars, Want, OnTheWay
    <3>2. WaitingWant' /\ OnTheWayWant' /\ OneOnTheWay'
      BY <2>b, <3>1 DEF WaitingWant, OnTheWayWant, OneOnTheWay
    <3>3. /\ Len(strand) \in Nat /\ DOMAIN strand' = 1 .. Len(strand) + 1
          /\ strand'[Len(strand) + 1] = c /\ c # Tick
      BY <2>0, <3>1, AppendProperties, LenProperties
    <3>4. \A i \in DOMAIN strand' : LastJob(i)' => i = Len(strand) + 1
      BY <3>3 DEF LastJob
    <3>5. waiting = <<>> => move[c] = Want
      BY <2>b, <3>1 DEF OnTheWayWant
    <3>6. StrandWant'
      BY <3>1, <3>3, <3>4, <3>5 DEF StrandWant, MoveOf
    <3> QED BY <3>2, <3>6
  <2>4. CASE HandleAction
    <3> DEFINE job == Head(strand)
    <3>1. /\ strand # <<>> /\ strand' = Tail(strand) /\ job # Tick
          /\ UNCHANGED <<waiting, move>> /\ Want' = Want
      BY <2>4 DEF HandleAction, keyVars, Want
    <3>2. dog' = MoveOf(job) \/ dog' = Gone
      BY <2>4 DEF HandleAction, MoveDog
    <3>3. OnTheWay' = OnTheWay
      <4>1. \A d \in Conns : conn'[d] = "request" <=> conn[d] = "request" /\ d # job
        BY <2>4 DEF HandleAction, Write
      <4>2. job \in Conns => conn[job] # "request"
        <5>1. Contains(strand, job)
          BY <2>0, <3>1, TailAt DEF Contains
        <5> QED BY <5>1 DEF OneJobEach
      <4> QED BY <4>1, <4>2 DEF OnTheWay
    <3>4. WaitingWant' /\ OnTheWayWant' /\ OneOnTheWay'
      BY <2>b, <3>1, <3>3 DEF WaitingWant, OnTheWayWant, OneOnTheWay
    <3>5. /\ DOMAIN strand = 1 .. Len(strand) /\ Len(strand) \in Nat \ {0}
          /\ DOMAIN strand' = 1 .. Len(strand) - 1 /\ strand[1] = job
          /\ \A i \in DOMAIN strand' : strand'[i] = strand[i + 1]
      BY <2>0, <3>1, TailAt, LenProperties
    <3>6. \A i \in DOMAIN strand' : i + 1 \in DOMAIN strand
      BY <3>5
    <3>7. ASSUME NEW i \in DOMAIN strand', LastJob(i)' PROVE LastJob(i + 1)
      <4>1. ASSUME NEW j \in DOMAIN strand, j > i + 1 PROVE strand[j] = Tick
        <5>1. j - 1 \in DOMAIN strand' /\ j - 1 > i /\ (j - 1) + 1 = j
          BY <3>5, <4>1
        <5> QED BY <3>5, <3>7, <5>1 DEF LastJob
      <4> QED BY <3>5, <3>7, <4>1 DEF LastJob
    <3>8. (\A i \in DOMAIN strand' : strand'[i] = Tick) => LastJob(1)
      <4> SUFFICES ASSUME \A i \in DOMAIN strand' : strand'[i] = Tick,
                          NEW j \in DOMAIN strand, j > 1
                   PROVE  strand[j] = Tick
        BY <3>1, <3>5 DEF LastJob
      <4>1. j - 1 \in DOMAIN strand' /\ (j - 1) + 1 = j
        BY <3>5
      <4> QED BY <3>5, <4>1
    <3>9. StrandWant'
      <4> SUFFICES ASSUME waiting' = <<>>, OnTheWay' = {} PROVE
            /\ \A i \in DOMAIN strand' : LastJob(i)' => MoveOf(strand[i])' = Want'
            /\ (\A i \in DOMAIN strand' : strand'[i] = Tick) => Obeys'
        BY DEF StrandWant
      <4>1. \A i \in DOMAIN strand : LastJob(i) => MoveOf(strand[i]) = Want
        BY <2>b, <3>1, <3>3 DEF StrandWant
      <4>3. ASSUME NEW i \in DOMAIN strand', LastJob(i)'
            PROVE  MoveOf(strand[i])' = Want'
        <5>1. MoveOf(strand[i + 1]) = Want
          BY <3>6, <3>7, <4>1, <4>3
        <5>2. strand'[i] = strand[i + 1]
          BY <3>5
        <5> QED BY <3>1, <5>1, <5>2 DEF MoveOf
      <4>4. ASSUME \A i \in DOMAIN strand' : strand'[i] = Tick PROVE Obeys'
        BY <3>1, <3>2, <3>5, <3>8, <4>1, <4>4 DEF Obeys
      <4> QED BY <4>3, <4>4
    <3> QED BY <3>4, <3>9
  <2>5. CASE TimerFires
    <3>1. /\ UNCHANGED <<waiting, move, dog, hit>> /\ Want' = Want
          /\ OnTheWay' = OnTheWay /\ strand' = Append(strand, Tick)
      BY <2>5 DEF TimerFires, Dispatch, keyVars, Want, OnTheWay
    <3>2. WaitingWant' /\ OnTheWayWant' /\ OneOnTheWay'
      BY <2>b, <3>1 DEF WaitingWant, OnTheWayWant, OneOnTheWay
    <3>3. /\ Len(strand) \in Nat /\ DOMAIN strand = 1 .. Len(strand)
          /\ DOMAIN strand' = 1 .. Len(strand) + 1
          /\ strand'[Len(strand) + 1] = Tick
          /\ \A i \in DOMAIN strand : strand'[i] = strand[i]
      BY <2>0, <3>1, AppendProperties, LenProperties
    <3>4. \A i \in DOMAIN strand' : LastJob(i)' => i \in DOMAIN strand /\ LastJob(i)
      BY <3>3 DEF LastJob
    <3>5. \A i \in DOMAIN strand : i \in DOMAIN strand'
      BY <3>3
    <3>6. StrandWant'
      BY <2>b, <3>1, <3>3, <3>4, <3>5 DEF StrandWant, MoveOf, Obeys
    <3> QED BY <3>2, <3>6
  <2>6. ASSUME NEW threw \in BOOLEAN, OnTick(threw)
        PROVE  (WaitingWant /\ OnTheWayWant /\ StrandWant /\ OneOnTheWay)'
    <3>1. /\ strand # <<>> /\ strand' = Tail(strand) /\ Head(strand) = Tick
          /\ UNCHANGED <<waiting, move>> /\ Want' = Want /\ OnTheWay' = OnTheWay
      BY <2>6 DEF OnTick, keyVars, Want, OnTheWay
    <3>1a. Obeys => Obeys'
      BY <2>6, <3>1 DEF OnTick, TickDog, Obeys
    <3>2. WaitingWant' /\ OnTheWayWant' /\ OneOnTheWay'
      BY <2>b, <3>1 DEF WaitingWant, OnTheWayWant, OneOnTheWay
    <3>3. /\ DOMAIN strand = 1 .. Len(strand) /\ Len(strand) \in Nat \ {0}
          /\ DOMAIN strand' = 1 .. Len(strand) - 1 /\ strand[1] = Tick
          /\ \A i \in DOMAIN strand' : strand'[i] = strand[i + 1]
      BY <2>0, <3>1, TailAt, LenProperties
    <3>4. \A i \in DOMAIN strand' : i + 1 \in DOMAIN strand
      BY <3>3
    <3>5. ASSUME NEW i \in DOMAIN strand', LastJob(i)' PROVE LastJob(i + 1)
      <4>1. ASSUME NEW j \in DOMAIN strand, j > i + 1 PROVE strand[j] = Tick
        <5>1. j - 1 \in DOMAIN strand' /\ j - 1 > i /\ (j - 1) + 1 = j
          BY <3>3, <4>1
        <5> QED BY <3>3, <3>5, <5>1 DEF LastJob
      <4> QED BY <3>3, <3>5, <4>1 DEF LastJob
    <3>6. (\A i \in DOMAIN strand' : strand'[i] = Tick)
            => \A i \in DOMAIN strand : strand[i] = Tick
      <4> SUFFICES ASSUME \A i \in DOMAIN strand' : strand'[i] = Tick,
                          NEW j \in DOMAIN strand, j # 1
                   PROVE  strand[j] = Tick
        BY <3>3
      <4>1. j - 1 \in DOMAIN strand' /\ (j - 1) + 1 = j
        BY <3>3
      <4> QED BY <3>3, <4>1
    <3>7. StrandWant'
      BY <2>b, <3>1, <3>1a, <3>3, <3>4, <3>5, <3>6 DEF StrandWant, MoveOf
    <3> QED BY <3>2, <3>7
  <2>7. ASSUME NEW c \in Conns, OnWrite(c)
        PROVE  (WaitingWant /\ OnTheWayWant /\ StrandWant /\ OneOnTheWay)'
    <3>1. UNCHANGED <<waiting, move, dog, hit, strand>> /\ Want' = Want
          /\ OnTheWay' = OnTheWay
      BY <2>0, <2>7 DEF OnWrite, keyVars, Want, OnTheWay
    <3> QED BY <2>b, <3>1
            DEF WaitingWant, OnTheWayWant, StrandWant, OneOnTheWay, LastJob,
                MoveOf, Obeys
  <2>7a. ASSUME NEW c \in Conns, Break(c)
         PROVE  (WaitingWant /\ OnTheWayWant /\ StrandWant /\ OneOnTheWay)'
    <3>1. /\ UNCHANGED <<waiting, move, dog, hit>> /\ Want' = Want
          /\ OnTheWay' = OnTheWay /\ strand' = ReplaceAll(strand, c, move[c])
      BY <2>0, <2>7a DEF Break, keyVars, Want, OnTheWay
    <3>2. /\ DOMAIN strand' = DOMAIN strand
          /\ \A i \in DOMAIN strand :
               strand'[i] = IF strand[i] = c THEN move[c] ELSE strand[i]
      BY <2>0, <3>1, ReplaceAllAt
    <3>3. \A i \in DOMAIN strand :
            /\ strand'[i] = Tick <=> strand[i] = Tick
            /\ MoveOf(strand[i])' = MoveOf(strand[i])
      <4> SUFFICES ASSUME NEW i \in DOMAIN strand
                   PROVE  /\ strand'[i] = Tick <=> strand[i] = Tick
                          /\ MoveOf(strand[i])' = MoveOf(strand[i])
        OBVIOUS
      <4>1. move[c] \in Moves /\ move[c] # Tick /\ move[c] \notin Conns /\ c # Tick
        BY <2>0
      <4>2. CASE strand[i] = c
        BY <3>1, <3>2, <4>1, <4>2 DEF MoveOf
      <4>3. CASE strand[i] # c
        BY <3>1, <3>2, <4>3 DEF MoveOf
      <4> QED BY <4>2, <4>3
    <3>4. \A i \in DOMAIN strand : LastJob(i)' <=> LastJob(i)
      BY <3>2, <3>3 DEF LastJob
    <3> QED BY <2>b, <3>1, <3>2, <3>3, <3>4
            DEF WaitingWant, OnTheWayWant, StrandWant, OneOnTheWay, Obeys
  <2>8. CASE PollInstantly \/ Signal \/ UNCHANGED sVars
    <3>1. UNCHANGED <<waiting, move, dog, hit, strand>> /\ Want' = Want
          /\ OnTheWay' = OnTheWay
      BY <2>8 DEF PollInstantly, Signal, sVars, keyVars, serverVars, Want, OnTheWay
    <3> QED BY <2>b, <3>1
            DEF WaitingWant, OnTheWayWant, StrandWant, OneOnTheWay, LastJob,
                MoveOf, Obeys
  <2> QED BY <2>1, <2>2, <2>3, <2>4, <2>5, <2>6, <2>7, <2>7a, <2>8 DEF SNext
<1> QED BY <1>1, <1>2, STypeHolds, OneJobEachHolds, PTL DEF SSpec

\* DogFollowsKeys: when everything is handled, the strand holds no handler of a
\* request, so the dog runs where the keys say, unless a wall or its retirement
\* has come between.
THEOREM DogFollowsKeysHolds == SSpec => []DogFollowsKeys
<1>1. WantInv => DogFollowsKeys
  <2> SUFFICES ASSUME WantInv, running, ~mixed, AllHandled PROVE ObeysKeys
    BY DEF DogFollowsKeys
  <2>1. Obeys
    BY DEF WantInv, StrandWant, AllHandled
  <2> QED BY <2>1 DEF Obeys, ObeysKeys, Want, GetLastKey, Last
<1> QED BY <1>1, WantInvHolds, PTL
=============================================================================
