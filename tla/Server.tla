-------------------------------- MODULE Server --------------------------------
(***************************************************************************)
(* The way of a player's keys to the dog: KeyState and _pressKey of the    *)
(* page (static/js/game.js), the browser's connections, one HTTP session   *)
(* per connection (http_server), the strand on which the API handler and   *)
(* the ticker run, and the stop on a signal.                               *)
(*                                                                         *)
(* A session reads a request, puts its handler on the strand, writes the   *)
(* answer and only then reads again.  Requests on different connections    *)
(* overtake each other until they are on the strand, which is a queue.  A  *)
(* connection may break at any time of a request.  The server notices only *)
(* when it reads or writes: a handler that is on the strand still runs,    *)
(* as an orphan, and acts on the game though nobody sees its answer.  The  *)
(* ticks run on the same strand; a Tick may stop the dog at a wall, and    *)
(* may retire it when it stands.  A file is answered from the session      *)
(* itself and never touches the strand; such requests are left out, and so *)
(* is the page's departure to the records after its player's retirement    *)
(* (Client).  The browser (external) sends each POST on a connection that  *)
(* is free, and does not repeat a POST.                                    *)
(***************************************************************************)
EXTENDS Naturals, Sequences, SequencesExt

CONSTANTS
  Keys,        \* "U", "R", "D", "L"
  Conns,       \* connections of the page
  MaxPresses,  \* bound: keys that go down or up in a behaviour
  Stop,        \* the move "", and a dog that stands
  Gone         \* a dog that has been retired

Moves == Keys \cup {Stop}

\* A session waits for a request, has one under way to it, has its handler on
\* the strand, or is writing the answer, 200 or 401.
ConnStates == {"reading", "request", "strand", "writing", "refusing"}
Tick == "tick"

\* The handlers on the strand: a connection stands for the handler of its
\* request, a move for the handler of a request whose connection is gone.
Jobs == Conns \cup Moves \cup {Tick}

ASSUME ServerAssumption ==
  /\ MaxPresses \in Nat /\ Stop \notin Keys /\ Gone \notin Moves
  /\ Tick \notin Conns \cup Moves /\ Conns \cap Moves = {}

VARIABLES
  pressedKeys,  \* KeyState::pressedKeys
  presses,      \* keys that went down or up (history)
  waiting,      \* moves whose POST waits for a free connection
  conn,         \* the state of each connection
  move,         \* the move of its request
  strand,       \* handlers on api_strand
  timer,        \* the ticker's timer_ is set
  dog,          \* the direction the server's dog runs in
  hit,          \* a wall has stopped the dog since its last action (history)
  requestInstantUpdate,
  mixed,        \* two POSTs were under way together, or one was lost (history)
  running       \* io_context::run has not returned

keyVars == <<pressedKeys, presses>>
serverVars == <<conn, move, strand, timer, dog, hit>>
sVars == <<keyVars, waiting, serverVars, requestInstantUpdate, mixed, running>>

SInit ==
  /\ pressedKeys = <<>> /\ presses = 0 /\ waiting = <<>>
  /\ conn = [c \in Conns |-> "reading"] /\ move = [c \in Conns |-> Stop]
  /\ strand = <<>> /\ timer = TRUE /\ dog = Stop /\ hit = FALSE
  /\ requestInstantUpdate = FALSE /\ mixed = FALSE /\ running = TRUE

----------------------------------------------------------------------------
(* Keys *)

GetFirstKey(keys) == IF keys = <<>> THEN Stop ELSE Head(keys)
GetLastKey(keys) == IF keys = <<>> THEN Stop ELSE Last(keys)

PressKey(keys) == waiting' = Append(waiting, GetLastKey(keys))

\* A key held down repeats keydown; pressedKeys filters that.
KeyDown(k) ==
  /\ presses < MaxPresses /\ ~Contains(pressedKeys, k)
  /\ presses' = presses + 1 /\ pressedKeys' = Append(pressedKeys, k)
  /\ PressKey(pressedKeys')
KeyUp(index) ==
  /\ presses < MaxPresses
  /\ presses' = presses + 1 /\ pressedKeys' = RemoveAt(pressedKeys, index)
  /\ PressKey(pressedKeys')

Key ==
  /\ \/ \E k \in Keys : KeyDown(k)
     \/ \E index \in DOMAIN pressedKeys : KeyUp(index)
  /\ UNCHANGED <<serverVars, requestInstantUpdate, mixed, running>>

\* A POST that is on its way and has not reached the strand may be overtaken.
OnTheWay == {c \in Conns : conn[c] = "request"}

SendPost(c) ==
  /\ waiting # <<>> /\ conn[c] = "reading"
  /\ waiting' = Tail(waiting)
  /\ conn' = [conn EXCEPT ![c] = "request"]
  /\ move' = [move EXCEPT ![c] = Head(waiting)]
  /\ mixed' = (mixed \/ OnTheWay # {})
  /\ UNCHANGED <<keyVars, strand, timer, dog, hit, requestInstantUpdate, running>>

----------------------------------------------------------------------------
(* The server *)

\* OnRead and HandleRequest: the handler goes to the end of the strand.
DispatchFirst(job) == strand' = <<job>> \o strand
Dispatch(job) == strand' = Append(strand, job)

OnRead(c) ==
  /\ running /\ conn[c] = "request"
  /\ conn' = [conn EXCEPT ![c] = "strand"]
  /\ Dispatch(c)
  /\ UNCHANGED <<keyVars, waiting, move, timer, dog, hit, requestInstantUpdate,
                 mixed, running>>

\* The handler of a player action.  The token of a retired player is unknown.
MoveOf(job) == IF job \in Conns THEN move[job] ELSE job
MoveDog(direction) ==
  IF dog = Gone THEN UNCHANGED <<dog, hit>> ELSE dog' = direction /\ hit' = FALSE

\* It ends with Write: the session is writing the answer.
Write(job) ==
  conn' = [c \in Conns |->
             IF c # job THEN conn[c] ELSE IF dog = Gone THEN "refusing" ELSE "writing"]

HandleAction ==
  /\ running /\ strand # <<>> /\ Head(strand) # Tick
  /\ strand' = Tail(strand)
  /\ MoveDog(MoveOf(Head(strand))) /\ Write(Head(strand))
  /\ UNCHANGED <<keyVars, waiting, move, timer, requestInstantUpdate, mixed,
                 running>>

\* Ticker: the timer puts OnTick on the strand; OnTick sets it again, also when
\* Tick has thrown.
TimerFires ==
  /\ running /\ timer /\ timer' = FALSE /\ Dispatch(Tick)
  /\ UNCHANGED <<keyVars, waiting, conn, move, dog, hit, requestInstantUpdate,
                 mixed, running>>

ScheduleTickIfDone(threw) == timer' = ~threw
ScheduleTick(threw) == timer' = TRUE

\* What a Tick does to the dog: nothing this page of the model sees (it runs on
\* a free way, or stands), a stop at a wall, or retirement, of a dog that
\* stands or that this Tick has stopped.
TickDog ==
  \/ UNCHANGED <<dog, hit>>
  \/ dog \in Keys /\ dog' = Stop /\ hit' = TRUE
  \/ dog \in Moves /\ dog' = Gone /\ UNCHANGED hit

OnTick(threw) ==
  /\ running /\ strand # <<>> /\ Head(strand) = Tick
  /\ strand' = Tail(strand) /\ TickDog /\ ScheduleTick(threw)
  /\ UNCHANGED <<keyVars, waiting, conn, move, requestInstantUpdate, mixed, running>>

\* OnWrite without an error: the next Read; in the page, done() of the POST if
\* the answer is 200.
OnWrite(c) ==
  /\ running /\ conn[c] \in {"writing", "refusing"}
  /\ conn' = [conn EXCEPT ![c] = "reading"]
  /\ requestInstantUpdate' = (requestInstantUpdate \/ conn[c] = "writing")
  /\ UNCHANGED <<keyVars, waiting, move, strand, timer, dog, hit, mixed, running>>

\* tick() of a frame takes the wish for a poll.
PollInstantly ==
  /\ requestInstantUpdate /\ requestInstantUpdate' = FALSE
  /\ UNCHANGED <<keyVars, waiting, serverVars, mixed, running>>

\* A connection breaks; the browser opens another one.  A request that was
\* being read is lost and an answer that was being written is not seen: Read or
\* Write ends with an error, which ends the session.  A handler that is on the
\* strand keeps its session and its request, and will run without either end
\* having noticed; its Write fails.
BreakInPlace(c) ==
  /\ running /\ conn[c] # "reading"
  /\ conn' = [conn EXCEPT ![c] = "reading"]
  /\ mixed' = (mixed \/ conn[c] = "request")
  /\ UNCHANGED <<keyVars, waiting, move, strand, timer, dog, hit,
                 requestInstantUpdate, running>>
Break(c) ==
  /\ running /\ conn[c] # "reading"
  /\ conn' = [conn EXCEPT ![c] = "reading"]
  /\ strand' = ReplaceAll(strand, c, move[c])
  /\ mixed' = (mixed \/ conn[c] = "request")
  /\ UNCHANGED <<keyVars, waiting, move, timer, dog, hit, requestInstantUpdate,
                 running>>

\* SIGINT or SIGTERM: ioc.stop(); no further handler runs.
Signal ==
  /\ running /\ running' = FALSE
  /\ UNCHANGED <<keyVars, waiting, serverVars, requestInstantUpdate, mixed>>

SNext ==
  \/ Key \/ PollInstantly \/ Signal
  \/ \E c \in Conns : SendPost(c) \/ OnRead(c) \/ OnWrite(c) \/ Break(c)
  \/ HandleAction \/ TimerFires
  \/ \E threw \in BOOLEAN : OnTick(threw)

SSpec == SInit /\ [][SNext]_sVars

\* The workers run what is ready, a strand in its order; timers expire; the
\* browser sends and the network carries.  Nobody has to press a key.
SFairness ==
  /\ WF_sVars(HandleAction) /\ WF_sVars(TimerFires)
  /\ WF_sVars(\E threw \in BOOLEAN : OnTick(threw))
  /\ \A c \in Conns :
       WF_sVars(OnRead(c)) /\ WF_sVars(OnWrite(c)) /\ SF_sVars(SendPost(c))

SLiveSpec == SSpec /\ SFairness

----------------------------------------------------------------------------
(* Properties *)

STypeOK ==
  /\ pressedKeys \in Seq(Keys) /\ presses \in 0 .. MaxPresses
  /\ waiting \in Seq(Moves)
  /\ conn \in [Conns -> ConnStates] /\ move \in [Conns -> Moves]
  /\ strand \in Seq(Jobs) /\ timer \in BOOLEAN
  /\ dog \in Moves \cup {Gone} /\ hit \in BOOLEAN
  /\ requestInstantUpdate \in BOOLEAN /\ mixed \in BOOLEAN /\ running \in BOOLEAN

\* All POSTs have been handled: none waits for a connection, is being read, or
\* has its handler on the strand, an orphan's included.
AllHandled ==
  waiting = <<>> /\ OnTheWay = {} /\ \A i \in DOMAIN strand : strand[i] = Tick

\* The dog does what the keys say, as far as walls and retirement let it: it
\* runs where the last key that is still down points, or stands when none is;
\* a wall that the dog has hit since its last action holds it; and a dog that
\* was retired is gone.
ObeysKeys ==
  \/ dog = IF pressedKeys = <<>> THEN Stop ELSE pressedKeys[Len(pressedKeys)]
  \/ hit /\ dog = Stop
  \/ dog = Gone

\* When the page's POSTs have all been handled and none was lost or sent while
\* another was still being read, the dog obeys the keys: through ticks that
\* stop it between two actions, answers that are lost, and connections that
\* break under a handler on the strand.
DogFollowsKeys == running /\ ~mixed /\ AllHandled => ObeysKeys

\* Only moves, the handlers without a connection, are in a queue repeatedly.
NoneTwice(queue) ==
  \A i, j \in DOMAIN queue : queue[i] = queue[j] /\ queue[i] \notin Moves => i = j

\* A connection has at most one handler on the strand, its own, whatever was
\* left there by connections that broke before; and the ticker has at most one
\* Tick there or its timer set: ticks never pile up behind a slow handler.
OneJobEach ==
  /\ NoneTwice(strand)
  /\ \A c \in Conns : Contains(strand, c) <=> conn[c] = "strand"
  /\ Contains(strand, Tick) <=> ~timer

\* A request that has reached the strand is answered, unless its connection
\* breaks before, behind ticks, other connections and orphans; and time goes on
\* in the game, until the process stops.
AnswersComeBack == \A c \in Conns : conn[c] = "strand" ~> conn[c] # "strand" \/ ~running
TicksGoOn == []<>(timer \/ ~running) /\ []<>(~timer \/ ~running)
=============================================================================
