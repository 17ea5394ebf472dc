SPECIFICATION SLiveSpec
CONSTANTS
  Keys = {L, R}
  Conns = {c1, c2}
  MaxPresses = 3
  Stop = Stop
  Gone = Gone
INVARIANTS DogFollowsKeys OneJobEach
PROPERTIES AnswersComeBack TicksGoOn
CHECK_DEADLOCK FALSE
