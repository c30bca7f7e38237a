SPECIFICATION MCSpec
CONSTANTS
  Idle = Idle
  ansA = ansA
  ansB = ansB
  NoAnswer = noAnswer
  Program = "chat"
  Intervals = {0, 1, 2}
  Windows = {1, 2}
  Answers <- MCAnswers
  ChunkKinds = {"text", "mute", "length", "stop", "usage"}
  MaxChunks = 4
  MaxTokens = 7
  ChunkSize = 2
  Threshold = 2
SYMMETRY Symmetry
CHECK_DEADLOCK FALSE
INVARIANTS
  ProbesKeepTheStream
  RoundsAgree
  AnswersAreRead
