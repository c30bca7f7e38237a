SPECIFICATION Spec
CONSTANTS
    Program = "chat"
    Intervals = {2}
    Windows = {1, 2}
    Answers = {a, b}
    NoAnswer = noAnswer
    ChunkKinds = {"text", "length", "stop"}
    MaxChunks = 4
PROPERTY DecodingStreamedBack
CHECK_DEADLOCK FALSE
