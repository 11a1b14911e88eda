CONSTANTS
    MaxMessage = 2
    Lines <- MCLines
    MaxLines = 2
    MaxServers = 2
SPECIFICATION Spec
INVARIANTS
    AnswersFollowLines
    RequestsFollowLines
PROPERTY LinesAreFinished
CHECK_DEADLOCK FALSE
