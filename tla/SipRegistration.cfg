SPECIFICATION FairSpec
CONSTANTS
    Budget = 1
    Window = 1
    Refresh = 3
    Expires = 6
    MaxCgi = 2
    MaxCseq = 5
    MaxNonce = 2
    MaxNotices = 1
    Hints = {10, 22}
    Slot = 22
    Moved = 23
    Other = 24
INVARIANTS
    TypeOK
    NcNeverRepeats
    LapseHasCause
    SpeaksForItself
PROPERTIES
    AnswersMatch
    RegisterEnds
