SPECIFICATION IntercomFairSpec
CONSTANTS
    Session = {s1}
    Talker = {k1}
    Viewer = {v1, v2}
    None = None
    MaxEpoch = 2
    CmdCap = 1
    HbSeqs = 1
INVARIANTS
    ConsumersCounted
PROPERTIES
    LeftPreviewEnds
