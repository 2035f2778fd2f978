SPECIFICATION FairSpec
CONSTANTS
    Session = {s1}
    Talker = {k1}
    None = None
    MaxEpoch = 2
    CmdCap = 2
    HbSeqs = 2
PROPERTIES
    CapEndsCall
