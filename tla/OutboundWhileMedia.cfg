SPECIFICATION Spec
CONSTANTS
    Session = {s1, s2}
    Talker = {k1}
    None = None
    MaxEpoch = 2
    CmdCap = 1
    HbSeqs = 1
SYMMETRY SessionSymmetry
INVARIANTS
    OutboundWhileMedia
