SPECIFICATION Spec
CONSTANTS
    r1 = r1
    r2 = r2
    main = main
    Request = {r1, r2}
    Main = main
    MaxCrashes = 1
SYMMETRY RequestSymmetry
INVARIANTS
    TypeOK
    PresentsOneIdentity
    PairingIsDurable
    OneReaderPerSocket
    RegisteredIsSaved
PROPERTIES
    KeepsBaseId
CHECK_DEADLOCK FALSE
