CONSTANTS
    MinPort = 4
    MaxPort = 9
    PortValues = 16
    Sessions = {s1, s2}
    Threads = {t1, t2}
    Mids = {m1, m2}
    Modes = {"mux", "rtcp-mux", "pair"}
    ForeignSets = {{}, {5}}
    MaxCreates = 3
SPECIFICATION Spec
INVARIANTS
    BoundIsListed
    PairIsEven
    StreamHasTransport
    GivesUpWhenFull
SYMMETRY Symmetry
CHECK_DEADLOCK FALSE
