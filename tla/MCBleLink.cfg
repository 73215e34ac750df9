SPECIFICATION Spec
CONSTANTS
    Conns = {1, 2}
    NoConn = 0
    Peers = {"dut", "stranger"}
    Studies <- MCStudies
    MaxLinks = 3
INVARIANTS
    TypeOK
    LossIsNamed
    NoLostElevation
    ResetLeavesNothing
PROPERTIES
    PassNamesTarget
CHECK_DEADLOCK FALSE
