SPECIFICATION Spec
CONSTANTS
    Conns = {1, 2}
    NoConn = 0
    Peers = {"dut", "stranger"}
    Studies <- MCStudies
    MaxLinks = 3
INVARIANT ParamsOutliveWrite
CHECK_DEADLOCK FALSE
