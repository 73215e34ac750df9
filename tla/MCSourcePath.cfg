SPECIFICATION Spec
CONSTANTS
    MaxFaults = 2
    MaxErrors = 2
INVARIANTS
    TypeOK
    VbusStaysOff
    TroubleIsOwed
PROPERTIES
    GateSwap
    TroubleEnds
