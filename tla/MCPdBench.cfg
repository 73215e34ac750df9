SPECIFICATION Spec
CONSTANTS
    Capabilities <- MCCapabilities
    SourcePdos <- MCSourcePdos
    Offers <- MCOffers
    Requests <- MCRequests
    Scripts <- MCScripts
    SAFE_MA = 500
    CABLE_MA = 3000
    QueueDepth = 1
    MaxAttaches = 2
    MaxFaults = 1
    MaxRejects = 1
INVARIANTS
    TypeOK
    RequestNamesHeldPdo
    KeepaliveArmed
    PartnerForgotten
    AnswerIsTheAsked
    SwapIsCovered
    SourceContractFits
CHECK_DEADLOCK FALSE
