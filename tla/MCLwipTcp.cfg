SPECIFICATION Spec
CONSTANTS
    Peers = {p}
    Knockers = {q}
    Units <- MCUnits
    Gap = 6
    Room = 4
    Wire = 1
    Pcbs = {1}
    Wnd = 4
    Pool = 2
    Heap = 2
    Backlog = 255
    RTO = 1
    Rtos <- MCRtos
    MaxRtx = 1
    DupAcks = 1
    OoseqTimeout = 1
    SynTicks = 1
    FinTicks = 2
    IdleMax = 3
    Iss = {0}
INVARIANTS TypeOK StreamIntact OoseqSound Accounted
PROPERTIES HalfOpenEnds HearsAgain
CHECK_DEADLOCK FALSE
