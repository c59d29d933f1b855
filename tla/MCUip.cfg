SPECIFICATION Spec
CONSTANTS
    Peers = {p}
    Knockers = {q}
    Conns = {1}
    RTO = 1
    Rtos <- MCRtos
    MaxRtx = 2
    MaxSynRtx = 1
    TimeWait = 1
    TimerMod = 3
    Reactions = {"echo", "close"}
    Units <- MCUnits
    Iss = {0}
    Gap = 4
    Room = 9
    Wire = 1
INVARIANTS TypeOK StreamIntact AcksHonest HalfOpenEnds
PROPERTIES SlotsNotStolen
CHECK_DEADLOCK FALSE
