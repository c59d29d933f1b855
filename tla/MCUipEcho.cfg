SPECIFICATION Spec
CONSTANTS
    Peers = {p}
    Knockers = {q}
    Conns = {1}
    RTO = 1
    Rtos <- MCRtos
    MaxRtx = 2
    MaxSynRtx = 1
    TimeWait = 2
    TimerMod = 4
    Reactions = {"echo"}
    Units <- MCEchoUnits
    Iss = {0}
    Gap = 5
    Room = 9
    Wire = 1
INVARIANTS EchoInPlace
CHECK_DEADLOCK FALSE
