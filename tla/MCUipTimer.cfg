SPECIFICATION Spec
CONSTANTS
    CountMod = 32
    Interval = 5
    ArpInterval = 10
PROPERTIES ExpiresAgain
