SPECIFICATION FairSpec
CONSTANTS
    NoKey = NoKey
    Keys = {login}
    SerialKeys = {login}
    Requests = {r1}
    Max = 2
    Window = 2
    Faults = {"slow"}
PROPERTIES
    RefusalEnds
