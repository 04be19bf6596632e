SPECIFICATION Spec
CONSTANTS
    Sessions = {s1}
    NoSession = none
    MaxBoots = 2
    GenLast = 4
    Legacy = 3
    Explored = {"contended"}
PROPERTY EveryAbortHolds
