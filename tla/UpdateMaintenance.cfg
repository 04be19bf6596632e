SPECIFICATION FairSpec
CONSTANTS
    Sessions = {s1}
    NoSession = none
    MaxBoots = 2
    GenLast = 3
    Legacy = 2
    Explored = {"crash", "power", "hook", "contended", "fault", "leave"}
INVARIANTS
    TokenHasItsOwner
    BootsBounded
    CommittedRuns
PROPERTIES
    AdmittedByItsArm
    AbortHolds
    PreparingResolves
    AbandonedMaintenanceEnds
