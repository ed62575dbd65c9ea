CONSTANTS
    Containers = {c1, c2}
    Name <- Names
    Images <- OneImage
    Services <- LabelOrNone
    MemSizes <- LittleMemory
    IOSizes <- LittleAndHuge
    Fine = 10
    Decimal = 10
    Binary = 13
    MaxPolls = 2
SYMMETRY Symmetry
SPECIFICATION Spec
INVARIANTS
    TypeOK
    PeaksWithinTotal
    NothingOverstated
    IOTotalClose
    NamesIdentifyRoles
PROPERTIES
    MeasuresOnlyGrow
    ImplementsGauge
