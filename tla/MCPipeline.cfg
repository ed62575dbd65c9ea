CONSTANTS
    Suites = {"e2e", "producer", "consumer"}
    InjectedId = 98765
    MaxFaults = 2
SPECIFICATION Spec
INVARIANTS
    TypeOK
    NoFalseAlarms
    AnswersAreOwn
    PassMeansDelivered
    FixturesMeetContract
PROPERTIES
    TestEnds
CHECK_DEADLOCK FALSE
