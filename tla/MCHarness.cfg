CONSTANTS
    t1 = t1
    t2 = t2
    t3 = t3
    None = None
    Tests <- ThreeTests
    Name <- TwoNames
SPECIFICATION FairSpec
INVARIANTS
    TypeOK
    FreshScenarioIsUp
    SequentialTestsOwnTheirScenario
    NothingOutlivesTheTests
PROPERTIES
    EveryTestEnds
    TestsImplementLease
