CONSTANTS
    r1 = r1
    r2 = r2
    r3 = r3
    Runs <- TwoRuns
    WithMySQL = TRUE
    Migrations <- OneMigration
    RedisInstances <- NoNames
    WithKafka = FALSE
    WithWireMock = FALSE
    Apps <- NoNames
    Foreign <- Developer
    Serial = TRUE
SPECIFICATION FairSpec
PROPERTIES
    ImplementsLease
    EveryRunFinishes
