CONSTANTS
    r1 = r1
    r2 = r2
    r3 = r3
    Runs <- TwoRuns
    WithMySQL = TRUE
    Migrations <- OneMigration
    RedisInstances <- OneRedis
    WithKafka = FALSE
    WithWireMock = FALSE
    Apps <- OneApp
    Foreign <- Developer
    Serial = TRUE
SYMMETRY RunSymmetry
SPECIFICATION Spec
INVARIANTS
    TeardownRemovesNetwork
