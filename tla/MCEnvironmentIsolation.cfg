CONSTANTS
    r1 = r1
    r2 = r2
    r3 = r3
    Runs <- TwoRuns
    WithMySQL = FALSE
    Migrations <- NoNames
    RedisInstances <- OneRedis
    WithKafka = FALSE
    WithWireMock = FALSE
    Apps <- OneApp
    Foreign <- Developer
    Serial = FALSE
SYMMETRY RunSymmetry
SPECIFICATION Spec
INVARIANTS
    LiveEnvironmentIntact
