CONSTANTS
    killed = killed
    running = running
    noCode = noCode
    Codes <- SomeCodes
    Killed = killed
    Running = running
    NoCode = noCode
    MaxSignals = 3
SPECIFICATION FairSpec
INVARIANTS
    TypeOK
    MetricsAreFinal
    SuccessIsReal
    UnsignalledCodePreserved
PROPERTIES
    SignalReachesCommand
    RunnerEnds
