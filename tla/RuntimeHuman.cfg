SPECIFICATION FairSpec
CONSTANTS
    s1 = s1
    s2 = s2
    s3 = s3
    Worker = {w1, w2}
    NoWorker = NoWorker
    MaxAttempts = 1
    Step = {s1, s2}
    NoStep = NoStep
    Dep <- PairDep
    RedLine = {s1}
    MaxFaults = 1
    MaxReplays = 1

CHECK_DEADLOCK FALSE
PROPERTIES
    RunSettles
    RejectionsTakeEffect
