SPECIFICATION Spec
CONSTANTS
    s1 = s1
    s2 = s2
    s3 = s3
    Worker = {w1, w2}
    NoWorker = NoWorker
    MaxAttempts = 2
    Step = {s1, s2}
    NoStep = NoStep
    Dep <- PairDep
    RedLine = {s1}
    MaxFaults = 2
    MaxReplays = 0
SYMMETRY WorkerSymmetry
CHECK_DEADLOCK FALSE
INVARIANT
    AllSucceededRunSucceeded
