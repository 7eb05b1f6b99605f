SPECIFICATION Spec
CONSTANTS
    Models <- ThreeSolutions
    ExpectedCounts = {2}
    MaxCalls = 1
    RestartThreshold = 2
    RestartMultiplier = 2
    UInt32Range = 1000000
    VsidsIncrement = 10
    DecayInterval = 2
    RatioNum = 19
    RatioDen = 20
    ActivityMax = 60
    NormalizationFactor = 10
    StatisticsBound = 200
INVARIANT SolutionsDiffer
