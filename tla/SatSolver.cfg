SPECIFICATION FairSpec
CONSTANTS
    Models <- Formulas
    ExpectedCounts <- DefaultAndTwo
    MaxCalls = 2
    RestartThreshold = 2
    RestartMultiplier = 2
    UInt32Range = 1000000
    VsidsIncrement = 10
    DecayInterval = 2
    RatioNum = 19
    RatioDen = 20
    ActivityMax = 60
    NormalizationFactor = 10
    StatisticsBound = 200
INVARIANTS TypeOK TrailSound DecisionsOpenLevels ReasonsSound ClausesFollow RootLevelFollows
  AnalysisSound SolutionsSatisfy RefutationsCorrect UniqueImplicationPoint LevelsPropagated
PROPERTIES LearnsNewClauses CallsReturn KeepsPromise
