SPECIFICATION Spec
CONSTANTS
    Threads = {t1, t2, t3}
    MaxAgents = 3
    NoThread = NoThread
INVARIANTS OneRunner OverlapBounded UndefinedOnlyIfShared
PROPERTIES JoinsEnd EveryAgentExecuted
CHECK_DEADLOCK FALSE
