CONSTANTS
    Workers = {w1}
    Tasks = {t1}
SPECIFICATION FairSpec
PROPERTY SubmittedTaskRuns
CHECK_DEADLOCK FALSE
