SPECIFICATION FairSpec
CONSTANTS
    MaxReportRetries = 2
    Max503Retries = 2
    CrewTimeout = 2
    Slack = 1
    Deadline = 17
    Backoff = 1
    CrewTimes <- MCCrewTimes
    Dates = {d1, d2}
INVARIANTS
    RecordedIsClean
    SentIsServed
    StrictGate
    RunEndTruthful
PROPERTIES
    JobEnds
CHECK_DEADLOCK FALSE
