SPECIFICATION Spec
CONSTANTS
    MaxReportRetries = 2
    Max503Retries = 2
    CrewTimeout = 2
    Slack = 1
    Deadline = 17
    Backoff = 1
    CrewTimes <- MCCrewTimes
    Dates = {d1, d2}
INVARIANTS
    DeliveredWasValidated
CHECK_DEADLOCK FALSE
