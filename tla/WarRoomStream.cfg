CONSTANTS
    Clients    = {c1, c2}
    Cap        <- MCCap
    DrainMax   <- MCDrainMax
    MaxEps     = 1
    Interval   = 4
    Watched    = 1
    Emitters   = {"alert"}
    MaxChanges = 4

SPECIFICATION StreamSpec

SYMMETRY MCSymmetry
CONSTRAINT FourAlertsOnly
INVARIANTS
    QueuesRight
    SnapshotCurrent

PROPERTY AlertsDelivered
