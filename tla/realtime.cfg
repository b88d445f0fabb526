SPECIFICATION Spec
CONSTANTS
    Reqs = {1, 2}
    Sockets = {1, 2}
    NONE = NONE
    Attempts = 3
    MaxStalled = 1
    Workloads <- ChatOrJobs
CHECK_DEADLOCK FALSE
INVARIANTS
    RealtimeTypeOK
    PresenceHeals
    HeardRightly
    NewsCounted
    ReminderTellsBoth
    RepeatedOnlyByRestart
PROPERTIES
    JobsEnd
