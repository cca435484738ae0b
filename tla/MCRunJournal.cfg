\* Every fault; r1 journals twice and hands off, r2 does neither.
SPECIFICATION FairSpec
CONSTANTS
    r1 = r1
    r2 = r2
    Runs = {r1, r2}
    PathSet = {r1}
    Handoffs = {r1}
    MaxAttempts = 2
    Faults = {"lock", "read", "write", "crash", "pipeline", "send"}
    NoRun = NoRun
INVARIANTS RecordedBeforeHandoff OutcomesComplete
    NoFalseAcknowledgement
PROPERTIES AppendOnly EveryLauncherEnds
