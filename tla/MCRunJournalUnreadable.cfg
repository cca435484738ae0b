\* Only reads of the journal may fail.
SPECIFICATION Spec
CONSTANTS
    r1 = r1
    r2 = r2
    Runs = {r1, r2}
    PathSet = {}
    Handoffs = {r1}
    MaxAttempts = 2
    Faults = {"read"}
    NoRun = NoRun
PROPERTIES PreviousLinesKept
