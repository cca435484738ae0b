\* Two commands and an automation overlap on a job that users edit.
SPECIFICATION FairSpec
CONSTANTS
    s1 = s1
    s2 = s2
    a1 = a1
    j1 = j1
    Jobs = {j1}
    Listed = {j1}
    Scorers = {s1, s2, a1}
    Automation = {a1}
    Digests = {"x", "y", "blank"}
    Blank = {"blank"}
    MaxAttempts = 2
    Faults = {"lost", "fails", "missing", "killed", "edit"}
    NoJob = NoJob
INVARIANTS AsksForNews ScoredIsReadBack
PROPERTIES Converges
