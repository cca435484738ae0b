\* Three builds of two files, four installs, one failure or crash.
SPECIFICATION Spec
CONSTANTS
    v1 = v1
    v2 = v2
    v3 = v3
    Versions = {v1, v2, v3}
    Files = {1, 2}
    Absent = Absent
    MaxRuns = 4
    MaxFaults = 1
INVARIANTS ActiveSurvives SuccessIsComplete WholeBuildSurvives

