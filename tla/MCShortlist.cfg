\* Four scored jobs, ranked under a low, the default and the highest threshold.
SPECIFICATION ShortlistSpec
CONSTANTS
    Answers <- MCAnswers
    Probes <- MCProbes
    Thresholds = {0, 80, 100}
    MaxCandidates = 4
INVARIANTS BestFirst VerdictSurvivesNote FailsClosed
