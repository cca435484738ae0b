\* Runs of two searches, at most two failures each.
SPECIFICATION Spec
CONSTANTS
    o1 = o1
    o2 = o2
    o3 = o3
    o4 = o4
    anon = anon
    j1 = j1
    j2 = j2
    j3 = j3
    Offers = {o1, o2, o3, o4, anon}
    Anonymous = {anon}
    Jobs = {j1, j2, j3}
    NoJob = NoJob
    JobOf <- MCJobOf
    Requests <- MCRequests
    SearchResults <- MCSearchResults
    Readable <- MCReadable
    MaxScore = 2
    Threshold = 80
    Configs <- MCConfigs
    MaxItems = 1
    MaxFaults = 2
INVARIANTS EveryOfferAccountedFor AnnouncedWasScored VerdictIsTrue OperatorKnows ProvenanceExact
