\* Three opportunities of at most four, responses of three, four candidates.
SPECIFICATION IntelligenceSpec
CONSTANTS
    Absent = Absent
    Original = Original
    CandidateUrls <- MCUrls
    Site <- MCSite
    EmployerSites = {"employer"}
    Boards = {"board/acme"}
    Shortlists <- MCShortlists
    Responses <- MCResponses
    LinkSets <- MCLinkSets
    Records <- MCRecords
    Contents <- MCContents
    Shown = 3
    MaxResolved = 3
    MaxQueries = 2
    MaxResults = 3
    MaxCandidates = 4
INVARIANTS VerdictHasAuthority LeadsOnce
PROPERTY EveryOpportunityAnswered
