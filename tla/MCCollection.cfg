\* Six searches, two boards, two rows wanted, two attempts.
SPECIFICATION CollectionSpec
CONSTANTS
    NotifyEnabled = TRUE
    ShortLimit = 1
    SearchLimit = 2
    AccessLimit = 1
    Configured <- MCConfigured
    Profiles <- MCProfiles
    Locations = 2
    BoardCount = 2
    ResultsWanted = 2
    MaxAttempts = 2
    Pages <- MCPages
INVARIANTS VerdictOnEvidence SearchIsExact
PROPERTY EveryRunEnds
