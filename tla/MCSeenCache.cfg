\* Locks work; writes, responses and processes may fail.
SPECIFICATION FairSpec
CONSTANTS
    r1 = r1
    r2 = r2
    o1 = o1
    o2 = o2
    Runs = {r1, r2}
    Offers = {o1, o2}
    Anonymous = {}
    HoursOld = {1}
    Resetters = {}
    CountProfiles = FALSE
    Faults = {"write", "lost", "crash"}
    MaxOffers = 2
    MaxTime = 2
    NoRun = NoRun
    NoOffer = NoOffer
INVARIANTS StoredIsMarked TransactionIsolated
PROPERTIES NoFreshImport MarksPersist SerialLedger EveryRunEnds
