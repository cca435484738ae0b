\* Everything may fail, the second run resets the cache, o2 has no identity.
SPECIFICATION Spec
CONSTANTS
    r1 = r1
    r2 = r2
    o1 = o1
    o2 = o2
    Runs = {r1, r2}
    Offers = {o1, o2}
    Anonymous = {o2}
    HoursOld = {0, 1}
    Resetters = {r2}
    CountProfiles = TRUE
    Faults = {"lock", "read", "write", "lost", "crash"}
    MaxOffers = 2
    MaxTime = 1
    NoRun = NoRun
    NoOffer = NoOffer
INVARIANTS SeenWasStored
