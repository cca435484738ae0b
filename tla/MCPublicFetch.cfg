\* Three URLs, two slots, four attempts, responses of three blocks, five in all.
SPECIFICATION Spec
CONSTANTS
    careers = careers
    listing = listing
    numeric = numeric
    Urls = {careers, listing, numeric}
    Numeric = {numeric}
    DNSSlots = 2
    MaxResponse = 3
    MaxTotal = 5
    MaxAttempts = 4
    MaxRedirects = 2
    Lengths = {0, 2, 3}
INVARIANTS SlotsExact CompleteOrNothing EachHopAnew
PROPERTY FetchEnds
