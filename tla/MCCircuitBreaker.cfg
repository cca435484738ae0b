\* Overlapping runs, every fault.
SPECIFICATION FairSpec
CONSTANTS
    r1 = r1
    r2 = r2
    Runs = {r1, r2}
    Threshold = 2
    Cooldown = 2
    AlertCooldown = 3
    Faults = {"read", "write", "crash"}
PROPERTIES GateIsExact OutageAlertsSpaced ProbesForever OutageIsAnnounced
