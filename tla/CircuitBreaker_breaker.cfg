CONSTANTS
    c1 = c1  c2 = c2  c3 = c3
    Callers <- MCCallers
    Threshold = 2
    Cooldown = 2
    CountCap = 3
    Lang = "ts"
SPECIFICATION FairSpec
INVARIANTS ProbeInv
PROPERTIES TripStartsCooldown TrippedIsProbed
