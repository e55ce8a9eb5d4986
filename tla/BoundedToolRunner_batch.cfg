CONSTANTS
    Requests = 5
    TwiceMax = 6
SPECIFICATION FairSpec
INVARIANTS BatchExact
PROPERTIES BatchReturns
