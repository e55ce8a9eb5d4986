CONSTANTS
    a = a
    Calls <- OneCall
SPECIFICATION SafetySpec
INVARIANTS MalformedNotBypassed
CHECK_DEADLOCK FALSE
