CONSTANTS
    MaxRequests = 2
    Window = 3
    ClockSteps <- StepsBack
    MaxTime = 9
SPECIFICATION Spec
INVARIANTS WindowBound RejectsOnlyWhenFull
