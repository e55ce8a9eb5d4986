CONSTANTS
    NaN = NaN
    Infinity = Infinity
    NoStep = NoStep
    NoRef = NoRef
    MaxSteps = 3
    IdRank <- MCIdRank
    NotObject = NotObject
    Null = Null
    Number = Number
    Absent = Absent
    Blank = Blank
    NoState = NoState
    Inherited = Inherited
    NoParent = NoParent
    Lists <- MCLists
    Targets <- MCTargets
    NoAnswer = NoAnswer
    Plans <- MCPlans
    Policy <- MCPolicy
    Routes <- MCRoutes
    Outcomes <- MCOutcomes
    Traces <- MCTraces
    Dependencies <- MCDependencies
    Trees <- MCTrees
    Grids <- MCGrids
    Expressions <- MCExpressions
    EventNames <- MCEventNames
    TaskCount = 3
    Rows = 3
    Cols = 3
SPECIFICATION Spec
INVARIANTS CyclesExact RouteIsBest AdapterIsolates ExercisesExact SearchIsExact ImplementationsAgree
PROPERTIES SearchEnds
CHECK_DEADLOCK FALSE
