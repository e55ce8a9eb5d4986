---------------------------- MODULE MCAsyncExamples ----------------------------
EXTENDS AsyncExamples

CONSTANTS d1, d2, a, b, c, t1, t2, t3

MCDocuments == {d1, d2}
MCCallers == {a, b, c}
MCTasks == {t1, t2, t3}
MCDeliveries == {a, b, c}
TwoCalls == {a, b}

===============================================================================
