CONSTANTS
    d1 = d1  d2 = d2
    a = a  b = b  c = c
    t1 = t1  t2 = t2  t3 = t3
    Documents <- MCDocuments
    Callers <- MCCallers
    Tasks <- MCTasks
    NoTask = NoTask
    Deliveries <- MCDeliveries
    NoDelivery = NoDelivery
    Calls <- TwoCalls
SPECIFICATION Spec
INVARIANTS OneParseInFlight TicketAtMostOnce DecidedOnce GatesHold
PROPERTIES TicketCallEnds NoCallAfterAbort
CHECK_DEADLOCK FALSE
