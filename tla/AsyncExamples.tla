----------------------------- MODULE AsyncExamples -----------------------------
(***************************************************************************)
(* Short protocols of the repository: the gates around the model, and the  *)
(* protocols that a question or an answer gives as code.  They have nothing *)
(* to do with one another: a behaviour is one of them.                     *)
(***************************************************************************)
EXTENDS InFlight, TicketRetry, ApprovalCallback, SafeGeneration

VARIABLE example        \* the protocol that runs

vars == <<example, flightVars, ticketVars, approvalVars, safetyVars>>

NoFlight == flight_lang = "py" /\ FlightIdle
NoTicket == ticket_lang = "py" /\ call_at = "idle" /\ TicketIdle
NoSafety == safety_lang = "py" /\ SafetyIdle

Init ==
    \/ example = "in flight" /\ FlightInit /\ NoTicket /\ ApprovalIdle /\ NoSafety
    \/ example = "ticket" /\ TicketInit /\ NoFlight /\ ApprovalIdle /\ NoSafety
    \/ example = "approval" /\ ApprovalIdle /\ NoFlight /\ NoTicket /\ NoSafety
    \/ example = "safety" /\ SafetyInit /\ NoFlight /\ NoTicket /\ ApprovalIdle

Next ==
    \/ example = "in flight" /\ FlightNext
       /\ UNCHANGED <<example, ticketVars, approvalVars, safetyVars>>
    \/ example = "ticket" /\ TicketNext
       /\ UNCHANGED <<example, flightVars, approvalVars, safetyVars>>
    \/ example = "approval" /\ ApprovalNext
       /\ UNCHANGED <<example, flightVars, ticketVars, safetyVars>>
    \/ example = "safety" /\ SafetyNext
       /\ UNCHANGED <<example, flightVars, ticketVars, approvalVars>>

Spec == Init /\ [][Next]_vars /\ TicketFairness

===============================================================================
