------------------------------- MODULE TicketRetry -------------------------------
(***************************************************************************)
(* technical/timeout_retry_external_call: create_ticket(body, key), up to  *)
(* three attempts with a timeout each, against a service that knows a key  *)
(* again.  The implementations are the code of question.md, in Python and  *)
(* in TypeScript; the service is external.                                 *)
(***************************************************************************)
EXTENDS Naturals, FiniteSets

Attempts == 0..2

VARIABLES
    ticket_lang,    \* the implementation: "py" or "ts"
    attempt,        \* the loop variable
    call_at,        \* "idle", "waiting", "reading" the body, "backoff", "returned", "raised"
    why,            \* what it raised: "fatal" or "retryable" status, or "unknown"
    request,        \* per attempt: what became of the request
    tickets         \* the keys of the tickets there are, each with its attempt

ticketVars == <<ticket_lang, attempt, call_at, why, request, tickets>>

TicketIdle == /\ attempt = 0 /\ why = "nothing" /\ tickets = {}
              /\ request = [n \in Attempts |-> IF n = 0 THEN "sent" ELSE "unsent"]

TicketInit == ticket_lang \in {"py", "ts"} /\ call_at = "waiting" /\ TicketIdle

\* Mutant: every attempt has a key of its own.
FreshKey(n) == n

\* The key of an attempt: that of the call.
KeyOf(n) == 0

\* The service takes up a request, also one that is given up: it creates the ticket,
\* unless it knows the key, and says so ("ok") or answers with a status that is retried
\* all the same ("erred"); or it does not, with a status that may be retried or not.
ServiceActs(n) ==
    /\ request[n] = "sent"
    /\ \/ /\ request' \in {[request EXCEPT ![n] = s] : s \in {"ok", "erred"}}
          /\ tickets' = tickets \cup {KeyOf(n)}
       \/ /\ request' \in {[request EXCEPT ![n] = s] : s \in {"fatal", "retryable"}}
          /\ UNCHANGED tickets
    /\ UNCHANGED <<ticket_lang, attempt, call_at, why>>

Raise(reason) == call_at' = "raised" /\ why' = reason

\* After a failure that may be retried: the last attempt raises, others back off.
RetryOrRaise(reason) ==
    IF attempt = 2 THEN Raise(reason) ELSE call_at' = "backoff" /\ UNCHANGED why

\* A response arrives.
ResponseArrives ==
    /\ call_at = "waiting"
    /\ \/ request[attempt] = "ok" /\ call_at' = "reading" /\ UNCHANGED why
       \/ request[attempt] = "fatal" /\ Raise("fatal")
       \/ request[attempt] \in {"retryable", "erred"} /\ RetryOrRaise("retryable")
    /\ UNCHANGED <<ticket_lang, attempt, request, tickets>>

\* response.json() returns, or raises.  In Python client.post() has read the body
\* already; fetch() has not, and its timer has been cleared.
BodyRead ==
    /\ call_at = "reading"
    /\ \/ call_at' = "returned" /\ UNCHANGED why
       \/ Raise("unknown")
    /\ UNCHANGED <<ticket_lang, attempt, request, tickets>>

\* The timeout, which aborts the request, or a transport error: the request may be lost
\* on its way, or reach the service yet, or its answer be too late.
AttemptFails ==
    /\ call_at = "waiting"
    /\ RetryOrRaise("unknown")
    /\ \/ UNCHANGED request
       \/ /\ request[attempt] = "sent"
          /\ request' = [request EXCEPT ![attempt] = "lost"]
    /\ UNCHANGED <<ticket_lang, attempt, tickets>>

\* Mutant: a retry that does not count.
RetryUncounted ==
    /\ call_at = "backoff"
    /\ call_at' = "waiting"
    /\ request' = [request EXCEPT ![attempt] = "sent"]
    /\ UNCHANGED <<ticket_lang, attempt, why, tickets>>

\* The backoff is over and the loop goes on.
Retry ==
    /\ call_at = "backoff"
    /\ attempt' = attempt + 1
    /\ call_at' = "waiting"
    /\ request' = [request EXCEPT ![attempt + 1] = "sent"]
    /\ UNCHANGED <<ticket_lang, why, tickets>>

TicketNext == \/ \E n \in Attempts : ServiceActs(n)
              \/ ResponseArrives \/ BodyRead \/ AttemptFails \/ Retry

TicketSpec == TicketInit /\ [][TicketNext]_ticketVars

\* The timer and the backoff end.  Nothing obliges the service to answer, nor the body
\* to arrive.
TicketFairness == /\ WF_ticketVars(AttemptFails \/ ResponseArrives)
                  /\ WF_ticketVars(Retry)
                  /\ WF_ticketVars(ticket_lang = "py" /\ BodyRead)

-----------------------------------------------------------------------------
(* Properties                                                              *)

\* The types of the loop's state and of the service's.
TicketTypeOK ==
    /\ attempt \in Attempts
    /\ call_at \in {"idle", "waiting", "reading", "backoff", "returned", "raised"}
    /\ why \in {"nothing", "fatal", "retryable", "unknown"}
    /\ request \in [Attempts -> {"unsent", "sent", "lost", "ok", "erred", "fatal", "retryable"}]

\* Whatever is lost, late or sent again, a call makes one ticket at most; it returns
\* only if there is one; and if it reports a refusal as final although there is one, that
\* is of an earlier attempt, whose answer did not come or was a status that is retried.
TicketAtMostOnce ==
    /\ TicketTypeOK
    /\ Cardinality(tickets) <= 1
    /\ call_at \in {"returned", "reading"} => tickets # {}
    /\ call_at = "raised" /\ why = "fatal" /\ tickets # {} =>
          \E n \in 0..attempt - 1 : request[n] \in {"ok", "erred"}

\* The timeout and the three attempts bound the call even if the service never answers --
\* in Python; the timer of answer.ts is cleared before the body is read, which may take
\* for ever.
TicketCallEnds ==
    call_at = "waiting" ~> \/ call_at \in {"returned", "raised"}
                           \/ ticket_lang = "ts" /\ call_at = "reading"

===============================================================================
