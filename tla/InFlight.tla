-------------------------------- MODULE InFlight --------------------------------
(***************************************************************************)
(* technical/async_state_and_request_deduplication: callers of parse_once() *)
(* share the parse of a document that is in progress.  The implementations *)
(* are the code of question.md, in Python and in TypeScript.               *)
(*                                                                         *)
(* Between two awaits nothing else runs.  The blocks under in_flight_lock  *)
(* hold no await, so the lock is never contended and a block is one action. *)
(***************************************************************************)
EXTENDS Naturals, FiniteSets

CONSTANTS
    Documents,
    Callers,
    Tasks,          \* bound: the parses there may be
    NoTask

ASSUME FlightAssumption == NoTask \notin Tasks

VARIABLES
    flight_lang,    \* the implementation: "py" or "ts"
    in_flight,      \* per document: the task or promise of its parse
    task,           \* per task: its document and how far it is
    waits_for       \* per caller: the task it awaits

flightVars == <<flight_lang, in_flight, task, waits_for>>

Unused == [doc |-> NoTask, at |-> "unused"]

FlightIdle == /\ in_flight = [d \in Documents |-> NoTask]
              /\ task = [t \in Tasks |-> Unused]
              /\ waits_for = [c \in Callers |-> NoTask]

FlightInit == flight_lang \in {"py", "ts"} /\ FlightIdle

\* create_task() only schedules the parse; parseDocument() starts at once.
NewTask(d) == [doc |-> d, at |-> IF flight_lang = "py" THEN "scheduled" ELSE "parsing"]

\* Mutant: the task publishes itself when it runs.
JoinUnpublished(c, d) ==
    /\ waits_for[c] = NoTask
    /\ \E t \in Tasks :
          /\ IF in_flight[d] # NoTask
             THEN t = in_flight[d] /\ UNCHANGED task
             ELSE task[t] = Unused /\ task' = [task EXCEPT ![t] = NewTask(d)]
          /\ waits_for' = [waits_for EXCEPT ![c] = t]
    /\ UNCHANGED <<flight_lang, in_flight>>

\* parse_once(): the caller joins the parse in flight, or starts and publishes one.
ParseOnce(c, d) ==
    /\ waits_for[c] = NoTask
    /\ \E t \in Tasks :
          /\ IF in_flight[d] # NoTask
             THEN t = in_flight[d] /\ UNCHANGED <<in_flight, task>>
             ELSE /\ task[t] = Unused
                  /\ task' = [task EXCEPT ![t] = NewTask(d)]
                  /\ in_flight' = [in_flight EXCEPT ![d] = t]
          /\ waits_for' = [waits_for EXCEPT ![c] = t]
    /\ UNCHANGED flight_lang

\* The scheduled task runs, as far as parse_document().
ParseStarts(t) ==
    /\ task[t].at = "scheduled"
    /\ task' = [task EXCEPT ![t].at = "parsing"]
    /\ UNCHANGED <<flight_lang, in_flight, waits_for>>

Forget(t) ==
    in_flight' = [d \in Documents |-> IF in_flight[d] = t THEN NoTask ELSE in_flight[d]]

\* parse_document() ends, well or not.  In Python the finally block runs on from there;
\* in TypeScript the promise is settled and its reactions are queued.
ParseEnds(t) ==
    /\ task[t].at = "parsing"
    /\ IF flight_lang = "py"
       THEN task' = [task EXCEPT ![t].at = "ended"] /\ Forget(t)
       ELSE task' = [task EXCEPT ![t].at = "settled"] /\ UNCHANGED in_flight
    /\ UNCHANGED <<flight_lang, waits_for>>

\* cleanup(): registered first, it runs before any caller of the promise goes on.
CleanUp(t) ==
    /\ task[t].at = "settled"
    /\ task' = [task EXCEPT ![t].at = "ended"]
    /\ Forget(t)
    /\ UNCHANGED <<flight_lang, waits_for>>

\* The caller has the document or the error.
CallerReturns(c) ==
    /\ waits_for[c] # NoTask /\ task[waits_for[c]].at = "ended"
    /\ waits_for' = [waits_for EXCEPT ![c] = NoTask]
    /\ UNCHANGED <<flight_lang, in_flight, task>>

\* A waiter is cancelled: shield() keeps that from the task.
CallerCancelled(c) ==
    /\ flight_lang = "py"
    /\ waits_for[c] # NoTask
    /\ waits_for' = [waits_for EXCEPT ![c] = NoTask]
    /\ UNCHANGED <<flight_lang, in_flight, task>>

FlightNext ==
    \/ \E c \in Callers : \/ \E d \in Documents : ParseOnce(c, d)
                          \/ CallerReturns(c)
                          \/ CallerCancelled(c)
    \/ \E t \in Tasks : ParseStarts(t) \/ ParseEnds(t) \/ CleanUp(t)

FlightSpec == FlightInit /\ [][FlightNext]_flightVars

-----------------------------------------------------------------------------
(* Properties                                                              *)

\* The types of the map, the tasks and the callers' awaits.
FlightTypeOK ==
    /\ flight_lang \in {"py", "ts"}
    /\ in_flight \in [Documents -> Tasks \cup {NoTask}]
    /\ task \in [Tasks -> {Unused} \cup
                 [doc : Documents, at : {"scheduled", "parsing", "settled", "ended"}]]
    /\ waits_for \in [Callers -> Tasks \cup {NoTask}]

InProgress(t) == task[t].at \in {"scheduled", "parsing"}

\* However calls, cancellations, ends and clean-ups interleave: a document is parsed at
\* most once at a time and exactly the parse in progress is in the map, so no caller
\* joins an ended parse (in TypeScript only one whose clean-up is queued already) and no
\* failure stays behind; every parse is published under its own document.
OneParseInFlight ==
    /\ FlightTypeOK
    /\ \A t \in Tasks : InProgress(t) => in_flight[task[t].doc] = t
    /\ \A d \in Documents : in_flight[d] # NoTask =>
          /\ task[in_flight[d]].doc = d
          /\ \/ InProgress(in_flight[d])
             \/ flight_lang = "ts" /\ task[in_flight[d]].at = "settled"

===============================================================================
