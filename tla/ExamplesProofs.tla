---------------------------- MODULE ExamplesProofs ----------------------------
(***************************************************************************)
(* Proofs about the small examples, one section each.  The protocols of    *)
(* AsyncExamples, for any number of documents, callers, tasks, callbacks   *)
(* and calls, and a theorem that puts them together; the searches of       *)
(* FirstAndLastMatch, for every sorted list; the two functions of          *)
(* RequestCalls, for all arguments; the checks of PlanChecks and the       *)
(* search of PlanValidator, for all plans.                                 *)
(***************************************************************************)
EXTENDS AsyncExamples, FirstAndLastMatch, RequestCalls, PlanValidator, FiniteSetTheorems,
        NaturalsInduction, WellFoundedInduction, SequenceTheorems, TLAPS

-----------------------------------------------------------------------------
(* InFlight.  OneParseInFlight is inductive as it stands: exactly the tasks *)
(* that are not over are in the map, each under its own document, so an    *)
(* unused task is in nobody's place when it is published.                  *)

\* Nothing is in flight at first.
LEMMA FlightBegins == FlightInit => OneParseInFlight
BY FlightAssumption DEF FlightInit, FlightIdle, OneParseInFlight, FlightTypeOK, InProgress, Unused

\* The caller joins the parse in the map, or publishes an unused task in a free place.
LEMMA ParseOnceKeeps ==
    ASSUME OneParseInFlight, NEW c \in Callers, NEW d \in Documents, ParseOnce(c, d)
    PROVE  OneParseInFlight'
<1>1. PICK t \in Tasks :
          /\ IF in_flight[d] # NoTask
             THEN t = in_flight[d] /\ UNCHANGED <<in_flight, task>>
             ELSE /\ task[t] = Unused
                  /\ task' = [task EXCEPT ![t] = NewTask(d)]
                  /\ in_flight' = [in_flight EXCEPT ![d] = t]
          /\ waits_for' = [waits_for EXCEPT ![c] = t]
          /\ UNCHANGED flight_lang
    BY DEF ParseOnce
<1>2. waits_for' \in [Callers -> Tasks \cup {NoTask}]
    BY <1>1 DEF OneParseInFlight, FlightTypeOK
<1>3. CASE in_flight[d] # NoTask
    BY <1>1, <1>2, <1>3 DEF OneParseInFlight, FlightTypeOK, InProgress
<1>4. CASE in_flight[d] = NoTask
    <2>1. /\ task[t] = Unused
          /\ task' = [task EXCEPT ![t] = NewTask(d)]
          /\ in_flight' = [in_flight EXCEPT ![d] = t]
          /\ flight_lang' = flight_lang
        BY <1>1, <1>4
    <2>2. NewTask(d) \in [doc : Documents, at : {"scheduled", "parsing"}]
        BY DEF NewTask
    <2>3. FlightTypeOK'
        BY <1>2, <2>1, <2>2 DEF OneParseInFlight, FlightTypeOK
    <2>4. NewTask(d).doc = d /\ NewTask(d).at \in {"scheduled", "parsing"}
        BY DEF NewTask
    <2>5. \A e \in Documents : in_flight[e] # t
        BY <2>1, FlightAssumption DEF OneParseInFlight, Unused, InProgress
    <2>6. \A u \in Tasks : InProgress(u)' => in_flight'[task'[u].doc] = u
        <3> SUFFICES ASSUME NEW u \in Tasks, InProgress(u)' PROVE in_flight'[task'[u].doc] = u
            OBVIOUS
        <3>1. CASE u = t
            BY <2>1, <2>4, <3>1 DEF OneParseInFlight, FlightTypeOK
        <3>2. CASE u # t
            <4>1. task'[u] = task[u] /\ in_flight[task[u].doc] = u /\ task[u].at # "unused"
                BY <2>1, <3>2 DEF OneParseInFlight, FlightTypeOK, InProgress
            <4>2. task[u].doc \in Documents /\ task[u].doc # d
                BY <1>4, <4>1, FlightAssumption DEF OneParseInFlight, FlightTypeOK, Unused
            <4> QED BY <2>1, <4>1, <4>2 DEF OneParseInFlight, FlightTypeOK
        <3> QED BY <3>1, <3>2
    <2>7. ASSUME NEW e \in Documents, in_flight'[e] # NoTask
          PROVE  /\ task'[in_flight'[e]].doc = e
                 /\ \/ InProgress(in_flight[e])'
                    \/ flight_lang' = "ts" /\ task'[in_flight'[e]].at = "settled"
        <3>1. CASE e = d
            BY <2>1, <2>4, <3>1 DEF OneParseInFlight, FlightTypeOK, InProgress
        <3>2. CASE e # d
            <4>1. in_flight'[e] = in_flight[e] /\ in_flight[e] \in Tasks
                BY <2>1, <2>7, <3>2 DEF OneParseInFlight, FlightTypeOK
            <4>2. task'[in_flight[e]] = task[in_flight[e]]
                BY <2>1, <2>5, <4>1 DEF OneParseInFlight, FlightTypeOK
            <4> QED BY <2>1, <2>7, <4>1, <4>2 DEF OneParseInFlight, InProgress
        <3> QED BY <3>1, <3>2
    <2> QED BY <2>3, <2>6, <2>7 DEF OneParseInFlight, InProgress
<1> QED BY <1>3, <1>4

\* A task goes on and stays in the map.
LEMMA GoesOnKeeps ==
    ASSUME OneParseInFlight, NEW t \in Tasks,
           ParseStarts(t) \/ (ParseEnds(t) /\ flight_lang = "ts")
    PROVE  OneParseInFlight'
<1>1. /\ task[t].at \in {"scheduled", "parsing"} /\ task[t] # Unused
      /\ UNCHANGED <<flight_lang, in_flight, waits_for>>
      /\ \/ task' = [task EXCEPT ![t].at = "parsing"]
         \/ flight_lang = "ts" /\ task' = [task EXCEPT ![t].at = "settled"]
    BY DEF ParseStarts, ParseEnds, Unused
<1>2. task[t] \in [doc : Documents, at : {"scheduled", "parsing", "settled", "ended"}]
    BY <1>1 DEF OneParseInFlight, FlightTypeOK
<1>3. \A u \in Tasks : u # t => task'[u] = task[u]
    BY <1>1 DEF OneParseInFlight, FlightTypeOK
<1>4. /\ task'[t] \in [doc : Documents, at : {"parsing", "settled"}]
      /\ task'[t].doc = task[t].doc
      /\ task'[t].at = "parsing" \/ (flight_lang = "ts" /\ task'[t].at = "settled")
    <2>1. PICK s \in {"parsing", "settled"} :
              /\ task' = [task EXCEPT ![t].at = s]
              /\ s = "parsing" \/ flight_lang = "ts"
        BY <1>1
    <2>2. task'[t] = [task[t] EXCEPT !.at = s]
        BY <2>1 DEF OneParseInFlight, FlightTypeOK
    <2>3. task'[t] = [doc |-> task[t].doc, at |-> s]
        BY <1>2, <2>2
    <2> QED BY <1>2, <2>1, <2>3
<1>5. FlightTypeOK'
    BY <1>1, <1>2 DEF OneParseInFlight, FlightTypeOK
<1>6. ASSUME NEW u \in Tasks, InProgress(u)' PROVE in_flight'[task'[u].doc] = u
    BY <1>1, <1>3, <1>4, <1>6 DEF OneParseInFlight, InProgress
<1>7. ASSUME NEW d \in Documents, in_flight'[d] # NoTask
      PROVE  /\ task'[in_flight'[d]].doc = d
             /\ \/ InProgress(in_flight[d])'
                \/ flight_lang' = "ts" /\ task'[in_flight'[d]].at = "settled"
    <2>1. in_flight'[d] = in_flight[d] /\ in_flight[d] \in Tasks /\ flight_lang' = flight_lang
        BY <1>1, <1>7 DEF OneParseInFlight, FlightTypeOK
    <2> QED BY <1>3, <1>4, <1>7, <2>1 DEF OneParseInFlight, InProgress
<1> QED BY <1>5, <1>6, <1>7 DEF OneParseInFlight, InProgress

\* A task is over and out of the map: nobody else was in its place.
LEMMA EndsKeeps ==
    ASSUME OneParseInFlight, NEW t \in Tasks,
           task[t].at \in {"parsing", "settled"},
           task' = [task EXCEPT ![t].at = "ended"], Forget(t),
           UNCHANGED <<flight_lang, waits_for>>
    PROVE  OneParseInFlight'
<1>1. task[t] # Unused
    BY DEF Unused
<1>2. /\ FlightTypeOK'
      /\ task'[t].at = "ended"
      /\ \A u \in Tasks : u # t => task'[u] = task[u]
    BY <1>1 DEF OneParseInFlight, FlightTypeOK, Forget
<1>3. \A d \in Documents :
          in_flight'[d] = IF in_flight[d] = t THEN NoTask ELSE in_flight[d]
    BY DEF Forget
<1>4. ASSUME NEW u \in Tasks, InProgress(u)' PROVE in_flight'[task'[u].doc] = u
    <2>1. u # t /\ task'[u] = task[u] /\ in_flight[task[u].doc] = u
        BY <1>2, <1>4 DEF OneParseInFlight, InProgress
    <2>2. task[u].doc \in Documents
        BY <1>2, <1>4, <2>1 DEF OneParseInFlight, FlightTypeOK, InProgress, Unused
    <2> QED BY <1>3, <2>1, <2>2
<1>5. ASSUME NEW d \in Documents, in_flight'[d] # NoTask
      PROVE  /\ task'[in_flight'[d]].doc = d
             /\ \/ InProgress(in_flight[d])'
                \/ flight_lang' = "ts" /\ task'[in_flight'[d]].at = "settled"
    <2>1. in_flight'[d] = in_flight[d] /\ in_flight[d] # t /\ in_flight[d] \in Tasks
        BY <1>3, <1>5 DEF OneParseInFlight, FlightTypeOK
    <2> QED BY <1>2, <1>5, <2>1 DEF OneParseInFlight, InProgress
<1> QED BY <1>2, <1>4, <1>5 DEF OneParseInFlight, InProgress

\* Every step keeps OneParseInFlight.
LEMMA FlightStep == OneParseInFlight /\ [FlightNext]_flightVars => OneParseInFlight'
<1> SUFFICES ASSUME OneParseInFlight, [FlightNext]_flightVars PROVE OneParseInFlight'
    OBVIOUS
<1>1. ASSUME NEW c \in Callers, NEW d \in Documents, ParseOnce(c, d)
      PROVE  OneParseInFlight'
    BY <1>1, ParseOnceKeeps
<1>2. ASSUME NEW c \in Callers, CallerReturns(c) \/ CallerCancelled(c)
      PROVE  OneParseInFlight'
    BY <1>2 DEF CallerReturns, CallerCancelled, OneParseInFlight, FlightTypeOK, InProgress
<1>3. ASSUME NEW t \in Tasks, ParseStarts(t) PROVE OneParseInFlight'
    BY <1>3, GoesOnKeeps
<1>4. ASSUME NEW t \in Tasks, ParseEnds(t) PROVE OneParseInFlight'
    <2>1. CASE flight_lang = "ts"
        BY <1>4, <2>1, GoesOnKeeps
    <2>2. CASE flight_lang = "py"
        BY <1>4, <2>2, EndsKeeps DEF ParseEnds
    <2> QED BY <2>1, <2>2 DEF OneParseInFlight, FlightTypeOK
<1>5. ASSUME NEW t \in Tasks, CleanUp(t) PROVE OneParseInFlight'
    BY <1>5, EndsKeeps DEF CleanUp
<1>6. CASE UNCHANGED flightVars
    BY <1>6 DEF flightVars, OneParseInFlight, FlightTypeOK, InProgress
<1> QED BY <1>1, <1>2, <1>3, <1>4, <1>5, <1>6 DEF FlightNext

\* At most one parse of a document is in progress, and it is the one in the map.
THEOREM OneFlight == FlightSpec => []OneParseInFlight
BY FlightBegins, FlightStep, PTL DEF FlightSpec

-----------------------------------------------------------------------------
(* ApprovalCallback.  DecidedOnce is not inductive: it also takes that a   *)
(* callback that is deciding holds the lock of a row that is pending still, *)
(* and is signed.                                                          *)

\* The callback that decides has the lock, alone, and nobody has decided yet; what is
\* not signed gets no further than its arrival.
RowLockExact ==
    \A d \in Deliveries :
        /\ delivery[d].at = "deciding" <=> row_lock = d
        /\ delivery[d].at = "deciding" => row.status = "pending"
        /\ delivery[d].at \in {"begun", "deciding"} =>
              delivery[d].valid /\ delivery[d].decision # "none"
        /\ delivery[d].at = "deciding" => delivery[d].known

ApprovalInv == DecidedOnce /\ RowLockExact

\* Nobody has decided at first.
LEMMA ApprovalBegins == ApprovalIdle => ApprovalInv
BY ApprovalAssumption DEF ApprovalIdle, ApprovalInv, DecidedOnce, ApprovalTypeOK, Callbacks, Rows,
       RowLockExact, Told

\* What a step of callback d leaves of the others, and of d itself.
LEMMA CallbackAnswered ==
    ASSUME ApprovalTypeOK, NEW d \in Deliveries, NEW reply, Answer(d, reply)
    PROVE  /\ \A e \in Deliveries : e # d => delivery'[e] = delivery[e]
           /\ delivery'[d].at = reply
           /\ delivery'[d].valid = delivery[d].valid
           /\ delivery'[d].decision = delivery[d].decision
           /\ reply \in {"none", "begun", "deciding"} \cup Replies =>
                 delivery' \in [Deliveries -> Callbacks]
           /\ delivery'[d].known = delivery[d].known
BY DEF Answer, ApprovalTypeOK, Callbacks

\* A callback arrives.
LEMMA ArrivesKeeps ==
    ASSUME ApprovalInv, NEW d \in Deliveries, Arrives(d) PROVE ApprovalInv'
<1>1. PICK valid \in BOOLEAN, known \in BOOLEAN, decision \in {"approved", "rejected"},
           at \in {"begun", "not_json", "invalid_signature"} :
          /\ at = "begun" => valid
          /\ delivery' = [delivery EXCEPT ![d] =
                 [valid |-> valid, decision |-> decision, known |-> known, at |-> at]]
    BY DEF Arrives
<1>2. /\ \A e \in Deliveries : e # d => delivery'[e] = delivery[e]
      /\ delivery'[d] = [valid |-> valid, decision |-> decision, known |-> known, at |-> at]
      /\ delivery[d].at = "none" /\ UNCHANGED <<row, row_lock, outbox>>
    BY <1>1 DEF Arrives, ApprovalInv, DecidedOnce, ApprovalTypeOK
<1>3. ApprovalTypeOK'
    BY <1>1, <1>2 DEF ApprovalInv, DecidedOnce, ApprovalTypeOK, Callbacks, Replies
<1>4. DecidedOnce'
    BY <1>1, <1>2, <1>3 DEF ApprovalInv, DecidedOnce, Told
<1>5. RowLockExact'
    BY <1>1, <1>2 DEF ApprovalInv, RowLockExact
<1> QED BY <1>4, <1>5 DEF ApprovalInv

\* A callback about no request is told so.
LEMMA FindNoRowKeeps ==
    ASSUME ApprovalInv, NEW d \in Deliveries, FindNoRow(d) PROVE ApprovalInv'
<1> USE DEF ApprovalInv, DecidedOnce
<1>1. /\ \A e \in Deliveries : e # d => delivery'[e] = delivery[e]
      /\ delivery'[d].at = "not_found"
      /\ delivery' \in [Deliveries -> Callbacks]
    BY CallbackAnswered DEF FindNoRow, Replies
<1>2. delivery[d].at = "begun" /\ UNCHANGED <<row, row_lock, outbox>>
    BY DEF FindNoRow
<1>3. ApprovalTypeOK'
    BY <1>1, <1>2 DEF ApprovalTypeOK
<1>4. DecidedOnce'
    BY <1>1, <1>2, <1>3 DEF Told
<1>5. RowLockExact'
    BY <1>1, <1>2 DEF RowLockExact
<1> QED BY <1>4, <1>5

\* Whoever gets the row decides only if it is pending.
LEMMA GetForUpdateKeeps ==
    ASSUME ApprovalInv, NEW d \in Deliveries, GetForUpdate(d) PROVE ApprovalInv'
<1> USE DEF ApprovalInv, DecidedOnce
<1>1. PICK reply \in {"duplicate", "decision_conflict", "deciding"} :
          /\ Answer(d, reply)
          /\ reply = "duplicate" => row.status = delivery[d].decision /\ UNCHANGED row_lock
          /\ reply = "decision_conflict" =>
                row.status \notin {delivery[d].decision, "pending"} /\ UNCHANGED row_lock
          /\ reply = "deciding" => row.status = "pending" /\ row_lock' = d
    BY DEF GetForUpdate
<1>2. /\ \A e \in Deliveries : e # d => delivery'[e] = delivery[e]
      /\ delivery'[d].at = reply
      /\ delivery'[d].valid = delivery[d].valid
      /\ delivery'[d].decision = delivery[d].decision
      /\ delivery'[d].known = delivery[d].known
      /\ delivery' \in [Deliveries -> Callbacks]
    BY <1>1, CallbackAnswered DEF Replies
<1>3. /\ UNCHANGED <<row, outbox>>
      /\ delivery[d].at = "begun" /\ row_lock = NoDelivery
      /\ delivery[d].valid /\ delivery[d].known /\ delivery[d].decision # "none"
    BY DEF GetForUpdate, RowLockExact
<1>4. ApprovalTypeOK'
    BY <1>1, <1>2, <1>3 DEF ApprovalTypeOK
<1>5. \A e \in Deliveries : delivery[e].at # "deciding"
    BY <1>3, ApprovalAssumption DEF RowLockExact
<1>6. CASE reply = "deciding"
    <2>1. DecidedOnce'
        BY <1>2, <1>3, <1>4, <1>6 DEF Told
    <2>2. row.status = "pending" /\ row_lock' = d
        BY <1>1, <1>6
    <2>3. RowLockExact'
        BY <1>2, <1>3, <1>5, <1>6, <2>2 DEF RowLockExact
    <2> QED BY <2>1, <2>3
<1>7. CASE reply # "deciding"
    <2>1. DecidedOnce'
        <3>1. CASE reply = "duplicate"
            <4>1. row' = row /\ outbox' = outbox /\ row.status = delivery[d].decision
                BY <1>1, <1>3, <3>1
            <4>2. /\ Told("ok")' = Told("ok")
                  /\ Told("decision_conflict")' = Told("decision_conflict")
                  /\ Told("duplicate")' = Told("duplicate") \cup {d}
                BY <1>2, <1>3, <3>1 DEF Told
            <4>3. \A e \in Deliveries : /\ delivery'[e].valid = delivery[e].valid
                                        /\ delivery'[e].known = delivery[e].known
                                        /\ delivery'[e].decision = delivery[e].decision
                BY <1>2
            <4>4. \A e \in Told("ok")' \cup Told("duplicate")' :
                      /\ delivery'[e].valid /\ delivery'[e].known
                      /\ delivery'[e].decision = row'.status
                <5>1. \A e \in Told("ok") \cup Told("duplicate") : e \in Deliveries
                    BY DEF Told
                <5> QED BY <1>2, <1>3, <4>1, <4>2, <4>3, <5>1
            <4>5. \A e \in Told("decision_conflict")' :
                      row'.status \notin {"pending", delivery'[e].decision}
                <5>1. \A e \in Told("decision_conflict") : e \in Deliveries
                    BY DEF Told
                <5> QED BY <4>1, <4>2, <4>3, <5>1
            <4> QED BY <1>4, <4>1, <4>2, <4>4, <4>5
        <3>2. CASE reply = "decision_conflict"
            BY <1>1, <1>2, <1>3, <1>4, <3>2 DEF Told
        <3> QED BY <1>7, <3>1, <3>2
    <2>2. row_lock' = row_lock
        BY <1>1, <1>7
    <2>3. RowLockExact'
        BY <1>2, <1>3, <1>5, <1>7, <2>2 DEF RowLockExact
    <2> QED BY <2>1, <2>3
<1> QED BY <1>6, <1>7

\* The decision: the row was pending, so nobody has been told "ok" or "duplicate".
LEMMA DecideKeeps ==
    ASSUME ApprovalInv, NEW d \in Deliveries, Decide(d) PROVE ApprovalInv'
<1> USE DEF ApprovalInv, DecidedOnce
<1>1. PICK reply \in {"expired", "superseded", "ok"} :
          /\ Answer(d, reply)
          /\ reply # "ok" => UNCHANGED <<row, outbox>>
          /\ reply = "ok" =>
                /\ row' = [row EXCEPT !.status = delivery[d].decision]
                /\ outbox' = IF delivery[d].decision = "approved" THEN outbox + 1 ELSE outbox
    BY DEF Decide, ApprovalTypeOK
<1>2. /\ \A e \in Deliveries : e # d => delivery'[e] = delivery[e]
      /\ delivery'[d].at = reply
      /\ delivery'[d].valid = delivery[d].valid
      /\ delivery'[d].decision = delivery[d].decision
      /\ delivery'[d].known = delivery[d].known
      /\ delivery' \in [Deliveries -> Callbacks]
    BY <1>1, CallbackAnswered DEF Replies
<1>3. /\ delivery[d].at = "deciding" /\ row_lock = d /\ row_lock' = NoDelivery
      /\ row.status = "pending" /\ outbox = 0
      /\ delivery[d].valid /\ delivery[d].known
      /\ delivery[d].decision \in {"approved", "rejected"}
    BY DEF Decide, Unlock, RowLockExact, ApprovalTypeOK, Callbacks
<1>4. \A e \in Deliveries : /\ delivery[e].at \notin {"ok", "duplicate", "decision_conflict"}
                            /\ e # d => delivery[e].at # "deciding"
    BY <1>3 DEF RowLockExact, Told, ApprovalTypeOK, Callbacks
<1>5. /\ reply = "ok" => /\ row'.status = delivery[d].decision
                         /\ outbox' = IF delivery[d].decision = "approved" THEN 1 ELSE 0
      /\ reply # "ok" => row' = row /\ outbox' = 0
      /\ row' \in Rows
    BY <1>1, <1>3 DEF ApprovalTypeOK, Rows
<1>6. ApprovalTypeOK'
    BY <1>2, <1>3, <1>5 DEF ApprovalTypeOK
<1>7. DecidedOnce'
    BY <1>2, <1>3, <1>4, <1>5, <1>6, ZenonT(60) DEF Told
<1>8. RowLockExact'
    BY <1>2, <1>3, <1>4, ApprovalAssumption DEF RowLockExact
<1> QED BY <1>7, <1>8

\* A failure gives the lock back.
LEMMA RedeliveredKeeps ==
    ASSUME ApprovalInv, NEW d \in Deliveries, Redelivered(d) PROVE ApprovalInv'
<1> USE DEF ApprovalInv, DecidedOnce
<1>1. Answer(d, "begun") /\ UNCHANGED <<row, outbox>>
    BY DEF Redelivered
<1>2. /\ \A e \in Deliveries : e # d => delivery'[e] = delivery[e]
      /\ delivery'[d].at = "begun"
      /\ delivery'[d].valid = delivery[d].valid
      /\ delivery'[d].decision = delivery[d].decision
      /\ delivery'[d].known = delivery[d].known
      /\ delivery' \in [Deliveries -> Callbacks]
    BY <1>1, CallbackAnswered
<1>3. delivery[d].valid /\ delivery[d].decision # "none"
    <2>1. CASE delivery[d].at = "deciding"
        BY <2>1 DEF RowLockExact
    <2>2. CASE delivery[d].at \in {"ok", "duplicate"}
        BY <2>2 DEF Told, ApprovalTypeOK, Rows
    <2> QED BY <2>1, <2>2 DEF Redelivered
<1>4. row_lock' = IF row_lock = d THEN NoDelivery ELSE row_lock
    BY DEF Redelivered, Unlock
<1>5. ApprovalTypeOK'
    BY <1>1, <1>2, <1>4 DEF ApprovalTypeOK
<1>6. DecidedOnce'
    BY <1>1, <1>2, <1>5 DEF Told
<1>7. RowLockExact'
    <2> SUFFICES ASSUME NEW e \in Deliveries
                 PROVE  /\ delivery'[e].at = "deciding" <=> row_lock' = e
                        /\ delivery'[e].at = "deciding" => row'.status = "pending"
                        /\ delivery'[e].at \in {"begun", "deciding"} =>
                              delivery'[e].valid /\ delivery'[e].decision # "none"
                        /\ delivery'[e].at = "deciding" => delivery'[e].known
        BY DEF RowLockExact
    <2>1. CASE e = d
        BY <1>2, <1>3, <1>4, <2>1, ApprovalAssumption
    <2>2. CASE e # d
        BY <1>1, <1>2, <1>4, <2>2, ApprovalAssumption DEF RowLockExact
    <2> QED BY <2>1, <2>2
<1> QED BY <1>6, <1>7

\* Every step keeps the invariant.
LEMMA ApprovalStep == ApprovalInv /\ [ApprovalNext]_approvalVars => ApprovalInv'
<1> SUFFICES ASSUME ApprovalInv, [ApprovalNext]_approvalVars PROVE ApprovalInv'
    OBVIOUS
<1>1. ASSUME NEW d \in Deliveries,
             Arrives(d) \/ FindNoRow(d) \/ GetForUpdate(d) \/ Decide(d) \/ Redelivered(d)
      PROVE  ApprovalInv'
    BY <1>1, ArrivesKeeps, FindNoRowKeeps, GetForUpdateKeeps, DecideKeeps, RedeliveredKeeps
<1>2. CASE Outdate
    <2>1. /\ row' \in Rows /\ UNCHANGED <<delivery, row_lock, outbox>>
          /\ \/ row'.status = row.status
             \/ row_lock = NoDelivery /\ row.status = "pending" /\ row'.status = "cancelled"
        BY <1>2 DEF Outdate, ApprovalInv, DecidedOnce, ApprovalTypeOK, Rows
    <2>2. CASE row'.status = row.status
        BY <2>1, <2>2 DEF ApprovalInv, DecidedOnce, ApprovalTypeOK, RowLockExact, Told
    <2>3. CASE row_lock = NoDelivery /\ row.status = "pending" /\ row'.status = "cancelled"
        <3>1. Told("ok") = {} /\ Told("duplicate") = {} /\ Told("decision_conflict") = {}
            BY <2>3 DEF ApprovalInv, DecidedOnce, ApprovalTypeOK, Callbacks, Told, RowLockExact
        <3>2. Told("ok")' = {} /\ Told("duplicate")' = {} /\ Told("decision_conflict")' = {}
            BY <2>1, <3>1 DEF Told
        <3>3. DecidedOnce'
            BY <2>1, <2>3, <3>2 DEF ApprovalInv, DecidedOnce, ApprovalTypeOK
        <3>4. RowLockExact'
            BY <2>1, <2>3, ApprovalAssumption DEF ApprovalInv, RowLockExact
        <3> QED BY <3>3, <3>4 DEF ApprovalInv
    <2> QED BY <2>1, <2>2, <2>3
<1>3. CASE UNCHANGED approvalVars
    BY <1>3 DEF approvalVars, ApprovalInv, DecidedOnce, ApprovalTypeOK, RowLockExact, Told
<1> QED BY <1>1, <1>2, <1>3 DEF ApprovalNext

\* One decision at most, its one intent, and no answer that says otherwise.
THEOREM OneDecision == ApprovalSpec => []DecidedOnce
<1>1. ApprovalInv => DecidedOnce
    BY DEF ApprovalInv
<1> QED BY <1>1, ApprovalBegins, ApprovalStep, PTL DEF ApprovalSpec

-----------------------------------------------------------------------------
(* SafeGeneration, for any number of calls.  Added to GatesHold: how far a *)
(* call is says which decisions it has.                                    *)

\* A call that goes on has no result and was let through by every gate behind it; one
\* that was stopped at the first gate has ended with that result.
GatesPassed ==
    \A c \in Calls :
        /\ result[c] # "none" => stage[c] = "end"
        /\ stage[c] \in {"start", "filter_input"} => inputDecision[c] = "none"
        /\ stage[c] \in {"generator", "filter_output"} => Passes(inputDecision[c])
        /\ stage[c] # "end" => outputDecision[c] = "none"
        /\ inputDecision[c] = "blocked" => result[c] = "blocked_input"
        /\ outputDecision[c] = "blocked" => result[c] = "blocked_output"
        /\ result[c] = "completed" => Passes(inputDecision[c]) /\ Passes(outputDecision[c])

SafetyInv == SafetyTypeOK /\ GatesPassed

\* No call has begun at first.
LEMMA SafetyBegins == SafetyInit => SafetyInv
BY DEF SafetyInit, SafetyIdle, SafetyInv, SafetyTypeOK, GatesPassed

\* What passes a gate was let through by it.
LEMMA SafetyImplies == SafetyInv => GatesHold
BY DEF SafetyInv, SafetyTypeOK, GatesPassed, GatesHold, OnlyAllowedPasses, BlockIsObeyed, Passes,
       LetThrough

\* Where a call goes from a point between two services.
LEMMA Proceeded ==
    ASSUME SafetyTypeOK, NEW c \in Calls, NEW service \in Services,
           NEW r \in Results, Proceed(c, service) \/ End(c, r)
    PROVE  /\ stage' \in [Calls -> {"start", "end"} \cup Services]
           /\ result' \in [Calls -> {"none"} \cup Results]
           /\ \A e \in Calls : e # c => stage'[e] = stage[e] /\ result'[e] = result[e]
           /\ \/ stage'[c] = service /\ result'[c] = result[c] /\ ~signal
              \/ stage'[c] = "end" /\ result'[c] \in {"cancelled", r}
BY DEF Proceed, Await, End, SafetyTypeOK, Results, Failures

\* A call begins.
LEMMA CallKeeps ==
    ASSUME SafetyInv, NEW c \in Calls, NEW blank \in BOOLEAN, Call(c, blank)
    PROVE  SafetyInv'
<1> USE DEF SafetyInv
<1>1. "filter_input" \in Services /\ "invalid_input" \in Results
    BY DEF Services, Results, Failures
<1>2. /\ stage' \in [Calls -> {"start", "end"} \cup Services]
      /\ result' \in [Calls -> {"none"} \cup Results]
      /\ \A e \in Calls : e # c => stage'[e] = stage[e] /\ result'[e] = result[e]
      /\ \/ stage'[c] = "filter_input" /\ result'[c] = result[c]
         \/ stage'[c] = "end" /\ result'[c] \in {"cancelled", "invalid_input"}
    BY <1>1, Proceeded DEF Call
<1>3. stage[c] = "start" /\ UNCHANGED <<inputDecision, outputDecision, signal, safety_lang>>
    BY DEF Call
<1>4. SafetyTypeOK'
    BY <1>2, <1>3 DEF SafetyTypeOK
<1>5. GatesPassed'
    BY <1>2, <1>3 DEF GatesPassed, Passes
<1> QED BY <1>4, <1>5

\* The classifier answers for the input: the call goes on only if the answer passes.
LEMMA ClassifyInputKeeps ==
    ASSUME SafetyInv, NEW c \in Calls, NEW d \in Decisions, ClassifyInput(c, d)
    PROVE  SafetyInv'
<1> USE DEF SafetyInv
<1>1. /\ "generator" \in Services
      /\ "threw" \in Results /\ "blocked_input" \in Results
    BY DEF Services, Results
<1>2. /\ stage' \in [Calls -> {"start", "end"} \cup Services]
      /\ result' \in [Calls -> {"none"} \cup Results]
      /\ \A e \in Calls : e # c => stage'[e] = stage[e] /\ result'[e] = result[e]
    BY <1>1, Proceeded DEF ClassifyInput
<1>3. \/ Throws(d) /\ stage'[c] = "end" /\ result'[c] \in {"cancelled", "threw"}
      \/ Blocks(d) /\ stage'[c] = "end" /\ result'[c] = "blocked_input"
      \/ Passes(d) /\ stage'[c] = "generator" /\ result'[c] = result[c]
      \/ Passes(d) /\ stage'[c] = "end" /\ result'[c] = "cancelled"
    BY DEF ClassifyInput, Proceed, Await, End, SafetyTypeOK
<1>4. /\ stage[c] = "filter_input" /\ UNCHANGED <<outputDecision, signal, safety_lang>>
      /\ inputDecision' \in [Calls -> {"none"} \cup Decisions]
      /\ inputDecision'[c] = d
      /\ \A e \in Calls : e # c => inputDecision'[e] = inputDecision[e]
    BY DEF ClassifyInput, SafetyTypeOK
<1>5. SafetyTypeOK'
    BY <1>2, <1>4 DEF SafetyTypeOK
<1>6. GatesPassed'
    BY <1>2, <1>3, <1>4 DEF GatesPassed, Passes, Blocks, Throws
<1> QED BY <1>5, <1>6

\* The model answers: the input keeps its decision.
LEMMA GenerateKeeps == ASSUME SafetyInv, NEW c \in Calls, Generate(c) PROVE SafetyInv'
<1> USE DEF SafetyInv
<1>1. "filter_output" \in Services /\ "cancelled" \in Results
    BY DEF Services, Results, Failures
<1>2. /\ stage' \in [Calls -> {"start", "end"} \cup Services]
      /\ result' \in [Calls -> {"none"} \cup Results]
      /\ \A e \in Calls : e # c => stage'[e] = stage[e] /\ result'[e] = result[e]
      /\ \/ stage'[c] = "filter_output" /\ result'[c] = result[c]
         \/ stage'[c] = "end" /\ result'[c] = "cancelled"
    BY <1>1, Proceeded DEF Generate
<1>3. stage[c] = "generator" /\ UNCHANGED <<inputDecision, outputDecision, signal, safety_lang>>
    BY DEF Generate
<1>4. SafetyTypeOK'
    BY <1>2, <1>3 DEF SafetyTypeOK
<1>5. GatesPassed'
    BY <1>2, <1>3 DEF GatesPassed, Passes
<1> QED BY <1>4, <1>5

\* The classifier answers for the output: it is returned only if the answer passes.
LEMMA ClassifyOutputKeeps ==
    ASSUME SafetyInv, NEW c \in Calls, NEW d \in Decisions, ClassifyOutput(c, d)
    PROVE  SafetyInv'
<1> USE DEF SafetyInv
<1>1. PICK r \in {"threw", "blocked_output", "completed"} :
          /\ End(c, r)
          /\ r = "completed" => Passes(d)
          /\ d = "blocked" => r = "blocked_output"
    BY DEF ClassifyOutput, Passes, Throws, Malformed
<1>2. /\ stage' \in [Calls -> {"start", "end"} \cup Services]
      /\ result' \in [Calls -> {"none"} \cup Results]
      /\ \A e \in Calls : e # c => stage'[e] = stage[e] /\ result'[e] = result[e]
      /\ stage'[c] = "end" /\ result'[c] = r
    BY <1>1 DEF End, SafetyTypeOK, Results
<1>3. /\ stage[c] = "filter_output" /\ UNCHANGED <<inputDecision, signal, safety_lang>>
      /\ outputDecision' \in [Calls -> {"none"} \cup Decisions]
      /\ outputDecision'[c] = d
      /\ \A e \in Calls : e # c => outputDecision'[e] = outputDecision[e]
    BY DEF ClassifyOutput, SafetyTypeOK
<1>4. SafetyTypeOK'
    BY <1>2, <1>3 DEF SafetyTypeOK
<1>5. GatesPassed'
    BY <1>1, <1>2, <1>3 DEF GatesPassed, Passes
<1> QED BY <1>4, <1>5

\* A call that fails or is cancelled while it awaits a service returns no text.
LEMMA StoppedKeeps ==
    ASSUME SafetyInv, NEW c \in Calls, ServiceFails(c) \/ CancelTask(c)
    PROVE  SafetyInv'
<1> USE DEF SafetyInv
<1>1. PICK r \in Failures : End(c, r)
    BY DEF ServiceFails, CancelTask, Fail, Failures
<1>2. /\ stage' \in [Calls -> {"start", "end"} \cup Services]
      /\ result' \in [Calls -> {"none"} \cup Results]
      /\ \A e \in Calls : e # c => stage'[e] = stage[e] /\ result'[e] = result[e]
      /\ stage'[c] = "end" /\ result'[c] = r
    BY <1>1 DEF End, SafetyTypeOK, Results
<1>3. stage[c] \in Services /\ UNCHANGED <<inputDecision, outputDecision, signal, safety_lang>>
    BY DEF ServiceFails, CancelTask, Services
<1>4. SafetyTypeOK'
    BY <1>2, <1>3 DEF SafetyTypeOK
<1>5. inputDecision[c] # "blocked" /\ outputDecision[c] # "blocked"
    BY <1>3 DEF GatesPassed, Passes, Services
<1>6. GatesPassed'
    BY <1>2, <1>3, <1>5 DEF GatesPassed, Passes, Services, Failures
<1> QED BY <1>4, <1>6

\* Every step keeps the invariant.
LEMMA SafetyStep == SafetyInv /\ [SafetyNext]_safetyVars => SafetyInv'
<1> SUFFICES ASSUME SafetyInv, [SafetyNext]_safetyVars PROVE SafetyInv'
    OBVIOUS
<1>1. CASE Abort \/ UNCHANGED safetyVars
    BY <1>1 DEF Abort, safetyVars, SafetyInv, SafetyTypeOK, GatesPassed, Passes
<1> QED BY <1>1, CallKeeps, ClassifyInputKeeps, GenerateKeeps, ClassifyOutputKeeps, StoppedKeeps
        DEF SafetyNext

\* The model never works on a blocked input (nor on one that no gate let through) and
\* no text is returned that a classifier did not let through.
THEOREM Gated == SafetySpec => []GatesHold
BY SafetyBegins, SafetyStep, SafetyImplies, PTL DEF SafetySpec

\* A step after the abort calls no service.
LEMMA StepAfterAbort ==
    ASSUME SafetyInv, SafetyNext, signal, NEW c \in Calls, stage'[c] \in Services
    PROVE  stage'[c] = stage[c]
<1>1. ASSUME NEW e \in Calls, NEW r, End(e, r) PROVE stage'[c] = stage[c]
    BY <1>1 DEF End, SafetyInv, SafetyTypeOK, Services
<1>2. ASSUME NEW e \in Calls, NEW service, Proceed(e, service) PROVE stage'[c] = stage[c]
    BY <1>1, <1>2 DEF Proceed
<1>3. ASSUME NEW e \in Calls, NEW blank \in BOOLEAN, Call(e, blank) PROVE stage'[c] = stage[c]
    BY <1>1, <1>2, <1>3 DEF Call
<1>4. ASSUME NEW e \in Calls, NEW d \in Decisions, ClassifyInput(e, d) \/ ClassifyOutput(e, d)
      PROVE  stage'[c] = stage[c]
    BY <1>1, <1>2, <1>4 DEF ClassifyInput, ClassifyOutput
<1>5. ASSUME NEW e \in Calls, Generate(e) \/ ServiceFails(e) \/ CancelTask(e)
      PROVE  stage'[c] = stage[c]
    BY <1>1, <1>2, <1>5 DEF Generate, ServiceFails, CancelTask, Fail
<1> QED BY <1>3, <1>4, <1>5 DEF SafetyNext, Abort

\* Once the caller has aborted, no call reaches another service.
THEOREM AbortIsObeyed == SafetySpec => NoCallAfterAbort
<1>1. SafetyInv /\ [SafetyNext]_safetyVars =>
          [signal => \A c \in Calls : stage'[c] \in Services => stage'[c] = stage[c]]_safetyVars
    BY StepAfterAbort
<1> QED BY <1>1, SafetyBegins, SafetyStep, PTL DEF SafetySpec, NoCallAfterAbort

-----------------------------------------------------------------------------
(* TicketRetry.  Added to TicketAtMostOnce: which attempts were sent, and  *)
(* what the answer that ended the loop was.                                *)

\* The only key there is has a ticket exactly if an attempt was accepted; the attempts up
\* to the current one were sent; and the call ended on the answer to the current one.
AttemptsSent ==
    /\ tickets \subseteq {0}
    /\ tickets # {} <=> \E n \in Attempts : request[n] \in {"ok", "erred"}
    /\ \A n \in Attempts : request[n] = "unsent" <=> n > attempt
    /\ call_at \in {"reading", "returned"} => request[attempt] = "ok"
    /\ call_at = "backoff" => attempt # 2
    /\ why = "fatal" => call_at = "raised" /\ request[attempt] = "fatal"
    /\ call_at \notin {"raised"} => why = "nothing"

TicketInv == TicketTypeOK /\ AttemptsSent

\* The first attempt is on its way.
LEMMA TicketBegins ==
    ASSUME TicketIdle, call_at \in {"idle", "waiting"} PROVE TicketInv
BY DEF TicketIdle, TicketInv, TicketTypeOK, AttemptsSent, Attempts

\* An accepted attempt other than the one refused is an earlier one.
LEMMA TicketImplies == TicketInv => TicketAtMostOnce
<1> SUFFICES ASSUME TicketInv PROVE TicketAtMostOnce
    OBVIOUS
<1> USE DEF TicketInv
<1>1. tickets = {} \/ tickets = {0}
    BY DEF AttemptsSent
<1>2. Cardinality(tickets) <= 1
    BY <1>1, FS_EmptySet, FS_Singleton
<1>3. call_at \in {"returned", "reading"} => tickets # {}
    BY DEF AttemptsSent, TicketTypeOK
<1>4. ASSUME why = "fatal", tickets # {}
      PROVE  \E n \in 0..attempt - 1 : request[n] \in {"ok", "erred"}
    <2>1. PICK n \in Attempts : request[n] \in {"ok", "erred"}
        BY <1>4 DEF AttemptsSent
    <2>2. n \in 0..attempt - 1
        BY <1>4, <2>1 DEF AttemptsSent, TicketTypeOK, Attempts
    <2> QED BY <2>1, <2>2
<1> QED BY <1>2, <1>3, <1>4 DEF TicketAtMostOnce

\* The service takes up a request that was sent.
LEMMA ServiceActsKeeps == ASSUME TicketInv, NEW n \in Attempts, ServiceActs(n) PROVE TicketInv'
<1> USE DEF TicketInv
<1>1. /\ request[n] = "sent"
      /\ UNCHANGED <<ticket_lang, attempt, call_at, why>>
      /\ tickets \subseteq {0}
    BY DEF ServiceActs, AttemptsSent
<1>2. PICK s \in {"ok", "erred", "fatal", "retryable"} :
          /\ request' = [request EXCEPT ![n] = s]
          /\ IF s \in {"ok", "erred"} THEN tickets' = tickets \cup {0} ELSE tickets' = tickets
    BY DEF ServiceActs, KeyOf
<1>3. /\ request' \in [Attempts -> {"unsent", "sent", "lost", "ok", "erred", "fatal", "retryable"}]
      /\ \A i \in Attempts : request'[i] = IF i = n THEN s ELSE request[i]
    BY <1>2 DEF TicketTypeOK
<1>4. TicketTypeOK'
    BY <1>1, <1>3 DEF TicketTypeOK
<1>5. tickets' \subseteq {0} /\ (tickets' # {} <=> \E i \in Attempts : request'[i] \in {"ok", "erred"})
    BY <1>1, <1>2, <1>3 DEF AttemptsSent
<1>6. attempt \in Attempts
    BY DEF TicketTypeOK
<1>7. AttemptsSent'
    BY <1>1, <1>2, <1>3, <1>5, <1>6 DEF AttemptsSent
<1> QED BY <1>4, <1>7

\* The loop takes an answer, or goes without.
LEMMA AnswerKeeps ==
    ASSUME TicketInv, ResponseArrives \/ BodyRead PROVE TicketInv'
BY DEF ResponseArrives, BodyRead, RetryOrRaise, Raise, TicketInv, TicketTypeOK, AttemptsSent

\* The timeout, or a transport error.
LEMMA AttemptFailsKeeps == ASSUME TicketInv, AttemptFails PROVE TicketInv'
<1> USE DEF TicketInv
<1>1. /\ call_at = "waiting" /\ UNCHANGED <<ticket_lang, attempt, tickets>>
      /\ IF attempt = 2 THEN call_at' = "raised" /\ why' = "unknown"
                        ELSE call_at' = "backoff" /\ why' = why
    BY DEF AttemptFails, RetryOrRaise, Raise
<1>2. CASE UNCHANGED request
    BY <1>1, <1>2 DEF TicketTypeOK, AttemptsSent
<1>3. CASE request[attempt] = "sent" /\ request' = [request EXCEPT ![attempt] = "lost"]
    <2>1. /\ request' \in [Attempts -> {"unsent", "sent", "lost", "ok", "erred", "fatal", "retryable"}]
          /\ \A i \in Attempts : request'[i] = IF i = attempt THEN "lost" ELSE request[i]
          /\ attempt \in Attempts
        BY <1>3 DEF TicketTypeOK
    <2>2. TicketTypeOK'
        BY <1>1, <2>1 DEF TicketTypeOK
    <2>3. AttemptsSent'
        BY <1>1, <1>3, <2>1 DEF AttemptsSent
    <2> QED BY <2>2, <2>3
<1> QED BY <1>2, <1>3 DEF AttemptFails

\* The next attempt is sent.
LEMMA RetryKeeps == ASSUME TicketInv, Retry PROVE TicketInv'
<1> USE DEF TicketInv
<1>1. /\ call_at = "backoff" /\ call_at' = "waiting" /\ attempt' = attempt + 1
      /\ UNCHANGED <<ticket_lang, why, tickets>>
      /\ attempt \in Attempts /\ attempt # 2
    BY DEF Retry, TicketTypeOK, AttemptsSent
<1>2. attempt' \in Attempts
    BY <1>1 DEF Attempts
<1>3. /\ request' \in [Attempts -> {"unsent", "sent", "lost", "ok", "erred", "fatal", "retryable"}]
      /\ \A i \in Attempts : request'[i] = IF i = attempt' THEN "sent" ELSE request[i]
      /\ request[attempt'] = "unsent"
    BY <1>1, <1>2 DEF Retry, TicketTypeOK, AttemptsSent, Attempts
<1>4. TicketTypeOK'
    BY <1>1, <1>2, <1>3 DEF TicketTypeOK
<1>5. \A i \in Attempts : request'[i] = "unsent" <=> i > attempt'
    BY <1>1, <1>3 DEF AttemptsSent, Attempts
<1>6. AttemptsSent'
    BY <1>1, <1>2, <1>3, <1>5 DEF AttemptsSent
<1> QED BY <1>4, <1>6

\* Every step keeps the invariant.
LEMMA TicketStep == TicketInv /\ [TicketNext]_ticketVars => TicketInv'
<1> SUFFICES ASSUME TicketInv, [TicketNext]_ticketVars PROVE TicketInv'
    OBVIOUS
<1>1. CASE UNCHANGED ticketVars
    BY <1>1 DEF ticketVars, TicketInv, TicketTypeOK, AttemptsSent
<1> QED BY <1>1, ServiceActsKeeps, AnswerKeeps, AttemptFailsKeeps, RetryKeeps DEF TicketNext

\* A call makes one ticket at most, and says so.
THEOREM OneTicket == TicketSpec => []TicketAtMostOnce
<1>1. TicketInit => TicketInv
    BY TicketBegins DEF TicketInit
<1> QED BY <1>1, TicketStep, TicketImplies, PTL DEF TicketSpec

-----------------------------------------------------------------------------
(* The four protocols in the module TLC runs.                              *)

\* Every protocol keeps its promise, whichever of them a behaviour is about.
THEOREM ExamplesAreSafe ==
    Spec => [](OneParseInFlight /\ TicketAtMostOnce /\ DecidedOnce /\ GatesHold)
<1> DEFINE AllInv == OneParseInFlight /\ TicketInv /\ ApprovalInv /\ SafetyInv
<1>1. Init => AllInv
    <2>1. Init => FlightInit /\ TicketInv /\ ApprovalIdle /\ SafetyInit
        BY TicketBegins DEF Init, NoFlight, NoTicket, NoSafety, FlightInit, TicketInit, SafetyInit
    <2> QED BY <2>1, FlightBegins, ApprovalBegins, SafetyBegins
<1>2. AllInv /\ [Next]_vars => AllInv'
    <2>1. [Next]_vars => /\ [FlightNext]_flightVars /\ [TicketNext]_ticketVars
                         /\ [ApprovalNext]_approvalVars /\ [SafetyNext]_safetyVars
        BY DEF Next, vars
    <2> QED BY <2>1, FlightStep, TicketStep, ApprovalStep, SafetyStep
<1>3. AllInv => OneParseInFlight /\ TicketAtMostOnce /\ DecidedOnce /\ GatesHold
    BY TicketImplies, SafetyImplies DEF ApprovalInv
<1> QED BY <1>1, <1>2, <1>3, PTL DEF Spec

-----------------------------------------------------------------------------
(* FirstAndLastMatch.  Each loop keeps a boundary on either side: what lies *)
(* below left and above right has been decided.  The middle of answer.py   *)
(* may lie below left, where all is decided, and moves a boundary back     *)
(* without harm.                                                           *)

Indices == 0..Len(values) - 1

SearchTypes ==
    /\ lang \in {"py", "ts"}
    /\ values \in Lists
    /\ target \in Int
    /\ pc \in {"first", "last", "done"}
    /\ left \in Nat
    /\ right \in Int /\ right < Len(values)
    /\ match \in Indices \cup {-1}
    /\ first \in Indices \cup {-1}

\* A place that has been found is one.
Matches == match # -1 => values[match + 1] = target

\* first_search(): the places of target are found or not below left, and none above
\* right is before the one found.
FirstBounds ==
    /\ \A i \in Indices : i < left => values[i + 1] < target
    /\ \A i \in Indices : i > right /\ values[i + 1] = target => match # -1 /\ match <= i

\* last_search(): the other way round.
LastBounds ==
    /\ \A i \in Indices : i > right => values[i + 1] > target
    /\ \A i \in Indices : i < left /\ values[i + 1] = target => i <= match

FirstExact == IF Places = {} THEN first = -1
              ELSE first \in Places /\ \A i \in Places : first <= i

\* The inductive invariant.
SearchInv ==
    /\ SearchTypes
    /\ pc \in {"first", "last"} => Matches
    /\ pc = "first" => FirstBounds
    /\ pc = "last" => LastBounds /\ FirstExact
    /\ SearchIsExact

\* The lists are sorted.
LEMMA Sortedness ==
    ASSUME SearchTypes
    PROVE  /\ values \in Seq(Int)
           /\ Len(values) \in Nat
           /\ \A i, j \in Indices : i <= j => values[i + 1] <= values[j + 1]
           /\ \A i \in Indices : values[i + 1] \in Int
<1>1. values \in Seq(Int) /\ Nondecreasing(values)
    BY SearchAssumption DEF SearchTypes
<1>2. Len(values) \in Nat
    BY <1>1
<1>3. ASSUME NEW i \in Indices, NEW j \in Indices, i <= j
      PROVE  values[i + 1] <= values[j + 1]
    <2>1. i + 1 \in 1..Len(values) /\ j + 1 \in 1..Len(values) /\ i + 1 <= j + 1
        BY <1>2, <1>3 DEF Indices
    <2> QED BY <2>1, <1>1 DEF Nondecreasing
<1>4. ASSUME NEW i \in Indices PROVE values[i + 1] \in Int
    <2>1. i + 1 \in 1..Len(values)
        BY <1>2 DEF Indices
    <2> QED BY <2>1, <1>1
<1> QED BY <1>1, <1>2, <1>3, <1>4

\* The middle of a loop that goes on is a place of the list, in both languages.
LEMMA MidIsIndex ==
    ASSUME SearchTypes, left <= right
    PROVE  Mid \in Indices /\ Mid <= right
<1>1. Len(values) \in Nat /\ left \in Nat /\ right \in Int /\ right < Len(values)
    BY Sortedness DEF SearchTypes
<1>2. /\ 0 <= (right - left) \div 2
      /\ (right - left) \div 2 <= right - left
      /\ (right - left) \div 2 \in Int
    BY <1>1
<1> QED BY <1>1, <1>2 DEF Mid, Indices

\* The loops begin with nothing decided.
LEMMA SearchBegins == SearchInit => SearchInv
<1> SUFFICES ASSUME SearchInit PROVE SearchInv
    OBVIOUS
<1>1. values \in Seq(Int) /\ target \in Int
    BY SearchAssumption DEF SearchInit
<1>2. SearchTypes
    BY <1>1 DEF SearchInit, SearchTypes
<1>3. Matches /\ FirstBounds
    BY <1>1 DEF SearchInit, Matches, FirstBounds, Indices
<1> QED BY <1>2, <1>3 DEF SearchInit, SearchInv, SearchIsExact

\* A turn of a loop keeps the boundaries.
LEMMA TurnKeeps ==
    ASSUME SearchInv, Turn
    PROVE  SearchInv'
<1> USE DEF SearchInv
<1>1. SearchTypes /\ Matches /\ pc \in {"first", "last"} /\ left <= right
    BY DEF Turn, SearchTypes
<1>2. /\ Mid \in Indices /\ Mid <= right /\ Len(values) \in Nat
      /\ \A i \in Indices : values[i + 1] \in Int
      /\ \A i, j \in Indices : i <= j => values[i + 1] <= values[j + 1]
    BY <1>1, MidIsIndex, Sortedness
<1>3. /\ UNCHANGED <<lang, values, target, pc, first>>
      /\ Indices' = Indices /\ Places' = Places
    BY DEF Turn, Indices, Places
<1>4. FirstExact' = FirstExact /\ SearchIsExact'
    BY <1>1, <1>3 DEF FirstExact, SearchIsExact
<1>5. CASE Hit
    <2>1. values[Mid + 1] = target /\ match' = Mid
        BY <1>5 DEF Hit
    <2>2. Matches'
        BY <2>1, <1>3 DEF Matches
    <2>3. CASE pc = "first"
        <3>1. right' = Mid - 1 /\ left' = left
            BY <2>3, <1>5 DEF Hit
        <3>2. SearchTypes'
            BY <1>1, <1>2, <1>3, <2>1, <3>1 DEF SearchTypes, Indices
        <3>3. FirstBounds'
            BY <1>1, <1>2, <1>3, <2>1, <2>3, <3>1 DEF FirstBounds, Indices, SearchTypes
        <3> QED BY <2>2, <2>3, <3>2, <3>3, <1>3, <1>4
    <2>4. CASE pc = "last"
        <3>1. left' = Mid + 1 /\ right' = right
            BY <2>4, <1>5 DEF Hit
        <3>2. SearchTypes'
            BY <1>1, <1>2, <1>3, <2>1, <3>1 DEF SearchTypes, Indices
        <3>3. LastBounds'
            BY <1>1, <1>2, <1>3, <2>1, <2>4, <3>1 DEF LastBounds, Indices, SearchTypes
        <3> QED BY <2>2, <2>4, <3>2, <3>3, <1>3, <1>4
    <2> QED BY <2>3, <2>4, <1>1
<1>6. CASE Pass
    <2>1. match' = match /\ Matches'
        BY <1>1, <1>3, <1>6 DEF Pass, Matches
    <2>2. CASE values[Mid + 1] < target
        <3>1. left' = Mid + 1 /\ right' = right
            BY <2>2, <1>6 DEF Pass
        <3>2. SearchTypes'
            BY <1>1, <1>2, <1>3, <2>1, <3>1 DEF SearchTypes, Indices
        <3>3. \A i \in Indices : i < left' => values[i + 1] < target
            BY <1>1, <1>2, <2>2, <3>1 DEF Indices, SearchTypes
        <3>4. pc = "first" => FirstBounds'
            BY <1>3, <2>1, <3>1, <3>3 DEF FirstBounds
        <3>5. pc = "last" => LastBounds'
            BY <1>1, <1>2, <1>3, <2>1, <3>1, <3>3 DEF LastBounds, SearchTypes
        <3> QED BY <2>1, <3>2, <3>4, <3>5, <1>1, <1>3, <1>4
    <2>3. CASE values[Mid + 1] > target
        <3>1. right' = Mid - 1 /\ left' = left
            BY <2>3, <1>1, <1>2, <1>6 DEF Pass, SearchTypes
        <3>2. SearchTypes'
            BY <1>1, <1>2, <1>3, <2>1, <3>1 DEF SearchTypes, Indices
        <3>3. \A i \in Indices : i > right' => values[i + 1] > target
            BY <1>1, <1>2, <2>3, <3>1 DEF Indices, SearchTypes
        <3>4. pc = "first" => FirstBounds'
            BY <1>1, <1>2, <1>3, <2>1, <3>1, <3>3 DEF FirstBounds, SearchTypes
        <3>5. pc = "last" => LastBounds'
            BY <1>3, <2>1, <3>1, <3>3 DEF LastBounds
        <3> QED BY <2>1, <3>2, <3>4, <3>5, <1>1, <1>3, <1>4
    <2> QED BY <2>2, <2>3, <1>1, <1>2, <1>6 DEF Pass, SearchTypes
<1> QED BY <1>5, <1>6 DEF Turn

\* When the boundaries have met, every place is decided.
LEMMA FirstReturnsKeeps ==
    ASSUME SearchInv, FirstReturns
    PROVE  SearchInv'
<1> USE DEF SearchInv
<1>1. SearchTypes /\ Matches /\ FirstBounds /\ left > right /\ pc = "first"
    BY DEF FirstReturns
<1>2. Len(values) \in Nat /\ \A i \in Indices : values[i + 1] \in Int
    BY <1>1, Sortedness
<1>3. IF Places = {} THEN match = -1 ELSE match \in Places /\ \A i \in Places : match <= i
    <2>1. \A i \in Places : i \in Indices /\ values[i + 1] = target
        BY DEF Places, Indices
    <2>2. match # -1 => match \in Places
        BY <1>1 DEF Places, Indices, Matches, SearchTypes
    <2>3. \A i \in Places : ~(i < left)
        BY <1>1, <1>2, <2>1 DEF FirstBounds, SearchTypes
    <2>4. \A i \in Places : i > right
        BY <1>1, <1>2, <2>1, <2>3 DEF SearchTypes, Indices
    <2>5. \A i \in Places : match # -1 /\ match <= i
        BY <1>1, <2>1, <2>4 DEF FirstBounds
    <2> QED BY <2>2, <2>5
<1>4. /\ pc' = "last" /\ first' = match /\ match' = -1
      /\ left' = 0 /\ right' = Len(values) - 1
      /\ UNCHANGED <<lang, values, target>>
      /\ Places' = Places /\ Indices' = Indices
    BY DEF FirstReturns, Places, Indices
<1>5. SearchTypes' /\ Matches'
    BY <1>1, <1>2, <1>4 DEF SearchTypes, Matches
<1>6. LastBounds'
    BY <1>2, <1>4 DEF LastBounds, Indices
<1>7. FirstExact'
    BY <1>3, <1>4 DEF FirstExact
<1> QED BY <1>4, <1>5, <1>6, <1>7 DEF SearchIsExact

\* The search for the last place returns.
LEMMA LastReturnsKeeps ==
    ASSUME SearchInv, LastReturns
    PROVE  SearchInv'
<1> USE DEF SearchInv
<1>1. /\ SearchTypes /\ Matches /\ LastBounds /\ FirstExact
      /\ left > right /\ pc = "last"
    BY DEF LastReturns
<1>2. Len(values) \in Nat /\ \A i \in Indices : values[i + 1] \in Int
    BY <1>1, Sortedness
<1>3. IF Places = {} THEN match = -1 ELSE match \in Places /\ \A i \in Places : i <= match
    <2>1. \A i \in Places : i \in Indices /\ values[i + 1] = target
        BY DEF Places, Indices
    <2>2. match # -1 => match \in Places
        BY <1>1 DEF Places, Indices, Matches, SearchTypes
    <2>3. \A i \in Places : ~(i > right)
        BY <1>1, <1>2, <2>1 DEF LastBounds, SearchTypes
    <2>4. \A i \in Places : i < left
        BY <1>1, <1>2, <2>1, <2>3 DEF SearchTypes, Indices
    <2>5. \A i \in Places : i <= match /\ match # -1
        BY <1>1, <1>2, <2>1, <2>4 DEF LastBounds, SearchTypes, Indices
    <2> QED BY <2>2, <2>5
<1>4. pc' = "done" /\ UNCHANGED <<lang, values, target, left, right, match, first>>
    BY DEF LastReturns
<1>5. SearchTypes'
    BY <1>1, <1>4 DEF SearchTypes, Indices
<1>6. SearchIsExact'
    BY <1>1, <1>3, <1>4 DEF SearchIsExact, FirstExact, Places
<1> QED BY <1>4, <1>5, <1>6

\* Every pair that firstAndLastMatch() returns is exact: the first and the last place
\* of target in the sorted list, or -1 twice -- in answer.ts, and in answer.py, whose
\* middle is computed without left, whenever its loops end.
THEOREM SearchCorrect == SearchSpec => []SearchIsExact
<1>1. SearchInit => SearchInv
    BY SearchBegins
<1>2. SearchInv /\ [SearchNext]_searchVars => SearchInv'
    <2> SUFFICES ASSUME SearchInv, [SearchNext]_searchVars PROVE SearchInv'
        OBVIOUS
    <2>1. CASE Turn
        BY <2>1, TurnKeeps
    <2>2. CASE FirstReturns
        BY <2>2, FirstReturnsKeeps
    <2>3. CASE LastReturns
        BY <2>3, LastReturnsKeeps
    <2>4. CASE UNCHANGED searchVars
        BY <2>4 DEF searchVars, SearchInv, SearchTypes, Indices, Matches, FirstBounds, LastBounds,
                    FirstExact, Places, SearchIsExact
    <2> QED BY <2>1, <2>2, <2>3, <2>4 DEF SearchNext
<1>3. SearchInv => SearchIsExact
    BY DEF SearchInv
<1> QED BY <1>1, <1>2, <1>3, PTL DEF SearchSpec

-----------------------------------------------------------------------------
(* ModelRouter.  A tuple is compared place by place, which is what          *)
(* narrowing by one preference after the other amounts to; no two ids have  *)
(* the same rank, so that what is left of the narrowing is one id.          *)

\* A set of numbers that is not empty has a least element.
LEMMA LeastNumber ==
    ASSUME NEW N \in SUBSET Nat, N # {}
    PROVE  \E n \in N : \A k \in N : n <= k
<1> DEFINE R == OpToRel(<, Nat)
<1>1. R = {p \in Nat \X Nat : p[1] < p[2]}
    BY DEF OpToRel
<1>2. IsWellFoundedOn(R, Nat)
    BY NatLessThanWellFounded
<1>3. PICK n \in N : \A k \in N : ~(<<k, n>> \in R)
    <2> HIDE DEF R
    <2> QED BY <1>2, WFMin
<1>4. ASSUME NEW k \in N PROVE n <= k
    <2>1. <<k, n>> \notin R /\ <<k, n>> \in Nat \X Nat
        BY <1>3
    <2>2. ~(k < n)
        <3> HIDE DEF R
        <3> QED BY <1>1, <2>1
    <2> QED BY <2>2
<1> QED BY <1>4

\* An integer function of a finite set has a smallest value.
LEMMA SmallestValue ==
    ASSUME NEW S, IsFiniteSet(S), S # {}, NEW f \in [S -> Int]
    PROVE  \E m \in S : \A o \in S : f[m] <= f[o]
<1> DEFINE Under(m) == {o \in S : f[o] < f[m]}
           N == {Cardinality(Under(m)) : m \in S}
<1>1. \A m \in S : Under(m) \in SUBSET S
    OBVIOUS
<1>2. \A m \in S : IsFiniteSet(Under(m)) /\ Cardinality(Under(m)) \in Nat
    BY <1>1, FS_Subset, FS_CardinalityType
<1>3. \A m \in S, o \in S : f[o] < f[m] => Cardinality(Under(o)) < Cardinality(Under(m))
    <2> SUFFICES ASSUME NEW m \in S, NEW o \in S, f[o] < f[m]
                 PROVE  Cardinality(Under(o)) < Cardinality(Under(m))
        OBVIOUS
    <2>1. f[o] \in Int /\ f[m] \in Int
        OBVIOUS
    <2>2. Under(o) \in SUBSET Under(m)
        <3>1. ASSUME NEW k \in S, f[k] < f[o] PROVE f[k] < f[m]
            <4>1. f[k] \in Int
                OBVIOUS
            <4> QED BY <2>1, <3>1, <4>1
        <3> QED BY <3>1
    <2>3. o \in Under(m) /\ o \notin Under(o)
        BY <2>1
    <2>4. IsFiniteSet(Under(m)) /\ Under(o) # Under(m)
        BY <1>2, <2>3
    <2> HIDE DEF Under
    <2> QED BY <1>2, <2>2, <2>4, FS_Subset
<1>4. N \in SUBSET Nat /\ N # {}
    BY <1>2
<1>5. PICK n \in N : \A k \in N : n <= k
    <2> HIDE DEF N
    <2> QED BY <1>4, LeastNumber
<1>6. PICK m \in S : n = Cardinality(Under(m))
    OBVIOUS
<1>7. ASSUME NEW o \in S PROVE f[m] <= f[o]
    <2>1. f[o] \in Int /\ f[m] \in Int
        OBVIOUS
    <2>2. CASE f[o] < f[m]
        <3>1. Cardinality(Under(o)) < n /\ Cardinality(Under(o)) \in N
            BY <1>3, <1>6, <2>2
        <3>2. n <= Cardinality(Under(o)) /\ n \in Nat /\ Cardinality(Under(o)) \in Nat
            <4> HIDE DEF N, Under
            <4> QED BY <1>4, <1>5, <3>1
        <3> HIDE DEF Under
        <3> QED BY <3>1, <3>2
    <2> QED BY <2>1, <2>2
<1> QED BY <1>7

\* How good a model is by a preference is a number.
LEMMA DemeritIsInt ==
    ASSUME NEW model, IsModel(model), NEW preference \in Preferences
    PROVE  Demerit(preference, model) \in Int
BY DEF Demerit, IsModel, Preferences

\* A preference leaves at least one of a set of models.
LEMMA FinestLeaves ==
    ASSUME NEW models, IsFiniteSet(models), models # {}, \A m \in models : IsModel(m),
           NEW preference \in Preferences
    PROVE  /\ Finest(models, preference) \in SUBSET models
           /\ IsFiniteSet(Finest(models, preference))
           /\ Finest(models, preference) # {}
<1> DEFINE f == [m \in models |-> Demerit(preference, m)]
<1>1. f \in [models -> Int]
    BY DemeritIsInt
<1>2. PICK m \in models : \A o \in models : f[m] <= f[o]
    <2> HIDE DEF f
    <2> QED BY <1>1, SmallestValue
<1>3. m \in Finest(models, preference)
    BY <1>2 DEF Finest
<1>4. Finest(models, preference) \in SUBSET models
    BY DEF Finest
<1> QED BY <1>3, <1>4, FS_Subset

\* The orders accepted are those of RoutesBest.
LEMMA PolicyIsPermutation ==
    ASSUME NEW order \in Seq(STRING)
    PROVE  /\ ValidPolicy(order) <=> order \in SetToSeqs(Preferences)
           /\ ValidPolicy(order) => /\ DOMAIN order = 1..3
                                    /\ \A i \in 1..3 : order[i] \in Preferences
<1>1. Cardinality(Preferences) = 3
    <2>1. IsFiniteSet({}) /\ Cardinality({}) = 0
        BY FS_EmptySet
    <2>2. IsFiniteSet({"quality"}) /\ Cardinality({"quality"}) = 1
        BY FS_Singleton
    <2>3. /\ IsFiniteSet({"quality"} \cup {"cost"})
          /\ Cardinality({"quality"} \cup {"cost"}) = 2
        <3>1. "cost" \notin {"quality"} /\ 1 + 1 = 2
            OBVIOUS
        <3>2. Cardinality({"quality"} \cup {"cost"}) = Cardinality({"quality"}) + 1
            BY <2>2, <3>1, FS_AddElement
        <3> QED BY <2>2, <3>1, <3>2, FS_AddElement
    <2>4. ({"quality"} \cup {"cost"}) \cup {"latency"} = Preferences
        BY DEF Preferences
    <2>5. "latency" \notin {"quality"} \cup {"cost"} /\ 2 + 1 = 3
        OBVIOUS
    <2>6. Cardinality(({"quality"} \cup {"cost"}) \cup {"latency"})
            = Cardinality({"quality"} \cup {"cost"}) + 1
        BY <2>3, <2>5, FS_AddElement
    <2> QED BY <2>3, <2>4, <2>5, <2>6
<1>2. order \in SetToSeqs(Preferences) <=>
        /\ DOMAIN order = 1..3
        /\ \A i \in 1..3 : order[i] \in Preferences
        /\ order[1] # order[2] /\ order[1] # order[3] /\ order[2] # order[3]
    <2>1. order \in SetToSeqs(Preferences) <=>
            /\ order \in [1..3 -> Preferences]
            /\ \A i, j \in 1..3 : i # j => order[i] # order[j]
        BY <1>1 DEF SetToSeqs
    <2>2. order \in [1..3 -> Preferences] <=>
            DOMAIN order = 1..3 /\ \A i \in 1..3 : order[i] \in Preferences
        <3>1. order = [i \in DOMAIN order |-> order[i]]
            OBVIOUS
        <3> QED BY <3>1
    <2>3. (\A i, j \in 1..3 : i # j => order[i] # order[j]) <=>
            order[1] # order[2] /\ order[1] # order[3] /\ order[2] # order[3]
        OBVIOUS
    <2> QED BY <2>1, <2>2, <2>3
<1>3. ValidPolicy(order) <=>
        /\ DOMAIN order = 1..3
        /\ {order[1], order[2], order[3]} = Preferences
    <2>1. DOMAIN order = 1..3 <=> Len(order) = 3
        <3>1. Len(order) \in Nat /\ DOMAIN order = 1..Len(order)
            OBVIOUS
        <3>2. ASSUME 1..Len(order) = 1..3 PROVE Len(order) = 3
            <4>1. 3 \in 1..Len(order)
                BY <3>2
            <4>2. Len(order) \in 1..Len(order)
                BY <3>1, <4>1
            <4> QED BY <3>1, <3>2, <4>1, <4>2
        <3> QED BY <3>1, <3>2
    <2>2. ASSUME DOMAIN order = 1..3 PROVE ToSet(order) = {order[1], order[2], order[3]}
        BY <2>2 DEF ToSet
    <2> QED BY <2>1, <2>2 DEF ValidPolicy
<1>4. {order[1], order[2], order[3]} = Preferences <=>
        /\ \A i \in 1..3 : order[i] \in Preferences
        /\ order[1] # order[2] /\ order[1] # order[3] /\ order[2] # order[3]
    <2> DEFINE a == order[1]
               b == order[2]
               c == order[3]
    <2>1. (\A i \in 1..3 : order[i] \in Preferences) <=>
            a \in Preferences /\ b \in Preferences /\ c \in Preferences
        OBVIOUS
    <2>2. {a, b, c} = Preferences =>
            /\ a \in Preferences /\ b \in Preferences /\ c \in Preferences
            /\ a # b /\ a # c /\ b # c
        <3> HIDE DEF a, b, c
        <3>1. "quality" # "cost" /\ "quality" # "latency" /\ "cost" # "latency"
            OBVIOUS
        <3> QED BY <3>1 DEF Preferences
    <2>3. /\ a \in Preferences /\ b \in Preferences /\ c \in Preferences
          /\ a # b /\ a # c /\ b # c
          => {a, b, c} = Preferences
        <3> HIDE DEF a, b, c
        <3>1. "quality" # "cost" /\ "quality" # "latency" /\ "cost" # "latency"
            OBVIOUS
        <3> QED BY <3>1 DEF Preferences
    <2> QED BY <2>1, <2>2, <2>3
<1> QED BY <1>2, <1>3, <1>4

\* KeyLess place by place.
LEMMA KeyLessPlaces ==
    ASSUME NEW a \in [1..4 -> Int], NEW b \in [1..4 -> Int]
    PROVE  KeyLess(a, b) <=> \/ a[1] < b[1]
                             \/ a[1] = b[1] /\ a[2] < b[2]
                             \/ a[1] = b[1] /\ a[2] = b[2] /\ a[3] < b[3]
                             \/ a[1] = b[1] /\ a[2] = b[2] /\ a[3] = b[3] /\ a[4] < b[4]
<1> DEFINE At(i) == a[i] < b[i] /\ \A j \in 1..i - 1 : a[j] = b[j]
<1>1. KeyLess(a, b) <=> At(1) \/ At(2) \/ At(3) \/ At(4)
    <2>1. KeyLess(a, b) <=> \E i \in 1..4 : At(i)
        BY DEF KeyLess
    <2> HIDE DEF At
    <2>2. 1..4 = {1, 2, 3, 4}
        OBVIOUS
    <2> QED BY <2>1, <2>2
<1>2. At(1) <=> a[1] < b[1]
    OBVIOUS
<1>3. At(2) <=> a[1] = b[1] /\ a[2] < b[2]
    OBVIOUS
<1>4. At(3) <=> a[1] = b[1] /\ a[2] = b[2] /\ a[3] < b[3]
    OBVIOUS
<1>5. At(4) <=> a[1] = b[1] /\ a[2] = b[2] /\ a[3] = b[3] /\ a[4] < b[4]
    OBVIOUS
<1> HIDE DEF At
<1> QED BY <1>1, <1>2, <1>3, <1>4, <1>5

\* The order of keys is a linear one.
LEMMA KeyOrder ==
    ASSUME NEW a \in [1..4 -> Int], NEW b \in [1..4 -> Int]
    PROVE  /\ KeyLess(a, b) => ~KeyLess(b, a)
           /\ \A c \in [1..4 -> Int] : KeyLess(c, b) /\ ~KeyLess(c, a) => KeyLess(a, b)
<1>1. /\ a[1] \in Int /\ a[2] \in Int /\ a[3] \in Int /\ a[4] \in Int
      /\ b[1] \in Int /\ b[2] \in Int /\ b[3] \in Int /\ b[4] \in Int
    OBVIOUS
<1>2. KeyLess(a, b) => ~KeyLess(b, a)
    BY <1>1, KeyLessPlaces
<1>3. ASSUME NEW c \in [1..4 -> Int], KeyLess(c, b), ~KeyLess(c, a) PROVE KeyLess(a, b)
    <2>1. c[1] \in Int /\ c[2] \in Int /\ c[3] \in Int /\ c[4] \in Int
        OBVIOUS
    <2> QED BY <1>1, <1>3, <2>1, KeyLessPlaces
<1> QED BY <1>2, <1>3

\* A number put after three of them.
LEMMA AppendToThree ==
    ASSUME NEW s \in Seq(Int), Len(s) = 3, NEW r \in Int
    PROVE  /\ Append(s, r) \in [1..4 -> Int]
           /\ \A i \in 1..3 : Append(s, r)[i] = s[i]
           /\ Append(s, r)[4] = r
<1> DEFINE k == Append(s, r)
<1>1. k \in Seq(Int) /\ Len(k) = Len(s) + 1 /\ k[Len(s) + 1] = r
    <2>1. k \in Seq(Int)
        BY ZenonT(30), AppendProperties
    <2>2. Len(k) = Len(s) + 1
        BY ZenonT(30), AppendProperties
    <2>3. k[Len(s) + 1] = r
        <3>1. ASSUME NEW S, NEW seq \in Seq(S), NEW elt \in S
              PROVE  Append(seq, elt)[Len(seq) + 1] = elt
            BY AppendProperties
        <3> QED BY Zenon, <3>1
    <2> QED BY <2>1, <2>2, <2>3
<1>2. ASSUME NEW i \in 1..3 PROVE k[i] = s[i]
    <2>1. ASSUME NEW S, NEW seq \in Seq(S), NEW elt \in S
          PROVE  \A j \in 1..Len(seq) : Append(seq, elt)[j] = seq[j]
        BY AppendProperties
    <2>2. i \in 1..Len(s)
        OBVIOUS
    <2> QED BY Zenon, <2>1, <2>2
<1> HIDE DEF k
<1>3. Len(k) = 4 /\ k[4] = r
    BY <1>1
<1>4. k \in [1..4 -> Int]
    <2>1. k \in [1..Len(k) -> Int]
        BY <1>1, LenProperties
    <2>2. 1..Len(k) = 1..4
        BY <1>3
    <2> QED BY Zenon, <2>1, <2>2
<1> QED BY <1>2, <1>3, <1>4 DEF k

\* The key of a model: its demerits in the order of the preferences, and the rank of its id.
LEMMA KeyIs ==
    ASSUME NEW l \in Languages, NEW order \in Seq(STRING), ValidPolicy(order),
           NEW model, IsModel(model)
    PROVE  LET key == SortKey(l, order, model)
           IN  /\ key \in [1..4 -> Int]
               /\ \A i \in 1..3 : key[i] = Demerit(order[i], model)
               /\ key[4] = IdRank[l][model.id]
<1> DEFINE s == [i \in 1..3 |-> Demerit(order[i], model)]
           rank == IdRank[l][model.id]
<1>1. DOMAIN order = 1..3 /\ \A i \in 1..3 : order[i] \in Preferences
    BY PolicyIsPermutation
<1>2. \A i \in 1..3 : Demerit(order[i], model) \in Int
    BY <1>1, DemeritIsInt
<1>3. s \in Seq(Int) /\ Len(s) = 3
    BY <1>2
<1>4. rank \in Int
    BY IdRankAssumption DEF IsModel, Languages
<1>5. SortKey(l, order, model) = Append(s, rank)
    BY <1>1 DEF SortKey
<1>6. \A i \in 1..3 : s[i] = Demerit(order[i], model)
    OBVIOUS
<1> HIDE DEF s, rank
<1>7. /\ Append(s, rank) \in [1..4 -> Int]
      /\ \A i \in 1..3 : Append(s, rank)[i] = s[i]
      /\ Append(s, rank)[4] = rank
    BY <1>3, <1>4, AppendToThree
<1> QED BY <1>5, <1>6, <1>7 DEF rank

\* No model of a set is less than this one.
Leads(l, order, models, m) ==
    \A o \in models : ~KeyLess(SortKey(l, order, o), SortKey(l, order, m))

\* What narrowing a set by the three preferences leaves.
Narrowed(models, order) == Finest(Finest(Finest(models, order[1]), order[2]), order[3])

\* What is left are the models that are least by the three of them.
LEMMA NarrowingIsLexical ==
    ASSUME NEW order \in Seq(STRING), ValidPolicy(order),
           NEW models, \A o \in models : IsModel(o), NEW m \in models
    PROVE  LET D(i, o) == Demerit(order[i], o)
           IN  m \in Narrowed(models, order) <=>
                 \A o \in models : \/ D(1, m) < D(1, o)
                                   \/ D(1, m) = D(1, o) /\ D(2, m) < D(2, o)
                                   \/ /\ D(1, m) = D(1, o) /\ D(2, m) = D(2, o)
                                      /\ D(3, m) <= D(3, o)
<1> DEFINE D(i, o) == Demerit(order[i], o)
           A == Finest(models, order[1])
           B == Finest(A, order[2])
           C == Finest(B, order[3])
           Lexical(o) == \/ D(1, m) < D(1, o)
                         \/ D(1, m) = D(1, o) /\ D(2, m) < D(2, o)
                         \/ D(1, m) = D(1, o) /\ D(2, m) = D(2, o) /\ D(3, m) <= D(3, o)
<1>1. \A i \in 1..3, o \in models : D(i, o) \in Int
    BY PolicyIsPermutation, DemeritIsInt
<1>2. A = {e \in models : \A o \in models : D(1, e) <= D(1, o)}
    BY DEF Finest
<1>3. B = {e \in A : \A o \in A : D(2, e) <= D(2, o)}
    BY DEF Finest
<1>4. C = {e \in B : \A o \in B : D(3, e) <= D(3, o)}
    BY DEF Finest
<1>5. C = Narrowed(models, order)
    BY DEF Narrowed
<1> HIDE DEF A, B, C, D
<1>6. ASSUME m \in C, NEW o \in models PROVE Lexical(o)
    <2>1. m \in A /\ m \in B
        BY <1>3, <1>4, <1>6
    <2>2. /\ D(1, m) \in Int /\ D(2, m) \in Int /\ D(3, m) \in Int
          /\ D(1, o) \in Int /\ D(2, o) \in Int /\ D(3, o) \in Int
        BY <1>1
    <2>3. D(1, m) <= D(1, o)
        BY <1>2, <2>1
    <2>4. ASSUME D(1, m) = D(1, o) PROVE o \in A
        BY <1>2, <2>1, <2>4
    <2>5. D(1, m) = D(1, o) => D(2, m) <= D(2, o)
        BY <1>3, <2>1, <2>4
    <2>6. ASSUME D(1, m) = D(1, o), D(2, m) = D(2, o) PROVE o \in B
        BY <1>3, <2>1, <2>4, <2>6
    <2>7. D(1, m) = D(1, o) /\ D(2, m) = D(2, o) => D(3, m) <= D(3, o)
        BY <1>4, <1>6, <2>6
    <2> QED BY <2>2, <2>3, <2>5, <2>7
<1>7. ASSUME \A o \in models : Lexical(o) PROVE m \in C
    <2>1. \A i \in 1..3 : D(i, m) \in Int
        BY <1>1
    <2>2. ASSUME NEW o \in models PROVE D(1, m) <= D(1, o)
        <3>1. D(1, m) \in Int /\ D(1, o) \in Int
            BY <1>1
        <3> QED BY <1>7, <3>1
    <2>3. m \in A
        BY <1>2, <2>2
    <2>4. ASSUME NEW o \in A PROVE D(1, m) = D(1, o)
        <3>1. D(1, m) \in Int /\ D(1, o) \in Int /\ o \in models /\ D(1, o) <= D(1, m)
            BY <1>1, <1>2, <2>4
        <3>2. D(1, m) <= D(1, o)
            BY <2>2, <3>1
        <3> QED BY <3>1, <3>2
    <2>5. ASSUME NEW o \in A PROVE D(2, m) <= D(2, o)
        <3>1. D(2, m) \in Int /\ D(2, o) \in Int /\ D(1, o) \in Int /\ o \in models
            BY <1>1, <1>2, <2>5
        <3> QED BY <1>7, <2>4, <3>1
    <2>6. m \in B
        BY <1>3, <2>3, <2>5
    <2>7. ASSUME NEW o \in B PROVE D(3, m) <= D(3, o)
        <3>1. o \in A /\ D(2, o) <= D(2, m)
            BY <1>3, <2>3, <2>7
        <3>2. /\ D(2, m) \in Int /\ D(2, o) \in Int /\ D(3, m) \in Int /\ D(3, o) \in Int
              /\ D(1, o) \in Int /\ o \in models
            BY <1>1, <1>2, <3>1
        <3> QED BY <1>7, <2>4, <2>5, <3>1, <3>2
    <2> QED BY <1>4, <2>6, <2>7
<1> QED BY <1>5, <1>6, <1>7 DEF D

\* A model leads if it is left of the narrowing, and its id is the first of those left.
LEMMA LeadsIsNarrowed ==
    ASSUME NEW l \in Languages, NEW order \in Seq(STRING), ValidPolicy(order),
           NEW models, \A o \in models : IsModel(o), NEW m \in models
    PROVE  Leads(l, order, models, m) <=>
             /\ m \in Narrowed(models, order)
             /\ \A o \in Narrowed(models, order) : IdRank[l][m.id] <= IdRank[l][o.id]
<1> DEFINE D(i, o) == Demerit(order[i], o)
           Key(o) == SortKey(l, order, o)
           Rank(o) == IdRank[l][o.id]
           Lexical(e, o) == \/ D(1, e) < D(1, o)
                            \/ D(1, e) = D(1, o) /\ D(2, e) < D(2, o)
                            \/ D(1, e) = D(1, o) /\ D(2, e) = D(2, o) /\ D(3, e) <= D(3, o)
           N == Narrowed(models, order)
<1>1. \A o \in models : /\ D(1, o) \in Int /\ D(2, o) \in Int /\ D(3, o) \in Int
                        /\ Rank(o) \in Int
    <2>1. \A i \in 1..3, o \in models : D(i, o) \in Int
        BY PolicyIsPermutation, DemeritIsInt
    <2>2. ASSUME NEW o \in models PROVE Rank(o) \in Int
        BY IdRankAssumption DEF IsModel, Languages
    <2> QED BY <2>1, <2>2
<1>2. \A e \in models : e \in N <=> \A o \in models : Lexical(e, o)
    BY NarrowingIsLexical
<1>3. N \subseteq models
    BY DEF Narrowed, Finest
<1>4. \A e, o \in models :
        KeyLess(Key(o), Key(e)) <=>
           \/ D(1, o) < D(1, e)
           \/ D(1, o) = D(1, e) /\ D(2, o) < D(2, e)
           \/ D(1, o) = D(1, e) /\ D(2, o) = D(2, e) /\ D(3, o) < D(3, e)
           \/ D(1, o) = D(1, e) /\ D(2, o) = D(2, e) /\ D(3, o) = D(3, e) /\ Rank(o) < Rank(e)
    <2>1. \A e \in models : /\ Key(e) \in [1..4 -> Int]
                            /\ Key(e)[1] = D(1, e) /\ Key(e)[2] = D(2, e)
                            /\ Key(e)[3] = D(3, e) /\ Key(e)[4] = Rank(e)
        BY KeyIs
    <2> HIDE DEF Key, D, Rank
    <2> QED BY SMTT(30), <2>1, KeyLessPlaces
<1>5. Leads(l, order, models, m) <=> \A o \in models : ~KeyLess(Key(o), Key(m))
    BY DEF Leads
<1> HIDE DEF D, Key, Rank, N
<1>6. ASSUME m \in N, \A o \in N : Rank(m) <= Rank(o), NEW o \in models
      PROVE  ~KeyLess(Key(o), Key(m))
    <2>1. Lexical(m, o)
        BY <1>2, <1>6
    <2>2. ASSUME D(1, m) = D(1, o), D(2, m) = D(2, o), D(3, m) = D(3, o) PROVE o \in N
        <3>1. \A e \in models : Lexical(m, e)
            BY <1>2, <1>6
        <3>2. \A e \in models : Lexical(o, e)
            BY <2>2, <3>1
        <3> QED BY <1>2, <3>2
    <2>3. D(1, m) = D(1, o) /\ D(2, m) = D(2, o) /\ D(3, m) = D(3, o) => Rank(m) <= Rank(o)
        BY <1>6, <2>2
    <2> QED BY <1>1, <1>4, <2>1, <2>3
<1>7. ASSUME \A o \in models : ~KeyLess(Key(o), Key(m))
      PROVE  m \in N /\ \A o \in N : Rank(m) <= Rank(o)
    <2>1. ASSUME NEW o \in models PROVE Lexical(m, o)
        BY <1>1, <1>4, <1>7
    <2>2. m \in N
        BY <1>2, <2>1
    <2>3. ASSUME NEW o \in N PROVE Rank(m) <= Rank(o)
        <3>1. o \in models /\ Lexical(m, o) /\ Lexical(o, m)
            BY <1>2, <1>3, <2>1, <2>3
        <3>2. ~KeyLess(Key(o), Key(m))
            BY <1>7, <3>1
        <3> QED BY <1>1, <1>4, <3>1, <3>2
    <2> QED BY <2>2, <2>3
<1> QED BY <1>5, <1>6, <1>7 DEF N, Rank

\* The model that leads is recommended, and no other id is.
LEMMA LeaderIsRecommended ==
    ASSUME NEW l \in Languages, NEW order \in Seq(STRING), ValidPolicy(order),
           NEW models, \A o \in models : IsModel(o), NEW m \in models,
           Leads(l, order, models, m)
    PROVE  LET ids == {o.id : o \in Narrowed(models, order)}
           IN  {id \in ids : \A o \in ids : IdRank[l][id] <= IdRank[l][o]} = {m.id}
<1> DEFINE N == Narrowed(models, order)
           ids == {o.id : o \in N}
           First(id) == \A o \in ids : IdRank[l][id] <= IdRank[l][o]
<1>1. m \in N /\ \A o \in N : IdRank[l][m.id] <= IdRank[l][o.id]
    BY LeadsIsNarrowed
<1>2. N \subseteq models
    BY DEF Narrowed, Finest
<1>3. \A o \in models : o.id \in DOMAIN IdRank[l]
    BY IdRankAssumption DEF IsModel, Languages
<1> HIDE DEF N
<1>4. m.id \in ids /\ First(m.id)
    BY <1>1
<1>5. ASSUME NEW id \in ids, First(id) PROVE id = m.id
    <2>1. IdRank[l][id] <= IdRank[l][m.id] /\ IdRank[l][m.id] <= IdRank[l][id]
        BY <1>4, <1>5
    <2>2. id \in DOMAIN IdRank[l] /\ m.id \in DOMAIN IdRank[l]
        BY <1>2, <1>3
    <2>3. IdRank[l][id] \in Int /\ IdRank[l][m.id] \in Int
        BY <2>2, IdRankAssumption
    <2>4. IdRank[l][id] = IdRank[l][m.id]
        BY <2>1, <2>3
    <2> QED BY <2>2, <2>4, IdRankAssumption
<1> QED BY <1>4, <1>5 DEF N

\* In a finite set of models one leads.
LEMMA LeaderExists ==
    ASSUME NEW l \in Languages, NEW order \in Seq(STRING), ValidPolicy(order),
           NEW models, IsFiniteSet(models), models # {}, \A o \in models : IsModel(o)
    PROVE  \E m \in models : Leads(l, order, models, m)
<1> DEFINE A == Finest(models, order[1])
           B == Finest(A, order[2])
           N == Narrowed(models, order)
           f == [o \in N |-> IdRank[l][o.id]]
<1>1. order[1] \in Preferences /\ order[2] \in Preferences /\ order[3] \in Preferences
    BY PolicyIsPermutation
<1>2. IsFiniteSet(A) /\ A # {} /\ A \in SUBSET models
    BY <1>1, FinestLeaves
<1>3. IsFiniteSet(B) /\ B # {} /\ B \in SUBSET A
    <2> HIDE DEF A
    <2>1. \A o \in A : IsModel(o)
        BY <1>2
    <2> QED BY <1>1, <1>2, <2>1, FinestLeaves
<1>4. IsFiniteSet(N) /\ N # {} /\ N \in SUBSET B
    <2>1. N = Finest(B, order[3])
        BY DEF Narrowed
    <2> HIDE DEF A, B, N
    <2>2. \A o \in B : IsModel(o)
        BY <1>2, <1>3
    <2> QED BY <1>1, <1>3, <2>1, <2>2, FinestLeaves
<1>5. N \subseteq models
    BY <1>2, <1>3, <1>4
<1> HIDE DEF A, B, N
<1>6. f \in [N -> Int]
    <2>1. ASSUME NEW o \in N PROVE IdRank[l][o.id] \in Int
        BY <1>5, IdRankAssumption DEF IsModel, Languages
    <2> QED BY <2>1
<1>7. PICK m \in N : \A o \in N : f[m] <= f[o]
    <2> HIDE DEF f
    <2> QED BY <1>4, <1>6, SmallestValue
<1>8. \A o \in N : IdRank[l][m.id] <= IdRank[l][o.id]
    BY <1>7
<1>9. m \in models /\ Leads(l, order, models, m)
    BY <1>5, <1>8, LeadsIsNarrowed DEF N
<1> QED BY <1>9

\* What choose_model() chooses leads the eligible models.
LEMMA ChosenLeads ==
    ASSUME NEW l \in Languages, NEW order \in Seq(STRING), ValidPolicy(order),
           NEW candidates, candidates \in Seq(ToSet(candidates)),
           \A o \in ToSet(candidates) : IsModel(o), NEW wanted,
           NEW models, models = {m \in ToSet(candidates) : Eligible(wanted, m)}
    PROVE  LET choice == ChooseModel(l, wanted, candidates, order)
           IN  IF models = {} THEN choice = NoModel("no_eligible_model")
               ELSE \E m \in models : /\ Leads(l, order, models, m)
                                      /\ choice = [ok |-> TRUE, model |-> m.id]
<1> DEFINE V == {i \in 1..Len(candidates) : Eligible(wanted, candidates[i])}
           Key(i) == SortKey(l, order, candidates[i])
           Sorted(i) == \A o \in V : IF o < i THEN KeyLess(Key(i), Key(o))
                                     ELSE ~KeyLess(Key(o), Key(i))
           L == {i \in V : Leads(l, order, models, candidates[i])}
<1>1. Len(candidates) \in Nat /\ DOMAIN candidates = 1..Len(candidates)
    BY LenProperties
<1>2. V \in SUBSET (1..Len(candidates)) /\ IsFiniteSet(V)
    <2>1. IsFiniteSet(1..Len(candidates))
        BY <1>1, FS_Interval
    <2>2. V \in SUBSET (1..Len(candidates))
        OBVIOUS
    <2> HIDE DEF V
    <2> QED BY <2>1, <2>2, FS_Subset
<1>3. models = {candidates[i] : i \in V}
    BY <1>1 DEF ToSet
<1>4. IsFiniteSet(models)
    <2> DEFINE f == [i \in V |-> candidates[i]]
    <2>1. f \in Surjection(V, models)
        BY <1>3 DEF Surjection
    <2> HIDE DEF V, f
    <2> QED BY <1>2, <2>1, FS_Surjection
<1>5. \A i \in V : candidates[i] \in models /\ IsModel(candidates[i])
    BY <1>1 DEF ToSet
<1>6. \A i \in V : Key(i) \in [1..4 -> Int]
    BY <1>5, KeyIs
<1>7. \A i \in V : i \in L <=> \A o \in V : ~KeyLess(Key(o), Key(i))
    <2> HIDE DEF V
    <2> QED BY <1>3 DEF Leads
<1>8. ChooseModel(l, wanted, candidates, order) =
        IF V = {} THEN NoModel("no_eligible_model")
        ELSE [ok |-> TRUE, model |-> candidates[CHOOSE i \in V : Sorted(i)].id]
    BY DEF ChooseModel
<1>9. CASE V = {}
    <2>1. models = {}
        BY <1>9, <1>3
    <2> HIDE DEF V, Sorted
    <2> QED BY <1>8, <1>9, <2>1
<1>10. CASE V # {}
    <2> HIDE DEF V, Key
    <2>1. models # {}
        BY <1>3, <1>10
    <2>2. L # {}
        <3>1. PICK m \in models : Leads(l, order, models, m)
            BY <1>4, <2>1, LeaderExists
        <3>2. PICK i \in V : m = candidates[i]
            BY <1>3
        <3> QED BY <3>1, <3>2
    <2>3. PICK i \in L : \A o \in L : i <= o
        <3> DEFINE f == [o \in L |-> o]
        <3>1. L \in SUBSET V
            OBVIOUS
        <3> HIDE DEF L
        <3>2. IsFiniteSet(L)
            BY <1>2, <3>1, FS_Subset
        <3>4. f \in [L -> Int]
            BY <1>2, <3>1
        <3>3. PICK i \in L : \A o \in L : f[i] <= f[o]
            <4> HIDE DEF f
            <4> QED BY <2>2, <3>2, <3>4, SmallestValue
        <3> QED BY <3>3
    <2>4. i \in V /\ \A o \in V : i \in Int /\ o \in Int
        BY <1>2, <2>3
    <2>5. ASSUME NEW o \in V, o < i PROVE KeyLess(Key(i), Key(o))
        <3>1. ASSUME o \in L PROVE FALSE
            <4>1. i <= o
                BY <2>3, <3>1
            <4>2. i \in Int /\ o \in Int
                BY <2>4
            <4> QED BY <2>5, <4>1, <4>2
        <3>2. PICK e \in V : KeyLess(Key(e), Key(o))
            BY <1>7, <3>1
        <3>3. ~KeyLess(Key(e), Key(i))
            BY <1>7, <2>3, <2>4
        <3> QED BY <1>6, <2>4, <3>2, <3>3, KeyOrder
    <2>6. Sorted(i)
        BY <1>7, <2>3, <2>4, <2>5
    <2> DEFINE c == CHOOSE j \in V : Sorted(j)
    <2>7. c \in V /\ Sorted(c)
        <3> HIDE DEF Sorted
        <3> QED BY <2>4, <2>6
    <2> HIDE DEF c
    <2>8. ASSUME NEW o \in V PROVE ~KeyLess(Key(o), Key(c))
        BY <1>6, <2>7, KeyOrder
    <2>9. Leads(l, order, models, candidates[c]) /\ candidates[c] \in models
        BY <1>5, <1>7, <2>7, <2>8
    <2>10. ChooseModel(l, wanted, candidates, order) =
             [ok |-> TRUE, model |-> candidates[c].id]
        BY <1>8, <1>10 DEF c
    <2> QED BY <2>1, <2>9, <2>10
<1> QED BY <1>9, <1>10

\* What choose_model() returns, whatever the order in which the candidates are given.
LEMMA ChoiceIs ==
    ASSUME NEW l \in Languages, NEW route, IsRoute(route)
    PROVE  LET choice == ChooseModel(l, route.request, route.candidates,
                                     route.preference_order)
               best == Recommended(l, route.request, route.candidates,
                                   route.preference_order)
           IN  IF ~ValidPolicy(route.preference_order) THEN choice = NoModel("invalid_policy")
               ELSE \/ best = {} /\ choice = NoModel("no_eligible_model")
                    \/ \E id : best = {id} /\ choice = [ok |-> TRUE, model |-> id]
<1> DEFINE order == route.preference_order
           candidates == route.candidates
           choice == ChooseModel(l, route.request, candidates, order)
           models == {m \in ToSet(candidates) : Eligible(route.request, m)}
           best == Recommended(l, route.request, candidates, order)
<1>1. /\ order \in Seq(STRING)
      /\ candidates \in Seq(ToSet(candidates))
      /\ \A o \in ToSet(candidates) : IsModel(o)
    BY DEF IsRoute, ToSet
<1>2. CASE ~ValidPolicy(order)
    BY <1>2 DEF ChooseModel
<1>3. CASE ValidPolicy(order)
    <2>1. best = LET ids == {o.id : o \in Narrowed(models, order)}
                 IN  {id \in ids : \A o \in ids : IdRank[l][id] <= IdRank[l][o]}
        BY DEF Recommended, Narrowed
    <2>2. IF models = {} THEN choice = NoModel("no_eligible_model")
          ELSE \E m \in models : /\ Leads(l, order, models, m)
                                 /\ choice = [ok |-> TRUE, model |-> m.id]
        BY <1>1, <1>3, ChosenLeads
    <2>3. \A o \in models : IsModel(o)
        BY <1>1
    <2> HIDE DEF order, candidates, choice, models, best
    <2>4. CASE models = {}
        <3>1. Narrowed(models, order) = {}
            BY <2>4 DEF Narrowed, Finest
        <3>2. best = {}
            BY <2>1, <3>1
        <3>3. choice = NoModel("no_eligible_model")
            BY <2>2, <2>4
        <3> QED BY <1>3, <3>2, <3>3 DEF best, choice, order, candidates
    <2>5. CASE models # {}
        <3>1. PICK m \in models : /\ Leads(l, order, models, m)
                                  /\ choice = [ok |-> TRUE, model |-> m.id]
            BY <2>2, <2>5
        <3>2. best = {m.id}
            BY <1>1, <1>3, <2>1, <2>3, <3>1, LeaderIsRecommended
        <3> QED BY <1>3, <3>1, <3>2 DEF best, choice, order, candidates
    <2> QED BY <2>4, <2>5
<1> QED BY <1>2, <1>3

\* What a call of choose_model() returns is what RoutesBest asks for.
LEMMA ChoiceIsBest ==
    ASSUME NEW l \in Languages, NEW route, IsRoute(route)
    PROVE  RoutesBest(l, route.request, route.candidates, route.preference_order,
                      ChooseModel(l, route.request, route.candidates,
                                  route.preference_order))
<1>1. route.preference_order \in Seq(STRING)
    BY DEF IsRoute
<1>2. ValidPolicy(route.preference_order) <=>
        route.preference_order \in SetToSeqs(Preferences)
    BY <1>1, PolicyIsPermutation
<1> DEFINE choice == ChooseModel(l, route.request, route.candidates, route.preference_order)
           best == Recommended(l, route.request, route.candidates, route.preference_order)
<1>3. IF ~ValidPolicy(route.preference_order) THEN choice = NoModel("invalid_policy")
      ELSE \/ best = {} /\ choice = NoModel("no_eligible_model")
           \/ \E id : best = {id} /\ choice = [ok |-> TRUE, model |-> id]
    BY ChoiceIs
<1> HIDE DEF choice, best
<1>4. (\E id : best = {id} /\ choice = [ok |-> TRUE, model |-> id])
        => best # {} /\ choice.ok /\ best = {choice.model}
    OBVIOUS
<1>5. IF route.preference_order \notin SetToSeqs(Preferences)
      THEN choice = NoModel("invalid_policy")
      ELSE IF best = {} THEN choice = NoModel("no_eligible_model")
           ELSE choice.ok /\ best = {choice.model}
    BY <1>2, <1>3, <1>4
<1> QED BY <1>5 DEF RoutesBest, choice, best

\* The order of the candidates, and how often one is given, is irrelevant: two calls that
\* differ in nothing else choose the same.
THEOREM InputOrderIsIrrelevant ==
    ASSUME NEW l \in Languages, NEW route, IsRoute(route), NEW other, IsRoute(other),
           other.request = route.request, other.preference_order = route.preference_order,
           ToSet(other.candidates) = ToSet(route.candidates)
    PROVE  ChooseModel(l, other.request, other.candidates, other.preference_order)
             = ChooseModel(l, route.request, route.candidates, route.preference_order)
<1>1. Recommended(l, other.request, other.candidates, other.preference_order)
        = Recommended(l, route.request, route.candidates, route.preference_order)
    BY DEF Recommended
<1> DEFINE Choice(r) == ChooseModel(l, r.request, r.candidates, r.preference_order)
           Best(r) == Recommended(l, r.request, r.candidates, r.preference_order)
<1>2. \A r \in {route, other} :
        IF ~ValidPolicy(r.preference_order) THEN Choice(r) = NoModel("invalid_policy")
        ELSE \/ Best(r) = {} /\ Choice(r) = NoModel("no_eligible_model")
             \/ \E id : Best(r) = {id} /\ Choice(r) = [ok |-> TRUE, model |-> id]
    BY ChoiceIs
<1>3. Best(other) = Best(route)
    BY <1>1
<1> HIDE DEF Choice, Best
<1>4. Choice(other) = Choice(route)
    <2>1. \A id, o : {id} = {o} => id = o
        OBVIOUS
    <2> QED BY <1>2, <1>3, <2>1
<1> QED BY <1>4 DEF Choice

\* Both languages recommend the same of ids that they order alike.
LEMMA SameRecommendation ==
    ASSUME NEW route, IsRoute(route), ValidPolicy(route.preference_order),
           ~\E m, o \in ToSet(route.candidates) :
              IdRank["py"][m.id] < IdRank["py"][o.id] /\ IdRank["ts"][m.id] > IdRank["ts"][o.id]
    PROVE  Recommended("py", route.request, route.candidates, route.preference_order)
             = Recommended("ts", route.request, route.candidates, route.preference_order)
<1> DEFINE models == {m \in ToSet(route.candidates) : Eligible(route.request, m)}
           ids == {o.id : o \in Narrowed(models, route.preference_order)}
           First(l, id) == \A o \in ids : IdRank[l][id] <= IdRank[l][o]
<1>1. \A l \in Languages :
        Recommended(l, route.request, route.candidates, route.preference_order)
          = {id \in ids : First(l, id)}
    BY DEF Recommended, Narrowed
<1>2. \A id \in ids : \E m \in ToSet(route.candidates) : IsModel(m) /\ id = m.id
    BY DEF Narrowed, Finest, IsRoute, ToSet
<1> HIDE DEF ids
<1>3. ASSUME NEW id \in ids, NEW o \in ids
      PROVE  IdRank["py"][id] <= IdRank["py"][o] <=> IdRank["ts"][id] <= IdRank["ts"][o]
    <2>1. id \in DOMAIN IdRank["py"] /\ o \in DOMAIN IdRank["py"]
        BY <1>2 DEF IsModel
    <2>2. /\ IdRank["py"][id] \in Int /\ IdRank["py"][o] \in Int
          /\ IdRank["ts"][id] \in Int /\ IdRank["ts"][o] \in Int
        BY <2>1, IdRankAssumption DEF Languages
    <2>3. /\ IdRank["py"][id] = IdRank["py"][o] => id = o
          /\ IdRank["ts"][id] = IdRank["ts"][o] => id = o
        BY <2>1, IdRankAssumption DEF Languages
    <2>4. /\ ~(IdRank["py"][id] < IdRank["py"][o] /\ IdRank["ts"][id] > IdRank["ts"][o])
          /\ ~(IdRank["py"][o] < IdRank["py"][id] /\ IdRank["ts"][o] > IdRank["ts"][id])
        BY <1>2
    <2> QED BY <2>2, <2>3, <2>4
<1>4. \A id \in ids : First("py", id) <=> First("ts", id)
    BY <1>3
<1> HIDE DEF First
<1> QED BY <1>1, <1>4 DEF Languages

-----------------------------------------------------------------------------
(* LegacyAdapter.  What a body says of an account is compared with what is  *)
(* read from it, by cases of the outcome.                                   *)

\* The state a code stands for, in either version of the payload.
LEMMA StateIs ==
    ASSUME NEW l, NEW v \in {V1, V2}, NEW code
    PROVE  /\ code \in DOMAIN v.states =>
                /\ StateOf(l, v.states, code) = v.states[code]
                /\ v.states[code] \in States
                /\ IsString(code) /\ code # "constructor"
           /\ code \notin DOMAIN v.states =>
                StateOf(l, v.states, code) =
                    IF l = "ts" /\ code = "constructor" THEN Inherited ELSE NoState
<1> DEFINE s == v.states
<1>1. \/ /\ DOMAIN s = {"A", "S", "C"}
         /\ s["A"] = "active" /\ s["S"] = "suspended" /\ s["C"] = "closed"
      \/ /\ DOMAIN s = {"ACTIVE", "SUSPENDED", "CLOSED"}
         /\ s["ACTIVE"] = "active" /\ s["SUSPENDED"] = "suspended" /\ s["CLOSED"] = "closed"
    <2>1. CASE v = V1
        <3> DEFINE f == [c \in {"A", "S", "C"} |->
                           CASE c = "A" -> "active" [] c = "S" -> "suspended"
                             [] c = "C" -> "closed"]
        <3>1. s = f
            BY <2>1 DEF V1
        <3>2. DOMAIN f = {"A", "S", "C"}
            OBVIOUS
        <3>3. f["A"] = "active" /\ f["S"] = "suspended" /\ f["C"] = "closed"
            <4>1. "A" # "S" /\ "A" # "C" /\ "S" # "C"
                OBVIOUS
            <4> QED BY Zenon, <4>1
        <3> QED BY <3>1, <3>2, <3>3
    <2>2. CASE v = V2
        <3> DEFINE f == [c \in {"ACTIVE", "SUSPENDED", "CLOSED"} |->
                           CASE c = "ACTIVE" -> "active" [] c = "SUSPENDED" -> "suspended"
                             [] c = "CLOSED" -> "closed"]
        <3>1. s = f
            BY <2>2 DEF V2
        <3>2. DOMAIN f = {"ACTIVE", "SUSPENDED", "CLOSED"}
            OBVIOUS
        <3>3. f["ACTIVE"] = "active" /\ f["SUSPENDED"] = "suspended" /\ f["CLOSED"] = "closed"
            <4>1. "ACTIVE" # "SUSPENDED" /\ "ACTIVE" # "CLOSED" /\ "SUSPENDED" # "CLOSED"
                OBVIOUS
            <4> QED BY Zenon, <4>1
        <3> QED BY <3>1, <3>2, <3>3
    <2> QED BY <2>1, <2>2
<1> HIDE DEF s
<1>2. ASSUME code \in DOMAIN s
      PROVE  /\ StateOf(l, s, code) = s[code] /\ s[code] \in States
             /\ IsString(code) /\ code # "constructor"
    <2>1. s[code] \in States
        BY <1>1, <1>2 DEF States
    <2>2. code \in {"A", "S", "C", "ACTIVE", "SUSPENDED", "CLOSED"}
        BY <1>1, <1>2
    <2>3. code # "constructor"
        BY <2>2
    <2>4. IsString(code)
        BY <2>2, AdapterAssumption DEF IsString
    <2>5. StateOf(l, s, code) = s[code]
        BY Zenon, <1>2, <2>3 DEF StateOf
    <2> QED BY <2>1, <2>3, <2>4, <2>5
<1>3. ASSUME code \notin DOMAIN s
      PROVE  StateOf(l, s, code) =
                IF l = "ts" /\ code = "constructor" THEN Inherited ELSE NoState
    BY Zenon, <1>3 DEF StateOf
<1> QED BY <1>2, <1>3 DEF s

\* No state of the application is one of the two answers that are none.
LEMMA StatesAreStates == NoState \notin States /\ Inherited \notin States /\ NoState # Inherited
BY AdapterAssumption DEF States

\* A field that a body has is not absent.
LEMMA FieldIs ==
    ASSUME NEW body, \A name \in DOMAIN body : body[name] # Absent, NEW name
    PROVE  /\ Field(body, name) = Absent <=> name \notin DOMAIN body
           /\ name \in DOMAIN body => Field(body, name) = body[name]
BY DEF Field

\* When a body that has the tag of a version stands for an account, and for which one.
LEMMA AccountsAre ==
    ASSUME NEW l \in Languages, NEW body, NEW v \in {V1, V2}
    PROVE  LET id      == Field(body, v.id)
               state   == StateOf(l, v.states, body[v.tag])
               updated == UpdatedAt(l, body, v.updated)
               reads   == /\ IsString(id) /\ id # Blank /\ IsString(body[v.tag])
                          /\ updated = Null \/ IsString(updated)
                          /\ state # NoState
           IN  /\ reads => AccountsIn(l, body, v) =
                             {[accountId |-> id, state |-> state, updatedAt |-> updated]}
               /\ ~reads => AccountsIn(l, body, v) = {}
BY DEF AccountsIn

\* updatedAt is read exactly if it is no number; and, in answer.ts, if it is there.
LEMMA UpdatedIs ==
    ASSUME NEW l \in Languages, NEW body, NEW name
    PROVE  LET updated == UpdatedAt(l, body, name)
           IN  (updated = Null \/ IsString(updated)) <=>
                 /\ Field(body, name) # Number
                 /\ l = "ts" => Field(body, name) # Absent
BY AdapterAssumption DEF UpdatedAt, IsString, Languages

\* What a version of the payload says of an account.
SaysIn(body, v, id, state) ==
    /\ \E code \in DOMAIN v.states : v.states[code] = state /\ Field(body, v.tag) = code
    /\ Field(body, v.id) = id /\ id # Blank /\ IsString(id)
    /\ Field(body, v.updated) # Number

\* A version says something only of a body that has its tag.
LEMMA SaysByTag ==
    ASSUME NEW body, \A name \in DOMAIN body : body[name] # Absent,
           NEW v \in {V1, V2}, NEW id, NEW state, SaysIn(body, v, id, state)
    PROVE  v.tag \in DOMAIN body
<1>1. PICK code \in DOMAIN v.states : Field(body, v.tag) = code
    BY DEF SaysIn
<1>2. code # Absent
    BY StateIs DEF IsString
<1> QED BY <1>1, <1>2, FieldIs

\* What is read of a body by a version is what that version says.
LEMMA ReadsWhatItSays ==
    ASSUME NEW l \in Languages, NEW body, \A name \in DOMAIN body : body[name] # Absent,
           NEW v \in {V1, V2}, v.tag \in DOMAIN body
    PROVE  LET accounts == AccountsIn(l, body, v)
           IN  /\ accounts # {} => \E a : /\ accounts = {a}
                                          /\ \/ SaysIn(body, v, a.accountId, a.state)
                                             \/ l = "ts" /\ a.state = Inherited
               /\ \A id, state : l = "py" /\ SaysIn(body, v, id, state) => accounts # {}
<1> DEFINE i       == Field(body, v.id)
           code    == body[v.tag]
           s       == StateOf(l, v.states, code)
           updated == UpdatedAt(l, body, v.updated)
           timed   == updated = Null \/ IsString(updated)
           a       == [accountId |-> i, state |-> s, updatedAt |-> updated]
           reads   == /\ IsString(i) /\ i # Blank /\ IsString(code) /\ timed /\ s # NoState
           accounts == AccountsIn(l, body, v)
<1>1. (reads => accounts = {a}) /\ (~reads => accounts = {})
    BY AccountsAre
<1>2. Field(body, v.tag) = code
    BY FieldIs
<1>3. timed <=> /\ Field(body, v.updated) # Number
                /\ l = "ts" => Field(body, v.updated) # Absent
    BY UpdatedIs
<1>4. /\ code \in DOMAIN v.states =>
           s = v.states[code] /\ v.states[code] \in States /\ IsString(code)
      /\ code \notin DOMAIN v.states =>
           s = IF l = "ts" /\ code = "constructor" THEN Inherited ELSE NoState
    BY StateIs
<1>5. a.accountId = i /\ a.state = s
    OBVIOUS
<1> HIDE DEF i, code, s, updated, timed, a, accounts
<1>6. ASSUME reads PROVE SaysIn(body, v, i, s) \/ (l = "ts" /\ s = Inherited)
    <2>1. CASE code \in DOMAIN v.states
        <3>1. \E c \in DOMAIN v.states : v.states[c] = s /\ Field(body, v.tag) = c
            BY <1>2, <1>4, <2>1
        <3>2. Field(body, v.id) = i /\ i # Blank /\ IsString(i)
            BY <1>6 DEF i
        <3>3. Field(body, v.updated) # Number
            BY <1>3, <1>6
        <3> QED BY <3>1, <3>2, <3>3 DEF SaysIn
    <2>2. CASE code \notin DOMAIN v.states
        BY <1>4, <1>6, <2>2
    <2> QED BY <2>1, <2>2
<1>7. ASSUME NEW id, NEW state, l = "py", SaysIn(body, v, id, state) PROVE reads
    <2>1. code \in DOMAIN v.states /\ i = id /\ id # Blank /\ IsString(id)
        BY <1>2, <1>7 DEF SaysIn, i
    <2>2. s # NoState /\ IsString(code)
        BY <1>4, <2>1, StatesAreStates
    <2>3. timed
        BY <1>3, <1>7 DEF SaysIn
    <2> QED BY <2>1, <2>2, <2>3
<1>8. ASSUME accounts # {}
      PROVE  \E b : /\ accounts = {b}
                    /\ SaysIn(body, v, b.accountId, b.state) \/ (l = "ts" /\ b.state = Inherited)
    BY <1>1, <1>5, <1>6, <1>8
<1>9. ASSUME NEW id, NEW state, l = "py", SaysIn(body, v, id, state) PROVE accounts # {}
    BY <1>1, <1>7, <1>9
<1> QED BY <1>8, <1>9 DEF accounts

\* What is read of a body is what it says.
LEMMA NormalizeReadsWhatItSays ==
    ASSUME NEW l \in Languages, NEW body, body # NotObject,
           \A name \in DOMAIN body : body[name] # Absent, Field(body, "error") = Absent
    PROVE  LET accounts == NormalizeAccount(l, body)
           IN  /\ accounts # {} => \E a : /\ accounts = {a}
                                          /\ \/ Says(body, a.accountId, a.state)
                                             \/ l = "ts" /\ a.state = Inherited
               /\ \A id, state : l = "py" /\ Says(body, id, state) => accounts # {}
<1> DEFINE accounts == NormalizeAccount(l, body)
           has1 == V1.tag \in DOMAIN body
           has2 == V2.tag \in DOMAIN body
<1>1. V1 # V2
    <2>1. V1.tag # V2.tag
        BY DEF V1, V2
    <2> QED BY <2>1
<1>2. \A id, state : Says(body, id, state) <=> \/ SaysIn(body, V1, id, state)
                                               \/ SaysIn(body, V2, id, state) /\ ~has1
    <2>1. Field(body, V1.tag) = Absent <=> ~has1
        BY FieldIs
    <2> HIDE DEF has1
    <2> QED BY <1>1, <2>1 DEF Says, SaysIn
<1>3. /\ has1 => accounts = AccountsIn(l, body, V1)
      /\ ~has1 /\ has2 => accounts = AccountsIn(l, body, V2)
      /\ ~has1 /\ ~has2 => accounts = {}
    BY Zenon DEF NormalizeAccount
<1>4. \A id, state : /\ SaysIn(body, V1, id, state) => has1
                     /\ SaysIn(body, V2, id, state) => has2
    BY SaysByTag
<1> DEFINE Read(v) ==
        /\ AccountsIn(l, body, v) # {} =>
             \E a : /\ AccountsIn(l, body, v) = {a}
                    /\ SaysIn(body, v, a.accountId, a.state) \/ (l = "ts" /\ a.state = Inherited)
        /\ \A id, state : l = "py" /\ SaysIn(body, v, id, state)
                            => AccountsIn(l, body, v) # {}
<1>5. (has1 => Read(V1)) /\ (has2 => Read(V2))
    BY ReadsWhatItSays
<1> HIDE DEF accounts, has1, has2
<1>6. ASSUME accounts # {}
      PROVE  \E a : /\ accounts = {a}
                    /\ Says(body, a.accountId, a.state) \/ (l = "ts" /\ a.state = Inherited)
    <2>1. CASE has1
        BY Zenon, <1>2, <1>3, <1>5, <1>6, <2>1
    <2>2. CASE ~has1 /\ has2
        BY Zenon, <1>2, <1>3, <1>5, <1>6, <2>2
    <2> QED BY <1>3, <1>6, <2>1, <2>2
<1>7. ASSUME NEW id, NEW state, l = "py", Says(body, id, state) PROVE accounts # {}
    <2>1. CASE has1
        <3>1. SaysIn(body, V1, id, state)
            BY <1>2, <1>7, <2>1
        <3> QED BY Zenon, <1>3, <1>5, <1>7, <2>1, <3>1
    <2>2. CASE ~has1
        <3>1. SaysIn(body, V2, id, state) /\ has2
            BY <1>2, <1>4, <1>7, <2>2
        <3> QED BY Zenon, <1>3, <1>5, <1>7, <2>2, <3>1
    <2> QED BY <2>1, <2>2
<1> QED BY <1>6, <1>7 DEF accounts

\* The five kinds of failure.
Codes == {"not_found", "rate_limited", "timeout", "unavailable", "malformed_response"}

\* A result that is no account is a failure of one of these kinds, or a cancellation.
IsFailure(got) == \/ got = [raised |-> "CancelledError"]
                  \/ \E code \in Codes : got = Failure(code)
                  \/ \E n : got = [ok |-> FALSE, code |-> "rate_limited", retryAfter |-> n]

\* A failure returns no account.
LEMMA FailureReturnsNothing ==
    ASSUME NEW got, IsFailure(got)
    PROVE  /\ ~("ok" \in DOMAIN got /\ got.ok)
           /\ got = [raised |-> "CancelledError"] \/ got.code \in Codes
<1>1. CASE got = [raised |-> "CancelledError"]
    <2>1. "ok" \notin DOMAIN got
        BY <1>1
    <2> QED BY <1>1, <2>1
<1>2. CASE \E code \in Codes : got = Failure(code)
    BY <1>2 DEF Failure
<1>3. CASE \E n : got = [ok |-> FALSE, code |-> "rate_limited", retryAfter |-> n]
    BY <1>3 DEF Codes
<1> QED BY <1>1, <1>2, <1>3 DEF IsFailure

\* What get_status() returns for each kind of outcome.
LEMMA StatusIs ==
    ASSUME NEW l \in Languages, NEW outcome, IsOutcome(outcome)
    PROVE  LET got      == GetStatus(l, outcome)
               body     == outcome.body
               accounts == NormalizeAccount(l, body)
               said     == body # NotObject /\ Field(body, "error") # Absent
           IN  /\ "error" \in DOMAIN outcome \/ outcome.status # 200 => IsFailure(got)
               /\ "error" \notin DOMAIN outcome /\ outcome.status = 200 =>
                    /\ said \/ accounts = {} => IsFailure(got)
                    /\ ~said /\ accounts # {} =>
                         got = [ok |-> TRUE, account |-> CHOOSE a \in accounts : TRUE]
<1> DEFINE got      == GetStatus(l, outcome)
           body     == outcome.body
           accounts == NormalizeAccount(l, body)
           said     == body # NotObject /\ Field(body, "error") # Absent
<1>1. ASSUME "error" \in DOMAIN outcome PROVE IsFailure(got)
    <2>1. got = Raised(l, outcome.error)
        BY <1>1 DEF GetStatus
    <2>2. \/ Raised(l, outcome.error) = Failure("timeout")
          \/ Raised(l, outcome.error) = [raised |-> "CancelledError"]
          \/ Raised(l, outcome.error) = Failure("unavailable")
        BY Zenon DEF Raised
    <2> HIDE DEF got
    <2> QED BY <2>1, <2>2 DEF IsFailure, Codes
<1>2. ASSUME "error" \notin DOMAIN outcome PROVE got = Answered(l, outcome)
    BY <1>2 DEF GetStatus
<1>3. ASSUME "error" \notin DOMAIN outcome, outcome.status # 200 PROVE IsFailure(got)
    <2>1. \/ Answered(l, outcome) = Failure("not_found")
          \/ Answered(l, outcome) = RateLimited(l, outcome.retry_after)
          \/ Answered(l, outcome) = Failure("unavailable")
        <3> DEFINE st == outcome.status
                   rest == IF said THEN LogicalError(body["error"])
                           ELSE IF accounts = {} THEN Failure("malformed_response")
                           ELSE [ok |-> TRUE, account |-> CHOOSE a \in accounts : TRUE]
                   p == st = 404
                   q == st = 429
                   r == st \notin {404, 429, 200}
        <3>1. Answered(l, outcome) =
                CASE p -> Failure("not_found")
                  [] q -> RateLimited(l, outcome.retry_after)
                  [] r -> Failure("unavailable")
                  [] OTHER -> rest
            BY DEF Answered
        <3>2. \/ p /\ ~q /\ ~r
              \/ ~p /\ q /\ ~r
              \/ ~p /\ ~q /\ r
            BY <1>3
        <3> HIDE DEF p, q, r, rest
        <3>3. CASE p /\ ~q /\ ~r
            BY Zenon, <3>1, <3>3
        <3>4. CASE ~p /\ q /\ ~r
            BY Zenon, <3>1, <3>4
        <3>5. CASE ~p /\ ~q /\ r
            BY Zenon, <3>1, <3>5
        <3> QED BY <3>2, <3>3, <3>4, <3>5
    <2> HIDE DEF got
    <2> QED BY <1>2, <1>3, <2>1 DEF IsFailure, Codes, RateLimited
<1>4. ASSUME "error" \notin DOMAIN outcome, outcome.status = 200
      PROVE  got = IF said THEN LogicalError(body["error"])
                   ELSE IF accounts = {} THEN Failure("malformed_response")
                   ELSE [ok |-> TRUE, account |-> CHOOSE a \in accounts : TRUE]
    <2>2. Answered(l, outcome) =
            IF said THEN LogicalError(body["error"])
            ELSE IF accounts = {} THEN Failure("malformed_response")
            ELSE [ok |-> TRUE, account |-> CHOOSE a \in accounts : TRUE]
        <3> DEFINE st == outcome.status
                   rest == IF said THEN LogicalError(body["error"])
                           ELSE IF accounts = {} THEN Failure("malformed_response")
                           ELSE [ok |-> TRUE, account |-> CHOOSE a \in accounts : TRUE]
                   p == st = 404
                   q == st = 429
                   r == st \notin {404, 429, 200}
        <3>1. Answered(l, outcome) =
                CASE p -> Failure("not_found")
                  [] q -> RateLimited(l, outcome.retry_after)
                  [] r -> Failure("unavailable")
                  [] OTHER -> rest
            BY DEF Answered
        <3>2. ~p /\ ~q /\ ~r
            BY <1>4
        <3> HIDE DEF p, q, r, rest
        <3>3. Answered(l, outcome) = rest
            BY Zenon, <3>1, <3>2
        <3> QED BY <3>3 DEF rest
    <2> QED BY <1>2, <1>4, <2>2
<1> HIDE DEF got, body, accounts, said
<1>5. ASSUME "error" \notin DOMAIN outcome, outcome.status = 200, said \/ accounts = {}
      PROVE  IsFailure(got)
    BY <1>4, <1>5 DEF IsFailure, Codes, LogicalError
<1>6. ASSUME "error" \notin DOMAIN outcome, outcome.status = 200, ~said, accounts # {}
      PROVE  got = [ok |-> TRUE, account |-> CHOOSE a \in accounts : TRUE]
    BY <1>4, <1>6
<1> QED BY <1>1, <1>3, <1>5, <1>6 DEF got, body, accounts, said

\* What a call of get_status() returns is what Isolates asks for.
LEMMA StatusIsolates ==
    ASSUME NEW l \in Languages, NEW outcome, IsOutcome(outcome)
    PROVE  Isolates(l, outcome, GetStatus(l, outcome))
<1> DEFINE got      == GetStatus(l, outcome)
           body     == outcome.body
           accounts == NormalizeAccount(l, body)
           said     == body # NotObject /\ Field(body, "error") # Absent
           success  == "error" \notin DOMAIN outcome /\ outcome.status = 200
           returned == "ok" \in DOMAIN got /\ got.ok
           says(r)  == \/ Says(body, r.accountId, r.state)
                       \/ l = "ts" /\ r.state = Inherited
           field(f, state) == Says(body, body[f], state)
<1>1. /\ ~success => IsFailure(got)
      /\ success /\ (said \/ accounts = {}) => IsFailure(got)
      /\ success /\ ~said /\ accounts # {} =>
           got = [ok |-> TRUE, account |-> CHOOSE a \in accounts : TRUE]
    BY StatusIs
<1>2. IsFailure(got) => /\ ~returned
                        /\ \/ got = [raised |-> "CancelledError"]
                           \/ got.code \in Codes
    BY FailureReturnsNothing
<1>3. ASSUME success, body # NotObject, ~said
      PROVE  /\ accounts # {} => \E a : accounts = {a} /\ says(a)
             /\ \A id, state : l = "py" /\ Says(body, id, state) => accounts # {}
    <2>1. DOMAIN outcome # {"error"}
        BY <1>3
    <2>2. \A name \in DOMAIN body : body[name] # Absent
        BY <1>3, <2>1 DEF IsOutcome
    <2>3. Field(body, "error") = Absent
        BY <1>3
    <2> HIDE DEF body
    <2> QED BY <1>3, <2>2, <2>3, NormalizeReadsWhatItSays
<1>4. body = NotObject => accounts = {}
    BY DEF NormalizeAccount
<1>5. \A id, state : Says(body, id, state) =>
        /\ body # NotObject /\ ~said /\ state \in States
        /\ \E f \in DOMAIN body : id = body[f]
    <2> SUFFICES ASSUME NEW id, NEW state, Says(body, id, state)
                 PROVE  /\ body # NotObject /\ ~said /\ state \in States
                        /\ \E f \in DOMAIN body : id = body[f]
        OBVIOUS
    <2>1. body # NotObject /\ ~said
        BY DEF Says
    <2>2. PICK v \in {V1, V2} :
            /\ \E code \in DOMAIN v.states : v.states[code] = state
            /\ Field(body, v.id) = id /\ IsString(id)
        BY DEF Says
    <2>3. state \in States
        BY <2>2, StateIs
    <2>4. v.id \in DOMAIN body /\ id = body[v.id]
        BY <2>2 DEF Field, IsString
    <2> QED BY <2>1, <2>3, <2>4
<1>6. Isolates(l, outcome, got) <=>
        /\ returned => success /\ says(got.account)
        /\ l = "py" /\ success /\ body # NotObject =>
              (returned <=> \E f \in DOMAIN body, state \in States : field(f, state))
        /\ ~returned => \/ got = [raised |-> "CancelledError"]
                        \/ got.code \in Codes
    BY DEF Isolates, Codes
<1>7. \A f, state : field(f, state) <=> Says(body, body[f], state)
    OBVIOUS
<1>8. \A r : says(r) <=> \/ Says(body, r.accountId, r.state)
                         \/ l = "ts" /\ r.state = Inherited
    OBVIOUS
<1> HIDE DEF got, body, accounts, said, success, returned, says, field
<1>9. ASSUME ~IsFailure(got)
      PROVE  success /\ ~said /\ accounts # {} /\ body # NotObject /\ returned
                /\ says(got.account)
    <2>1. success /\ ~said /\ accounts # {}
        BY <1>1, <1>9
    <2>2. body # NotObject
        BY <1>4, <2>1
    <2>3. got = [ok |-> TRUE, account |-> CHOOSE a \in accounts : TRUE]
        BY <1>1, <2>1
    <2>4. returned
        BY <2>3 DEF returned
    <2>5. PICK a : accounts = {a} /\ says(a)
        BY <1>3, <2>1, <2>2
    <2>6. got.account = a
        BY <2>3, <2>5
    <2> QED BY <2>1, <2>2, <2>4, <2>5, <2>6
<1>10. ASSUME returned PROVE success /\ says(got.account)
    BY <1>2, <1>9, <1>10
<1>11. ASSUME l = "py", success, body # NotObject
       PROVE  returned <=> \E f \in DOMAIN body, state \in States : field(f, state)
    <2>1. ASSUME returned PROVE \E f \in DOMAIN body, state \in States : field(f, state)
        <3>1. Says(body, got.account.accountId, got.account.state)
            <4>1. l # "ts"
                BY <1>11
            <4> QED BY <1>8, <1>10, <2>1, <4>1
        <3> QED BY <1>5, <1>7, <3>1
    <2>2. ASSUME NEW f \in DOMAIN body, NEW state \in States, field(f, state) PROVE returned
        <3>1. Says(body, body[f], state) /\ ~said
            BY <1>5, <1>7, <2>2
        <3>2. accounts # {}
            BY <1>3, <1>11, <3>1
        <3>3. got = [ok |-> TRUE, account |-> CHOOSE a \in accounts : TRUE]
            BY <1>1, <1>11, <3>1, <3>2
        <3> QED BY <3>3 DEF returned
    <2> QED BY <2>1, <2>2
<1>12. ~returned => got = [raised |-> "CancelledError"] \/ got.code \in Codes
    BY <1>2, <1>9
<1>13. Isolates(l, outcome, got)
    BY <1>6, <1>10, <1>11, <1>12
<1> QED BY <1>13 DEF got

\* The headers both languages read alike.
LEMMA SameHeader ==
    ASSUME NEW header, header \notin {"1_0", " ", "1e1", "1.5", "0x1e"}
    PROVE  RateLimited("py", header) = RateLimited("ts", header)
<1>1. header \in ReadBy("py") <=> header \in ReadBy("ts")
    <2>1. "ts" # "py"
        OBVIOUS
    <2> QED BY Zenon, <2>1 DEF ReadBy
<1> QED BY <1>1 DEF HeaderValue, RateLimited

\* The bodies both languages read alike.
LEMMA SameAccounts ==
    ASSUME NEW body, body # NotObject, \A name \in DOMAIN body : body[name] # Absent,
           \A v \in {V1, V2} : v.tag \in DOMAIN body =>
              v.updated \in DOMAIN body /\ body[v.tag] # "constructor"
    PROVE  NormalizeAccount("py", body) = NormalizeAccount("ts", body)
<1>1. ASSUME NEW v \in {V1, V2}, v.tag \in DOMAIN body
      PROVE  AccountsIn("py", body, v) = AccountsIn("ts", body, v)
    <2>1. Field(body, v.updated) # Absent
        BY <1>1, FieldIs
    <2>2. UpdatedAt("py", body, v.updated) = UpdatedAt("ts", body, v.updated)
        BY <2>1 DEF UpdatedAt
    <2>3. StateOf("py", v.states, body[v.tag]) = StateOf("ts", v.states, body[v.tag])
        BY <1>1, StateIs
    <2> QED BY <2>2, <2>3 DEF AccountsIn
<1> QED BY <1>1 DEF NormalizeAccount

\* Both adapters return the same, but for what AdapterDiffers lists.
LEMMA SameStatus ==
    ASSUME NEW outcome, IsOutcome(outcome), ~AdapterDiffers(outcome)
    PROVE  GetStatus("py", outcome) = GetStatus("ts", outcome)
<1>1. CASE "error" \in DOMAIN outcome
    <2> DEFINE error == outcome.error
               a(l) == l = "py" /\ error = "TimeoutError"
               b(l) == l = "ts" /\ error = "AbortError"
               c(l) == l = "py" /\ error = "CancelledError"
    <2>1. \A l : ~a(l) /\ ~b(l) /\ ~c(l)
        BY <1>1 DEF AdapterDiffers
    <2>2. \A l : Raised(l, error) =
                      CASE a(l) -> Failure("timeout") [] b(l) -> Failure("timeout")
                        [] c(l) -> [raised |-> error] [] OTHER -> Failure("unavailable")
        BY DEF Raised
    <2> HIDE DEF error, a, b, c
    <2>3. \A l : Raised(l, error) = Failure("unavailable")
        BY Zenon, <2>1, <2>2
    <2> QED BY <1>1, <2>3 DEF GetStatus, error
<1>2. CASE "error" \notin DOMAIN outcome
    <2> DEFINE body == outcome.body
               N(l) == NormalizeAccount(l, body)
               said == body # NotObject /\ Field(body, "error") # Absent
               rest(n) == IF said THEN LogicalError(body["error"])
                          ELSE IF n = {} THEN Failure("malformed_response")
                          ELSE [ok |-> TRUE, account |-> CHOOSE a \in n : TRUE]
               p == outcome.status = 404
               q == outcome.status = 429
               r == outcome.status \notin {404, 429, 200}
    <2>1. \A l : Answered(l, outcome) =
                      CASE p -> Failure("not_found")
                        [] q -> RateLimited(l, outcome.retry_after)
                        [] r -> Failure("unavailable")
                        [] OTHER -> rest(N(l))
        BY DEF Answered
    <2>2. /\ ~(p /\ q) /\ ~(p /\ r) /\ ~(q /\ r)
          /\ ~p /\ ~q /\ ~r => outcome.status = 200
        OBVIOUS
    <2>3. ASSUME q PROVE RateLimited("py", outcome.retry_after)
                           = RateLimited("ts", outcome.retry_after)
        <3>1. outcome.retry_after \notin {"1_0", " ", "1e1", "1.5", "0x1e"}
            BY <1>2, <2>3 DEF AdapterDiffers
        <3> QED BY <3>1, SameHeader
    <2>4. ASSUME outcome.status = 200 PROVE N("py") = N("ts")
        <3>1. CASE body = NotObject
            BY <3>1 DEF NormalizeAccount
        <3>2. CASE body # NotObject
            <4>1. DOMAIN outcome # {"error"}
                BY <1>2
            <4>2. \A name \in DOMAIN body : body[name] # Absent
                BY <3>2, <4>1 DEF IsOutcome
            <4>3. \A v \in {V1, V2} : v.tag \in DOMAIN body =>
                    v.updated \in DOMAIN body /\ body[v.tag] # "constructor"
                BY <1>2, <2>4, <3>2 DEF AdapterDiffers
            <4> QED BY <3>2, <4>2, <4>3, SameAccounts
        <3> QED BY <3>1, <3>2
    <2> HIDE DEF body, N, said, p, q, r, rest
    <2>5. outcome.status = 200 => rest(N("py")) = rest(N("ts"))
        BY <2>4
    <2>6. Answered("py", outcome) = Answered("ts", outcome)
        <3>1. CASE p
            BY Zenon, <2>1, <2>2, <3>1
        <3>2. CASE q
            BY Zenon, <2>1, <2>2, <2>3, <3>2
        <3>3. CASE r
            BY Zenon, <2>1, <2>2, <3>3
        <3>4. CASE ~p /\ ~q /\ ~r
            BY Zenon, <2>1, <2>2, <2>5, <3>4
        <3> QED BY <3>1, <3>2, <3>3, <3>4
    <2> QED BY <1>2, <2>6 DEF GetStatus
<1> QED BY <1>1, <1>2

-----------------------------------------------------------------------------
(* RequestCalls.  A call keeps its arguments, and what it returns is the    *)
(* value of the function for them.                                          *)

RequestInv ==
    /\ call.fn = "choose_model" => call.lang \in Languages /\ call.args \in Routes
    /\ call.fn = "get_status" => call.lang \in Languages /\ call.args \in Outcomes
    /\ answer # NoAnswer =>
          /\ call.fn = "choose_model" =>
                answer = ChooseModel(call.lang, call.args.request, call.args.candidates,
                                     call.args.preference_order)
          /\ call.fn = "get_status" => answer = GetStatus(call.lang, call.args)

\* RequestInv is an invariant of every call.
LEMMA RequestsHold == RequestSpec => []RequestInv
<1>1. RequestInit => RequestInv
    BY DEF RequestInit, RequestInv, Called
<1>2. RequestInv /\ [RequestNext]_requestVars => RequestInv'
    <2>1. ASSUME RequestInv, ChooseModelReturns PROVE RequestInv'
        BY <2>1 DEF RequestInv, ChooseModelReturns, Returns
    <2>2. ASSUME RequestInv, GetStatusReturns PROVE RequestInv'
        BY <2>2 DEF RequestInv, GetStatusReturns, Returns
    <2>3. ASSUME RequestInv, UNCHANGED requestVars PROVE RequestInv'
        BY <2>3 DEF RequestInv, requestVars
    <2> QED BY <2>1, <2>2, <2>3 DEF RequestNext
<1> QED BY <1>1, <1>2, PTL DEF RequestSpec

\* The router returns the best of the eligible candidates, for any of them.
THEOREM RouterIsExact == RequestSpec => []RouteIsBest
<1>1. RequestInv => RouteIsBest
    <2> SUFFICES ASSUME RequestInv, Returned("choose_model")
                 PROVE  RoutesBest(call.lang, call.args.request, call.args.candidates,
                                   call.args.preference_order, answer)
        BY DEF RouteIsBest
    <2>1. /\ call.lang \in Languages /\ call.args \in Routes
          /\ answer = ChooseModel(call.lang, call.args.request, call.args.candidates,
                                  call.args.preference_order)
        BY DEF RequestInv, Returned
    <2>2. IsRoute(call.args)
        BY <2>1, RequestAssumption
    <2> QED BY <2>1, <2>2, ChoiceIsBest
<1> QED BY <1>1, RequestsHold, PTL

\* The adapter isolates the application from the legacy API, for any answer of it.
THEOREM AdapterIsExact == RequestSpec => []AdapterIsolates
<1>1. RequestInv => AdapterIsolates
    <2> SUFFICES ASSUME RequestInv, Returned("get_status")
                 PROVE  Isolates(call.lang, call.args, answer)
        BY DEF AdapterIsolates
    <2>1. /\ call.lang \in Languages /\ call.args \in Outcomes
          /\ answer = GetStatus(call.lang, call.args)
        BY DEF RequestInv, Returned
    <2>2. IsOutcome(call.args)
        BY <2>1, RequestAssumption
    <2> QED BY <2>1, <2>2, StatusIsolates
<1> QED BY <1>1, RequestsHold, PTL

\* answer.py and answer.ts return the same, but for ids they order differently and for
\* what AdapterDiffers lists.
THEOREM LanguagesAgree == RequestSpec => [](RoutersAgree /\ AdaptersAgree)
<1>1. RequestInv => RoutersAgree
    <2> DEFINE differs == \E m, o \in ToSet(call.args.candidates) :
                             /\ IdRank["py"][m.id] < IdRank["py"][o.id]
                             /\ IdRank["ts"][m.id] > IdRank["ts"][o.id]
               Choice(l) == ChooseModel(l, call.args.request, call.args.candidates,
                                        call.args.preference_order)
               Best(l) == Recommended(l, call.args.request, call.args.candidates,
                                      call.args.preference_order)
               valid == ValidPolicy(call.args.preference_order)
    <2> SUFFICES ASSUME RequestInv, Returned("choose_model"), ~differs
                 PROVE  answer = Choice(Other(call.lang))
        BY DEF RoutersAgree
    <2>1. /\ call.lang \in Languages /\ call.args \in Routes
          /\ answer = Choice(call.lang)
        BY DEF RequestInv, Returned
    <2>2. IsRoute(call.args)
        BY <2>1, RequestAssumption
    <2>3. \A l \in Languages :
            IF ~valid THEN Choice(l) = NoModel("invalid_policy")
            ELSE \/ Best(l) = {} /\ Choice(l) = NoModel("no_eligible_model")
                 \/ \E id : Best(l) = {id} /\ Choice(l) = [ok |-> TRUE, model |-> id]
        BY <2>2, ChoiceIs
    <2>4. valid => Best("py") = Best("ts")
        BY <2>2, SameRecommendation
    <2> HIDE DEF Choice, Best, valid, differs
    <2>5. Choice("py") = Choice("ts")
        <3>1. \A id, o : {id} = {o} => id = o
            OBVIOUS
        <3>2. "py" \in Languages /\ "ts" \in Languages
            BY DEF Languages
        <3> QED BY <2>3, <2>4, <3>1, <3>2
    <2> QED BY <2>1, <2>5 DEF Other, Languages
<1>2. RequestInv => AdaptersAgree
    <2> SUFFICES ASSUME RequestInv, Returned("get_status"), ~AdapterDiffers(call.args)
                 PROVE  answer = GetStatus(Other(call.lang), call.args)
        BY DEF AdaptersAgree
    <2>1. /\ call.lang \in Languages /\ call.args \in Outcomes
          /\ answer = GetStatus(call.lang, call.args)
        BY DEF RequestInv, Returned
    <2>2. GetStatus("py", call.args) = GetStatus("ts", call.args)
        BY <2>1, RequestAssumption, SameStatus
    <2> QED BY <2>1, <2>2 DEF Other, Languages
<1> QED BY <1>1, <1>2, RequestsHold, PTL

-----------------------------------------------------------------------------
(* PlanChecks.  What FlattenSeq puts together is empty exactly if all its  *)
(* parts are, so the result is empty exactly if every check finds nothing. *)

\* The recursion by which FlattenSeq is defined has a solution on the first n places.
FlattensUpto(seqs, n, f) ==
    f = [i \in 1..n |-> IF i = 1 THEN seqs[i] ELSE f[i-1] \o seqs[i]]

LEMMA FlattenExists ==
    ASSUME NEW seqs, NEW n \in Nat
    PROVE  \E f : FlattensUpto(seqs, n, f)
<1> DEFINE Bad == {m \in Nat : ~ \E f : FlattensUpto(seqs, m, f)}
<1> SUFFICES ASSUME Bad # {} PROVE FALSE
    OBVIOUS
<1>1. PICK m \in Bad : \A j \in Bad : m <= j
    <2>1. Bad \in SUBSET Nat
        OBVIOUS
    <2> HIDE DEF Bad
    <2> QED BY <2>1, LeastNumber
<1>2. m \in Nat /\ ~ \E f : FlattensUpto(seqs, m, f)
    OBVIOUS
<1>3. m # 0
    <2>1. FlattensUpto(seqs, 0, << >>)
        BY DEF FlattensUpto
    <2> QED BY <1>2, <2>1
<1>4. PICK g : FlattensUpto(seqs, m - 1, g)
    <2>1. m - 1 \in Nat /\ m - 1 \notin Bad
        BY <1>1, <1>2, <1>3
    <2> QED BY <2>1
<1> DEFINE h == [i \in 1..m |-> IF i = m THEN (IF m = 1 THEN seqs[m] ELSE g[m-1] \o seqs[m]) ELSE g[i]]
<1>5. FlattensUpto(seqs, m, h)
    <2>1. ASSUME NEW i \in 1..m PROVE h[i] = IF i = 1 THEN seqs[i] ELSE h[i-1] \o seqs[i]
        <3>1. CASE i = m
            <4>1. i # 1 => i - 1 \in 1..m /\ i - 1 # m
                BY <1>2, <3>1
            <4> QED BY <3>1, <4>1
        <3>2. CASE i # m
            <4>1. i \in 1..m-1 /\ (i # 1 => i - 1 \in 1..m /\ i - 1 # m)
                BY <1>2, <3>2
            <4>2. g[i] = IF i = 1 THEN seqs[i] ELSE g[i-1] \o seqs[i]
                BY <1>4, <4>1 DEF FlattensUpto
            <4> QED BY <3>2, <4>1, <4>2
        <3> QED BY <3>1, <3>2
    <2> HIDE DEF h
    <2>2. h = [i \in 1..m |-> h[i]]
        BY DEF h
    <2> QED BY <2>1, <2>2 DEF FlattensUpto
<1> QED BY <1>2, <1>5

LEMMA FlattenIs ==
    ASSUME NEW seqs, Len(seqs) \in Nat \ {0}
    PROVE  \E f : FlattensUpto(seqs, Len(seqs), f) /\ FlattenSeq(seqs) = f[Len(seqs)]
<1>1. \E f : FlattensUpto(seqs, Len(seqs), f)
    BY FlattenExists
<1>2. FlattenSeq(seqs) = (CHOOSE f : FlattensUpto(seqs, Len(seqs), f))[Len(seqs)]
    BY DEF FlattenSeq, FlattensUpto
<1> QED BY <1>1, <1>2

\* What is put together from sequences is empty when each of them is.
LEMMA FlattenEmpty ==
    ASSUME NEW S, NEW seqs \in Seq(Seq(S))
    PROVE  /\ FlattenSeq(seqs) \in Seq(S)
           /\ FlattenSeq(seqs) = << >> <=> \A i \in 1..Len(seqs) : seqs[i] = << >>
<1>1. CASE Len(seqs) = 0
    <2>1. seqs = << >>
        BY <1>1
    <2>2. FlattenSeq(seqs) = seqs
        BY <2>1 DEF FlattenSeq
    <2>3. FlattenSeq(seqs) = << >> /\ << >> \in Seq(S)
        BY <2>1, <2>2
    <2> QED BY <1>1, <2>3
<1>2. CASE Len(seqs) # 0
    <2>1. Len(seqs) \in Nat \ {0}
        BY <1>2
    <2>2. PICK f : FlattensUpto(seqs, Len(seqs), f) /\ FlattenSeq(seqs) = f[Len(seqs)]
        BY <2>1, FlattenIs
    <2>3. \A i \in 1..Len(seqs) : f[i] = IF i = 1 THEN seqs[i] ELSE f[i-1] \o seqs[i]
        BY <2>2 DEF FlattensUpto
    <2> DEFINE Good(m) == f[m] \in Seq(S) /\ (f[m] = << >> <=> \A i \in 1..m : seqs[i] = << >>)
               Bad     == {m \in 1..Len(seqs) : ~Good(m)}
    <2>4. ASSUME Bad # {} PROVE FALSE
        <3>1. PICK m \in Bad : \A j \in Bad : m <= j
            <4>1. Bad \in SUBSET Nat
                OBVIOUS
            <4> HIDE DEF Bad
            <4> QED BY <2>4, <4>1, LeastNumber
        <3>2. m \in 1..Len(seqs) /\ ~Good(m)
            OBVIOUS
        <3>3. seqs[m] \in Seq(S)
            BY <3>2
        <3>4. CASE m = 1
            <4>1. f[m] = seqs[m]
                BY <2>3, <3>2, <3>4
            <4>2. 1..m = {m}
                BY <3>4
            <4> QED BY <3>2, <3>3, <4>1, <4>2
        <3>5. CASE m # 1
            <4>1. m - 1 \in 1..Len(seqs) /\ m - 1 \notin Bad
                <5> HIDE DEF Bad, Good
                <5> QED BY <2>1, <3>1, <3>2, <3>5
            <4>2. Good(m - 1)
                BY <4>1
            <4>3. f[m] = f[m - 1] \o seqs[m]
                BY <2>3, <3>2, <3>5
            <4>4. f[m] \in Seq(S)
                BY <3>3, <4>2, <4>3
            <4>5. f[m] = << >> <=> f[m - 1] = << >> /\ seqs[m] = << >>
                BY <3>3, <4>2, <4>3
            <4>6. 1..m = (1..m - 1) \cup {m}
                BY <3>2, <3>5
            <4> QED BY <3>2, <4>2, <4>4, <4>5, <4>6
        <3> QED BY <3>4, <3>5
    <2>5. Len(seqs) \in 1..Len(seqs) /\ Len(seqs) \notin Bad
        <3> HIDE DEF Bad
        <3> QED BY <2>1, <2>4
    <2>6. Good(Len(seqs))
        BY <2>5
    <2> QED BY <2>2, <2>6
<1> QED BY <1>1, <1>2

\* What the checks of a plan can report.
PlanCodes == {"too_many_steps", "duplicate_step", "invalid_estimate", "tool_forbidden",
              "invalid_arguments", "approval_required", "duplicate_dependency",
              "missing_dependency", "budget_exceeded"}

PlanIssues(steps) == [step_id : {s.id : s \in ToSet(steps)} \cup {NoStep}, code : PlanCodes]

\* Its steps, place by place.
LEMMA PlanSteps ==
    ASSUME NEW steps, IsPlan(steps)
    PROVE  /\ DOMAIN steps = 1..Len(steps) /\ Len(steps) \in Nat
           /\ ToSet(steps) = {steps[i] : i \in DOMAIN steps}
           /\ \A i \in DOMAIN steps :
                 /\ steps[i].id \in {s.id : s \in ToSet(steps)}
                 /\ DOMAIN steps[i].depends_on = 1..Len(steps[i].depends_on)
                 /\ Len(steps[i].depends_on) \in Nat
<1>1. DOMAIN steps = 1..Len(steps) /\ Len(steps) \in Nat
    BY DEF IsPlan
<1>2. ToSet(steps) = {steps[i] : i \in DOMAIN steps}
    BY DEF ToSet
<1>3. ASSUME NEW i \in DOMAIN steps
      PROVE  /\ steps[i].id \in {s.id : s \in ToSet(steps)}
             /\ DOMAIN steps[i].depends_on = 1..Len(steps[i].depends_on)
             /\ Len(steps[i].depends_on) \in Nat
    <2>1. steps[i] \in ToSet(steps)
        BY <1>2
    <2>2. steps[i].depends_on \in Seq(ToSet(steps[i].depends_on))
        BY <2>1 DEF IsPlan
    <2> QED BY <2>1, <2>2
<1> QED BY <1>1, <1>2, <1>3

\* An issue is one.
LEMMA OneIssue ==
    ASSUME NEW steps, NEW id \in {s.id : s \in ToSet(steps)} \cup {NoStep}, NEW code \in PlanCodes
    PROVE  <<[step_id |-> id, code |-> code]>> \in Seq(PlanIssues(steps))
<1>1. [step_id |-> id, code |-> code] \in PlanIssues(steps)
    BY DEF PlanIssues
<1> QED BY <1>1

\* An id is known when a step bears it.
LEMMA IdsOfSteps ==
    ASSUME NEW steps, IsPlan(steps), NEW id
    PROVE  id \in DOMAIN StepById(steps) <=> \E j \in DOMAIN steps : steps[j].id = id
<1>1. DOMAIN StepById(steps) = {s.id : s \in ToSet(steps)}
    BY DEF StepById
<1>2. ToSet(steps) = {steps[i] : i \in DOMAIN steps}
    BY DEF ToSet
<1> QED BY <1>1, <1>2

\* The dependencies of a step are reported unless each is there once and names a step.
LEMMA DependenciesChecked ==
    ASSUME NEW steps, IsPlan(steps), NEW i \in DOMAIN steps
    PROVE  /\ DependencyIssues(steps, i) \in Seq(PlanIssues(steps))
           /\ DependencyIssues(steps, i) = << >> <=>
                 /\ \A k, m \in DOMAIN steps[i].depends_on :
                       steps[i].depends_on[k] = steps[i].depends_on[m] => k = m
                 /\ \A k \in DOMAIN steps[i].depends_on :
                       \E j \in DOMAIN steps : steps[j].id = steps[i].depends_on[k]
<1> DEFINE deps == steps[i].depends_on
           Twice(k) == \E j \in 1..k - 1 : deps[j] = deps[k]
           Missing(k) == deps[k] \notin DOMAIN StepById(steps)
           Of(k) ==    When(Twice(k), steps[i].id, "duplicate_dependency")
                    \o When(Missing(k), steps[i].id, "missing_dependency")
           all == [k \in DOMAIN deps |-> Of(k)]
<1>1. DependencyIssues(steps, i) = FlattenSeq(all)
    BY DEF DependencyIssues
<1>2. DOMAIN deps = 1..Len(deps) /\ Len(deps) \in Nat
    BY PlanSteps
<1>3. ASSUME NEW k \in DOMAIN deps
      PROVE  Of(k) \in Seq(PlanIssues(steps)) /\ (Of(k) = << >> <=> ~Twice(k) /\ ~Missing(k))
    <2>1. steps[i].id \in {s.id : s \in ToSet(steps)} \cup {NoStep}
        BY PlanSteps
    <2> HIDE DEF Twice, Missing
    <2>2. /\ When(Twice(k), steps[i].id, "duplicate_dependency") \in Seq(PlanIssues(steps))
          /\ When(Missing(k), steps[i].id, "missing_dependency") \in Seq(PlanIssues(steps))
        <3>1. /\ << >> \in Seq(PlanIssues(steps))
              /\ <<[step_id |-> steps[i].id, code |-> "duplicate_dependency"]>> \in Seq(PlanIssues(steps))
              /\ <<[step_id |-> steps[i].id, code |-> "missing_dependency"]>> \in Seq(PlanIssues(steps))
            <4>1. {"duplicate_dependency", "missing_dependency"} \subseteq PlanCodes
                BY DEF PlanCodes
            <4>2. << >> \in Seq(PlanIssues(steps))
                OBVIOUS
            <4> HIDE DEF deps, Of, all
            <4>3. ASSUME NEW code \in PlanCodes
                  PROVE  <<[step_id |-> steps[i].id, code |-> code]>> \in Seq(PlanIssues(steps))
                BY <2>1, OneIssue
            <4> QED BY <4>1, <4>2, <4>3
        <3> QED BY <3>1 DEF When
    <2>4. When(Twice(k), steps[i].id, "duplicate_dependency") = << >> <=> ~Twice(k)
        BY DEF When
    <2>5. When(Missing(k), steps[i].id, "missing_dependency") = << >> <=> ~Missing(k)
        BY DEF When
    <2> QED BY <2>2, <2>4, <2>5
<1>4. all \in Seq(Seq(PlanIssues(steps))) /\ Len(all) = Len(deps)
    <2> HIDE DEF Of
    <2> QED BY <1>2, <1>3
<1>5. FlattenSeq(all) = << >> <=> \A k \in 1..Len(deps) : all[k] = << >>
    <2> HIDE DEF all, deps
    <2> QED BY <1>4, FlattenEmpty
<1>6. \A k \in DOMAIN deps : all[k] = Of(k)
    <2> HIDE DEF Of
    <2> QED OBVIOUS
<1>7. (\A k \in DOMAIN deps : ~Twice(k)) <=> \A k, m \in DOMAIN deps : deps[k] = deps[m] => k = m
    <2> HIDE DEF deps
    <2> QED BY <1>2
<1>8. \A k \in DOMAIN deps : ~Missing(k) <=> \E j \in DOMAIN steps : steps[j].id = deps[k]
    BY IdsOfSteps
<1>9. FlattenSeq(all) \in Seq(PlanIssues(steps))
    <2> HIDE DEF all
    <2> QED BY <1>4, FlattenEmpty
<1> HIDE DEF Twice, Missing, Of, all
<1> QED BY <1>1, <1>2, <1>3, <1>5, <1>6, <1>7, <1>8, <1>9

\* The rules of one step, apart from its id and its dependencies.
StepAllowed(l, s, policy) == ~InvalidEstimate(l, s) /\ Permitted(l, s, policy)

\* The dependencies of a step: each is there once and names a step.
DependsWell(steps, i) ==
    /\ \A k, m \in DOMAIN steps[i].depends_on :
          steps[i].depends_on[k] = steps[i].depends_on[m] => k = m
    /\ \A k \in DOMAIN steps[i].depends_on :
          \E j \in DOMAIN steps : steps[j].id = steps[i].depends_on[k]

\* A step is reported unless its estimate is a number that is not below zero, the
\* policy permits it, and its dependencies are in order.
LEMMA StepChecked ==
    ASSUME NEW steps, IsPlan(steps), NEW i \in DOMAIN steps, NEW l, NEW policy
    PROVE  /\ StepIssues(l, steps, policy, i) \in Seq(PlanIssues(steps))
           /\ StepIssues(l, steps, policy, i) = << >> <=>
                 StepAllowed(l, steps[i], policy) /\ DependsWell(steps, i)
<1> DEFINE s == steps[i]
           Estimate  == InvalidEstimate(l, s)
           Tool      == s.tool_name \notin policy.allowed_tools \cap policy.authorized_tools
           Args      == s.args \notin policy.valid_args
           Approval  == /\ s.tool_name \in policy.high_risk_tools
                        /\ \/ MissingRef(l, s)
                           \/ s.approval_ref \notin policy.valid_approvals
           E == When(Estimate, s.id, "invalid_estimate")
           T == When(Tool, s.id, "tool_forbidden")
           A == When(Args, s.id, "invalid_arguments")
           R == When(Approval, s.id, "approval_required")
           D == DependencyIssues(steps, i)
<1>1. StepIssues(l, steps, policy, i) = E \o T \o A \o R \o D
    BY DEF StepIssues
<1>2. s.id \in {p.id : p \in ToSet(steps)} \cup {NoStep}
    BY PlanSteps
<1>3. /\ << >> \in Seq(PlanIssues(steps))
      /\ <<[step_id |-> s.id, code |-> "invalid_estimate"]>> \in Seq(PlanIssues(steps))
      /\ <<[step_id |-> s.id, code |-> "tool_forbidden"]>> \in Seq(PlanIssues(steps))
      /\ <<[step_id |-> s.id, code |-> "invalid_arguments"]>> \in Seq(PlanIssues(steps))
      /\ <<[step_id |-> s.id, code |-> "approval_required"]>> \in Seq(PlanIssues(steps))
    <2>1. {"invalid_estimate", "tool_forbidden", "invalid_arguments", "approval_required"}
             \subseteq PlanCodes
        BY DEF PlanCodes
    <2>2. << >> \in Seq(PlanIssues(steps))
        OBVIOUS
    <2> HIDE DEF s
    <2>3. ASSUME NEW code \in PlanCodes
          PROVE  <<[step_id |-> s.id, code |-> code]>> \in Seq(PlanIssues(steps))
        BY <1>2, OneIssue
    <2> QED BY <2>1, <2>2, <2>3
<1>4. StepAllowed(l, s, policy) <=> ~Estimate /\ ~Tool /\ ~Args /\ ~Approval
    BY DEF StepAllowed, Permitted
<1> HIDE DEF Estimate, Tool, Args, Approval, s
<1>5. /\ E \in Seq(PlanIssues(steps)) /\ T \in Seq(PlanIssues(steps))
      /\ A \in Seq(PlanIssues(steps)) /\ R \in Seq(PlanIssues(steps))
    BY <1>3 DEF When
<1>6. /\ E = << >> <=> ~Estimate
      /\ T = << >> <=> ~Tool
      /\ A = << >> <=> ~Args
      /\ R = << >> <=> ~Approval
    BY DEF When
<1>7. D \in Seq(PlanIssues(steps)) /\ (D = << >> <=> DependsWell(steps, i))
    BY DependenciesChecked DEF DependsWell
<1> HIDE DEF E, T, A, R, D
<1>8. E \o T \o A \o R \o D \in Seq(PlanIssues(steps))
    BY <1>5, <1>7
<1>9. E \o T \o A \o R \o D = << >> <=>
         E = << >> /\ T = << >> /\ A = << >> /\ R = << >> /\ D = << >>
    BY <1>5, <1>7
<1>10. StepAllowed(l, steps[i], policy) <=> ~Estimate /\ ~Tool /\ ~Args /\ ~Approval
    BY <1>4 DEF s
<1> QED BY <1>1, <1>6, <1>7, <1>8, <1>9, <1>10

\* Nothing is wrong with a plan, apart from cycles.
PassesChecks(l, steps, policy) ==
    /\ ~(Len(steps) > MaxSteps)
    /\ WellFormed(steps)
    /\ \A i \in DOMAIN steps : Permitted(l, steps[i], policy) /\ ~InvalidEstimate(l, steps[i])
    /\ ~Below(policy.max_tokens, Total(l, steps))

\* PlanChecks: whatever the plan and the policy, there is no issue besides cycles exactly
\* if the plan is not too long, every step has an id of its own and depends, once each, on
\* steps of the plan, every step is permitted, no estimate is invalid, and the total is
\* not above the budget.
THEOREM PlanChecksAreExact ==
    ASSUME NEW steps, IsPlan(steps), NEW l \in {"py", "ts"}, NEW policy
    PROVE  /\ CheckIssues(l, steps, policy) \in Seq(PlanIssues(steps))
           /\ CheckIssues(l, steps, policy) = << >> <=> PassesChecks(l, steps, policy)
<1> DEFINE Many   == Len(steps) > MaxSteps
           Over   == Below(policy.max_tokens, Total(l, steps))
           Again(i) == \E j \in 1..i - 1 : steps[j].id = steps[i].id
           M == When(Many, NoStep, "too_many_steps")
           B == BudgetIssue(l, steps, policy)
           dups   == [i \in DOMAIN steps |-> DuplicateStep(steps, i)]
           checks == [i \in DOMAIN steps |-> StepIssues(l, steps, policy, i)]
           P == FlattenSeq(dups)
           C == FlattenSeq(checks)
<1>1. CheckIssues(l, steps, policy) = M \o (IF l = "py" THEN P \o C \o B ELSE B \o P \o C)
    BY DEF CheckIssues, InStepOrder
<1>2. DOMAIN steps = 1..Len(steps) /\ Len(steps) \in Nat
    BY PlanSteps
<1>3. /\ << >> \in Seq(PlanIssues(steps))
      /\ <<[step_id |-> NoStep, code |-> "too_many_steps"]>> \in Seq(PlanIssues(steps))
      /\ <<[step_id |-> NoStep, code |-> "budget_exceeded"]>> \in Seq(PlanIssues(steps))
      /\ \A i \in DOMAIN steps :
            <<[step_id |-> steps[i].id, code |-> "duplicate_step"]>> \in Seq(PlanIssues(steps))
    <2>1. {"too_many_steps", "budget_exceeded", "duplicate_step"} \subseteq PlanCodes
        BY DEF PlanCodes
    <2>2. \A i \in DOMAIN steps : steps[i].id \in {s.id : s \in ToSet(steps)}
        BY PlanSteps
    <2>3. << >> \in Seq(PlanIssues(steps))
        OBVIOUS
    <2>4. ASSUME NEW id \in {s.id : s \in ToSet(steps)} \cup {NoStep}, NEW code \in PlanCodes
          PROVE  <<[step_id |-> id, code |-> code]>> \in Seq(PlanIssues(steps))
        BY OneIssue
    <2> QED BY <2>1, <2>2, <2>3, <2>4
<1>4. M \in Seq(PlanIssues(steps)) /\ B \in Seq(PlanIssues(steps))
    <2> HIDE DEF Many
    <2>1. M \in Seq(PlanIssues(steps))
        BY <1>3 DEF When
    <2>2. B = When(Over, NoStep, "budget_exceeded")
        BY DEF BudgetIssue
    <2> HIDE DEF Over
    <2>3. B \in Seq(PlanIssues(steps))
        BY <1>3, <2>2 DEF When
    <2> QED BY <2>1, <2>3
<1>5. (M = << >> <=> ~Many) /\ (B = << >> <=> ~Over)
    BY DEF When, BudgetIssue
<1>6. ASSUME NEW i \in DOMAIN steps
      PROVE  DuplicateStep(steps, i) \in Seq(PlanIssues(steps))
             /\ (DuplicateStep(steps, i) = << >> <=> ~Again(i))
    <2>1. DuplicateStep(steps, i) = When(Again(i), steps[i].id, "duplicate_step")
        BY DEF DuplicateStep
    <2> HIDE DEF Again
    <2>2. DuplicateStep(steps, i) \in Seq(PlanIssues(steps))
        BY <1>3, <2>1 DEF When
    <2>3. DuplicateStep(steps, i) = << >> <=> ~Again(i)
        BY <2>1 DEF When
    <2> QED BY <2>2, <2>3
<1>7. P \in Seq(PlanIssues(steps)) /\ (P = << >> <=> \A i \in DOMAIN steps : ~Again(i))
    <2>1. dups \in Seq(Seq(PlanIssues(steps))) /\ Len(dups) = Len(steps)
        BY <1>2, <1>6
    <2>2. \A i \in 1..Len(steps) : dups[i] = << >> <=> ~Again(i)
        <3> HIDE DEF Again
        <3> QED BY <1>2, <1>6
    <2> HIDE DEF dups, Again
    <2>3. /\ FlattenSeq(dups) \in Seq(PlanIssues(steps))
          /\ FlattenSeq(dups) = << >> <=> \A i \in 1..Len(dups) : dups[i] = << >>
        BY <2>1, FlattenEmpty
    <2> QED BY <1>2, <2>1, <2>2, <2>3
<1>8. /\ C \in Seq(PlanIssues(steps))
      /\ C = << >> <=> \A i \in DOMAIN steps :
                          StepAllowed(l, steps[i], policy) /\ DependsWell(steps, i)
    <2>1. \A i \in DOMAIN steps :
             /\ StepIssues(l, steps, policy, i) \in Seq(PlanIssues(steps))
             /\ StepIssues(l, steps, policy, i) = << >> <=>
                   StepAllowed(l, steps[i], policy) /\ DependsWell(steps, i)
        BY StepChecked
    <2>2. checks \in Seq(Seq(PlanIssues(steps))) /\ Len(checks) = Len(steps)
        BY <1>2, <2>1
    <2>3. \A i \in 1..Len(steps) :
             checks[i] = << >> <=> StepAllowed(l, steps[i], policy) /\ DependsWell(steps, i)
        BY <1>2, <2>1
    <2> HIDE DEF checks
    <2>4. /\ FlattenSeq(checks) \in Seq(PlanIssues(steps))
          /\ FlattenSeq(checks) = << >> <=> \A i \in 1..Len(checks) : checks[i] = << >>
        BY <2>2, FlattenEmpty
    <2> QED BY <1>2, <2>2, <2>3, <2>4
<1>9. (\A i \in DOMAIN steps : ~Again(i)) <=>
         \A i, j \in DOMAIN steps : steps[i].id = steps[j].id => i = j
    BY <1>2, SMTT(30)
<1>10. WellFormed(steps) <=>
          /\ \A i \in DOMAIN steps : ~Again(i)
          /\ \A i \in DOMAIN steps : DependsWell(steps, i)
    <2> HIDE DEF Again
    <2> QED BY <1>9 DEF WellFormed, DependsWell
<1> HIDE DEF M, B, P, C, Many, Over, Again
<1>11. M \o (IF l = "py" THEN P \o C \o B ELSE B \o P \o C) = << >> <=>
          M = << >> /\ P = << >> /\ C = << >> /\ B = << >>
    <2>1. CASE l = "py"
        BY <1>4, <1>7, <1>8, <2>1
    <2>2. CASE l # "py"
        BY <1>4, <1>7, <1>8, <2>2
    <2> QED BY <2>1, <2>2
<1>12. CheckIssues(l, steps, policy) = << >> <=>
          /\ ~Many /\ ~Over
          /\ \A i \in DOMAIN steps : ~Again(i)
          /\ \A i \in DOMAIN steps :
                StepAllowed(l, steps[i], policy) /\ DependsWell(steps, i)
    BY <1>1, <1>5, <1>7, <1>8, <1>11
<1>13. CheckIssues(l, steps, policy) \in Seq(PlanIssues(steps))
    <2>1. CASE l = "py"
        BY <1>1, <1>4, <1>7, <1>8, <2>1
    <2>2. CASE l # "py"
        BY <1>1, <1>4, <1>7, <1>8, <2>2
    <2> QED BY <2>1, <2>2
<1> QED BY <1>10, <1>12, <1>13 DEF PassesChecks, StepAllowed, Many, Over

-----------------------------------------------------------------------------
(* PlanValidator.  What has been visited leads to no cycle; what is in     *)
(* visiting is on the path or leads to one, whether a search of this or of *)
(* an earlier step left it there.  That a set of steps waits for one       *)
(* another can be said without paths, and needs no induction.              *)

\* What an issue of a plan can be.
AllIssues == [step_id : {s.id : s \in ToSet(plan)} \cup {NoStep}, code : PlanCodes \cup {"cycle"}]

PlanTypes ==
    /\ plan_lang \in {"py", "ts"} /\ plan \in Plans
    /\ root \in 0..Len(plan) + 1
    /\ path \in Seq(Known) /\ visiting \subseteq Known /\ visited \subseteq Known
    /\ issues \in Seq(AllIssues)
    /\ root = 0 => PlanBegins

\* A step waits for another one.
WaitsFor(id, other) == \E k \in DOMAIN DependsOn(id) : DependsOn(id)[k] = other

\* The calls in progress: from the step the search began with along dependencies.
PathExact ==
    /\ \A i, j \in 1..Len(path) : path[i] = path[j] => i = j
    /\ \A i \in 1..Len(path) : path[i] \in visiting
    /\ \A i \in 1..Len(path) - 1 : WaitsFor(path[i], path[i + 1])
    /\ path # << >> => root \in DOMAIN plan /\ path[1] = plan[root].id

\* Nothing is in both sets, so the order in which they are asked does not matter.
MarksExact ==
    /\ visiting \cap visited = {}
    /\ \A id \in visiting : NeverRuns(id) \/ \E i \in 1..Len(path) : path[i] = id
    /\ \A id \in visited : ~NeverRuns(id)

\* The searches that are over reported what never runs, and nothing else was.
ReportedSoFar ==
    /\ \A id \in Known : ReportsCycle(id) => NeverRuns(id)
    /\ \A i \in 1..root - 1 : NeverRuns(plan[i].id) => ReportsCycle(plan[i].id)

\* There is no issue yet exactly if the checks and those searches found nothing.
AcceptedSoFar ==
    root > 0 => (issues = << >> <=> /\ PassesChecks(plan_lang, plan, Policy)
                                    /\ \A i \in 1..root - 1 : ~NeverRuns(plan[i].id))

PlanInv == PlanTypes /\ PathExact /\ MarksExact /\ ReportedSoFar /\ AcceptedSoFar

\* The ids of the steps are those that are known.
LEMMA IdsAreKnown ==
    ASSUME PlanTypes
    PROVE  /\ IsPlan(plan) /\ DOMAIN plan = 1..Len(plan) /\ Len(plan) \in Nat
           /\ \A i \in DOMAIN plan : plan[i].id \in Known
           /\ Known = {s.id : s \in ToSet(plan)}
<1>1. IsPlan(plan)
    BY PlanAssumption DEF PlanTypes
<1>2. \A i \in DOMAIN plan : plan[i].id \in Known
    BY <1>1, IdsOfSteps DEF Known
<1>3. Known = {s.id : s \in ToSet(plan)}
    BY DEF Known, StepById
<1> QED BY <1>1, <1>2, <1>3, PlanSteps

\* Who waits for whom does not change.
LEMMA PlanKept ==
    ASSUME plan' = plan
    PROVE  /\ Known' = Known /\ AllIssues' = AllIssues
           /\ \A id : NeverRuns(id)' <=> NeverRuns(id)
           /\ \A id, other : WaitsFor(id, other)' <=> WaitsFor(id, other)
<1>1. Known' = Known
    BY DEF Known
<1>2. \A id : DependsOn(id)' = DependsOn(id)
    BY DEF DependsOn
<1>3. \A ids : WaitTogether(ids)' <=> WaitTogether(ids)
    BY <1>2 DEF WaitTogether
<1>4. \A id : NeverRuns(id)' <=> NeverRuns(id)
    BY <1>1, <1>3 DEF NeverRuns
<1>5. \A id, other : WaitsFor(id, other)' <=> WaitsFor(id, other)
    BY <1>2 DEF WaitsFor
<1>6. AllIssues' = AllIssues
    BY DEF AllIssues
<1> QED BY <1>1, <1>4, <1>5, <1>6

\* A dependency of the call on top that is in visiting keeps the whole path from running.
LEMMA CycleFound ==
    ASSUME PlanInv, path # << >>, NEW dep \in Known, WaitsFor(Top, dep), dep \in visiting
    PROVE  \A i \in 1..Len(path) : NeverRuns(path[i])
<1> DEFINE on == {path[i] : i \in 1..Len(path)}
<1>1. path \in Seq(Known) /\ Len(path) \in Nat \ {0} /\ Top = path[Len(path)]
    BY DEF PlanInv, PlanTypes, Top
<1>2. on \in SUBSET Known
    BY <1>1
<1>3. PICK more \in SUBSET Known : WaitTogether(more) /\ dep \in on \cup more
    <2>1. CASE dep \in on
        <3>1. WaitTogether({})
            BY DEF WaitTogether
        <3> QED BY <2>1, <3>1
    <2>2. CASE dep \notin on
        <3>1. NeverRuns(dep)
            BY <2>2 DEF PlanInv, MarksExact
        <3> QED BY <3>1 DEF NeverRuns
    <2> QED BY <2>1, <2>2
<1>4. \A i \in 1..Len(path) : \E other \in on \cup more : WaitsFor(path[i], other)
    <2> SUFFICES ASSUME NEW i \in 1..Len(path)
                 PROVE  \E other \in on \cup more : WaitsFor(path[i], other)
        OBVIOUS
    <2>1. CASE i = Len(path)
        BY <1>1, <1>3, <2>1
    <2>2. CASE i # Len(path)
        <3>1. i \in 1..Len(path) - 1 /\ i + 1 \in 1..Len(path)
            BY <1>1, <2>2
        <3>2. WaitsFor(path[i], path[i + 1])
            BY <3>1 DEF PlanInv, PathExact
        <3> QED BY <3>1, <3>2
    <2> QED BY <2>1, <2>2
<1>5. \A id \in more : \E other \in on \cup more : WaitsFor(id, other)
    BY <1>3 DEF WaitTogether, WaitsFor
<1>6. WaitTogether(on \cup more)
    BY <1>4, <1>5 DEF WaitTogether, WaitsFor
<1>7. on \cup more \in SUBSET Known
    BY <1>2, <1>3
<1> HIDE DEF on
<1>8. \A id \in on : NeverRuns(id)
    BY <1>6, <1>7 DEF NeverRuns
<1> QED BY <1>8 DEF on

\* A call that has passed all its dependencies was for a step that leads to no cycle.
LEMMA NoCycleFound ==
    ASSUME PlanInv, path # << >>, PassedAll
    PROVE  ~NeverRuns(Top)
<1> SUFFICES ASSUME NEW ids \in SUBSET Known, Top \in ids, WaitTogether(ids)
             PROVE  FALSE
    BY DEF NeverRuns
<1>1. PICK k \in DOMAIN DependsOn(Top) : DependsOn(Top)[k] \in ids
    BY DEF WaitTogether
<1>2. DependsOn(Top)[k] \in visited
    BY <1>1 DEF PassedAll
<1>3. NeverRuns(DependsOn(Top)[k])
    BY <1>1 DEF NeverRuns
<1> QED BY <1>2, <1>3 DEF PlanInv, MarksExact

\* The search of a step ends with the right answer.
LEMMA SearchEndsRight ==
    ASSUME PlanInv, plan' = plan, plan_lang' = plan_lang, root \in DOMAIN plan,
           NEW cycle \in BOOLEAN, cycle <=> NeverRuns(plan[root].id), SearchReturns(cycle)
    PROVE  /\ issues' \in Seq(AllIssues') /\ root' \in 1..Len(plan) + 1
           /\ path' = << >> /\ PathExact'
           /\ ReportedSoFar' /\ AcceptedSoFar'
<1> DEFINE id == plan[root].id
           found == [step_id |-> id, code |-> "cycle"]
<1>1. /\ DOMAIN plan = 1..Len(plan) /\ Len(plan) \in Nat
      /\ id \in Known /\ Known = {s.id : s \in ToSet(plan)}
      /\ issues \in Seq(AllIssues) /\ DOMAIN issues = 1..Len(issues) /\ Len(issues) \in Nat
    BY IdsAreKnown DEF PlanInv, PlanTypes
<1>2. found \in AllIssues
    BY <1>1 DEF AllIssues
<1>3. issues' = IF cycle THEN Append(issues, found) ELSE issues
    <2>1. issues' = issues \o When(cycle, id, "cycle")
        BY DEF SearchReturns
    <2>2. CASE cycle
        <3>1. issues' = issues \o <<found>>
            BY <2>1, <2>2 DEF When
        <3> HIDE DEF found
        <3>2. issues \o <<found>> = Append(issues, found)
            BY <1>1, <1>2
        <3> QED BY <2>2, <3>1, <3>2
    <2>3. CASE ~cycle
        <3>1. issues' = issues \o << >>
            BY <2>1, <2>3 DEF When
        <3> QED BY <1>1, <2>3, <3>1
    <2> QED BY <2>2, <2>3
<1>4. issues' \in Seq(AllIssues) /\ AllIssues' = AllIssues
    <2>1. issues' \in Seq(AllIssues)
        <3> HIDE DEF found
        <3> QED BY <1>1, <1>2, <1>3
    <2> QED BY <2>1, PlanKept
<1>5. root' = root + 1 /\ root' \in 1..Len(plan) + 1 /\ path' = << >>
    BY <1>1 DEF SearchReturns
<1>6. PathExact'
    BY <1>5 DEF PathExact
<1>7. /\ ~cycle => issues' = issues
      /\ cycle => /\ \A i \in DOMAIN issues : i \in DOMAIN issues' /\ issues'[i] = issues[i]
                  /\ \A i \in DOMAIN issues' : i \in DOMAIN issues \/ issues'[i] = found
                  /\ \E i \in DOMAIN issues' : issues'[i] = found
                  /\ issues' # << >>
    <2> SUFFICES ASSUME cycle
                 PROVE  /\ \A i \in DOMAIN issues : i \in DOMAIN issues' /\ issues'[i] = issues[i]
                        /\ \A i \in DOMAIN issues' : i \in DOMAIN issues \/ issues'[i] = found
                        /\ \E i \in DOMAIN issues' : issues'[i] = found
                        /\ issues' # << >>
        BY <1>3
    <2> HIDE DEF found
    <2>1. /\ DOMAIN issues' = 1..Len(issues) + 1
          /\ \A i \in 1..Len(issues) : issues'[i] = issues[i]
          /\ issues'[Len(issues) + 1] = found
        BY <1>1, <1>2, <1>3
    <2>2. Len(issues) + 1 \in DOMAIN issues'
        BY <1>1, <2>1
    <2>3. issues' # << >>
        BY <2>2
    <2> QED BY <1>1, <2>1, <2>2, <2>3
<1>8. \A i \in Known : ReportsCycle(i)' <=> ReportsCycle(i) \/ (cycle /\ i = id)
    <2>1. CASE ~cycle
        BY <1>7, <2>1 DEF ReportsCycle
    <2>2. CASE cycle
        <3>1. \A i \in Known : [step_id |-> i, code |-> "cycle"] = found <=> i = id
            OBVIOUS
        <3> HIDE DEF found, id
        <3> QED BY <1>7, <2>2, <3>1 DEF ReportsCycle
    <2> QED BY <2>1, <2>2
<1>9. ReportedSoFar'
    <2>1. \A i \in Known' : ReportsCycle(i)' => NeverRuns(i)'
        BY <1>8, PlanKept DEF PlanInv, ReportedSoFar
    <2>2. ASSUME NEW i \in 1..root, NeverRuns(plan[i].id) PROVE ReportsCycle(plan[i].id)'
        <3>1. plan[i].id \in Known
            BY <1>1, IdsAreKnown DEF PlanInv
        <3>2. CASE i = root
            BY <1>8, <2>2, <3>1, <3>2
        <3>3. CASE i # root
            <4>1. i \in 1..root - 1
                BY <1>1, <3>3
            <4> QED BY <1>8, <2>2, <3>1, <4>1 DEF PlanInv, ReportedSoFar
        <3> QED BY <3>2, <3>3
    <2>3. (\A i \in 1..root - 1 : NeverRuns(plan[i].id) => ReportsCycle(plan[i].id))'
        <3>1. 1..root' - 1 = 1..root
            BY <1>1, <1>5
        <3> QED BY <2>2, <3>1, PlanKept
    <2> QED BY <2>1, <2>3 DEF ReportedSoFar
<1>10. AcceptedSoFar'
    <2>1. root > 0 /\ 1..root' - 1 = (1..root - 1) \cup {root}
        BY <1>1, <1>5
    <2>2. issues' = << >> <=> issues = << >> /\ ~cycle
        BY <1>7
    <2>3. issues = << >> <=> /\ PassesChecks(plan_lang, plan, Policy)
                             /\ \A i \in 1..root - 1 : ~NeverRuns(plan[i].id)
        BY <2>1 DEF PlanInv, AcceptedSoFar
    <2>4. issues' = << >> <=> /\ PassesChecks(plan_lang, plan, Policy)
                              /\ \A i \in 1..root' - 1 : ~NeverRuns(plan[i].id)
        BY <2>1, <2>2, <2>3
    <2>5. PassesChecks(plan_lang, plan, Policy)' <=> PassesChecks(plan_lang, plan, Policy)
        BY DEF PassesChecks
    <2> QED BY <2>4, <2>5, PlanKept DEF AcceptedSoFar
<1> QED BY <1>4, <1>5, <1>6, <1>9, <1>10

\* Nothing of what has been reported changes while a search goes on.
LEMMA SearchGoesOn ==
    ASSUME PlanInv, UNCHANGED <<plan_lang, plan, root, issues>>
    PROVE  /\ issues' \in Seq(AllIssues') /\ root' \in 0..Len(plan) + 1
           /\ ReportedSoFar' /\ AcceptedSoFar'
<1>1. \A id : ReportsCycle(id)' <=> ReportsCycle(id)
    BY DEF ReportsCycle
<1>2. ReportedSoFar'
    BY <1>1, PlanKept DEF PlanInv, ReportedSoFar
<1>3. PassesChecks(plan_lang, plan, Policy)' <=> PassesChecks(plan_lang, plan, Policy)
    BY DEF PassesChecks
<1>4. AcceptedSoFar'
    BY <1>3, PlanKept DEF PlanInv, AcceptedSoFar
<1> QED BY <1>2, <1>4, PlanKept DEF PlanInv, PlanTypes

\* The checks find what they find, and never a cycle.
LEMMA CheckKeeps == ASSUME PlanInv, Check PROVE PlanInv'
<1>1. PlanBegins /\ plan' = plan /\ plan_lang' = plan_lang
    BY DEF PlanInv, PlanTypes, Check
<1>2. /\ path' = << >> /\ visiting' = {} /\ visited' = {} /\ root' = 1
      /\ issues' = CheckIssues(plan_lang, plan, Policy)
    BY <1>1 DEF Check, PlanBegins
<1>3. plan_lang \in {"py", "ts"} /\ IsPlan(plan) /\ Len(plan) \in Nat
    BY IdsAreKnown DEF PlanInv, PlanTypes
<1>4. /\ issues' \in Seq(PlanIssues(plan))
      /\ issues' = << >> <=> PassesChecks(plan_lang, plan, Policy)
    BY <1>2, <1>3, PlanChecksAreExact
<1>5. \A i \in DOMAIN issues' : issues'[i] \in PlanIssues(plan)
    BY <1>4
<1>6. PlanIssues(plan) \subseteq AllIssues
    BY DEF PlanIssues, AllIssues
<1>7. issues' \in Seq(AllIssues)
    BY <1>4, <1>6
<1>8. PlanTypes'
    BY <1>1, <1>2, <1>3, <1>7, PlanKept DEF PlanTypes, PlanInv
<1>9. PathExact' /\ MarksExact'
    BY <1>2 DEF PathExact, MarksExact
<1>10. ReportedSoFar'
    <2>1. ASSUME NEW id, NEW i \in DOMAIN issues', issues'[i] = [step_id |-> id, code |-> "cycle"]
          PROVE  FALSE
        <3>1. issues'[i].code \in PlanCodes
            BY <1>5 DEF PlanIssues
        <3>2. issues'[i].code = "cycle"
            BY <2>1
        <3> QED BY <3>1, <3>2 DEF PlanCodes
    <2>2. \A id : ~ReportsCycle(id)'
        BY <2>1 DEF ReportsCycle
    <2> QED BY <1>2, <2>2 DEF ReportedSoFar
<1>11. AcceptedSoFar'
    <2>1. PassesChecks(plan_lang, plan, Policy)' <=> PassesChecks(plan_lang, plan, Policy)
        BY <1>1 DEF PassesChecks
    <2> QED BY <1>2, <1>4, <2>1 DEF AcceptedSoFar
<1> QED BY <1>8, <1>9, <1>10, <1>11 DEF PlanInv

\* A search that is answered from the marks is answered right; another one sets out.
LEMMA SearchFromKeeps == ASSUME PlanInv, SearchFrom PROVE PlanInv'
<1> DEFINE id    == plan[root].id
           marks == IF plan_lang = "ts" THEN {} ELSE visiting
<1>1. /\ root \in DOMAIN plan /\ path = << >>
      /\ plan' = plan /\ plan_lang' = plan_lang /\ visited' = visited
    BY DEF SearchFrom
<1>2. /\ id \in Known /\ marks \subseteq visiting /\ root # 0 /\ Len(path) = 0
      /\ visiting \subseteq Known /\ visited \subseteq Known /\ marks \cap visited = {}
    BY <1>1, IdsAreKnown DEF PlanInv, PlanTypes, MarksExact
<1>3. /\ \A i \in marks : NeverRuns(i)
      /\ \A i \in visited : ~NeverRuns(i)
    BY <1>2 DEF PlanInv, MarksExact
<1>4. \/ id \in marks \cup visited /\ SearchReturns(id \in marks) /\ visiting' = marks
      \/ /\ id \notin marks \cup visited /\ path' = <<id>> /\ visiting' = marks \cup {id}
         /\ UNCHANGED <<root, issues>>
    BY DEF SearchFrom
<1>5. CASE id \in marks \cup visited /\ SearchReturns(id \in marks) /\ visiting' = marks
    <2>1. (id \in marks) <=> NeverRuns(id)
        BY <1>3, <1>5
    <2>2. /\ issues' \in Seq(AllIssues') /\ root' \in 1..Len(plan) + 1 /\ path' = << >>
          /\ PathExact' /\ ReportedSoFar' /\ AcceptedSoFar'
        <3>1. (id \in marks) \in BOOLEAN
            OBVIOUS
        <3> HIDE DEF marks
        <3> QED BY <1>1, <1>5, <2>1, <3>1, SearchEndsRight
    <2> HIDE DEF marks
    <2>3. PlanTypes'
        BY <1>1, <1>2, <1>5, <2>2, PlanKept DEF PlanInv, PlanTypes
    <2>4. MarksExact'
        BY <1>1, <1>2, <1>3, <1>5, PlanKept DEF MarksExact
    <2> QED BY <2>2, <2>3, <2>4 DEF PlanInv
<1>6. CASE /\ id \notin marks \cup visited /\ path' = <<id>> /\ visiting' = marks \cup {id}
           /\ UNCHANGED <<root, issues>>
    <2>1. /\ issues' \in Seq(AllIssues') /\ root' \in 0..Len(plan) + 1
          /\ ReportedSoFar' /\ AcceptedSoFar'
        BY <1>1, <1>6, SearchGoesOn
    <2>2. Len(path') = 1 /\ path'[1] = id /\ path' \in Seq(Known)
        BY <1>2, <1>6
    <2> HIDE DEF marks
    <2>3. PlanTypes'
        BY <1>1, <1>2, <1>6, <2>1, <2>2, PlanKept DEF PlanInv, PlanTypes
    <2>4. PathExact'
        BY <1>1, <1>6, <2>2 DEF PathExact
    <2>5. MarksExact'
        BY <1>1, <1>2, <1>3, <1>6, <2>2, PlanKept DEF MarksExact
    <2> QED BY <2>1, <2>3, <2>4, <2>5 DEF PlanInv
<1> QED BY <1>4, <1>5, <1>6

\* What the call on top reaches is known, not visited, and something it waits for.
LEMMA ReachedDependency ==
    ASSUME PlanInv, path # << >>, NEW dep, Reaches(dep)
    PROVE  /\ dep \in Known /\ dep \notin visited /\ WaitsFor(Top, dep)
           /\ path \in Seq(Known) /\ Len(path) \in Nat \ {0} /\ Top = path[Len(path)]
           /\ root \in DOMAIN plan /\ path[1] = plan[root].id
BY DEF PlanInv, PlanTypes, PathExact, Reaches, WaitsFor, Top

\* The path grows along a dependency.
LEMMA DescendKeeps == ASSUME PlanInv, NEW dep \in Known, Descend(dep) PROVE PlanInv'
<1>1. /\ path # << >> /\ Reaches(dep) /\ dep \notin visiting
      /\ path' = Append(path, dep) /\ visiting' = visiting \cup {dep} /\ visited' = visited
      /\ UNCHANGED <<plan_lang, plan, root, issues>>
    BY DEF Descend
<1>2. /\ dep \notin visited /\ WaitsFor(Top, dep)
      /\ path \in Seq(Known) /\ Len(path) \in Nat \ {0} /\ Top = path[Len(path)]
      /\ root \in DOMAIN plan /\ path[1] = plan[root].id
    BY <1>1, ReachedDependency
<1>3. /\ issues' \in Seq(AllIssues') /\ root' \in 0..Len(plan) + 1
      /\ ReportedSoFar' /\ AcceptedSoFar'
    BY <1>1, SearchGoesOn
<1>4. /\ path' \in Seq(Known) /\ Len(path') = Len(path) + 1 /\ path' # << >>
      /\ \A i \in 1..Len(path) : path'[i] = path[i]
      /\ path'[Len(path) + 1] = dep
    BY <1>1, <1>2
<1>5. PlanTypes'
    <2>1. root # 0
        BY <1>2, IdsAreKnown DEF PlanInv
    <2> QED BY <1>1, <1>3, <1>4, <2>1, PlanKept DEF PlanInv, PlanTypes
<1>6. PathExact'
    <2>1. /\ \A i, j \in 1..Len(path) : path[i] = path[j] => i = j
          /\ \A i \in 1..Len(path) : path[i] \in visiting
          /\ \A i \in 1..Len(path) - 1 : WaitsFor(path[i], path[i + 1])
        BY DEF PlanInv, PathExact
    <2>2. \A i \in 1..Len(path') : i \in 1..Len(path) \/ i = Len(path) + 1
        BY <1>2, <1>4
    <2>3. \A i, j \in 1..Len(path') : path'[i] = path'[j] => i = j
        BY <1>1, <1>4, <2>1, <2>2
    <2>4. \A i \in 1..Len(path') : path'[i] \in visiting'
        BY <1>1, <1>4, <2>1, <2>2
    <2>5. ASSUME NEW i \in 1..Len(path') - 1 PROVE WaitsFor(path'[i], path'[i + 1])
        <3>1. CASE i = Len(path)
            BY <1>2, <1>4, <3>1
        <3>2. CASE i # Len(path)
            <4>1. i \in 1..Len(path) - 1 /\ i \in 1..Len(path) /\ i + 1 \in 1..Len(path)
                BY <1>2, <1>4, <3>2
            <4> QED BY <1>4, <2>1, <4>1
        <3> QED BY <3>1, <3>2
    <2>6. (\A i \in 1..Len(path) - 1 : WaitsFor(path[i], path[i + 1]))'
        BY <1>1, <2>5, PlanKept
    <2>7. root' \in DOMAIN plan' /\ path'[1] = plan'[root'].id
        BY <1>1, <1>2, <1>4
    <2> QED BY <2>3, <2>4, <2>6, <2>7 DEF PathExact
<1>7. MarksExact'
    <2>1. \A id \in visiting : NeverRuns(id) \/ \E i \in 1..Len(path) : path[i] = id
        BY DEF PlanInv, MarksExact
    <2>2. \A id \in visiting' : NeverRuns(id) \/ \E i \in 1..Len(path') : path'[i] = id
        <3> SUFFICES ASSUME NEW id \in visiting', ~NeverRuns(id)
                     PROVE  \E i \in 1..Len(path') : path'[i] = id
            OBVIOUS
        <3>1. 1..Len(path) \subseteq 1..Len(path') /\ Len(path) + 1 \in 1..Len(path')
            BY <1>2, <1>4
        <3>2. CASE id = dep
            BY <1>4, <3>1, <3>2
        <3>3. CASE id # dep
            BY <1>1, <1>4, <2>1, <3>1, <3>3
        <3> QED BY <3>2, <3>3
    <2>3. visiting' \cap visited' = {} /\ \A id \in visited' : ~NeverRuns(id)
        BY <1>1, <1>2 DEF PlanInv, MarksExact
    <2> QED BY <1>1, <2>2, <2>3, PlanKept DEF MarksExact
<1> QED BY <1>3, <1>5, <1>6, <1>7 DEF PlanInv

\* A cycle is found: nothing on the path will ever run, so its marks may stay.
LEMMA FindCycleKeeps == ASSUME PlanInv, NEW dep \in Known, FindCycle(dep) PROVE PlanInv'
<1>1. /\ path # << >> /\ Reaches(dep) /\ dep \in visiting /\ SearchReturns(TRUE)
      /\ UNCHANGED <<plan_lang, plan, visiting, visited>>
    BY DEF FindCycle
<1>2. /\ WaitsFor(Top, dep) /\ Len(path) \in Nat \ {0}
      /\ root \in DOMAIN plan /\ path[1] = plan[root].id
    BY <1>1, ReachedDependency
<1>3. \A i \in 1..Len(path) : NeverRuns(path[i])
    BY <1>1, <1>2, CycleFound
<1>4. NeverRuns(plan[root].id)
    <2>1. 1 \in 1..Len(path)
        BY <1>2
    <2> QED BY <1>2, <1>3, <2>1
<1>5. /\ issues' \in Seq(AllIssues') /\ root' \in 1..Len(plan) + 1 /\ path' = << >>
      /\ PathExact' /\ ReportedSoFar' /\ AcceptedSoFar'
    BY <1>1, <1>2, <1>4, SearchEndsRight
<1>6. PlanTypes'
    BY <1>1, <1>5, PlanKept DEF PlanInv, PlanTypes
<1>7. MarksExact'
    <2>1. \A id \in visiting : NeverRuns(id)
        BY <1>3 DEF PlanInv, MarksExact
    <2> QED BY <1>1, <2>1, PlanKept DEF PlanInv, MarksExact
<1> QED BY <1>5, <1>6, <1>7 DEF PlanInv

\* The call on top returns, and with the outermost one the search.
LEMMA LeaveKeeps == ASSUME PlanInv, Leave PROVE PlanInv'
<1>1. /\ path # << >> /\ PassedAll /\ FrameReturns /\ UNCHANGED <<plan_lang, plan>>
      /\ visiting' = visiting \ {Top} /\ visited' = visited \cup {Top}
    BY DEF Leave
<1>2. /\ path \in Seq(Known) /\ Len(path) \in Nat \ {0} /\ Top = path[Len(path)] /\ Top \in Known
      /\ root \in DOMAIN plan /\ path[1] = plan[root].id /\ root # 0
    BY <1>1, IdsAreKnown DEF PlanInv, PlanTypes, PathExact, Top
<1>3. ~NeverRuns(Top)
    BY <1>1, NoCycleFound
<1>4. /\ visiting' \subseteq Known /\ visited' \subseteq Known /\ visiting' \cap visited' = {}
      /\ \A id \in visited' : ~NeverRuns(id)
    BY <1>1, <1>2, <1>3 DEF PlanInv, PlanTypes, MarksExact
<1>5. CASE Len(path) = 1
    <2>1. SearchReturns(FALSE) /\ Top = plan[root].id
        BY <1>1, <1>2, <1>5 DEF FrameReturns
    <2>2. /\ issues' \in Seq(AllIssues') /\ root' \in 1..Len(plan) + 1 /\ path' = << >>
          /\ PathExact' /\ ReportedSoFar' /\ AcceptedSoFar'
        BY <1>1, <1>2, <1>3, <2>1, SearchEndsRight
    <2>3. PlanTypes'
        BY <1>1, <1>4, <2>2, PlanKept DEF PlanInv, PlanTypes
    <2>4. \A id \in visiting' : NeverRuns(id)
        <3>1. \A i \in 1..Len(path) : path[i] = Top
            BY <1>2, <1>5
        <3> QED BY <1>1, <3>1 DEF PlanInv, MarksExact
    <2>5. MarksExact'
        BY <1>1, <1>4, <2>4, PlanKept DEF MarksExact
    <2> QED BY <2>2, <2>3, <2>5 DEF PlanInv
<1>6. CASE Len(path) # 1
    <2>1. path' = SubSeq(path, 1, Len(path) - 1) /\ UNCHANGED <<root, issues>>
        BY <1>1, <1>6 DEF FrameReturns
    <2>2. /\ path' \in Seq(Known) /\ Len(path') = Len(path) - 1 /\ Len(path') \in Nat \ {0}
          /\ \A i \in 1..Len(path') : path'[i] = path[i]
        <3> DEFINE n == Len(path) - 1
        <3>1. n \in Int /\ n \in Nat \ {0} /\ \A i \in 1..n : path[i] \in Known
            BY <1>2, <1>6
        <3> HIDE DEF n
        <3>2. /\ SubSeq(path, 1, n) \in Seq(Known)
              /\ Len(SubSeq(path, 1, n)) = IF 1 <= n THEN n - 1 + 1 ELSE 0
              /\ \A i \in 1..n - 1 + 1 : SubSeq(path, 1, n)[i] = path[1 + i - 1]
            BY <3>1, SubSeqProperties
        <3>3. path' = SubSeq(path, 1, n)
            BY <2>1 DEF n
        <3>4. path' \in Seq(Known) /\ Len(path') = n /\ \A i \in 1..n : path'[i] = path[i]
            BY <3>1, <3>2, <3>3
        <3> QED BY <3>1, <3>4 DEF n
    <2>3. /\ issues' \in Seq(AllIssues') /\ root' \in 0..Len(plan) + 1
          /\ ReportedSoFar' /\ AcceptedSoFar'
        BY <1>1, <2>1, SearchGoesOn
    <2>4. PlanTypes'
        BY <1>1, <1>2, <1>4, <2>1, <2>2, <2>3, PlanKept DEF PlanInv, PlanTypes
    <2>5. /\ \A i, j \in 1..Len(path) : path[i] = path[j] => i = j
          /\ \A i \in 1..Len(path) : path[i] \in visiting
          /\ \A i \in 1..Len(path) - 1 : WaitsFor(path[i], path[i + 1])
        BY DEF PlanInv, PathExact
    <2>6. PathExact'
        <3>1. \A i \in 1..Len(path') : i \in 1..Len(path) /\ i # Len(path)
            BY <1>2, <2>2
        <3>2. \A i, j \in 1..Len(path') : path'[i] = path'[j] => i = j
            BY <2>2, <2>5, <3>1
        <3>3. ASSUME NEW i \in 1..Len(path') PROVE path'[i] \in visiting'
            <4>1. path[i] # path[Len(path)]
                BY <1>2, <2>5, <3>1
            <4> QED BY <1>1, <1>2, <2>2, <2>5, <3>1, <4>1
        <3>4. ASSUME NEW i \in 1..Len(path') - 1 PROVE WaitsFor(path'[i], path'[i + 1])
            <4>1. i \in 1..Len(path) - 1 /\ i \in 1..Len(path') /\ i + 1 \in 1..Len(path')
                BY <1>2, <2>2
            <4> QED BY <2>2, <2>5, <4>1
        <3>5. (\A i \in 1..Len(path) - 1 : WaitsFor(path[i], path[i + 1]))'
            BY <1>1, <3>4, PlanKept
        <3>6. root' \in DOMAIN plan' /\ path'[1] = plan'[root'].id
            BY <1>1, <1>2, <2>1, <2>2
        <3> QED BY <3>2, <3>3, <3>5, <3>6 DEF PathExact
    <2>7. MarksExact'
        <3>1. ASSUME NEW id \in visiting', ~NeverRuns(id)
              PROVE  \E i \in 1..Len(path') : path'[i] = id
            <4>1. id \in visiting /\ id # path[Len(path)]
                BY <1>1, <1>2
            <4>2. PICK i \in 1..Len(path) : path[i] = id
                BY <3>1, <4>1 DEF PlanInv, MarksExact
            <4>3. i \in 1..Len(path')
                BY <1>2, <2>2, <4>1, <4>2
            <4> QED BY <2>2, <4>2, <4>3
        <3> QED BY <1>1, <1>4, <3>1, PlanKept DEF MarksExact
    <2> QED BY <2>3, <2>4, <2>6, <2>7 DEF PlanInv
<1> QED BY <1>5, <1>6

\* Nothing has been looked at at first.
LEMMA PlanInitKeeps == PlanInit => PlanInv
<1> SUFFICES ASSUME PlanInit PROVE PlanInv
    OBVIOUS
<1>1. PlanTypes
    <2>1. IsPlan(plan)
        BY PlanAssumption DEF PlanInit
    <2>2. Len(plan) \in Nat
        BY <2>1, PlanSteps
    <2> QED BY <2>2 DEF PlanInit, PlanBegins, PlanTypes
<1>2. PathExact /\ MarksExact /\ ReportedSoFar /\ AcceptedSoFar
    BY DEF PlanInit, PlanBegins, PathExact, MarksExact, ReportedSoFar, AcceptedSoFar, ReportsCycle
<1> QED BY <1>1, <1>2 DEF PlanInv

\* No step of the plan validator breaks the invariant.
LEMMA PlanNextKeeps == PlanInv /\ [PlanNext]_planVars => PlanInv'
<1> SUFFICES ASSUME PlanInv, [PlanNext]_planVars PROVE PlanInv'
    OBVIOUS
<1>1. CASE Check
    BY <1>1, CheckKeeps
<1>2. CASE SearchFrom
    BY <1>2, SearchFromKeeps
<1>3. CASE Leave
    BY <1>3, LeaveKeeps
<1>4. ASSUME NEW dep \in Known, Descend(dep) PROVE PlanInv'
    BY <1>4, DescendKeeps
<1>5. ASSUME NEW dep \in Known, FindCycle(dep) PROVE PlanInv'
    BY <1>5, FindCycleKeeps
<1>6. CASE UNCHANGED planVars
    <2>1. PlanTypes'
        BY <1>6, PlanKept DEF planVars, PlanInv, PlanTypes, PlanBegins
    <2>2. PathExact'
        BY <1>6, PlanKept DEF planVars, PlanInv, PathExact
    <2>3. MarksExact'
        BY <1>6, PlanKept DEF planVars, PlanInv, MarksExact
    <2>4. ReportedSoFar' /\ AcceptedSoFar'
        BY <1>6, SearchGoesOn DEF planVars
    <2> QED BY <2>1, <2>2, <2>3, <2>4 DEF PlanInv
<1> QED BY <1>1, <1>2, <1>3, <1>4, <1>5, <1>6 DEF PlanNext

\* The invariant of the plan validator: its marks, its path and its report agree.
THEOREM PlanInvariant == PlanSpec => []PlanInv
BY PlanInitKeeps, PlanNextKeeps, PTL DEF PlanSpec

\* CyclesExact: validate_plan() reports as cyclic exactly the steps that can never run, for
\* every plan, in both languages, whatever marks earlier searches have left behind.
THEOREM CyclesAreExact == PlanSpec => []CyclesExact
<1>1. PlanInv => CyclesExact
    <2> SUFFICES ASSUME PlanInv, root > Len(plan), NEW i \in DOMAIN plan
                 PROVE  ReportsCycle(plan[i].id) <=> NeverRuns(plan[i].id)
        BY DEF CyclesExact, PlanReturned
    <2>1. plan[i].id \in Known /\ i \in 1..root - 1
        BY IdsAreKnown DEF PlanInv, PlanTypes
    <2> QED BY <2>1 DEF PlanInv, ReportedSoFar
<1> QED BY <1>1, PlanInvariant, PTL

\* "Rejects malformed, cyclic, unauthorized, or over-budget plans": a plan is accepted
\* exactly if the checks find nothing wrong and no set of its steps waits for one another.
THEOREM AcceptsExactly ==
    PlanSpec => [](PlanReturned => (issues = << >> <=>
                        /\ PassesChecks(plan_lang, plan, Policy)
                        /\ \A ids \in SUBSET Known : WaitTogether(ids) => ids = {}))
<1>1. PlanInv => (PlanReturned => (issues = << >> <=>
                        /\ PassesChecks(plan_lang, plan, Policy)
                        /\ \A ids \in SUBSET Known : WaitTogether(ids) => ids = {}))
    <2> SUFFICES ASSUME PlanInv, root > Len(plan)
                 PROVE  issues = << >> <=>
                            /\ PassesChecks(plan_lang, plan, Policy)
                            /\ \A ids \in SUBSET Known : WaitTogether(ids) => ids = {}
        BY DEF PlanReturned
    <2>1. /\ DOMAIN plan = 1..Len(plan) /\ Len(plan) \in Nat /\ root = Len(plan) + 1
          /\ Known = {s.id : s \in ToSet(plan)} /\ ToSet(plan) = {plan[i] : i \in DOMAIN plan}
        BY IdsAreKnown, PlanSteps DEF PlanInv, PlanTypes
    <2>2. issues = << >> <=> /\ PassesChecks(plan_lang, plan, Policy)
                             /\ \A i \in 1..Len(plan) : ~NeverRuns(plan[i].id)
        <3>1. root - 1 = Len(plan) /\ root > 0
            BY <2>1
        <3> QED BY <3>1 DEF PlanInv, AcceptedSoFar
    <2>3. (\A i \in 1..Len(plan) : ~NeverRuns(plan[i].id)) <=> \A id \in Known : ~NeverRuns(id)
        BY <2>1
    <2>4. (\A id \in Known : ~NeverRuns(id)) <=>
             \A ids \in SUBSET Known : WaitTogether(ids) => ids = {}
        BY DEF NeverRuns
    <2> QED BY <2>2, <2>3, <2>4
<1> QED BY <1>1, PlanInvariant, PTL

===============================================================================
