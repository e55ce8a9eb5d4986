---------------------------- MODULE ApprovalCallback ----------------------------
(***************************************************************************)
(* technical/duplicate_approval_callback: approvalCallback() of answer.md, *)
(* called for every delivery of a reviewer's decision: twice, late, or in  *)
(* conflict with another one.  The database is external: getForUpdate()    *)
(* waits for the lock of the row, and a transaction is committed as a      *)
(* whole or, if the process fails, not at all.                             *)
(***************************************************************************)
EXTENDS Naturals

CONSTANTS Deliveries,       \* the callbacks that arrive
          NoDelivery

ASSUME ApprovalAssumption == NoDelivery \notin Deliveries

VARIABLES
    delivery,       \* per callback: its signature, its body and its progress
    row,            \* the approval request: status, expiry, digest
    row_lock,       \* the transaction that holds the row
    outbox          \* how many execution intents there are

approvalVars == <<delivery, row, row_lock, outbox>>

ApprovalIdle ==
    /\ delivery = [d \in Deliveries |-> [valid |-> FALSE, decision |-> "none", known |-> FALSE,
                                         at |-> "none"]]
    /\ row = [status |-> "pending", expired |-> FALSE, superseded |-> FALSE]
    /\ row_lock = NoDelivery
    /\ outbox = 0

Answer(d, reply) == delivery' = [delivery EXCEPT ![d].at = reply]

\* The callback arrives, its signature is verified and its body parsed; its requestId may
\* be known or not.  What it has to throw for ends it.
Arrives(d) ==
    /\ delivery[d].at = "none"
    /\ \E valid, known \in BOOLEAN, decision \in {"approved", "rejected"} :
          \E at \in IF valid THEN {"begun", "not_json"} ELSE {"invalid_signature"} :
             delivery' = [delivery EXCEPT ![d] =
                 [valid |-> valid, decision |-> decision, known |-> known, at |-> at]]
    /\ UNCHANGED <<row, row_lock, outbox>>

\* Mutant: the row is read without being locked.
ReadRow(d) ==
    /\ delivery[d].at = "begun" /\ delivery[d].known
    /\ \/ row.status = "pending" /\ Answer(d, "deciding")
       \/ row.status # "pending" /\ Answer(d, "decision_conflict")
    /\ UNCHANGED <<row, row_lock, outbox>>

\* getForUpdate() finds no row: the transaction ends with an error.
FindNoRow(d) ==
    /\ delivery[d].at = "begun" /\ ~delivery[d].known
    /\ Answer(d, "not_found")
    /\ UNCHANGED <<row, row_lock, outbox>>

\* getForUpdate() has the row; what cannot be decided is answered at once, which ends
\* the transaction.
GetForUpdate(d) ==
    /\ delivery[d].at = "begun" /\ delivery[d].known
    /\ row_lock = NoDelivery
    /\ \/ row.status = delivery[d].decision /\ Answer(d, "duplicate") /\ UNCHANGED row_lock
       \/ /\ row.status \notin {delivery[d].decision, "pending"}
          /\ Answer(d, "decision_conflict") /\ UNCHANGED row_lock
       \/ row.status = "pending" /\ Answer(d, "deciding") /\ row_lock' = d
    /\ UNCHANGED <<row, outbox>>

Unlock(d) == row_lock' = IF row_lock = d THEN NoDelivery ELSE row_lock

\* The checks of the row as it was read, the writes, and the commit.
Decide(d) ==
    /\ delivery[d].at = "deciding"
    /\ Unlock(d)
    /\ CASE row.expired    -> Answer(d, "expired") /\ UNCHANGED <<row, outbox>>
         [] ~row.expired /\ row.superseded ->
               Answer(d, "superseded") /\ UNCHANGED <<row, outbox>>
         [] OTHER ->
               /\ Answer(d, "ok")
               /\ row' = [row EXCEPT !.status = delivery[d].decision]
               /\ outbox' = IF delivery[d].decision = "approved" THEN outbox + 1 ELSE outbox

\* The process fails before the commit -- nothing is written and the lock is given back --
\* or before the answer: the callback is delivered again.
Redelivered(d) ==
    /\ delivery[d].at \in {"deciding", "ok", "duplicate"}
    /\ Unlock(d)
    /\ Answer(d, "begun")
    /\ UNCHANGED <<row, outbox>>

\* Time passes; the action of the request changes, or the request is cancelled while it is
\* pending (no transaction holds the row then).
Outdate ==
    /\ \/ row' = [row EXCEPT !.expired = TRUE]
       \/ row_lock = NoDelivery /\ row' = [row EXCEPT !.superseded = TRUE]
       \/ /\ row_lock = NoDelivery /\ row.status = "pending"
          /\ row' = [row EXCEPT !.status = "cancelled"]
    /\ row' # row
    /\ UNCHANGED <<delivery, row_lock, outbox>>

ApprovalNext ==
    \/ \E d \in Deliveries : \/ Arrives(d) \/ FindNoRow(d) \/ GetForUpdate(d)
                            \/ Decide(d) \/ Redelivered(d)
    \/ Outdate

ApprovalSpec == ApprovalIdle /\ [][ApprovalNext]_approvalVars

-----------------------------------------------------------------------------
(* Properties                                                              *)

Replies == {"invalid_signature", "not_json", "not_found", "duplicate", "decision_conflict",
            "expired", "superseded", "ok"}

Callbacks == [valid : BOOLEAN, decision : {"none", "approved", "rejected"}, known : BOOLEAN,
              at : {"none", "begun", "deciding"} \cup Replies]

Rows == [status : {"pending", "approved", "rejected", "cancelled"},
         expired : BOOLEAN, superseded : BOOLEAN]

\* The types of the callbacks, the row, its lock and the outbox.
ApprovalTypeOK ==
    /\ delivery \in [Deliveries -> Callbacks]
    /\ row \in Rows
    /\ row_lock \in Deliveries \cup {NoDelivery}
    /\ outbox \in Nat

Told(reply) == {d \in Deliveries : delivery[d].at = reply}

\* "An approval should only transition a pending request once": however callbacks are
\* repeated, reordered and interleaved, and wherever the process fails, one decision is
\* taken at most; there is one intent to execute exactly if it was to approve; and
\* everybody who is told so, and only they, sent this very decision with a signature.
DecidedOnce ==
    /\ ApprovalTypeOK
    /\ outbox = (IF row.status = "approved" THEN 1 ELSE 0)
    /\ \A d, e \in Told("ok") : d = e
    /\ \A d \in Told("ok") \cup Told("duplicate") :
          delivery[d].valid /\ delivery[d].known /\ delivery[d].decision = row.status
    /\ \A d \in Told("decision_conflict") :
          row.status \notin {"pending", delivery[d].decision}

===============================================================================
