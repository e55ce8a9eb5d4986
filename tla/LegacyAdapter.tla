----------------------------- MODULE LegacyAdapter -----------------------------
(***************************************************************************)
(* technical/legacy_api_adapter: get_status(account_id), one attempt to    *)
(* read an account from the injected client, in both languages.  What the  *)
(* client does is the input: it raises, or it answers.                     *)
(*                                                                         *)
(* A body that is an object is the function from its fields to their       *)
(* values, NotObject is any other one.  Null and Number are values that    *)
(* are no strings; a field that a body lacks has the value Absent.         *)
(***************************************************************************)
EXTENDS Integers

CONSTANTS NotObject, Null, Number, Absent,
          Blank,        \* a string of spaces
          NoState,      \* stateMap has no such entry
          Inherited     \* a value stateMap inherits from Object.prototype

\* Nothing but a string equals a string.
ASSUME AdapterAssumption ==
    /\ Null # Number /\ Null # Absent /\ Number # Absent /\ NoState # Inherited
    /\ \A value \in {Null, Number, Absent, NoState, Inherited} :
          value \notin {"A", "S", "C", "ACTIVE", "SUSPENDED", "CLOSED",
                        "active", "suspended", "closed", "constructor"}

Field(body, name) == IF name \in DOMAIN body THEN body[name] ELSE Absent

IsString(value) == value \notin {Null, Number, Absent}

-----------------------------------------------------------------------------
(* _normalize_account()                                                    *)

\* The two payload versions, in the order in which they are looked for.
V1 == [tag |-> "status_code", id |-> "account_id", updated |-> "updated_at",
       states |-> [code \in {"A", "S", "C"} |->
                     CASE code = "A" -> "active" [] code = "S" -> "suspended"
                       [] code = "C" -> "closed"]]

V2 == [tag |-> "state", id |-> "accountId", updated |-> "updatedAt",
       states |-> [code \in {"ACTIVE", "SUSPENDED", "CLOSED"} |->
                     CASE code = "ACTIVE" -> "active" [] code = "SUSPENDED" -> "suspended"
                       [] code = "CLOSED" -> "closed"]]

\* body.get() of an absent field is None, a property of that name is undefined.
UpdatedAt(lang, body, name) ==
    IF lang = "py" /\ Field(body, name) = Absent THEN Null ELSE Field(body, name)

\* Mutant: an unknown code counts as a closed account.
DefaultState(lang, states, code) ==
    IF code \in DOMAIN states THEN states[code] ELSE "closed"

\* A plain object also answers to the names every object inherits.
StateOf(lang, states, code) ==
    CASE code \in DOMAIN states                -> states[code]
      [] lang = "ts" /\ code = "constructor"   -> Inherited
      [] OTHER                                 -> NoState

\* The accounts a body of version v stands for: one or none.
AccountsIn(lang, body, v) ==
    LET id      == Field(body, v.id)
        code    == body[v.tag]
        updated == UpdatedAt(lang, body, v.updated)
        state   == StateOf(lang, v.states, code)
        typesOk == /\ IsString(id) /\ id # Blank
                   /\ IsString(code)
                   /\ updated = Null \/ IsString(updated)
    IN  IF typesOk /\ state # NoState
        THEN {[accountId |-> id, state |-> state, updatedAt |-> updated]}
        ELSE {}

NormalizeAccount(lang, body) ==
    IF body = NotObject THEN {}
    ELSE IF V1.tag \in DOMAIN body THEN AccountsIn(lang, body, V1)
    ELSE IF V2.tag \in DOMAIN body THEN AccountsIn(lang, body, V2)
    ELSE {}

-----------------------------------------------------------------------------
(* get_status()                                                            *)

Failure(code) == [ok |-> FALSE, code |-> code]

\* The headers int() or Number() reads: one of each kind that both, only answer.py or
\* only answer.ts takes for a number, with its value in tenths of a second.
ReadBy(lang) ==
    {"0", "30", "-1"} \cup (IF lang = "py" THEN {"1_0"} ELSE {" ", "1e1", "1.5", "0x1e"})

Tenths(header) ==
    CASE header \in {"0", " "}       -> 0
      [] header \in {"30", "0x1e"}   -> 300
      [] header = "-1"               -> -10
      [] header \in {"1_0", "1e1"}   -> 100
      [] header = "1.5"              -> 15

HeaderValue(lang, header) == IF header \in ReadBy(lang) THEN {Tenths(header)} ELSE {}

\* Mutant: answer.ts asks whether the number is truthy.
RateLimitedTruthy(lang, header) ==
    [ok |-> FALSE, code |-> "rate_limited",
     retryAfter |-> {n \in HeaderValue(lang, header) : IF lang = "py" THEN n >= 0 ELSE n > 0}]

\* Retry-After is passed on when it is a number that is not negative.
RateLimited(lang, header) ==
    [ok |-> FALSE, code |-> "rate_limited",
     retryAfter |-> {n \in HeaderValue(lang, header) : n >= 0}]

\* A logical error with status 200.
LogicalError(error) ==
    Failure(IF error = "MISSING" THEN "not_found" ELSE "malformed_response")

\* A failure to answer.  CancelledError is no Exception: it passes through answer.py.
Raised(lang, error) ==
    CASE lang = "py" /\ error = "TimeoutError"    -> Failure("timeout")
      [] lang = "ts" /\ error = "AbortError"      -> Failure("timeout")
      [] lang = "py" /\ error = "CancelledError"  -> [raised |-> error]
      [] OTHER                                    -> Failure("unavailable")

\* What the client may do: raise an error, or answer.
IsOutcome(outcome) ==
    \/ DOMAIN outcome = {"error"}
    \/ /\ DOMAIN outcome = {"status", "retry_after", "body"}
       /\ outcome.body # NotObject =>
             \A name \in DOMAIN outcome.body : outcome.body[name] # Absent

Answered(lang, outcome) ==
    LET body == outcome.body
        accounts == NormalizeAccount(lang, body)
    IN  CASE outcome.status = 404 -> Failure("not_found")
          [] outcome.status = 429 -> RateLimited(lang, outcome.retry_after)
          [] outcome.status \notin {404, 429, 200} -> Failure("unavailable")
          [] OTHER ->
                IF body # NotObject /\ Field(body, "error") # Absent
                THEN LogicalError(body["error"])
                ELSE IF accounts = {} THEN Failure("malformed_response")
                ELSE [ok |-> TRUE, account |-> CHOOSE a \in accounts : TRUE]

GetStatus(lang, outcome) ==
    IF "error" \in DOMAIN outcome THEN Raised(lang, outcome.error) ELSE Answered(lang, outcome)

-----------------------------------------------------------------------------
(* What the result must be.                                                *)

\* A body says that account id is in a state of the application's vocabulary.
Says(body, id, state) ==
    /\ body # NotObject
    /\ Field(body, "error") = Absent
    /\ \E v \in {V1, V2} :
          /\ \E code \in DOMAIN v.states : v.states[code] = state /\ Field(body, v.tag) = code
          /\ Field(body, v.id) = id /\ id # Blank /\ IsString(id)
          /\ Field(body, v.updated) # Number
          /\ v = V2 => Field(body, V1.tag) = Absent

States == {"active", "suspended", "closed"}

\* The anti-corruption layer: an account is returned exactly if the answer was a
\* success that says so, in a state of the application's vocabulary; every failure has
\* one of the five codes, and nothing but a cancellation escapes as an exception.
\* (answer.ts also accepts the names stateMap inherits, and wants updatedAt to be there.)
Isolates(lang, outcome, result) ==
    LET success  == "error" \notin DOMAIN outcome /\ outcome.status = 200
        returned == "ok" \in DOMAIN result /\ result.ok
    IN  /\ returned => /\ success
                       /\ \/ Says(outcome.body, result.account.accountId, result.account.state)
                          \/ lang = "ts" /\ result.account.state = Inherited
        /\ lang = "py" /\ success /\ outcome.body # NotObject =>
              (returned <=> \E field \in DOMAIN outcome.body, state \in States :
                               Says(outcome.body, outcome.body[field], state))
        /\ ~returned => \/ result = [raised |-> "CancelledError"]
                        \/ result.code \in {"not_found", "rate_limited", "timeout",
                                            "unavailable", "malformed_response"}

\* The inputs on which answer.py and answer.ts differ.
AdapterDiffers(outcome) ==
    IF "error" \in DOMAIN outcome
    THEN outcome.error \in {"TimeoutError", "AbortError", "CancelledError"}
    ELSE \/ outcome.status = 429 /\ outcome.retry_after \in {"1_0", " ", "1e1", "1.5", "0x1e"}
         \/ /\ outcome.status = 200 /\ outcome.body # NotObject
            /\ \E v \in {V1, V2} :
                  /\ v.tag \in DOMAIN outcome.body
                  /\ \/ v.updated \notin DOMAIN outcome.body
                     \/ outcome.body[v.tag] = "constructor"

===============================================================================
