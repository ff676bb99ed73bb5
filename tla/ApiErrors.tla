------------------------------ MODULE ApiErrors ------------------------------
(***************************************************************************)
(* What one request to the NetBird API can end with (api.py), and what     *)
(* each of its callers makes of that: a poll of either coordinator, the    *)
(* setup of the entry, a flow that validates a profile.                    *)
(*                                                                         *)
(* An error is the name of the exception class without "NetBird" and       *)
(* "Error"; "none" is a request that succeeded, "Unexpected" any exception *)
(* of another package.  A class is the set of the errors it catches.       *)
(***************************************************************************)
EXTENDS Integers, Sequences

Responses  == {"Response", "Redirect", "RateLimit", "Server"}
Transports == {"Transport", "Timeout", "Tls", "Address"}
Datas      == {"Data", "Json", "Schema"}
Updates    == {"Permission"} \cup Responses \cup Transports \cup Datas
Errors     == {"Authentication", "Unexpected"} \cup Updates

-----------------------------------------------------------------------------
(* _raise_for_status *)
StatusError(status) ==
    CASE status \in 200..299 -> "none"
      [] status \in 300..399 -> "Redirect"
      [] status = 401        -> "Authentication"
      [] status = 403        -> "Permission"
      [] status = 429        -> "RateLimit"
      [] status >= 500       -> "Server"
      [] OTHER               -> "Response"

(* _async_get_json of a request that got no answer. *)
Failures == [blocked |-> "Address", timeout |-> "Timeout", tls |-> "Tls",
             connection |-> "Transport", other |-> "Unexpected"]

(* And of one that was answered: a reply has the failure or "none", the    *)
(* status, and whether its body is JSON.                                   *)
FetchError(r) ==
    IF r.failure # "none" THEN Failures[r.failure]
    ELSE IF StatusError(r.status) # "none" THEN StatusError(r.status)
    ELSE IF r.json THEN "none" ELSE "Json"

-----------------------------------------------------------------------------
(* Except clauses, first match first: a sequence of what each one catches  *)
(* and what it does.  Every one of the tables ends with "except Exception".*)
Handle(clauses, e) ==
    IF e = "none" THEN "ok"
    ELSE LET first == CHOOSE i \in DOMAIN clauses :
                        /\ e \in clauses[i].catches
                        /\ \A j \in 1..(i - 1) : e \notin clauses[j].catches
         IN  clauses[first].does

Clause(caught, what) == [catches |-> caught, does |-> what]

(* A 403 taken for a 401. *)
MutantPollClausesForbidden ==
  << Clause({"Authentication", "Permission"}, "reauth"),
     Clause(Datas,                            "invalid_response"),
     Clause({"RateLimit"},                    "deferred"),
     Clause(Updates,                          "cannot_connect"),
     Clause(Errors,                           "unknown") >>

(* Both coordinators map what they were asked to update with these; a      *)
(* rate limit is a failure to connect that also defers the next poll.      *)
PollClauses ==
  << Clause({"Authentication"}, "reauth"),
     Clause({"Permission"},     "insufficient_permissions"),
     Clause(Datas,              "invalid_response"),
     Clause({"RateLimit"},      "deferred"),
     Clause(Updates,            "cannot_connect"),
     Clause(Errors,             "unknown") >>

(* resources_for and routers_for: a section that could not be read is left *)
(* out of the snapshot, and only what a clause re-raises fails the refresh.*)
SectionClauses ==
  << Clause({"Authentication", "RateLimit"}, "raises"),
     Clause(Updates,                         "left_out"),
     Clause(Errors,                          "raises") >>

MutantSetupClauses ==
  << Clause({"Authentication"}, "reauth"),
     Clause(Datas,              "invalid_response"),
     Clause(Updates,            "cannot_connect"),
     Clause(Errors,             "unknown") >>

(* async_setup_entry *)
SetupClauses ==
  << Clause({"Authentication"}, "reauth"),
     Clause({"Permission"},     "insufficient_permissions"),
     Clause(Datas,              "invalid_response"),
     Clause(Updates,            "cannot_connect"),
     Clause(Errors,             "unknown") >>

(* _async_validate_connection.  It has an error of its own for a missing   *)
(* endpoint when the whole contract was asked for.                         *)
FlowClauses ==
  << Clause({"Authentication"}, "invalid_auth"),
     Clause({"Permission"},     "insufficient_permissions"),
     Clause({"Redirect"},       "redirect_not_allowed"),
     Clause({"Tls"},            "invalid_tls"),
     Clause({"Address"},        "blocked_address"),
     Clause(Responses,          "cannot_connect"),
     Clause(Datas,              "invalid_response"),
     Clause(Updates,            "cannot_connect"),
     Clause(Errors,             "unknown") >>

FlowError(e, status, fullContract) ==
    IF e = "Response" /\ status = 404 /\ fullContract THEN "unsupported_server"
    ELSE Handle(FlowClauses, e)
=============================================================================
