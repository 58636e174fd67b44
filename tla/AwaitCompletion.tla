-------------------------- MODULE AwaitCompletion --------------------------
(***************************************************************************)
(* What the run-lifecycle monitor promises (awaitCompletion): at most     *)
(* MaxAttempts status fetches; each fetched status is classified by a      *)
(* fixed decision table; the first decisive status ends the poll; a fetch  *)
(* failure ends it at once; running out of attempts ends it with Timeout.  *)
(* Observations are abstract: what a fetch showed, not how it was encoded. *)
(***************************************************************************)
EXTENDS Naturals, Sequences

CONSTANT MaxAttempts

VARIABLES obs,     \* the statuses fetched so far, in order
          result   \* "Pending" while polling, then the outcome

Observations ==
  {"Absent", "NotTerminal", "TERMINATED", "SKIPPED", "INTERNAL_ERROR",
   "FetchFailed"}

Outcomes == {"Pending", "Success", "RunFailed", "FetchFailed", "Timeout"}

(* The terminal-state decision table of the monitor.                      *)
Decision(o) ==
  CASE o = "TERMINATED"                     -> "Success"
    [] o \in {"SKIPPED", "INTERNAL_ERROR"}  -> "RunFailed"
    [] o = "FetchFailed"                    -> "FetchFailed"
    [] OTHER                                -> "Pending"

Init == obs = <<>> /\ result = "Pending"

Fetch(o) ==
  /\ result = "Pending"
  /\ Len(obs) < MaxAttempts
  /\ obs' = Append(obs, o)
  /\ result' = Decision(o)

GiveUp ==
  /\ result = "Pending"
  /\ Len(obs) = MaxAttempts
  /\ result' = "Timeout"
  /\ UNCHANGED obs

Next == (\E o \in Observations : Fetch(o)) \/ GiveUp

Spec == Init /\ [][Next]_<<obs, result>>
=============================================================================
