----------------------------- MODULE RunObject -----------------------------
(***************************************************************************)
(* The Run custom object as DbRunClient sees it (db_run_client.py): what a *)
(* get of the object can return or raise, the lifecycle the operator and   *)
(* the platform drive it along, and how one iteration of                   *)
(* poll_run_await_completion classifies what get_run yielded.  Shared by   *)
(* the single-poll model (RunPoller) and the load-test model (LoadTest).   *)
(***************************************************************************)
EXTENDS Naturals

CONSTANT
  StatusWithoutState  \* can the object carry "status" without
                      \* status.metadata.state.life_cycle_state?

ASSUME StatusWithoutStateAssumption == StatusWithoutState \in BOOLEAN

(* The views of the Run object a get can return.                          *)
LifeCycleStates ==
  {"PENDING", "RUNNING", "TERMINATING", "TERMINATED", "SKIPPED",
   "INTERNAL_ERROR"}
NoStatus    == "NoStatus"     \* no "status" key yet
NoLifeCycle == "NoLifeCycle"  \* "status" without metadata.state.life_cycle_state
ResourceViews == {NoStatus, NoLifeCycle} \cup LifeCycleStates

(* A get that raised instead of returning.                                *)
FetchErrors == {"ApiException", "OtherError"}
Observations == ResourceViews \cup FetchErrors

(* How the body of poll_run_await_completion exits: by returning, or by   *)
(* the exception it raises (named after its message or class).            *)
Results ==
  {"Running", "Completed", "Interrupt", "UnableToGetJob",
   "CompletedWithError", "KeyError", "DidNotComplete"}

(* The run lifecycle the operator and the platform drive the object along.*)
LifeCycleStep ==
  {<<NoStatus, "PENDING">>, <<"PENDING", "RUNNING">>,
   <<"PENDING", "SKIPPED">>, <<"PENDING", "INTERNAL_ERROR">>,
   <<"RUNNING", "TERMINATING">>, <<"RUNNING", "INTERNAL_ERROR">>,
   <<"TERMINATING", "TERMINATED">>}
  \cup (IF StatusWithoutState
          THEN {<<NoStatus, NoLifeCycle>>, <<NoLifeCycle, "PENDING">>}
          ELSE {})

-----------------------------------------------------------------------------
(* The outcome of one loop iteration on what get_run yielded:             *)
(* ApiException -> InterruptTaskSet out of get_run and of the poll;       *)
(* other error -> get_run returns None -> "Unable to get job";            *)
(* "status" present: reading life_cycle_state raises KeyError when it is   *)
(* missing; TERMINATED breaks; SKIPPED / INTERNAL_ERROR raise; otherwise   *)
(* the loop goes on.                                                       *)
(* Fault variant: the break after TERMINATED is missing.                 *)
AttemptResultNoBreak(o) ==
  CASE o = "ApiException"                   -> "Interrupt"
    [] o = "OtherError"                     -> "UnableToGetJob"
    [] o = NoLifeCycle                      -> "KeyError"
    [] o \in {"SKIPPED", "INTERNAL_ERROR"}  -> "CompletedWithError"
    [] OTHER                                -> "Running"
AttemptResult(o) ==
  CASE o = "ApiException"                   -> "Interrupt"
    [] o = "OtherError"                     -> "UnableToGetJob"
    [] o = NoLifeCycle                      -> "KeyError"
    [] o = "TERMINATED"                     -> "Completed"
    [] o \in {"SKIPPED", "INTERNAL_ERROR"}  -> "CompletedWithError"
    [] OTHER                                -> "Running"
=============================================================================
