----------------------------- MODULE RunPoller -----------------------------
(***************************************************************************)
(* One call of DbRunClient.poll_run_await_completion (db_run_client.py),  *)
(* with the DbRunClient.get_run it calls once per attempt and the          *)
(* locust_client_function decorator (db_decorator.py) that wraps both.    *)
(*                                                                         *)
(* The Run custom object is moved along the Databricks run lifecycle by    *)
(* the operator and the platform, concurrently with the polling loop: that *)
(* is the environment action RunProgresses.  A get call may also fail:     *)
(* with an ApiException, which get_run turns into InterruptTaskSet, or     *)
(* with any other exception, which the decorator of get_run swallows so    *)
(* that get_run returns None.                                              *)
(*                                                                         *)
(* One PollAttempt step is one iteration of the for loop: the get, the     *)
(* decision on the returned object and the sleep.  The decorator events    *)
(* (locust request_success / request_failure) are part of the step that   *)
(* fires them.                                                             *)
(***************************************************************************)
EXTENDS Naturals, Sequences, RunObject

CONSTANT
  MaxAttempts         \* max_attempts argument (40 in the run-submit scenario)

ASSUME MaxAttemptsAssumption == MaxAttempts \in Nat

VARIABLES
  resource,  \* what get_namespaced_custom_object would return now
  history,   \* what each get_run call of this poll yielded, in order
  sleeps,    \* number of time.sleep(polling_secs) calls so far
  result,    \* how the body has exited; "Running" while it loops
  events     \* events fired by locust_client_function, in order

vars == <<resource, history, sleeps, result, events>>

-----------------------------------------------------------------------------
(* locust_client_function: one event per decorated call, a failure when   *)
(* the call raised, whether the decorator re-raises or swallows it.        *)
Event(fn, ok) == [fn |-> fn, ok |-> ok]
GetRunEvent(o) == Event("get_run", o \notin FetchErrors)
PollEvent(r) == Event("poll_run_await_completion", r = "Completed")
(* Fault variant: the InterruptTaskSet branch re-raises without          *)
(* _record_error_event.                                                    *)
PollEventsNoInterrupt(r) ==
  IF r \in {"Running", "Interrupt"} THEN <<>> ELSE <<PollEvent(r)>>
PollEvents(r) == IF r = "Running" THEN <<>> ELSE <<PollEvent(r)>>

(* time.sleep(polling_secs) runs only when the iteration did not exit.    *)
(* Fault variant: the sleep is taken before the decision.                *)
SleepsAfterAlways(r) == sleeps + 1
SleepsAfter(r) == IF r = "Running" THEN sleeps + 1 ELSE sleeps

(* for x in range(max_attempts), while the body has not exited.           *)
(* Fault variant: range(max_attempts + 1).                               *)
LoopingOffByOne == result = "Running" /\ Len(history) <= MaxAttempts
Looping == result = "Running" /\ Len(history) < MaxAttempts

-----------------------------------------------------------------------------
Init ==
  /\ resource = NoStatus
  /\ history = <<>>
  /\ sleeps = 0
  /\ result = "Running"
  /\ events = <<>>

(* One iteration: run = self.get_run(run_name), the decision on run, and  *)
(* the sleep.                                                              *)
PollAttempt ==
  /\ Looping
  /\ \E o \in {resource} \cup FetchErrors :
       LET r == AttemptResult(o) IN
       /\ history' = Append(history, o)
       /\ result' = r
       /\ sleeps' = SleepsAfter(r)
       /\ events' = events \o <<GetRunEvent(o)>> \o PollEvents(r)
  /\ UNCHANGED resource

(* The loop ran out: raise Exception("Run did not complete").             *)
PollExhausted ==
  /\ result = "Running"
  /\ Len(history) = MaxAttempts
  /\ result' = "DidNotComplete"
  /\ events' = events \o PollEvents("DidNotComplete")
  /\ UNCHANGED <<resource, history, sleeps>>

(* Environment: the operator / platform advances the run.                 *)
RunProgresses ==
  /\ \E v \in ResourceViews :
       /\ <<resource, v>> \in LifeCycleStep
       /\ resource' = v
  /\ UNCHANGED <<history, sleeps, result, events>>

Poll == PollAttempt \/ PollExhausted

Next == Poll \/ RunProgresses

Spec == Init /\ [][Next]_vars

-----------------------------------------------------------------------------
(* Type invariant.                                                        *)
TypeOK ==
  /\ resource \in ResourceViews
  /\ history \in Seq(Observations)
  /\ Len(history) <= MaxAttempts
  /\ sleeps \in Nat
  /\ result \in Results
  /\ events \in Seq([fn : {"get_run", "poll_run_await_completion"},
                      ok : BOOLEAN])

(* The poll budget (spec 4.1, test polls_until_complete): the loop never  *)
(* fetches more than max_attempts times; it sleeps after every fetch that *)
(* did not end it, so a poll ended by a fetch has slept once less than it *)
(* fetched, and "Run did not complete" comes only after max_attempts       *)
(* fetches and as many sleeps.                                             *)
PollBudget ==
  /\ sleeps = IF result \in {"Running", "DidNotComplete"}
                THEN Len(history)
                ELSE Len(history) - 1
  /\ result = "DidNotComplete" => Len(history) = MaxAttempts

(* The decorator's bookkeeping (tests polls_throws_exception_on_invalid,  *)
(* fails_when_run_fails_to_complete_in_time): every get_run call fires one *)
(* event, a failure exactly when the get raised; the poll fires exactly    *)
(* one event, after all of them, once its body has exited, and it is a     *)
(* success only when the run reached TERMINATED -- including when the      *)
(* failure came out of get_run as InterruptTaskSet.                        *)
DecoratorEvents ==
  events =
    [i \in 1..Len(history) |->
       [fn |-> "get_run", ok |-> history[i] \notin FetchErrors]]
    \o (IF result = "Running"
          THEN <<>>
          ELSE <<[fn |-> "poll_run_await_completion",
                  ok |-> result = "Completed"]>>)

-----------------------------------------------------------------------------
(* Refinement mapping to the monitor of spec 4.1.  Both kinds of failed   *)
(* get are the spec's FetchFailed; a missing "status" and a missing        *)
(* life_cycle_state are both an absent lifecycle state.                    *)
AbstractObs(o) ==
  CASE o \in FetchErrors                              -> "FetchFailed"
    [] o \in {NoStatus, NoLifeCycle}                  -> "Absent"
    [] o \in {"TERMINATED", "SKIPPED", "INTERNAL_ERROR"} -> o
    [] OTHER                                          -> "NotTerminal"

AbstractResult(r) ==
  CASE r = "Running"                         -> "Pending"
    [] r = "Completed"                       -> "Success"
    [] r = "CompletedWithError"              -> "RunFailed"
    [] r \in {"Interrupt", "UnableToGetJob"} -> "FetchFailed"
    [] r = "DidNotComplete"                  -> "Timeout"
    [] OTHER                                 -> "NotAnOutcome"

Monitor == INSTANCE AwaitCompletion
             WITH obs <- [i \in 1..Len(history) |-> AbstractObs(history[i])],
                  result <- AbstractResult(result)

(* poll_run_await_completion implements the decision table of spec 4.1:   *)
(* each fetch is classified as the table says, the first decisive status   *)
(* or failed fetch ends the poll, and only an exhausted budget times out.  *)
AwaitCompletionRefined == Monitor!Spec

=============================================================================
