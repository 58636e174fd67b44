------------------------------ MODULE LoadTest ------------------------------
(***************************************************************************)
(* The run-submit load test: locust users, each running the task sequence *)
(* DatabricksRunSubmitUserBehaviour (scenario1_run_submit_delete.py)       *)
(*   create_databricks_run -> await_databricks_run_complete ->             *)
(*   delete_databricks_run -> create_databricks_run -> ...                 *)
(* through DbRunClient.create_run / poll_run_await_completion / delete_run *)
(* (db_run_client.py), every call wrapped by locust_client_function        *)
(* (db_decorator.py).  All users share the Kubernetes API and its set of   *)
(* Run objects, which the operator and the platform advance concurrently.  *)
(* The order in which a run goes through its lifecycle is RunPoller's      *)
(* subject; here a get of an existing run may show any view of it, which   *)
(* allows every behaviour the lifecycle allows.                            *)
(*                                                                         *)
(* A call to the Kubernetes API ends in one of four ways:                  *)
(*   Ok           the server acted and the client got its reply;           *)
(*   ApiException the server refused; the client method raises            *)
(*                InterruptTaskSet, which ends the locust user;            *)
(*   LostReply    the server acted but the client saw a non-Api error      *)
(*                (a read timeout); the decorator swallows it;             *)
(*   LocalError   a non-Api error before the server acted (a refused       *)
(*                connection, or the client's own check of a None name);   *)
(*                the decorator swallows it.                               *)
(* A swallowed error makes the decorated call return None and the task     *)
(* sequence goes on with its next task.                                    *)
(*                                                                         *)
(* The name uuid4 gives a new run is modelled by the pair <<user, cycle>>: *)
(* unique per create call, as uuid4 is.                                    *)
(***************************************************************************)
EXTENDS Naturals, FiniteSets, RunObject

CONSTANTS
  Users,        \* the simulated locust users
  MaxAttempts,  \* max_attempts of the poll task (40 in the scenario)
  MaxCycles,    \* bound on the task-sequence cycles a user runs
  None          \* Python's None

ASSUME LoadTestAssumption ==
  /\ MaxAttempts \in Nat
  /\ MaxCycles \in Nat
  /\ None \notin Users \X Nat

VARIABLES
  pc,        \* the task each user runs next, or "stopped"
  cycle,     \* create tasks each user has run
  runName,   \* self.run_name of each user's task set
  attempts,  \* get_run calls of the current poll task
  failures,  \* request_failure events fired for each user
  runs       \* the names of the Run objects on the API server

vars == <<pc, cycle, runName, attempts, failures, runs>>

Names == Users \X (1..MaxCycles)
Tasks == {"create", "poll", "delete", "stopped"}

-----------------------------------------------------------------------------
(* How a Kubernetes API call ends, and what the client method and its     *)
(* decorator make of it.                                                   *)
CallOutcomes == {"Ok", "ApiException", "LostReply", "LocalError"}

(* The server carried out the request.                                    *)
Committed(out) == out \in {"Ok", "LostReply"}

(* except ApiException: raise InterruptTaskSet(reschedule=False); the     *)
(* decorator re-raises it and locust ends the user.                        *)
Interrupts(out) == out = "ApiException"

(* locust_client_function records a request_failure for every exception, *)
(* re-raised or swallowed.                                                 *)
(* Fault variant: the swallowing branch does not record the failure.     *)
RecordedApiOnly(out) == IF Interrupts(out) THEN 1 ELSE 0
(* Fault variant: InterruptTaskSet re-raised without a failure recorded.  *)
RecordedNoInterrupt(out) == IF out \in {"Ok", "ApiException"} THEN 0 ELSE 1
Recorded(out) == IF out = "Ok" THEN 0 ELSE 1

(* The task that runs after a call: none when InterruptTaskSet escaped.   *)
NextTask(out, t) == IF Interrupts(out) THEN "stopped" ELSE t

(* self.run_name = self.client.runs.create_run(): the new name, or the     *)
(* None the decorator returns after swallowing an error.                   *)
(* Fault variant: a failed create leaves the previous run_name in place.  *)
TaskRunNameStale(u, out, n) == IF out = "Ok" THEN n ELSE runName[u]
TaskRunName(u, out, n) == IF out = "Ok" THEN n ELSE None

(* request_failure events of one poll iteration: one for get_run when the *)
(* get raised, and one for the poll when its body exits with an error.     *)
PollFailures(o, r) ==
  (IF o \in FetchErrors THEN 1 ELSE 0)
  + (IF r \in {"Running", "Completed"} THEN 0 ELSE 1)

(* for x in range(max_attempts) of the poll task.                          *)
(* Fault variant: range(max_attempts + 1).                               *)
PollingOffByOne(u) == pc[u] = "poll" /\ attempts[u] <= MaxAttempts
Polling(u) == pc[u] = "poll" /\ attempts[u] < MaxAttempts

(* The loop has run out without a decisive status.                        *)
Exhausted(u) == pc[u] = "poll" /\ attempts[u] = MaxAttempts

(* The task after an iteration that ended the poll.                       *)
AfterPoll(r) ==
  CASE r = "Running"   -> "poll"
    [] r = "Interrupt" -> "stopped"
    [] OTHER           -> "delete"

(* The views a get of an existing Run object can return.                 *)
StatusViews == {v \in ResourceViews : v # NoLifeCycle \/ StatusWithoutState}

(* What get_run(run_name) can yield: the client rejects a None name        *)
(* before sending; the server answers 404 (an ApiException) for a name it  *)
(* does not hold.                                                          *)
PollViews(u) ==
  IF runName[u] = None THEN {"OtherError"}
  ELSE IF runName[u] \in runs THEN StatusViews \cup FetchErrors
       ELSE {"ApiException"}

(* How delete_run(run_name) can end, likewise.                            *)
DeleteOutcomes(u) ==
  IF runName[u] = None THEN {"LocalError"}
  ELSE IF runName[u] \in runs THEN CallOutcomes
       ELSE {"ApiException"}

-----------------------------------------------------------------------------
Init ==
  /\ pc = [u \in Users |-> "create"]
  /\ cycle = [u \in Users |-> 0]
  /\ runName = [u \in Users |-> None]
  /\ attempts = [u \in Users |-> 0]
  /\ failures = [u \in Users |-> 0]
  /\ runs = {}

(* create_databricks_run: create_run() and the assignment to run_name.    *)
CreateRun(u) ==
  /\ pc[u] = "create"
  /\ cycle[u] < MaxCycles
  /\ LET n == <<u, cycle[u] + 1>> IN
     \E out \in CallOutcomes :
       /\ runs' = IF Committed(out) THEN runs \cup {n} ELSE runs
       /\ runName' = IF Interrupts(out) THEN runName
                     ELSE [runName EXCEPT ![u] = TaskRunName(u, out, n)]
       /\ failures' = [failures EXCEPT ![u] = @ + Recorded(out)]
       /\ pc' = [pc EXCEPT ![u] = NextTask(out, "poll")]
  /\ cycle' = [cycle EXCEPT ![u] = @ + 1]
  /\ attempts' = [attempts EXCEPT ![u] = 0]

(* await_databricks_run_complete: one iteration of the poll loop on       *)
(* self.run_name, classified as in RunObject.                              *)
PollAttempt(u) ==
  /\ Polling(u)
  /\ \E o \in PollViews(u) :
       LET r == AttemptResult(o) IN
       /\ attempts' = [attempts EXCEPT ![u] = @ + 1]
       /\ failures' = [failures EXCEPT ![u] = @ + PollFailures(o, r)]
       /\ pc' = [pc EXCEPT ![u] = AfterPoll(r)]
  /\ UNCHANGED <<cycle, runName, runs>>

(* The loop ran out: "Run did not complete", swallowed by the decorator.  *)
PollTimeout(u) ==
  /\ Exhausted(u)
  /\ failures' = [failures EXCEPT ![u] = @ + 1]
  /\ pc' = [pc EXCEPT ![u] = "delete"]
  /\ UNCHANGED <<cycle, runName, attempts, runs>>

(* delete_databricks_run: delete_run(self.run_name).                      *)
DeleteRun(u) ==
  /\ pc[u] = "delete"
  /\ \E out \in DeleteOutcomes(u) :
       /\ runs' = IF Committed(out) THEN runs \ {runName[u]} ELSE runs
       /\ failures' = [failures EXCEPT ![u] = @ + Recorded(out)]
       /\ pc' = [pc EXCEPT ![u] = NextTask(out, "create")]
  /\ UNCHANGED <<cycle, runName, attempts>>

UserStep(u) == CreateRun(u) \/ PollAttempt(u) \/ PollTimeout(u) \/ DeleteRun(u)

Next == \E u \in Users : UserStep(u)

Spec == Init /\ [][Next]_vars

(* The end of a load test: the locust runner kills each user's greenlet,  *)
(* and GreenletExit lands wherever the greenlet waits (between two tasks   *)
(* or in the poll's time.sleep).  GreenletExit is a BaseException, so      *)
(* neither branch of locust_client_function (except InterruptTaskSet,      *)
(* except Exception) records it: the user ends with no event fired, and    *)
(* the run it holds is never deleted.                                      *)
StopUser(u) ==
  /\ pc[u] # "stopped"
  /\ pc' = [pc EXCEPT ![u] = "stopped"]
  /\ UNCHANGED <<cycle, runName, attempts, failures, runs>>

(* The users' own steps and the runner's stop.                            *)
NextWithStop == Next \/ \E u \in Users : StopUser(u)

SpecWithStop == Init /\ [][NextWithStop]_vars

-----------------------------------------------------------------------------
(* Type invariant.                                                        *)
TypeOK ==
  /\ pc \in [Users -> Tasks]
  /\ cycle \in [Users -> 0..MaxCycles]
  /\ runName \in [Users -> Names \cup {None}]
  /\ attempts \in [Users -> 0..MaxAttempts]
  /\ failures \in [Users -> Nat]
  /\ runs \subseteq Names

(* self.run_name is never stale: whenever a user is about to poll or      *)
(* delete by a name, that name is a Run object on the server.  It holds    *)
(* because a create that fails softly sets run_name to None rather than    *)
(* leaving the name of the run deleted in the previous cycle, and because  *)
(* no user deletes a run another user is working on.                       *)
NamedRunExists ==
  \A u \in Users :
    pc[u] \in {"poll", "delete"} /\ runName[u] # None
      => runName[u] \in runs

(* Run objects no user will delete any more.                              *)
Orphans ==
  {n \in runs :
     ~\E u \in Users : pc[u] \in {"poll", "delete"} /\ runName[u] = n}

(* Every Run object the load test leaves behind shows in its statistics:  *)
(* the user that created it has fired at least as many request_failure     *)
(* events as it has orphaned runs.  A leak comes from an interrupted poll, *)
(* a create whose reply was lost, or a delete that failed, and each of     *)
(* these fires a failure through locust_client_function.                   *)
LeaksAreReported ==
  \A u \in Users :
    Cardinality({n \in Orphans : n[1] = u}) <= failures[u]

(* No step strands a run silently: a step after which a Run object of    *)
(* user u is orphaned that was not before also fires a request_failure     *)
(* event for u.  The statistics tell when a leak happens, not only that    *)
(* there were failures (locust_client_function records every exception,    *)
(* swallowed or re-raised).                                                *)
LeakStep ==
  \A u \in Users :
    {n \in Orphans' : n[1] = u} \ {n \in Orphans : n[1] = u} # {}
      => failures'[u] > failures[u]
LeakStepReported == [][LeakStep]_vars

(* The task sequence runs create, await and delete "in a predefined       *)
(* order" (scenario docstring), so a user that locust has ended leaves    *)
(* none of the Run objects it created on the server.                       *)
NoRunLeftBehind ==
  \A u \in Users : pc[u] = "stopped" => \A n \in runs : n[1] # u

=============================================================================
