# TLA+ verification of azure-databricks-operator (locust harness and Databricks API service)

This directory holds TLA+ models of the Python code under `src/`. It also holds
TLC configurations that model-check them on small instances, and TLAPS proofs
that hold for every value of the constants.

## 1. Inventory

### Components

| Component | Source | State it keeps | Operations |
|---|---|---|---|
| Run poll loop | `locust/locust_files/db_locust/db_run_client.py` (`poll_run_await_completion`, `get_run`) | loop index, `completed`; reads the Run custom object | one iteration: get, decide, sleep; exhaustion |
| Run client operations | same file (`create_run`, `delete_run`) | none locally; creates and deletes Run objects on the Kubernetes API | create, get, delete |
| Client decorator | `db_decorator.py` (`locust_client_function`) | none; fires locust `request_success` / `request_failure` events | wraps every client call: re-raises `InterruptTaskSet`, swallows every other exception (the call then returns `None`) |
| Run-submit scenario | `behaviours/scenario1_run_submit_delete.py` | `self.run_name` per simulated user | task sequence create -> poll(40, 10) -> delete, repeated, with many users at once |
| No-op scenario | `db_noop_client.py`, `behaviours/noop_locust.py` | none | sleep, fail |
| Client wiring | `db_client.py`, `db_locust.py`, `constant.py` | API handle, manifest template | construction |
| Metrics collector | `db_collector.py` | none (reads locust stats) | Prometheus export |
| Databricks API service | `databricks-api/app/app.py` | none per request; reads the job config file | `POST /api/jobs/runs` (merge request into job config, submit), `GET` list / one run, `DELETE` (cancel and delete) |
| Databricks REST helpers | `dbricks_client/dbricks_client.py` | none locally; secret scopes, secrets and runs on Databricks | `create_job` (scope check-then-create, put secrets, submit), `cancel_and_delete_run`, `cancel_run`, `get_run`, `list_runs` |

### Interactions

- The scenario calls the run client. The client calls the Kubernetes custom
  objects API. The databricks operator (not in this repository) reconciles each
  Run object with Databricks and writes the run's lifecycle state into
  `status.metadata.state.life_cycle_state`. The poll loop therefore races with
  the operator and the platform: the object it reads keeps changing.
- Every client call goes through `locust_client_function`. Calls are nested:
  `poll_run_await_completion` calls `get_run`, and both are decorated. How an
  error is translated depends on its kind. An `ApiException` in `get_run`
  becomes `InterruptTaskSet`. That is re-raised through the poll and ends the
  user's task set. Any other error in `get_run` is swallowed, so `get_run`
  returns `None`. The poll then raises "Unable to get job", which its own
  decorator swallows. The scenario then goes on to `delete_run`.
- Locust runs many users at once as greenlets. They share the Kubernetes API
  and the set of Run objects, and each uses a fresh uuid-based name.
- The Flask service is a separate process. It forwards to the Databricks REST
  API. Flask's development server handles requests on threads, so two
  submissions can interleave.

### What is hard

- The poll loop against a run that the operator and the platform keep
  advancing: each decision is taken on the snapshot its get returned, and the
  order of the statuses seen is the platform's.
- Exception translation through two nested decorators. It decides whether a
  failure aborts the user or only skips to the next task.
- Partial failures that leave state behind: a Run object after an interrupted
  poll, or after a create whose reply was lost; a secret scope after a failed
  submit; a cancelled but undeleted run.
- Check-then-act on secret scopes under concurrent submissions.
- Boundaries of the attempt budget: zero attempts, and the last-iteration sleep.

### What makes each component correct

- Poll loop: the spec's decision table (spec 4.1). The first decisive status
  decides. A failed get ends the poll at once. The poll times out only after
  exactly `max_attempts` gets. Sleeps happen only after non-terminal gets.
- Decorator: one event per call; a failure exactly when the call raised;
  `InterruptTaskSet` propagates and nothing else does.
- Scenario: every Run object a user creates is eventually deleted by that
  user, and no user polls or deletes another user's run.
- Service: a submission either creates its run or leaves nothing it cannot
  account for; a delete either cancels and deletes, or reports failure.

## 2. Status

| Module | Models | State |
|---|---|---|
| AwaitCompletion | the monitor of spec 4.1 (abstract) | done |
| RunObject | the views of a Run object and the poll's decision on one view | done |
| RunPoller | one call of `poll_run_await_completion` with `get_run` and the decorator | done, refines AwaitCompletion |
| LoadTest | locust users running the scenario's task sequence against a shared API server | done |
| JobService | the POST and DELETE handlers of the Flask service with `create_job` and `cancel_and_delete_run` | done |
| RunPollerProofs, LoadTestProofs, JobServiceProofs | TLAPS proofs | done |

Not modelled: the no-op scenario, the client wiring, the metrics collector, and
the schema and `GET` pass-through routes. They have no state of their own, or
are formatting only.

## 3. The model

### AwaitCompletion.tla

Variables: `obs`, the statuses fetched so far; and `result`, which is
`Pending` while polling, then `Success`, `RunFailed`, `FetchFailed` or
`Timeout`. `Fetch(o)` appends an observation and sets the result by the
decision table of spec 4.1. `GiveUp` times out after `MaxAttempts` fetches.
This is the specification of what the monitor promises.

### RunObject.tla

The data shared by RunPoller and LoadTest: the views a `get` of a Run object
can return (`ResourceViews`), the two ways `get_run` can fail (`FetchErrors`),
the lifecycle order the operator and Databricks follow (`LifeCycleStep`), and
`AttemptResult(o)`, the exit of one poll iteration on view `o`
(`db_run_client.py` lines 84-100).

### RunPoller.tla

| Definition | Code |
|---|---|
| `resource` | what `get_namespaced_custom_object` would return now. The views are: no `status` key (`NoStatus`); a `status` without the lifecycle state (`NoLifeCycle`); or one of the six Databricks lifecycle states |
| `history` | what each `get_run` call yielded, in order (a view, or `ApiException` / `OtherError`); its length is the loop index `x` |
| `sleeps` | `time.sleep(polling_secs)` calls |
| `result` | how the body exits. `Running` while it loops. Otherwise `Completed` (break), `Interrupt` (InterruptTaskSet), `UnableToGetJob`, `CompletedWithError`, `KeyError`, `DidNotComplete` |
| `events` | the decorator's `request_success` / `request_failure` events as (function, ok) |
| `PollAttempt` | one loop iteration: get, decision (`AttemptResult`), sleep (`SleepsAfter`), and the events of `get_run` and, if the body exits, of the poll |
| `PollExhausted` | the loop ends after `max_attempts`: "Run did not complete" |
| `RunProgresses` | environment: the operator and the platform advance the run (`LifeCycleStep`). `NoLifeCycle` is reachable only when `StatusWithoutState` is TRUE |

No fairness is assumed, and no liveness property is checked. That the loop
ends is plain from `range(max_attempts)`: the model's history is bounded by
the budget, so "the poll ends" would hold by the model's shape and say nothing
of the code. The hang a poll can really meet, an API call that never returns,
is below the level of this model. A run may stay PENDING forever; that is
exactly the case the attempt budget exists for.

Bounds: `MaxAttempts = 4`. This is the shortest budget in which the full path
NoStatus -> PENDING -> RUNNING -> TERMINATING -> TERMINATED can be observed
within budget, and in which slower interleavings exhaust it. Every get outcome
is enumerated at every attempt.

### LoadTest.tla

Users run `DatabricksRunSubmitUserBehaviour`, the task sequence create ->
await -> delete, through `DbRunClient` and the decorator, against one
Kubernetes API server. The per-user functions are `pc` (the next task, or
`stopped` once `InterruptTaskSet` ended the user), `cycle`, `runName`
(`self.run_name`), `attempts` (the loop index of the current poll) and
`failures` (the user's `request_failure` events). The shared state is `runs`,
the names of the Run objects on the server. A name is `<<user, cycle>>`: it is
unique per create call, as `uuid4` is.

| Action | Code |
|---|---|
| `CreateRun(u)` | `create_databricks_run`: `create_run` and the assignment `self.run_name = ...` |
| `PollAttempt(u)` | one iteration of `poll_run_await_completion` on `self.run_name`, classified by `AttemptResult` |
| `PollTimeout(u)` | the loop ran out: "Run did not complete", swallowed by the decorator |
| `DeleteRun(u)` | `delete_databricks_run`: `delete_run(self.run_name)` |
| `StopUser(u)` | environment, only in `SpecWithStop`: the locust runner kills the user's greenlet with `GreenletExit` while it waits; the decorator catches only `InterruptTaskSet` and `Exception`, so no event fires |

Every call ends in one of four ways (`CallOutcomes`). `Ok`: the server acted
and the reply arrived. `ApiException`: the server refused, and the client
raises `InterruptTaskSet`, which ends the user. `LostReply`: the server acted
but the client saw another error, which the decorator swallows. `LocalError`:
a non-API error before the server acted, also swallowed. A swallowed error
makes the call return `None`, and the sequence goes on with its next task.

Abstraction: a `get` of an existing run may return any view. The order in
which one run goes through its lifecycle is RunPoller's subject. Here every
order is allowed, so the model includes every behaviour that order allows.

`Spec` has the users' own steps only: the properties of `loadtest_users` are
about the code's own error paths. `SpecWithStop` adds the runner's stop at the
end of a test, which those error paths do not see (run loadtest_runner_stop).

No fairness and no liveness property. A `TaskSequence` user cycles until
locust stops it, so "every user finishes" is not a property of the code. The
model stops a user after `MaxCycles` cycles only to keep the state space
finite.

Bounds: two users, so that they interleave on the shared server. Two cycles
each, so that a create follows a delete of the same user; that is where a stale
`run_name` would bite. Two attempts per poll, so that a poll can go on after a
non-terminal view and still run out.

### JobService.tla

POST and DELETE requests are served concurrently, as by Flask's threaded
server. The variables are:

- `payload`: each POST's body, or `None`, or a record with or without
  `notebook_additional_libraries` and with its `notebook_spec_secrets`;
- `pc` and `resp`: per request;
- `todo`: the secret keys still to visit;
- on Databricks: `scopes`; `secretStore`, which maps (scope, key) to the
  request that wrote it; and `dbRuns`, which maps a run id to its name, state
  and submitting request;
- `nextId`: the next run id.

| Action | Code |
|---|---|
| `PostStart(r)` | `RunsList.post` up to `create_job`: no payload, the unbound `notebook_additional_libraries` (app.py:177), or on to the secrets |
| `ListScopes(r)`, `CreateScope(r)` | `create_or_update_secret_scope`: `list_scopes`, then `create_scope` when the scope is missing; failures swallowed |
| `PutSecret(r)` | one iteration of the `put_secret` loop; a `None` value is skipped; a failure makes `create_job` return `None` |
| `SubmitRun(r)` | `submit_run` and the answer |
| `CancelRun(r)`, `DeleteRun(r)` | `cancel_and_delete_run` and `Run.delete`'s unpacking of its result |
| `RunEnds(i)` | environment: a run on Databricks finishes |

Environment assumptions: `runs/cancel` only starts a run's termination.
`runs/delete` refuses a run that is still active. Creating an existing scope
and writing into a missing scope are refused. `NetworkFaults` adds an error,
and a lost reply after the server acted, to every REST call.

Bounds: two POSTs and two DELETEs of the first run id, so that a DELETE can
race the POST that creates its run and the other DELETE. One secret key, which
a request may give a value, give `None`, or leave out.

There is no liveness property: each request is a finite straight-line
handler.

### Runs

| Run | cfg | Checks | Shows |
|---|---|---|---|
| poll_accounting | `MCRunPoller.cfg` | TypeOK, PollBudget, DecoratorEvents | with any get outcome, including a status without a lifecycle state: at most `max_attempts` gets; a sleep after each get that did not end the poll; one event per call, in order, a failure exactly when the call raised (also through `InterruptTaskSet`) |
| poll_refines_monitor | `MCRunPollerRefinement.cfg` | AwaitCompletionRefined | when every status carries a lifecycle state, the code implements the decision table of spec 4.1 |
| poll_status_without_state | `MCRunPollerStatusWithoutState.cfg` | AwaitCompletionRefined (expected violation) | a `status` lacking `metadata.state.life_cycle_state` makes the code raise `KeyError`, recorded as a failed poll. Spec 4.1 keeps polling on an absent lifecycle state. This is a divergence between spec and code |
| loadtest_users | `MCLoadTest.cfg` | TypeOK, NamedRunExists, LeaksAreReported, LeakStepReported | `run_name` is never stale; every leaked Run object is counted in the failure statistics, by the step that leaks it |
| loadtest_leak | `MCLoadTestLeak.cfg` | NoRunLeftBehind (expected violation) | an `ApiException` on one get during a poll ends the user before its delete: the Run object is left behind (db_run_client.py:57) |
| loadtest_runner_stop | `MCLoadTestStop.cfg` | LeaksAreReported (expected violation) | under `SpecWithStop`: a user stopped by the runner after a successful create leaves its Run object with no failure recorded (`GreenletExit` escapes `except Exception`, db_decorator.py:23) |
| service_requests | `MCJobService.cfg` | DeleteAnswerTruthful, SubmittedRunHasSecrets | a DELETE answered 200 has removed its run; no run is submitted without its request's secrets |
| service_post_without_libraries | `MCJobServiceLibraries.cfg` | PostNeverCrashes (expected violation) | a POST without the optional `notebook_additional_libraries` is answered 500 (app.py:177) |
| service_delete_after_cancel | `MCJobServiceCancel.cfg` | CancelledRunDeleted (expected violation) | with no transport fault, a delete right after an accepted cancel is refused, and the run stays (dbricks_client.py:91) |
| service_same_run_name | `MCJobServiceSameName.cfg` | SubmittedRunHasSecrets (expected violation) | two POSTs with the same `run_name` share a scope, and the second overwrites the first's secrets |

All runs use `CHECK_DEADLOCK FALSE`, because the modelled activities stop.
One call of the poll ends. A request ends once it has been answered. A
load-test user ends when it is interrupted, or, in the model only, after
`MaxCycles` cycles.

Each property of a passing run has a mutant of the code that breaks it (see
`PROJECT.json`):

- `range(max_attempts + 1)`;
- the sleep taken before the decision;
- the decorator re-raising `InterruptTaskSet` without recording it;
- the `break` after TERMINATED missing;
- a failed create leaving the old `run_name`;
- the decorator recording only re-raised errors;
- the load test's decorator re-raising `InterruptTaskSet` from a task without a failure recorded (breaks `LeakStepReported`);
- the cancel and the delete caught separately;
- a failed `put_secret` swallowed inside the loop.

## 4. Proofs

`RunPollerProofs.tla` proves, for every `MaxAttempts \in Nat` (0 included) and
both values of `StatusWithoutState`:

- `TypeCorrect`: `Spec => []TypeOK`. This includes
  `Len(history) <= MaxAttempts`.
- `PollBudgetAndEvents`: `Spec => [](PollBudget /\ DecoratorEvents)`.
- `DecoratorEventsHold`: `Spec => []DecoratorEvents`, the event log alone,
  stated for the run that checks it.

The inductive invariant is `Inv == TypeOK /\ PollBudget /\ DecoratorEvents`.
It is inductive as it stands. While `result = "Running"`, PollBudget pins
`sleeps` to `Len(history)`, and DecoratorEvents pins `events` to the
`get_run` log of `history`. So each step's effect on both is determined. The
step proof has one case per action. It rests on two lemmas: `GetRunLogAppend`,
that appending to the history appends to the log; and
`AttemptResultNotExhausted`. The assumption used is `MaxAttempts \in Nat`.

- `AwaitCompletionImplemented`: `ASSUME ~StatusWithoutState PROVE
  Spec => AwaitCompletionRefined`. The proof strengthens `TypeOK` with
  `resource # NoLifeCycle` (`RInv`). Without `StatusWithoutState`, the
  lifecycle never reaches a status lacking its lifecycle state. The steps map
  as follows. `PollAttempt` on observation `o` is `Monitor!Fetch(AbstractObs(o))`.
  Lemma `DecisionMatches` shows that the code's exit `AttemptResult(o)` maps to
  the table's `Decision(AbstractObs(o))` for every `o` but `NoLifeCycle`.
  `PollExhausted` is `Monitor!GiveUp`. `RunProgresses` is a stutter of the
  abstract state. The assumption cannot be dropped: the run
  poll_status_without_state is the counterexample.

`LoadTestProofs.tla` proves, for any set of users and any bounds:

- `LoadTestTypeCorrect`: `Spec => []TypeOK`.
- `RunNameNeverStale`: `Spec => []NamedRunExists`.

`NamedRunExists` is not inductive. In a state where two users hold the same
name, one user's delete would break it for the other. The strengthening
`NamesOwned` says that the name a user holds is one of its own create calls.
With it, a delete by `v` removes only `<<v, _>>`, which no other user holds.
The inductive invariant is `TypeOK /\ NamesOwned /\ NamedRunExists`.

- `LeaksReported`: `Spec => []LeaksAreReported`.
- `LeakStepsReported`: `Spec => LeakStepReported`, the action property
  `[][LeakStep]_vars`: a step that leaves a user a new orphan raises that
  user's failure count in the same step.

`LeaksAreReported` is not inductive either: it bounds the number of orphans
by the failures, but says nothing of the run a user still holds, which a
later poll or delete can turn into an orphan. The strengthening is
`OrphansCounted`. For each user, `OwnOrphans(u)` is the set of runs still on the server
that it created minus the one it holds (`Held(u)`, the name of a user in poll or
delete). `Cardinality(OwnOrphans(u)) <= failures[u]`. The inductive invariant
is `LInv == IInv /\ OrphansCounted`. The argument:
`OthersLeaveOrphans` shows that a step of another user leaves `u`'s orphans
and failures alone (names are owned). `OwnStepGrows` shows, one case per
action, that a step of `u` either adds no orphan or adds at most one and
records a failure (`Grows(u)`). The orphan comes from a create whose reply
was lost, a poll or delete ended by an exception, or a run still held when
the user is interrupted. `BoundKept` turns `Grows` into the bound, with
`OwnRunsFinite` and the cardinality facts of `FiniteSetTheorems`.
`OrphansOfUser` relates the model's `Orphans` to `OwnOrphans`, and the action
property follows from `Grows` on the same step.

`JobServiceProofs.tla` proves, for any sets of requests, keys and run ids:

- `DeleteAnswerTruthfulInvariant`: `Spec => []DeleteAnswerTruthful`.
  `DeleteAnswerTruthful` alone is not preserved by a submit, which could reuse
  the deleted id. The strengthening `DeletedIdsRetired` adds that a deleted id
  is below `nextId`, and ids are never handed out twice.
- `SecretsBeforeSubmit`: `DistinctRunNames => (Spec => []SubmittedRunHasSecrets)`.
  The inductive invariant adds `SecretsSoFar`: inside the `put_secret` loop,
  every key visited that has a value is stored by the request. With distinct
  names, no other request's put can overwrite it (lemma `StoreKept`). At
  submit time the loop is over, so every secret is in place. The assumption is
  the docstring's "each run_name should be unique". The run
  service_same_run_name shows that it cannot be dropped.

Every safety invariant and action property that a passing run checks is also
proved. No liveness property is checked: the only candidates ("the poll
ends", "every user finishes") hold by the shape of the model or are false of
the code (see section 3). Had one been kept, it would have stayed with TLC,
since a proof under fairness needs ENABLED and the leads-to rules, which the
installed backends cannot discharge.

`LeaksReported` and `LeakStepsReported` are about `Spec`, the code's own error
paths. Under `SpecWithStop` they fail (run loadtest_runner_stop).
