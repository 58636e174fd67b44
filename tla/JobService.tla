----------------------------- MODULE JobService -----------------------------
(***************************************************************************)
(* The Databricks API service (databricks-api/app/app.py) with the REST    *)
(* helpers it calls (dbricks_client/dbricks_client.py), serving concurrent *)
(* requests on Flask's threaded server:                                    *)
(*   POST /api/jobs/runs  RunsList.post -> create_job, which checks for    *)
(*                        the run's secret scope and creates it, stores    *)
(*                        the request's secrets in it, and submits the run;*)
(*   DELETE .../<run_id>  Run.delete -> cancel_and_delete_run.             *)
(* Each call to the Databricks REST API is one atomic step; the threads of *)
(* other requests interleave between them.  Databricks keeps the secret    *)
(* scopes, the secrets and the runs; a run goes on by itself from Active   *)
(* to Ended, and a cancel only starts its termination (runs/cancel is      *)
(* asynchronous; runs/delete refuses a run that is still active).          *)
(*                                                                         *)
(* A REST call ends Ok, with an Error (the server refused, or the request  *)
(* never reached it), or with a LostReply (the server acted, the client    *)
(* raised).  Transport faults are enabled by NetworkFaults; the server's   *)
(* own refusals (no such run, scope already exists, run still active) are  *)
(* always modelled.                                                        *)
(***************************************************************************)
EXTENDS Naturals

CONSTANTS
  PostReqs,       \* POST requests served concurrently
  DeleteReqs,     \* DELETE requests served concurrently
  RunNameOf,      \* the run_name each POST carries
  TargetOf,       \* the run_id each DELETE carries
  Keys,           \* keys a notebook_spec_secrets dict may hold
  NetworkFaults,  \* may a REST call fail or lose its reply?
  None            \* Python's None

ASSUME JobServiceAssumption ==
  /\ PostReqs \cap DeleteReqs = {}
  /\ TargetOf \in [DeleteReqs -> Nat \ {0}]
  /\ NetworkFaults \in BOOLEAN
  /\ None \notin PostReqs

Reqs == PostReqs \cup DeleteReqs
RunNames == {RunNameOf[r] : r \in PostReqs}

VARIABLES
  payload,      \* api.payload of each POST
  pc,           \* where each request's thread is
  todo,         \* keys of notebook_spec_secrets the loop has not visited
  resp,         \* what each request was answered
  scopes,       \* secret scopes on Databricks (named by their run_name)
  secretStore,  \* secrets on Databricks: <<scope, key>> -> writing POST
  dbRuns,       \* runs on Databricks: run_id -> [name, state, req], where
                \* req, the submitting POST, is for the properties only
  nextId        \* the run_id Databricks gives the next submitted run

vars == <<payload, pc, todo, resp, scopes, secretStore, dbRuns, nextId>>

-----------------------------------------------------------------------------
(* A request body: None, or the fields the handler branches on: whether   *)
(* notebook_additional_libraries is present, and the notebook_spec_secrets *)
(* dict, each of whose keys maps to a value or to None.                    *)
SecretSpecs == UNION {[D -> {"Value", None}] : D \in SUBSET Keys}
Payloads == {None} \cup [libraries : BOOLEAN, secrets : SecretSpecs]

(* How a POST is answered: 201 with null fields, 500 from an exception of *)
(* the handler, 201 with result None, or 201 with the submit_run result.   *)
PostAnswers == {"Empty", "Error500", "NoResult", "Submitted"}
(* How a DELETE is answered: 200, or 500 from unpacking the None that      *)
(* cancel_and_delete_run returns after the cancel or the delete raised.    *)
DeleteAnswers == {"Deleted", "CancelFailed", "DeleteFailed"}

RunStates == {"Active", "Cancelling", "Ended"}

(* Outcomes of a REST call that reached a willing server.                 *)
Outcomes == IF NetworkFaults THEN {"Ok", "Error", "LostReply"} ELSE {"Ok"}
Acted(out) == out \in {"Ok", "LostReply"}

Name(r) == RunNameOf[r]
SecretKeys(r) == {k \in DOMAIN payload[r].secrets : payload[r].secrets[k] # None}

(* How each REST call can end, given what Databricks holds: creating an  *)
(* existing scope, writing into a missing scope, cancelling an unknown     *)
(* run and deleting a run that is unknown or still active are refused.     *)
CreateScopeOutcomes(r) == IF Name(r) \in scopes THEN {"Error"} ELSE Outcomes
PutOutcomes(r) == IF Name(r) \in scopes THEN Outcomes ELSE {"Error"}
CancelOutcomes(i) == IF i \in DOMAIN dbRuns THEN Outcomes ELSE {"Error"}
DeleteOutcomes(i) ==
  IF i \in DOMAIN dbRuns /\ dbRuns[i].state = "Ended" THEN Outcomes
  ELSE {"Error"}

(* create_or_update_secret_scope: a failed list_scopes is swallowed and   *)
(* create_job goes on to the secrets; "scopes" missing from the result     *)
(* (no scope at all) or no scope of that name leads to create_scope.       *)
AfterList(r, out) ==
  IF out = "Ok" /\ Name(r) \notin scopes THEN "createScope" ELSE "secrets"

(* put_secret raising is caught by create_job, which returns None before  *)
(* submitting.                                                             *)
(* Fault variant: put_secret's failure is swallowed and the loop goes on. *)
AfterPutSwallow(out) == "secrets"
AfterPut(out) == IF out = "Ok" THEN "secrets" ELSE "done"

(* Run.delete: cancel_and_delete_run returns the pair of results, or None *)
(* when the delete raised, and unpacking None raises TypeError (500).      *)
(* Fault variant: each call caught on its own, the pair always returned.  *)
DeleteAnswerSeparateCatch(out) == "Deleted"
DeleteAnswer(out) == IF out = "Ok" THEN "Deleted" ELSE "DeleteFailed"

Answer(r, a) == resp' = [resp EXCEPT ![r] = a]
GoTo(r, l) == pc' = [pc EXCEPT ![r] = l]

-----------------------------------------------------------------------------
Init ==
  /\ payload \in [PostReqs -> Payloads]
  /\ pc = [r \in Reqs |-> IF r \in PostReqs THEN "start" ELSE "cancel"]
  /\ todo = [r \in PostReqs |-> {}]
  /\ resp = [r \in Reqs |-> "Pending"]
  /\ scopes = {}
  /\ secretStore = [s \in {} |-> None]
  /\ dbRuns = [i \in {} |-> None]
  /\ nextId = 1

(* RunsList.post up to create_job: no payload returns at once; otherwise  *)
(* the fields are read and "for lib in notebook_additional_libraries"      *)
(* raises UnboundLocalError when the field was absent, since the variable *)
(* is assigned only under "if 'notebook_additional_libraries' in data".    *)
PostStart(r) ==
  /\ pc[r] = "start"
  /\ \/ /\ payload[r] = None
        /\ resp' = [resp EXCEPT ![r] = "Empty"]
        /\ pc' = [pc EXCEPT ![r] = "done"]
        /\ UNCHANGED todo
     \/ /\ payload[r] # None
        /\ ~payload[r].libraries
        /\ resp' = [resp EXCEPT ![r] = "Error500"]
        /\ pc' = [pc EXCEPT ![r] = "done"]
        /\ UNCHANGED todo
     \/ /\ payload[r] # None
        /\ payload[r].libraries
        /\ todo' = [todo EXCEPT ![r] = DOMAIN payload[r].secrets]
        /\ pc' = [pc EXCEPT ![r] = "listScopes"]
        /\ UNCHANGED resp
  /\ UNCHANGED <<payload, scopes, secretStore, dbRuns, nextId>>

(* create_or_update_secret_scope: db.secret.list_scopes().                *)
ListScopes(r) ==
  /\ pc[r] = "listScopes"
  /\ \E out \in Outcomes : GoTo(r, AfterList(r, out))
  /\ UNCHANGED <<payload, todo, resp, scopes, secretStore, dbRuns, nextId>>

(* create_or_update_secret_scope: db.secret.create_scope(secret_scope);   *)
(* its failure is swallowed.                                               *)
CreateScope(r) ==
  /\ pc[r] = "createScope"
  /\ \E out \in CreateScopeOutcomes(r) :
       scopes' = IF Acted(out) THEN scopes \cup {Name(r)} ELSE scopes
  /\ GoTo(r, "secrets")
  /\ UNCHANGED <<payload, todo, resp, secretStore, dbRuns, nextId>>

(* One iteration of "for key in notebook_spec_secrets": put_secret, which *)
(* calls db.secret.put_secret only when the value is not None.             *)
PutSecret(r) ==
  /\ pc[r] = "secrets"
  /\ \E k \in todo[r] :
       /\ todo' = [todo EXCEPT ![r] = @ \ {k}]
       /\ IF k \notin SecretKeys(r)
            THEN UNCHANGED <<pc, resp, secretStore>>
            ELSE \E out \in PutOutcomes(r) :
                   /\ secretStore' =
                        IF Acted(out)
                          THEN [s \in DOMAIN secretStore \cup {<<Name(r), k>>} |->
                                  IF s = <<Name(r), k>> THEN r
                                  ELSE secretStore[s]]
                          ELSE secretStore
                   /\ GoTo(r, AfterPut(out))
                   /\ Answer(r, IF out = "Ok" THEN resp[r] ELSE "NoResult")
  /\ UNCHANGED <<payload, scopes, dbRuns, nextId>>

(* The loop is over: base_parameters are set and db.jobs.submit_run is    *)
(* called; create_job returns its result, or None when it raised.          *)
SubmitRun(r) ==
  /\ pc[r] = "secrets"
  /\ todo[r] = {}
  /\ \E out \in Outcomes :
       /\ IF Acted(out)
            THEN /\ dbRuns' = [i \in DOMAIN dbRuns \cup {nextId} |->
                                 IF i = nextId
                                   THEN [name |-> Name(r), state |-> "Active", req |-> r]
                                   ELSE dbRuns[i]]
                 /\ nextId' = nextId + 1
            ELSE UNCHANGED <<dbRuns, nextId>>
       /\ Answer(r, IF out = "Ok" THEN "Submitted" ELSE "NoResult")
  /\ GoTo(r, "done")
  /\ UNCHANGED <<payload, todo, scopes, secretStore>>

(* cancel_and_delete_run: db.jobs.cancel_run(run_id).  It only starts the *)
(* run's termination.                                                      *)
CancelRun(r) ==
  /\ pc[r] = "cancel"
  /\ LET i == TargetOf[r] IN
     \E out \in CancelOutcomes(i) :
       /\ dbRuns' = IF Acted(out) /\ dbRuns[i].state = "Active"
                      THEN [dbRuns EXCEPT ![i].state = "Cancelling"]
                      ELSE dbRuns
       /\ IF out = "Ok" THEN GoTo(r, "delete") /\ UNCHANGED resp
          ELSE GoTo(r, "done") /\ Answer(r, "CancelFailed")
  /\ UNCHANGED <<payload, todo, scopes, secretStore, nextId>>

(* cancel_and_delete_run: db.jobs.delete_run(run_id), then the answer.    *)
DeleteRun(r) ==
  /\ pc[r] = "delete"
  /\ LET i == TargetOf[r] IN
     \E out \in DeleteOutcomes(i) :
       /\ dbRuns' = IF Acted(out)
                      THEN [j \in DOMAIN dbRuns \ {i} |-> dbRuns[j]]
                      ELSE dbRuns
       /\ Answer(r, DeleteAnswer(out))
  /\ GoTo(r, "done")
  /\ UNCHANGED <<payload, todo, scopes, secretStore, nextId>>

(* Environment: a run on Databricks finishes, by itself or after a cancel.*)
RunEnds(i) ==
  /\ dbRuns[i].state # "Ended"
  /\ dbRuns' = [dbRuns EXCEPT ![i].state = "Ended"]
  /\ UNCHANGED <<payload, pc, todo, resp, scopes, secretStore, nextId>>

Next ==
  \/ \E r \in PostReqs :
       PostStart(r) \/ ListScopes(r) \/ CreateScope(r) \/ PutSecret(r)
       \/ SubmitRun(r)
  \/ \E r \in DeleteReqs : CancelRun(r) \/ DeleteRun(r)
  \/ \E i \in DOMAIN dbRuns : RunEnds(i)

Spec == Init /\ [][Next]_vars

-----------------------------------------------------------------------------
(* Type invariant.                                                        *)
TypeOK ==
  /\ payload \in [PostReqs -> Payloads]
  /\ pc \in [Reqs -> {"start", "listScopes", "createScope", "secrets",
                      "cancel", "delete", "done"}]
  /\ todo \in [PostReqs -> SUBSET Keys]
  /\ resp \in [Reqs -> PostAnswers \cup DeleteAnswers \cup {"Pending"}]
  /\ scopes \subseteq RunNames
  /\ DOMAIN secretStore \subseteq RunNames \X Keys
  /\ \A s \in DOMAIN secretStore : secretStore[s] \in PostReqs
  /\ nextId \in Nat \ {0}
  /\ DOMAIN dbRuns \subseteq 1..(nextId - 1)
  /\ \A i \in DOMAIN dbRuns :
       dbRuns[i] \in [name : RunNames, state : RunStates, req : PostReqs]

(* A DELETE answered 200 has removed its run from Databricks, whatever    *)
(* the other requests did meanwhile: cancel_and_delete_run returns its     *)
(* pair only when both the cancel and the delete returned.                 *)
DeleteAnswerTruthful ==
  \A r \in DeleteReqs : resp[r] = "Deleted" => TargetOf[r] \notin DOMAIN dbRuns

(* A run on Databricks was submitted with all its request's secrets in    *)
(* place: every non-None value of its notebook_spec_secrets is stored in   *)
(* its scope, and is the value that request wrote.  create_job submits     *)
(* only after every put_secret returned, and a missing scope makes         *)
(* put_secret fail rather than be skipped.                                 *)
SubmittedRunHasSecrets ==
  \A i \in DOMAIN dbRuns :
    LET r == dbRuns[i].req IN
    \A k \in SecretKeys(r) :
      /\ <<RunNameOf[r], k>> \in DOMAIN secretStore
      /\ secretStore[<<RunNameOf[r], k>>] = r

(* notebook_additional_libraries is declared required=False in the API    *)
(* model (run_definition), so a request without it is valid: no POST is    *)
(* answered with an internal error.                                        *)
PostNeverCrashes == \A r \in PostReqs : resp[r] # "Error500"

(* cancel_and_delete_run "cancel[s] and then delete[s] a run": once a     *)
(* DELETE has had its cancel accepted and has been answered, its run is    *)
(* gone from Databricks.                                                   *)
CancelledRunDeleted ==
  \A r \in DeleteReqs :
    resp[r] \in {"Deleted", "DeleteFailed"} => TargetOf[r] \notin DOMAIN dbRuns

=============================================================================
