---------------------------- MODULE MCJobService ----------------------------
(* Model-checking instance of JobService: two POSTs and two DELETEs of the *)
(* first run_id Databricks hands out, so that a DELETE can race the POST   *)
(* that creates its run and the other DELETE; one secret key, which a      *)
(* request may give a value, give None or leave out.  The POSTs carry     *)
(* different run names, as create_job's docstring asks ("each run_name     *)
(* should be unique"), or the same one.                                    *)
EXTENDS JobService

CONSTANTS p1, p2, d1, d2

MCPostReqs == {p1, p2}
MCDeleteReqs == {d1, d2}
MCTargetOf == [r \in MCDeleteReqs |-> 1]
MCKeys == {"k"}
MCDistinctNames == [r \in MCPostReqs |-> IF r = p1 THEN "run-a" ELSE "run-b"]
MCSameName == [r \in MCPostReqs |-> "run-a"]
=============================================================================
