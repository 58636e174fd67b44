----------------------------- MODULE MCLoadTest -----------------------------
(* Model-checking instance of LoadTest: two users, so that they interleave *)
(* on the shared set of Run objects; two cycles each, so that a create can *)
(* follow a delete of the same user (where a stale run_name would bite);   *)
(* two attempts per poll, so that a poll can go on after a non-terminal    *)
(* view and still run out.                                                 *)
EXTENDS LoadTest

CONSTANTS u1, u2

MCUsers == {u1, u2}
MCMaxAttempts == 2
MCMaxCycles == 2
=============================================================================
