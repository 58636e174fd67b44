---------------------------- MODULE MCRunPoller ----------------------------
(* Model-checking instance of RunPoller.  Four attempts are enough for    *)
(* every path of the lifecycle (NoStatus, PENDING, RUNNING, TERMINATING,   *)
(* TERMINATED) to be observed within the budget, and for the budget to run *)
(* out on slower interleavings.                                            *)
EXTENDS RunPoller

MCMaxAttempts == 4
=============================================================================
