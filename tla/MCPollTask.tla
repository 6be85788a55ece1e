----------------------------- MODULE MCPollTask -----------------------------
(***************************************************************************)
(* TLC instance of PollTask: the main task stops and restarts the source.  *)
(***************************************************************************)
EXTENDS PollTask

CONSTANTS main, t1, t2, t3

MainOnly == {main}

Drained == [o \in MainOnly |-> {"stop", "restart"}]

ThreeTasks == {t1, t2, t3}

(* Two Stop() calls that give up leave two stragglers beside a new task. *)
TwoGivenUp == given_up <= 2
=============================================================================
