---------------------------- MODULE MCIsolation ----------------------------
(* Five tasks of three priorities in this thread, two or three on a pool.   *)
EXTENDS Isolation, TLC

MCTasks    == 1..5
MCPriority == [t \in MCTasks |-> IF t = 5 THEN 0 ELSE 1 + (t % 2)]
MCLoad     == ("inline" :> MCTasks) @@ ("thread" :> 1..3) @@ ("process" :> 1..2)
MCWorkers  == 1..4
=============================================================================
