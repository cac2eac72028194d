----------------------------- MODULE MCAnalysis -----------------------------
(* The analysis on a small instance: an attack on a trap path, a POST to that *)
(* path by another agent, and another attack; the second address only sends   *)
(* the POST.  Two patterns make an attacker, two requests are read at most.    *)
EXTENDS Analysis

MCFeature ==
  [l \in Logs |->
     [risky |-> l = 2, robots |-> l # 3, agent |-> l,
      attacks |-> CASE l = 1 -> {"sql"} [] l = 2 -> {} [] l = 3 -> {"xss"},
      suspicious |-> l # 3]]

MCMaySend == [i \in Ips |-> IF i = 1 THEN Logs ELSE {2}]
=============================================================================
