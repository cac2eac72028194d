--------------------------- MODULE MCTrapRequests ---------------------------
(* TrapRequests with one request of every kind that a branch tells apart. *)
EXTENDS TrapRequests, TLC

Get(p) == [verb |-> "GET", path |-> p, client |-> "stranger", deceives |-> FALSE,
           attacks |-> FALSE]

CONSTANTS r1, r2

Plain == {Get(p) : p \in Pages}

Others ==
  {Get("login"), [Get("root") EXCEPT !.deceives = TRUE], [Get("root") EXCEPT !.client = "own"],
   [Get("root") EXCEPT !.client = "ignored"], [Get("admin") EXCEPT !.verb = "HEAD"],
   [Get("login") EXCEPT !.verb = "POST"],
   [Get("login") EXCEPT !.verb = "POST", !.attacks = TRUE]}

MCShapes == r1 :> Plain \cup Others @@ r2 :> {Get("one"), Get("two")}
=============================================================================
