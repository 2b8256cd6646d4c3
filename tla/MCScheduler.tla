---------------------------- MODULE MCScheduler ------------------------------
(***************************************************************************)
(* Instances of Scheduler for TLC: requests "a", "b" and "c".              *)
(***************************************************************************)
EXTENDS Scheduler

Two   == {"a", "b"}
Three == {"a", "b", "c"}

\* a is a /generate request, whose client may time out; b is a /stream one.
HTTPKinds   == [r \in Two |-> IF r = "a" THEN "generate" ELSE "stream"]
StreamKinds == [r \in Two |-> "stream"]
GRPCThree   == [r \in Three |-> "grpc"]

Prompts21   == [r \in Two |-> IF r = "a" THEN 2 ELSE 1]

\* c's prompt is longer than the arena of its run is made for.
Prompts214  == [r \in Three |-> CASE r = "a" -> 2 [] r = "b" -> 1 [] r = "c" -> 4]
Prompts10   == [r \in Two |-> IF r = "a" THEN 1 ELSE 0]
Limits32    == [r \in Two |-> IF r = "a" THEN 3 ELSE 2]
Limits22    == [r \in Two |-> 2]
Limits011   == [r \in Three |-> IF r = "a" THEN 0 ELSE 1]
Limits41    == [r \in Two |-> IF r = "a" THEN 4 ELSE 1]
=============================================================================
