----------------------------- MODULE MCPollLoop -----------------------------
(***************************************************************************)
(* A header of 2 and a buffer of 4; `runt` is shorter than the one, `full` *)
(* as long as the other.                                                   *)
(***************************************************************************)
EXTENDS PollLoop

CONSTANTS runt, full

Sizes == [f \in Frame |-> IF f = runt THEN 1 ELSE IF f = full THEN 4 ELSE 2]

=============================================================================
