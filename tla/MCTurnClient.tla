----------------------------- MODULE MCTurnClient -----------------------------
(* TLC instances of TurnClient: two calls, the first of which loads the      *)
(* capability that the second one uses.                                      *)
EXTENDS TurnClient

CONSTANTS load, use

MCOperation == [c \in {load, use} |-> c]

=============================================================================
