----------------------------- MODULE MCFollowups -----------------------------
(* TLC instances of Followups. *)
EXTENDS Followups

\* bound: a behaviour is not followed past two requests on their way, or one once
\* the application was killed; no message is queued after a kill.
Followed ==
    /\ Len(wire) + crashes <= 2
    /\ crashes > 0 => added = MaxInputs

=============================================================================
