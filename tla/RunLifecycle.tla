---------------------------- MODULE RunLifecycle ----------------------------
(***************************************************************************)
(* What the service promises a client about one run, without executions,   *)
(* workers, leases or messages: a run is thinking, waiting for tools,      *)
(* paused because guidance came in at the last moment, or over.  Guidance  *)
(* is heard only while the run thinks, a paused run always has guidance to *)
(* go on with, and an answer never leaves guidance behind.                 *)
(***************************************************************************)
CONSTANT Inputs     \* steering inputs

VARIABLES
    phase,          \* where the run stands
    guidance        \* what became of each input

lifecycleVars == <<phase, guidance>>

Phases  == {"absent", "thinking", "tools", "paused", "completed", "failed", "cancelled"}
Ongoing == {"thinking", "tools", "paused"}

Waiting == {i \in Inputs : guidance[i] = "pending"}

LifecycleInit ==
    /\ phase = "absent"
    /\ guidance = [i \in Inputs |-> "none"]

Become(p, q) ==
    /\ phase = p
    /\ phase' = q
    /\ UNCHANGED guidance

Start    == Become("absent", "thinking")
AskTools == Become("thinking", "tools")
UseTools == Become("tools", "thinking")
Pause    == Waiting # {} /\ Become("thinking", "paused")
Continue == Waiting # {} /\ Become("paused", "thinking")
Answer   == Waiting = {} /\ Become("thinking", "completed")
Fail     == Become("thinking", "failed")
Cancel   == \E p \in Ongoing : Become(p, "cancelled")

Guide(i) ==
    /\ phase \in Ongoing
    /\ guidance[i] = "none"
    /\ guidance' = [guidance EXCEPT ![i] = "pending"]
    /\ UNCHANGED phase

\* All waiting guidance is heard at once, in front of a model request.
Hear ==
    /\ phase = "thinking"
    /\ guidance' = [i \in Inputs |-> IF i \in Waiting THEN "received" ELSE guidance[i]]
    /\ UNCHANGED phase

LifecycleNext ==
    \/ Start \/ AskTools \/ UseTools \/ Pause \/ Continue
    \/ Answer \/ Fail \/ Cancel \/ Hear
    \/ \E i \in Inputs : Guide(i)

LifecycleSpec == LifecycleInit /\ [][LifecycleNext]_lifecycleVars

=============================================================================
