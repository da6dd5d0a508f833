-------------------------- MODULE RuntimeHostProofs --------------------------
(***************************************************************************)
(* Proofs about RuntimeHost: a turn's interruption, its stream and the     *)
(* kills of the application never disturb each other, for any number of    *)
(* turns and kills.                                                        *)
(***************************************************************************)
EXTENDS RuntimeHost, TLAPS

\* A turn that was never started has left no trace.
Untouched ==
    \A t \in Turns :
        journal[t] = "none" =>
            /\ record[t] = "none" /\ stream[t] = "off" /\ cancel[t] = "off"
            /\ terminal[t] = "none" /\ t \notin batch \cup recovery \cup marked

\* What is in memory exists only while the host is up.
MemoryLive ==
    host # "up" =>
        /\ active = 0 /\ batch = {} /\ recovery = {}
        /\ \A t \in Turns : stream[t] = "off" /\ cancel[t] = "off" /\ terminal[t] = "none"

\* Only the boot loop marks turns, and it has journalled the ones it marked.
MarkedStale == \A t \in marked : host = "booting" /\ journal[t] = "restarted"

HostInv ==
    /\ TypeOK
    /\ Untouched
    /\ MemoryLive
    /\ MarkedStale
    /\ InterruptionStands
    /\ NoZombieTurn
    /\ OneStreamPerThread
    /\ NoTerminalOutlives

LEMMA InitHost == Init => HostInv
<1> SUFFICES ASSUME Init PROVE HostInv OBVIOUS
<1>1. TypeOK BY TurnsAssumption DEF Init, TypeOK
<1> QED BY <1>1 DEF Init, HostInv, Untouched, MemoryLive, MarkedStale, InterruptionStands,
                    NoZombieTurn, OneStreamPerThread, NoTerminalOutlives, IsActive, Aborted,
                    interrupting, Turns

\* Every step keeps the types.
LEMMA NextTyped == TypeOK /\ [Next]_vars => TypeOK'
<1> SUFFICES ASSUME TypeOK, [Next]_vars PROVE TypeOK' OBVIOUS
<1> USE TurnsAssumption DEF TypeOK
<1>1. ASSUME NEW t \in Turns, HostStep(t) PROVE TypeOK'
  <2>1. CASE StartTurn(t) \/ PostStart(t) \/ SpawnTerminal(t) \/ RegisterTerminal(t)
    BY ZenonT(60), <2>1 DEF StartTurn, PostStart, SpawnTerminal, RegisterTerminal, disk, network
  <2>2. CASE \E outcome \in {"completed", "failed"} : EndStream(t, outcome)
    BY <2>2 DEF EndStream, network, Finished
  <2>3. CASE InterruptTurn(t) \/ CancelAnswered(t) \/ CancelGivesUp(t) \/ FinishInterrupt(t)
    BY <2>3 DEF InterruptTurn, CancelAnswered, CancelGivesUp, FinishInterrupt, Served, Missing,
                Unanswered, disk, network, Finished
  <2>4. CASE RecoverTurn(t) \/ RecoveryAnswered(t) \/ RecoveryGivesUp(t)
    BY <2>4 DEF RecoverTurn, RecoveryAnswered, RecoveryGivesUp, Served, Missing, Unanswered,
                disk, network
  <2>5. CASE MarkStale(t) \/ RecordStale(t)
    BY <2>5 DEF MarkStale, RecordStale, memory, network, Finished
  <2> QED BY <1>1, <2>1, <2>2, <2>3, <2>4, <2>5 DEF HostStep
<1>2. ASSUME NEW t \in Turns, ServerStep(t) PROVE TypeOK'
  BY ZenonT(60), <1>2 DEF ServerStep, ServerStarts, PostLost, ServerEnds, disk, memory
<1>3. CASE LoadPending \/ Crash \/ Boot \/ BootDone
  BY <1>3 DEF LoadPending, Crash, Boot, BootDone, disk, memory, network
<1>4. CASE UNCHANGED vars
  BY <1>4 DEF vars, disk, memory, network
<1> QED BY <1>1, <1>2, <1>3, <1>4 DEF Next

\* Every step of the host keeps the invariant.
LEMMA HostStepInv == ASSUME HostInv, NEW t \in Turns, HostStep(t), TypeOK' PROVE HostInv'
<1> USE DEF HostInv, TypeOK, Untouched, MemoryLive, MarkedStale, InterruptionStands,
            NoZombieTurn, OneStreamPerThread, NoTerminalOutlives, IsActive, Aborted, interrupting
<1>1. CASE StartTurn(t)
  BY <1>1, TurnsAssumption DEF StartTurn, network, Turns
<1>2. CASE PostStart(t)
  BY <1>2 DEF PostStart, disk
<1>3. CASE SpawnTerminal(t)
  BY <1>3 DEF SpawnTerminal, disk, network
<1>4. CASE RegisterTerminal(t)
  BY <1>4 DEF RegisterTerminal, network
<1>5. CASE \E outcome \in {"completed", "failed"} : EndStream(t, outcome)
  BY <1>5, TurnsAssumption DEF EndStream, network, Turns
<1>6. CASE InterruptTurn(t)
  BY <1>6 DEF InterruptTurn, network
<1>7. CASE CancelAnswered(t)
  BY <1>7 DEF CancelAnswered
<1>8. CASE CancelGivesUp(t)
  BY <1>8 DEF CancelGivesUp, disk
<1>9. CASE FinishInterrupt(t)
  BY <1>9 DEF FinishInterrupt, network
<1>10. CASE RecoverTurn(t)
  BY <1>10 DEF RecoverTurn, network
<1>11. CASE RecoveryAnswered(t)
  BY <1>11 DEF RecoveryAnswered
<1>12. CASE RecoveryGivesUp(t)
  BY <1>12 DEF RecoveryGivesUp, disk
<1>13. CASE MarkStale(t)
  BY <1>13 DEF MarkStale, memory, network
<1>14. CASE RecordStale(t)
  BY <1>14 DEF RecordStale, memory, network
<1> QED BY <1>1, <1>2, <1>3, <1>4, <1>5, <1>6, <1>7, <1>8, <1>9, <1>10, <1>11, <1>12, <1>13,
           <1>14 DEF HostStep

LEMMA NextHost == HostInv /\ [Next]_vars => HostInv'
<1> SUFFICES ASSUME HostInv, [Next]_vars PROVE HostInv' OBVIOUS
<1>0. TypeOK' BY NextTyped DEF HostInv
<1>1. ASSUME NEW t \in Turns, HostStep(t) PROVE HostInv'
  BY <1>0, <1>1, HostStepInv
<1> USE <1>0 DEF HostInv, Untouched, MemoryLive, MarkedStale, InterruptionStands,
            NoZombieTurn, OneStreamPerThread, NoTerminalOutlives, IsActive, Aborted, interrupting
<1>2. ASSUME NEW t \in Turns, ServerStep(t) PROVE HostInv'
  BY <1>2 DEF ServerStep, ServerStarts, PostLost, ServerEnds, disk, memory
<1>3. CASE LoadPending
  BY <1>3 DEF LoadPending, disk, network
<1>4. CASE Crash
  BY <1>4, TurnsAssumption DEF Crash, disk, network, TypeOK, Turns
<1>5. CASE Boot
  BY <1>5 DEF Boot, disk, memory, network
<1>6. CASE BootDone
  BY <1>6 DEF BootDone, disk, network
<1>7. CASE UNCHANGED vars
  BY <1>7 DEF vars, disk, memory, network
<1> QED BY <1>1, <1>2, <1>3, <1>4, <1>5, <1>6, <1>7 DEF Next

LEMMA HostInvariant == Spec => []HostInv
BY InitHost, NextHost, PTL DEF Spec

\* Every variable keeps its type.
THEOREM HostTyped == Spec => []TypeOK
<1>1. HostInv => TypeOK BY DEF HostInv
<1> QED BY <1>1, HostInvariant, PTL

\* interruptTurn always finds its turn in progress when it journals the ending.
THEOREM Standing == Spec => []InterruptionStands
<1>1. HostInv => InterruptionStands BY DEF HostInv
<1> QED BY <1>1, HostInvariant, PTL

\* No turn is left in progress with nothing to end it.
THEOREM NoZombies == Spec => []NoZombieTurn
<1>1. HostInv => NoZombieTurn BY DEF HostInv
<1> QED BY <1>1, HostInvariant, PTL

\* A thread streams one turn at a time.
THEOREM OneStream == Spec => []OneStreamPerThread
<1>1. HostInv => OneStreamPerThread BY DEF HostInv
<1> QED BY <1>1, HostInvariant, PTL

\* No terminal outlives the interruption of its turn.
THEOREM TerminalsStop == Spec => []NoTerminalOutlives
<1>1. HostInv => NoTerminalOutlives BY DEF HostInv
<1> QED BY <1>1, HostInvariant, PTL

\* All of the host's invariants together, which the run checks as one.
THEOREM HostSafety == Spec => []HostSafe
<1>1. HostInv => HostSafe BY DEF HostInv, HostSafe
<1> QED BY <1>1, HostInvariant, PTL

\* A saved cancellation is dropped only on the server's answer.
LEMMA NextKeeps ==
    ASSUME HostInv, [Next]_vars, NEW t \in Turns, record[t] = "pending", record'[t] # "pending"
    PROVE  remote'[t] # "live"
<1> USE DEF HostInv, TypeOK
<1>1. ASSUME NEW u \in Turns, HostStep(u) PROVE remote'[t] # "live"
  <2>1. CASE StartTurn(u)
    BY <2>1 DEF StartTurn, Untouched
  <2>2. CASE CancelAnswered(u) \/ RecoveryAnswered(u)
    BY <2>2 DEF CancelAnswered, RecoveryAnswered, Served, Missing
  <2> QED BY <1>1, <2>1, <2>2
          DEF HostStep, PostStart, SpawnTerminal, RegisterTerminal, EndStream, InterruptTurn,
              CancelGivesUp, FinishInterrupt, RecoverTurn, RecoveryGivesUp, MarkStale,
              RecordStale, disk
<1> QED BY <1>1 DEF Next, ServerStep, ServerStarts, PostLost, ServerEnds, LoadPending, Crash,
                    Boot, BootDone, vars, disk

\* A cancellation that was saved is dropped only once the remote run is over: every
\* step keeps it, whoever answers, gives up or is killed (cancellation-recovery.ts).
THEOREM Keeping == Spec => CancellationKept
<1>1. HostInv /\ [Next]_vars =>
          [\A t \in Turns : KeepsCancellation(t)]_vars
  BY NextKeeps DEF KeepsCancellation
<1> QED BY <1>1, HostInvariant, PTL DEF Spec, CancellationKept

\* A turn's ending is never journalled twice or changed.
LEMMA NextOnce ==
    ASSUME HostInv, [Next]_vars, NEW t \in Turns, journal[t] \in Finished
    PROVE  journal'[t] = journal[t]
<1> USE DEF HostInv, TypeOK, Finished
<1>1. ASSUME NEW u \in Turns, HostStep(u) PROVE journal'[t] = journal[t]
  BY <1>1 DEF HostStep, StartTurn, PostStart, SpawnTerminal, RegisterTerminal, EndStream,
              InterruptTurn, CancelAnswered, CancelGivesUp, FinishInterrupt, RecoverTurn,
              RecoveryAnswered, RecoveryGivesUp, MarkStale, RecordStale, disk
<1> QED BY <1>1 DEF Next, ServerStep, ServerStarts, PostLost, ServerEnds, LoadPending, Crash,
                    Boot, BootDone, vars, disk

\* The ending of a turn that is in the journal stands, over kills and restarts
\* (desktop-runtime-host.ts).
THEOREM EndingOnce == Spec => TurnEndsOnce
<1>1. HostInv /\ [Next]_vars =>
          [\A t \in Turns : KeepsEnding(t)]_vars
  BY NextOnce DEF KeepsEnding
<1> QED BY <1>1, HostInvariant, PTL DEF Spec, TurnEndsOnce

\* What was saved of a turn, its cancellation and its ending, is not taken back.
THEOREM HostKeeping == Spec => HostKeeps
<1>1. HostInv /\ [Next]_vars =>
          [\A t \in Turns : KeepsCancellation(t) /\ KeepsEnding(t)]_vars
  BY NextKeeps, NextOnce DEF KeepsCancellation, KeepsEnding
<1> QED BY <1>1, HostInvariant, PTL DEF Spec, HostKeeps

=============================================================================
