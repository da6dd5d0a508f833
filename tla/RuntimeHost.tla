----------------------------- MODULE RuntimeHost -----------------------------
(***************************************************************************)
(* The desktop runtime host and the turns of one thread.                   *)
(*                                                                         *)
(* A turn is journalled in SQLite, streams its run from the API and may be *)
(* interrupted; an interruption must reach the remote run even when the    *)
(* network or the application fails, so an execution record with a pending *)
(* cancellation is kept in SQLite and a timer works it off.  The host is   *)
(* one JavaScript thread: an action is the code between two awaits.  The   *)
(* application may be killed at any point and started again.               *)
(*                                                                         *)
(* Abstracted: the events inside a turn, the partial message, the number   *)
(* of attempts of one interruption (an attempt is answered, or the         *)
(* interruption gives up).  A turn has at most one terminal.  The remote   *)
(* run is external: absent, live or over; AgentExecution models it.        *)
(***************************************************************************)
EXTENDS Naturals, FiniteSets

CONSTANTS
    MaxTurns,       \* bound: turns of the thread
    MaxCrashes      \* bound: kills of the application

ASSUME TurnsAssumption == MaxTurns \in Nat \ {0} /\ MaxCrashes \in Nat

Turns == 1 .. MaxTurns

VARIABLES
    journal,        \* runtime_turns.status; "restarted" is interrupted(runtime_restarted)
    record,         \* runtime_executions: "none", "kept", "pending" (cancellationPending)
    host,           \* "down", "booting" or "up"
    marked,         \* turns the boot loop has journalled and not yet recorded
    active,         \* activeThreads of the thread: the turn, or 0
    stream,         \* streamMessage of the turn: "off", "preparing" or "open"
    cancel,         \* interruptTurn of the turn: "off", "asking" or "settled"
    terminal,       \* the turn's terminal: "none", "starting", "running" or "stopped"
    batch,          \* turns a recovery pass still has in its list
    recovery,       \* pending set of the recovery: turns it is cancelling
    remote,         \* the remote run: "absent", "live" or "over"
    posted,         \* a start request of the turn is on its way to the server
    crashes         \* kills so far

disk     == <<journal, record>>
memory   == <<active, stream, cancel, terminal, batch, recovery>>
network  == <<remote, posted>>
vars     == <<disk, host, marked, memory, network, crashes>>

Finished == {"completed", "failed", "interrupted", "restarted"}

interrupting == {t \in Turns : cancel[t] # "off"}

\* The turn's AbortController has fired.
Aborted(t) == t \in interrupting \/ journal[t] = "interrupted"

\* Mutant: an interrupted turn counts as active for ever.
ActiveOnceAborted(t) == stream[t] # "off" \/ Aborted(t)

\* isActive of the recovery: the turn has an execution or is being interrupted.
IsActive(t) == stream[t] # "off" \/ t \in interrupting

Init ==
    /\ journal  = [t \in Turns |-> "none"]
    /\ record   = [t \in Turns |-> "none"]
    /\ host     = "up"
    /\ marked   = {}
    /\ active   = 0
    /\ stream   = [t \in Turns |-> "off"]
    /\ cancel   = [t \in Turns |-> "off"]
    /\ terminal = [t \in Turns |-> "none"]
    /\ batch    = {}
    /\ recovery = {}
    /\ remote   = [t \in Turns |-> "absent"]
    /\ posted   = [t \in Turns |-> FALSE]
    /\ crashes  = 0

-----------------------------------------------------------------------------
(* Turns *)

\* Mutant: a turn that is being interrupted does not count.
StartWhileInterrupting(t) ==
    /\ host = "up"
    /\ journal[t] = "none"
    /\ active = 0 \/ active \in interrupting
    /\ journal' = [journal EXCEPT ![t] = "in_progress"]
    /\ record'  = [record EXCEPT ![t] = "kept"]
    /\ active'  = t
    /\ stream'  = [stream EXCEPT ![t] = "preparing"]
    /\ UNCHANGED <<host, marked, cancel, terminal, batch, recovery, network, crashes>>

\* startTurn, up to the first await of streamMessage.  A kill between its two
\* writes leaves a turn without a record, which boot treats alike.
StartTurn(t) ==
    /\ host = "up"
    /\ journal[t] = "none"
    /\ active = 0
    /\ journal' = [journal EXCEPT ![t] = "in_progress"]
    /\ record'  = [record EXCEPT ![t] = "kept"]
    /\ active'  = t
    /\ stream'  = [stream EXCEPT ![t] = "preparing"]
    /\ UNCHANGED <<host, marked, cancel, terminal, batch, recovery, network, crashes>>

\* transport.start: fetch refuses an aborted signal.
PostStart(t) ==
    /\ stream[t] = "preparing"
    /\ ~Aborted(t)
    /\ stream' = [stream EXCEPT ![t] = "open"]
    /\ posted' = [posted EXCEPT ![t] = TRUE]
    /\ UNCHANGED <<disk, host, marked, active, cancel, terminal, batch, recovery, remote, crashes>>

\* The terminal tool: the process is spawned, and the tool waits for output.
SpawnTerminal(t) ==
    /\ stream[t] = "open"
    /\ remote[t] = "live"
    /\ terminal[t] = "none"
    /\ terminal' = [terminal EXCEPT ![t] = "starting"]
    /\ UNCHANGED <<disk, host, marked, active, stream, cancel, batch, recovery, network, crashes>>

\* Mutant: the signal is not looked at after the wait.
RegisterUnchecked(t) ==
    /\ terminal[t] = "starting"
    /\ terminal' = [terminal EXCEPT ![t] = "running"]
    /\ record' = [record EXCEPT ![t] = IF @ = "pending" THEN "pending" ELSE "kept"]
    /\ UNCHANGED <<journal, host, marked, active, stream, cancel, batch, recovery, network, crashes>>

\* The wait is over: an aborted turn's terminal is killed, and either way it is
\* registered, which saves the execution record again.
RegisterTerminal(t) ==
    /\ terminal[t] = "starting"
    /\ terminal' = [terminal EXCEPT ![t] = IF Aborted(t) THEN "stopped" ELSE "running"]
    /\ record' = [record EXCEPT ![t] = IF @ = "pending" THEN "pending" ELSE "kept"]
    /\ UNCHANGED <<journal, host, marked, active, stream, cancel, batch, recovery, network, crashes>>

\* Mutant: the end of the stream does not ask whether an interruption is on.
EndUnasked(t, outcome) ==
    /\ stream[t] # "off" /\ terminal[t] # "starting"
    /\ outcome = "completed" => stream[t] = "open" /\ (remote[t] = "over" \/ Aborted(t))
    /\ journal' = [journal EXCEPT ![t] = IF @ = "in_progress" THEN outcome ELSE @]
    /\ stream'  = [stream EXCEPT ![t] = "off"]
    /\ record'  = [record EXCEPT ![t] = IF @ = "pending" THEN "pending" ELSE "none"]
    /\ active'  = 0
    /\ UNCHANGED <<host, marked, cancel, terminal, batch, recovery, network, crashes>>

\* Mutant: execution.complete() deletes the record whatever is pending.
EndForgetting(t, outcome) ==
    /\ stream[t] # "off" /\ terminal[t] # "starting"
    /\ outcome = "completed" => stream[t] = "open" /\ (remote[t] = "over" \/ Aborted(t))
    /\ journal' = [journal EXCEPT
           ![t] = IF @ = "in_progress" /\ t \notin interrupting THEN outcome ELSE @]
    /\ stream'  = [stream EXCEPT ![t] = "off"]
    /\ record'  = [record EXCEPT ![t] = "none"]
    /\ active'  = 0
    /\ UNCHANGED <<host, marked, cancel, terminal, batch, recovery, network, crashes>>

\* streamMessage settles: it returns when the remote run is over or the turn
\* was aborted, and throws when the recovery of a broken connection has given
\* up.  What follows (then or catch, finally) runs without an await.
EndStream(t, outcome) ==
    /\ stream[t] # "off" /\ terminal[t] # "starting"
    /\ outcome = "completed" => stream[t] = "open" /\ (remote[t] = "over" \/ Aborted(t))
    /\ journal' = [journal EXCEPT
           ![t] = IF @ = "in_progress" /\ t \notin interrupting THEN outcome ELSE @]
    /\ stream'  = [stream EXCEPT ![t] = "off"]
    /\ record'  = [record EXCEPT ![t] = IF @ = "pending" THEN "pending" ELSE "none"]
    /\ active'  = 0
    /\ UNCHANGED <<host, marked, cancel, terminal, batch, recovery, network, crashes>>

-----------------------------------------------------------------------------
(* Interruption *)

\* interruptTurn, up to the first request: the pending cancellation is saved,
\* the signal fires, registered terminals are stopped.
InterruptTurn(t) ==
    /\ host = "up"
    /\ journal[t] = "in_progress"
    /\ t \notin interrupting
    /\ cancel'   = [cancel EXCEPT ![t] = "asking"]
    /\ record'   = [record EXCEPT ![t] = "pending"]
    /\ terminal' = [terminal EXCEPT ![t] = IF @ = "running" THEN "stopped" ELSE @]
    /\ UNCHANGED <<journal, host, marked, active, stream, batch, recovery, network, crashes>>

\* The server's answers to a cancel request.
Served(t)  == remote[t] # "absent" /\ remote' = [remote EXCEPT ![t] = "over"]
Missing(t) == remote[t] = "absent" /\ UNCHANGED remote

\* The request or its response is lost.
Unanswered(t) == Served(t) \/ UNCHANGED remote

\* cancelRemoteRun succeeds; a missing run counts as cancelled.
CancelAnswered(t) ==
    /\ cancel[t] = "asking"
    /\ Served(t) \/ Missing(t)
    /\ record' = [record EXCEPT ![t] = "none"]
    /\ cancel' = [cancel EXCEPT ![t] = "settled"]
    /\ UNCHANGED <<journal, host, marked, active, stream, terminal, batch, recovery, posted, crashes>>

\* Mutant: the error leaves interruptTurn without the finally block.
GiveUpSilently(t) ==
    /\ cancel[t] = "asking"
    /\ Unanswered(t)
    /\ cancel' = [cancel EXCEPT ![t] = "off"]
    /\ UNCHANGED <<disk, host, marked, active, stream, terminal, batch, recovery, posted, crashes>>

\* The last attempt fails: the record keeps the cancellation.
CancelGivesUp(t) ==
    /\ cancel[t] = "asking"
    /\ Unanswered(t)
    /\ cancel' = [cancel EXCEPT ![t] = "settled"]
    /\ UNCHANGED <<disk, host, marked, active, stream, terminal, batch, recovery, posted, crashes>>

\* Mutant: only an answered cancellation is journalled.
FinishAnswered(t) ==
    /\ cancel[t] = "settled"
    /\ record[t] # "pending"
    /\ journal[t] = "in_progress"
    /\ journal' = [journal EXCEPT ![t] = "interrupted"]
    /\ cancel'  = [cancel EXCEPT ![t] = "off"]
    /\ UNCHANGED <<record, host, marked, active, stream, terminal, batch, recovery, network, crashes>>

\* The finally block of interruptTurn; append throws unless the turn is in
\* progress.
FinishInterrupt(t) ==
    /\ cancel[t] = "settled"
    /\ journal[t] = "in_progress"
    /\ journal' = [journal EXCEPT ![t] = "interrupted"]
    /\ cancel'  = [cancel EXCEPT ![t] = "off"]
    /\ UNCHANGED <<record, host, marked, active, stream, terminal, batch, recovery, network, crashes>>

-----------------------------------------------------------------------------
(* Cancellation recovery *)

\* reconcile loads the records with a pending cancellation.
LoadPending ==
    /\ host = "up"
    /\ batch' = batch \cup {t \in Turns : record[t] = "pending"}
    /\ UNCHANGED <<disk, host, marked, active, stream, cancel, terminal, recovery, network, crashes>>

\* One turn of the list, which may be out of date: restore saves the record
\* again.  Turns that are active or being recovered are skipped.
RecoverTurn(t) ==
    /\ t \in batch
    /\ batch' = batch \ {t}
    /\ \/ /\ IsActive(t) \/ t \in recovery
          /\ UNCHANGED <<record, recovery>>
       \/ /\ ~IsActive(t) /\ t \notin recovery
          /\ recovery' = recovery \cup {t}
          /\ record'   = [record EXCEPT ![t] = "pending"]
    /\ UNCHANGED <<journal, host, marked, active, stream, cancel, terminal, network, crashes>>

RecoveryAnswered(t) ==
    /\ t \in recovery
    /\ Served(t) \/ Missing(t)
    /\ record'   = [record EXCEPT ![t] = "none"]
    /\ recovery' = recovery \ {t}
    /\ UNCHANGED <<journal, host, marked, active, stream, cancel, terminal, batch, posted, crashes>>

RecoveryGivesUp(t) ==
    /\ t \in recovery
    /\ Unanswered(t)
    /\ recovery' = recovery \ {t}
    /\ UNCHANGED <<disk, host, marked, active, stream, cancel, terminal, batch, posted, crashes>>

-----------------------------------------------------------------------------
(* Kill and restart *)

Crash ==
    /\ host # "down"
    /\ crashes < MaxCrashes
    /\ crashes'  = crashes + 1
    /\ host'     = "down"
    /\ marked'   = {}
    /\ active'   = 0
    /\ stream'   = [t \in Turns |-> "off"]
    /\ cancel'   = [t \in Turns |-> "off"]
    /\ terminal' = [t \in Turns |-> "none"]
    /\ batch'    = {}
    /\ recovery' = {}
    /\ UNCHANGED <<disk, network>>

Boot ==
    /\ host = "down"
    /\ host' = "booting"
    /\ UNCHANGED <<disk, marked, memory, network, crashes>>

\* Mutant: the loop runs over all journalled turns.
MarkEveryTurn(t) ==
    /\ host = "booting"
    /\ marked = {}
    /\ journal[t] \notin {"none", "restarted"}
    /\ journal' = [journal EXCEPT ![t] = "restarted"]
    /\ marked'  = {t}
    /\ UNCHANGED <<record, host, memory, network, crashes>>

\* initializeAgentRuntime, for a turn found in progress: first its journal ...
MarkStale(t) ==
    /\ host = "booting"
    /\ marked = {}
    /\ journal[t] = "in_progress"
    /\ journal' = [journal EXCEPT ![t] = "restarted"]
    /\ marked'  = {t}
    /\ UNCHANGED <<record, host, memory, network, crashes>>

\* Mutant: the turn's new status is saved where the flag belongs.
RecordStatus(t) ==
    /\ t \in marked
    /\ record' = [record EXCEPT ![t] = journal[t]]
    /\ marked' = {}
    /\ UNCHANGED <<journal, host, memory, network, crashes>>

\* ... then its execution record.
RecordStale(t) ==
    /\ t \in marked
    /\ record' = [record EXCEPT ![t] = "pending"]
    /\ marked' = {}
    /\ UNCHANGED <<journal, host, memory, network, crashes>>

\* The loop is done; startCancellationRecovery makes its first pass at once.
BootDone ==
    /\ host = "booting"
    /\ marked = {}
    /\ \A t \in Turns : journal[t] # "in_progress"
    /\ host'  = "up"
    /\ batch' = {t \in Turns : record[t] = "pending"}
    /\ UNCHANGED <<disk, marked, active, stream, cancel, terminal, recovery, network, crashes>>

-----------------------------------------------------------------------------
(* The server (external) *)

\* The start request arrives, whether or not its sender still waits.
ServerStarts(t) ==
    /\ posted[t]
    /\ posted' = [posted EXCEPT ![t] = FALSE]
    /\ remote' = [remote EXCEPT ![t] = IF @ = "absent" THEN "live" ELSE @]
    /\ UNCHANGED <<disk, host, marked, memory, crashes>>

PostLost(t) ==
    /\ posted[t]
    /\ posted' = [posted EXCEPT ![t] = FALSE]
    /\ UNCHANGED <<disk, host, marked, memory, remote, crashes>>

ServerEnds(t) ==
    /\ remote[t] = "live"
    /\ remote' = [remote EXCEPT ![t] = "over"]
    /\ UNCHANGED <<disk, host, marked, memory, posted, crashes>>

-----------------------------------------------------------------------------
HostStep(t) ==
    \/ StartTurn(t)
    \/ PostStart(t)
    \/ SpawnTerminal(t)
    \/ RegisterTerminal(t)
    \/ \E outcome \in {"completed", "failed"} : EndStream(t, outcome)
    \/ InterruptTurn(t)
    \/ CancelAnswered(t)
    \/ CancelGivesUp(t)
    \/ FinishInterrupt(t)
    \/ RecoverTurn(t)
    \/ RecoveryAnswered(t)
    \/ RecoveryGivesUp(t)
    \/ MarkStale(t)
    \/ RecordStale(t)

ServerStep(t) == ServerStarts(t) \/ PostLost(t) \/ ServerEnds(t)

Next ==
    \/ \E t \in Turns : HostStep(t) \/ ServerStep(t)
    \/ LoadPending \/ Crash \/ Boot \/ BootDone

Spec == Init /\ [][Next]_vars

(***************************************************************************)
(* Fairness: the application is started again after a kill and boots       *)
(* without waiting for anything; the recovery's timer and its loop go on   *)
(* (weak); every cancellation ends, since its attempts are counted and     *)
(* timed (weak); a server that is asked for ever answers at last (strong); *)
(* and the stream of an aborted turn settles, since its requests carry the *)
(* signal and its tools are timed (weak).  The user, the model and a       *)
(* stream that was not aborted owe nothing.                                *)
(***************************************************************************)
Fairness ==
    /\ WF_vars(Boot) /\ WF_vars(BootDone) /\ WF_vars(LoadPending)
    /\ \A t \in Turns :
        /\ WF_vars(MarkStale(t)) /\ WF_vars(RecordStale(t))
        /\ WF_vars(RecoverTurn(t))
        /\ SF_vars(RecoveryAnswered(t))
        /\ WF_vars(RecoveryAnswered(t) \/ RecoveryGivesUp(t))
        /\ WF_vars(CancelAnswered(t) \/ CancelGivesUp(t))
        /\ WF_vars(FinishInterrupt(t))
        /\ WF_vars(RegisterTerminal(t))
        /\ WF_vars(Aborted(t) /\ \E outcome \in {"completed", "failed"} : EndStream(t, outcome))

FairSpec == Spec /\ Fairness

-----------------------------------------------------------------------------
(* Safety *)

\* Every variable has its type.
TypeOK ==
    /\ journal \in [Turns -> {"none", "in_progress"} \cup Finished]
    /\ record \in [Turns -> {"none", "kept", "pending"}]
    /\ host \in {"down", "booting", "up"}
    /\ marked \subseteq Turns
    /\ active \in Turns \cup {0}
    /\ stream \in [Turns -> {"off", "preparing", "open"}]
    /\ cancel \in [Turns -> {"off", "asking", "settled"}]
    /\ terminal \in [Turns -> {"none", "starting", "running", "stopped"}]
    /\ batch \subseteq Turns /\ recovery \subseteq Turns
    /\ remote \in [Turns -> {"absent", "live", "over"}]
    /\ posted \in [Turns -> BOOLEAN]
    /\ crashes \in 0 .. MaxCrashes

\* An interruption cannot be overtaken by the turn's own ending: the append in
\* the finally block of interruptTurn finds the turn in progress and does not
\* throw turn_already_finished.
InterruptionStands == \A t \in interrupting : journal[t] = "in_progress"

\* A turn is in progress only while something will still end it: its stream,
\* its interruption or, after a kill, the boot loop.
NoZombieTurn ==
    host = "up" => \A t \in Turns : journal[t] = "in_progress" => IsActive(t)

\* A thread never streams two turns, not even when a turn is started while the
\* interruption of the previous one still waits for the server; and the entry
\* in activeThreads is the streaming turn's own.
OneStreamPerThread ==
    /\ \A s, t \in Turns : stream[s] # "off" /\ stream[t] # "off" => s = t
    /\ \A t \in Turns : stream[t] # "off" <=> active = t

\* No terminal of a turn runs on after the turn was interrupted, also when it
\* was spawned before and registered after the interruption.
NoTerminalOutlives == \A t \in Turns : Aborted(t) => terminal[t] # "running"

\* What holds of the host whenever one looks at it, over interruptions, streams
\* that end, late registrations, kills and restarts.
HostSafe == TypeOK /\ InterruptionStands /\ NoZombieTurn /\ OneStreamPerThread /\ NoTerminalOutlives

-----------------------------------------------------------------------------
(* What a step may never do *)

\* A saved cancellation is dropped only when the remote run is known not to be
\* running: neither the end of the stream nor a late registration nor a
\* recovery working from an old list loses it.
KeepsCancellation(t) == record[t] = "pending" /\ record'[t] # "pending" => remote'[t] # "live"
CancellationKept == [][\A t \in Turns : KeepsCancellation(t)]_vars

\* docs/architecture.md: a turn ends at most once, over kills and restarts too.
KeepsEnding(t) == journal[t] \in Finished => journal'[t] = journal[t]
TurnEndsOnce == [][\A t \in Turns : KeepsEnding(t)]_vars

\* What was saved of a turn is not taken back: its cancellation, its ending.
HostKeeps == [][\A t \in Turns : KeepsCancellation(t) /\ KeepsEnding(t)]_vars

-----------------------------------------------------------------------------
(* Progress *)

\* A saved cancellation is carried out at last, whatever was killed in between.
CancellationsSettle ==
    \A t \in Turns : record[t] = "pending" ~> record[t] # "pending"

\* A turn whose interruption has begun ends, with or without an answer.
InterruptionsEnd ==
    \A t \in Turns : t \in interrupting ~> journal[t] \in Finished

-----------------------------------------------------------------------------
(* What the documentation says of a restart *)

\* docs/architecture.md:337-340: stale execution metadata "is used to ...
\* reconcile the remote run".  After the boot, the run of a turn found in
\* progress is over or its cancellation is recorded.
StaleRunsReconciled ==
    host = "up" =>
        \A t \in Turns :
            journal[t] = "restarted" /\ remote[t] = "live" => record[t] = "pending"

=============================================================================
