--------------------------- MODULE AgentExecution ---------------------------
(***************************************************************************)
(* One agent run of the Flask API and the model executions it is made of.  *)
(*                                                                         *)
(* A run is a conversation turn on the server.  Each request to the model  *)
(* provider is a ModelExecution row; a Celery worker claims it, streams    *)
(* the answer into ModelStreamEvent rows and decides what the run does     *)
(* next: wait for the client's tool results, go on with late guidance, or  *)
(* end.  The client (HTTP routes), any number of Celery deliveries, the    *)
(* workers and the Beat reconciliation act concurrently; what is atomic is *)
(* one committed database transaction, and every transaction that decides  *)
(* anything holds SELECT ... FOR UPDATE on the AgentRun row.  An action    *)
(* below is one such transaction.                                          *)
(*                                                                         *)
(* Abstracted: texts, reasoning, token counts and activity; the events     *)
(* that only carry them (reasoning.completed, message.progress) are not    *)
(* logged.  A batch of tool calls is one value of Batches; the model       *)
(* provider never uses a call id twice in a run (FreshBatch), which the    *)
(* code relies on and does not check.                                      *)
(***************************************************************************)
EXTENDS Naturals, Sequences, FiniteSets

CONSTANTS
    MaxExec,     \* bound: model executions of the run
    MaxDeltas,   \* bound: flushed text frames per execution
    MaxCopies,   \* bound: Celery messages in flight per execution
    Inputs,      \* steering inputs (client-generated ids)
    Batches,     \* batches of tool calls the model may request
    Cancels,     \* how a client cancels: TRUE with a partial message, FALSE without
    NoRef        \* the empty reference

ASSUME BoundsAssumption ==
    /\ MaxExec \in Nat \ {0}
    /\ MaxDeltas \in Nat
    /\ MaxCopies \in Nat \ {0}

ASSUME InputsAssumption == IsFiniteSet(Inputs) /\ NoRef \notin Inputs \cup Batches

ASSUME CancelsAssumption == Cancels \subseteq BOOLEAN

Executions == 1 .. MaxExec

VARIABLES
    run,         \* AgentRun.status, "none" before the row exists
    log,         \* AgentRun.events in sequence order
    messages,    \* Message rows with agent_run_id = run.id, by kind
    last,        \* number of executions; the newest one has this index
    status,      \* ModelExecution.status
    key,         \* ModelExecution.request_key
    stream,      \* the execution's ModelStreamEvent rows in sequence order
    lease,       \* whether lease_until has passed
    worker,      \* where the claiming worker stands in execute_execution
    broker       \* Celery messages for the execution in flight

runVars  == <<run, log, messages>>
execVars == <<last, status, key, stream, lease>>
vars     == <<run, log, messages, last, status, key, stream, lease, worker, broker>>

-----------------------------------------------------------------------------
(* Values *)

Terminal == {"completed", "failed", "cancelled"}
Live     == {"running", "waiting_tool"}
Active   == {"queued", "running"}

EventTypes == {"run.started", "input.queued", "input.received", "context.compacted",
               "context.prepared", "context.usage", "task.plan.updated", "tool.requested",
               "tool.output", "message.completed", "run.completed", "run.failed",
               "run.cancelled"}

Frames == {"run.started", "input.received", "context.compacted", "delta", "context.usage",
           "task.plan.updated", "tool.requested", "run.continue", "run.failed"}

\* A worker that may still write.
Busy == {"claimed", "preparing", "compacted", "streaming", "accounted", "planned",
         "continuing"}

Event(t, r) == [type |-> t, ref |-> r]
Key(k, r)   == [kind |-> k, ref |-> r]
NoKey       == Key("none", NoRef)

Logged(t, r) == \E k \in DOMAIN log : log[k] = Event(t, r)

\* steering.pending_inputs: queued and not received.
PendingInputs == {i \in Inputs : Logged("input.queued", i) /\ ~Logged("input.received", i)}

QueuedAt(i) == CHOOSE k \in DOMAIN log : log[k] = Event("input.queued", i)

\* Mutant: without the ORDER BY.
PendingAnyOrder ==
    {s \in [1 .. Cardinality(PendingInputs) -> PendingInputs] :
        \A j, k \in DOMAIN s : j # k => s[j] # s[k]}

\* The pending inputs in the order they were queued.
PendingInOrder ==
    {s \in [1 .. Cardinality(PendingInputs) -> PendingInputs] :
        \A j, k \in DOMAIN s : j < k => QueuedAt(s[j]) < QueuedAt(s[k])}

\* The latest tool.requested event names b.
LatestBatch(b) ==
    \E k \in DOMAIN log :
        /\ log[k] = Event("tool.requested", b)
        /\ \A j \in DOMAIN log : log[j].type = "tool.requested" => j <= k

FreshBatch(b) == ~Logged("tool.requested", b)

KeyUsed(k) == \E e \in Executions : status[e] # "absent" /\ key[e] = k

\* Both checks a worker makes under the run lock before it writes a frame.
MayWrite(e) == status[e] = "running" /\ run # "cancelled"

\* Mutant: the run's status copied as it is.
SettledAsRun(r) == r

\* The execution's status when the worker's loop is over.
Settled(r) == IF r \in {"cancelled", "failed"} THEN r ELSE "completed"

-----------------------------------------------------------------------------
Init ==
    /\ run = "none"
    /\ log = <<>>
    /\ messages = <<>>
    /\ last = 0
    /\ status = [e \in Executions |-> "absent"]
    /\ key    = [e \in Executions |-> NoKey]
    /\ stream = [e \in Executions |-> <<>>]
    /\ lease  = [e \in Executions |-> "fresh"]
    /\ worker = [e \in Executions |-> "idle"]
    /\ broker = [e \in Executions |-> 0]

-----------------------------------------------------------------------------
(* Requests of the client *)

\* executions._submit: a new queued execution, committed before it is
\* dispatched.  The dispatch itself may fail (the broker is down, or the API
\* process dies in between).
Submit(k, frames) ==
    /\ last < MaxExec
    /\ last' = last + 1
    /\ status' = [status EXCEPT ![last + 1] = "queued"]
    /\ key'    = [key EXCEPT ![last + 1] = k]
    /\ stream' = [stream EXCEPT ![last + 1] = frames]
    /\ \E sent \in {0, 1} : broker' = [broker EXCEPT ![last + 1] = sent]
    /\ UNCHANGED <<lease, worker>>

\* start_execution.  A repeated start of the same turn returns its latest
\* execution and changes nothing.
StartExecution ==
    /\ run = "none"
    /\ run' = "running"
    /\ log' = Append(log, Event("run.started", NoRef))
    /\ Submit(Key("initial", NoRef), <<"run.started">>)
    /\ UNCHANGED messages

\* Mutant: the submitted call ids are not compared with the requested ones.
ResumeWithAnyBatch(b) ==
    /\ ~KeyUsed(Key("tools", b))
    /\ run = "waiting_tool"
    /\ run' = "running"
    /\ log' = Append(log, Event("tool.output", b))
    /\ Submit(Key("tools", b), <<>>)
    /\ UNCHANGED messages

\* Mutant: a repeated submission is carried out again.
ResumeAgain(b) ==
    /\ run \in Live
    /\ LatestBatch(b)
    /\ run' = "running"
    /\ log' = Append(log, Event("tool.output", b))
    /\ Submit(Key("tools", b), <<>>)
    /\ UNCHANGED messages

\* resume_execution (also reached through recover_execution).  A batch whose
\* results were accepted before gets its execution back; results of another
\* batch, or for a run that is not waiting, are refused.
ResumeExecution(b) ==
    /\ ~KeyUsed(Key("tools", b))
    /\ run = "waiting_tool"
    /\ LatestBatch(b)
    /\ run' = "running"
    /\ log' = Append(log, Event("tool.output", b))
    /\ Submit(Key("tools", b), <<>>)
    /\ UNCHANGED messages

\* Mutant: the previous execution need not be over.
ContinueEarly(e) ==
    /\ "run.continue" \in {stream[e][k] : k \in DOMAIN stream[e]}
    /\ ~KeyUsed(Key("steer", e))
    /\ run = "running"
    /\ e = last
    /\ Submit(Key("steer", e), <<>>)
    /\ UNCHANGED runVars

\* continue_execution, after the client has read run.continue.
ContinueExecution(e) ==
    /\ "run.continue" \in {stream[e][k] : k \in DOMAIN stream[e]}
    /\ ~KeyUsed(Key("steer", e))
    /\ run = "running"
    /\ e = last
    /\ status[e] = "completed"
    /\ Submit(Key("steer", e), <<>>)
    /\ UNCHANGED runVars

\* Mutant: a run that has ended takes guidance.
QueueInputLate(i) ==
    /\ ~Logged("input.queued", i)
    /\ run # "none"
    /\ log' = Append(log, Event("input.queued", i))
    /\ UNCHANGED <<run, messages, execVars, worker, broker>>

\* queue_input.  A repeated input is acknowledged without effect.
QueueInput(i) ==
    /\ ~Logged("input.queued", i)
    /\ run \in Live
    /\ log' = Append(log, Event("input.queued", i))
    /\ UNCHANGED <<run, messages, execVars, worker, broker>>

\* Mutant: a run that has ended is cancelled all the same.
CancelEnded(partial) ==
    /\ run \notin {"none", "cancelled"}
    /\ run' = "cancelled"
    /\ log' = Append(log, Event("run.cancelled", NoRef))
    /\ UNCHANGED <<messages, execVars, worker, broker>>

\* cancel_run, with or without a partial message to keep.
CancelRun(partial) ==
    /\ run \in Live
    /\ run' = "cancelled"
    /\ log' = Append(log, Event("run.cancelled", NoRef))
    /\ status' = [e \in Executions |->
                    IF status[e] \in Active THEN "cancelled" ELSE status[e]]
    /\ messages' = IF partial /\ messages = <<>>
                   THEN Append(messages, "partial") ELSE messages
    /\ UNCHANGED <<last, key, stream, lease, worker, broker>>

-----------------------------------------------------------------------------
(* Delivery of the Celery message *)

\* Mutant: a message that arrives twice is carried out twice.
ClaimAgain(e) ==
    /\ broker[e] > 0
    /\ status[e] \in Active
    /\ broker' = [broker EXCEPT ![e] = @ - 1]
    /\ status' = [status EXCEPT ![e] = "running"]
    /\ lease'  = [lease EXCEPT ![e] = "fresh"]
    /\ worker' = [worker EXCEPT ![e] = "claimed"]
    /\ UNCHANGED <<runVars, last, key, stream>>

\* The conditional UPDATE that claims a queued execution.
Claim(e) ==
    /\ broker[e] > 0
    /\ status[e] = "queued"
    /\ broker' = [broker EXCEPT ![e] = @ - 1]
    /\ status' = [status EXCEPT ![e] = "running"]
    /\ lease'  = [lease EXCEPT ![e] = "fresh"]
    /\ worker' = [worker EXCEPT ![e] = "claimed"]
    /\ UNCHANGED <<runVars, last, key, stream>>

\* The message is lost, or finds the execution already claimed.
DropMessage(e) ==
    /\ broker[e] > 0
    /\ broker' = [broker EXCEPT ![e] = @ - 1]
    /\ UNCHANGED <<runVars, execVars, worker>>

-----------------------------------------------------------------------------
(* The worker, one action per transaction of execute_execution *)

\* _write: the frames, a new lease, the commit.
Write(e, frames) ==
    /\ stream' = [stream EXCEPT ![e] = @ \o frames]
    /\ lease'  = [lease EXCEPT ![e] = "fresh"]

At(e, pcs)   == worker[e] \in pcs
Goto(e, pc)  == worker' = [worker EXCEPT ![e] = pc]

\* The run ended between the claim and the first locked look at it.  The
\* execution's row is not read again, so whatever it held becomes cancelled.
FindRunEnded(e) ==
    /\ At(e, {"claimed"})
    /\ run \in Terminal
    /\ status' = [status EXCEPT ![e] = "cancelled"]
    /\ Goto(e, "done")
    /\ UNCHANGED <<runVars, last, key, stream, lease, broker>>

\* receive_inputs: the model boundary at which queued guidance becomes user
\* messages of the run.
ReceiveInputs(e) ==
    /\ At(e, {"claimed"})
    /\ run \notin Terminal
    /\ \E s \in PendingInOrder :
        /\ log' = log \o [k \in DOMAIN s |-> Event("input.received", s[k])]
        /\ messages' = messages \o [k \in DOMAIN s |-> "user"]
        /\ Write(e, [k \in DOMAIN s |-> "input.received"])
    /\ Goto(e, "preparing")
    /\ UNCHANGED <<run, last, status, key, broker>>

\* Context preparation commits its run events without looking at the run's
\* status; only the frame passes the check, and a worker whose frame does not
\* pass leaves.  (context.compaction.started is part of the same step.)
CompactContext(e) ==
    /\ At(e, {"preparing"})
    /\ log' = Append(log, Event("context.compacted", NoRef))
    /\ \/ /\ MayWrite(e)
          /\ Write(e, <<"context.compacted">>)
          /\ Goto(e, "compacted")
       \/ /\ ~MayWrite(e)
          /\ UNCHANGED <<stream, lease>>
          /\ Goto(e, "done")
    /\ UNCHANGED <<run, messages, last, status, key, broker>>

PrepareContext(e) ==
    /\ At(e, {"preparing", "compacted"})
    /\ log' = Append(log, Event("context.prepared", NoRef))
    /\ Goto(e, "streaming")
    /\ UNCHANGED <<run, messages, execVars, broker>>

\* Mutant: the cached activity check is all that guards the flush.
WriteDeltaStale(e) ==
    /\ At(e, {"streaming"})
    /\ Cardinality({k \in DOMAIN stream[e] : stream[e][k] = "delta"}) < MaxDeltas
    /\ Write(e, <<"delta">>)
    /\ UNCHANGED <<runVars, last, status, key, worker, broker>>

\* A flush of streamed text.
WriteDelta(e) ==
    /\ At(e, {"streaming"})
    /\ MayWrite(e)
    /\ Cardinality({k \in DOMAIN stream[e] : stream[e][k] = "delta"}) < MaxDeltas
    /\ Write(e, <<"delta">>)
    /\ UNCHANGED <<runVars, last, status, key, worker, broker>>

\* record_completion_usage.  The worker commits when the frame is yielded,
\* which releases the run lock before the outcome is decided.
RecordUsage(e) ==
    /\ At(e, {"streaming"})
    /\ run = "running" /\ MayWrite(e)
    /\ log' = Append(log, Event("context.usage", NoRef))
    /\ Write(e, <<"context.usage">>)
    /\ Goto(e, "accounted")
    /\ UNCHANGED <<run, messages, last, status, key, broker>>

\* An update_tasks call: the plan is committed with its frame.
UpdatePlan(e) ==
    /\ At(e, {"streaming", "accounted"})
    /\ MayWrite(e)
    /\ log' = Append(log, Event("task.plan.updated", NoRef))
    /\ Write(e, <<"task.plan.updated">>)
    /\ Goto(e, "planned")
    /\ UNCHANGED <<run, messages, last, status, key, broker>>

\* request_completion_tools: the batch, waiting_tool and the execution's
\* completion are one transaction.
RequestTools(e, b) ==
    /\ At(e, {"streaming", "accounted", "planned"})
    /\ run = "running" /\ MayWrite(e)
    /\ FreshBatch(b)
    /\ log' = Append(log, Event("tool.requested", b))
    /\ run' = "waiting_tool"
    /\ status' = [status EXCEPT ![e] = Settled("waiting_tool")]
    /\ Write(e, <<"tool.requested">>)
    /\ Goto(e, "done")
    /\ UNCHANGED <<messages, last, key, broker>>

\* Mutant: the outcome is decided from what was read before the commit of
\* record_completion_usage.
CompleteRunStale(e) ==
    /\ At(e, {"streaming", "accounted"})
    /\ messages' = Append(messages, "answer")
    /\ log' = log \o <<Event("message.completed", NoRef), Event("run.completed", NoRef)>>
    /\ run' = "completed"
    /\ status' = [status EXCEPT ![e] = Settled("completed")]
    /\ Write(e, <<>>)
    /\ Goto(e, "done")
    /\ UNCHANGED <<last, key, broker>>

\* finish_completion_answer and complete_run.
CompleteRun(e) ==
    /\ At(e, {"streaming", "accounted"})
    /\ run = "running" /\ MayWrite(e)
    /\ PendingInputs = {}
    /\ messages' = Append(messages, "answer")
    /\ log' = log \o <<Event("message.completed", NoRef), Event("run.completed", NoRef)>>
    /\ run' = "completed"
    /\ status' = [status EXCEPT ![e] = Settled("completed")]
    /\ Write(e, <<>>)
    /\ Goto(e, "done")
    /\ UNCHANGED <<last, key, broker>>

\* Mutant: the answer becomes progress whether or not guidance is pending.
YieldAlways(e) ==
    /\ At(e, {"streaming", "accounted"})
    /\ run = "running" /\ MayWrite(e)
    /\ Write(e, <<"run.continue">>)
    /\ Goto(e, "continuing")
    /\ UNCHANGED <<runVars, last, status, key, broker>>

\* finish_completion_answer with guidance pending: the answer becomes
\* progress, and run.continue is committed while the execution still runs.
YieldToGuidance(e) ==
    /\ At(e, {"streaming", "accounted"})
    /\ run = "running" /\ MayWrite(e)
    /\ PendingInputs # {}
    /\ Write(e, <<"run.continue">>)
    /\ Goto(e, "continuing")
    /\ UNCHANGED <<runVars, last, status, key, broker>>

\* The end of the worker's loop after run.continue.
FinishContinuing(e) ==
    /\ At(e, {"continuing"})
    /\ status[e] = "running"
    /\ status' = [status EXCEPT ![e] = Settled(run)]
    /\ Write(e, <<>>)
    /\ Goto(e, "done")
    /\ UNCHANGED <<runVars, last, key, broker>>

\* fail_run: no effect on a run that has ended.
FailRun ==
    /\ run' = IF run \in Terminal THEN run ELSE "failed"
    /\ log' = IF run \in Terminal THEN log ELSE Append(log, Event("run.failed", NoRef))
    /\ UNCHANGED messages

\* The provider, the context preparation, the model's own output (empty
\* answer, bad arguments) or the worker's code fails.
FailExecution(e) ==
    /\ At(e, Busy)
    /\ status[e] = "running"
    /\ FailRun
    /\ status' = [status EXCEPT ![e] = "failed"]
    /\ Write(e, <<"run.failed">>)
    /\ Goto(e, "done")
    /\ UNCHANGED <<last, key, broker>>

\* The worker finds that it may not write any more and leaves.
AbandonExecution(e) ==
    /\ At(e, Busy \ {"claimed"})
    /\ status[e] # "running"
    /\ Goto(e, "done")
    /\ UNCHANGED <<runVars, execVars, broker>>

\* The worker process dies; its open transaction is rolled back.
CrashWorker(e) ==
    /\ At(e, Busy)
    /\ Goto(e, "gone")
    /\ UNCHANGED <<runVars, execVars, broker>>

-----------------------------------------------------------------------------
(* Time and Beat *)

\* Ten minutes pass without a write, whether or not the worker is alive.
ExpireLease(e) ==
    /\ status[e] = "running"
    /\ lease[e] = "fresh"
    /\ lease' = [lease EXCEPT ![e] = "lapsed"]
    /\ UNCHANGED <<runVars, last, status, key, stream, worker, broker>>

\* Mutant: the reader of the stream is not told.
ReconcileSilently(e) ==
    /\ status[e] = "running"
    /\ lease[e] = "lapsed"
    /\ FailRun
    /\ status' = [status EXCEPT ![e] = "failed"]
    /\ Write(e, <<>>)
    /\ UNCHANGED <<last, key, worker, broker>>

\* reconcile_executions, one expired execution.
ReconcileExpired(e) ==
    /\ status[e] = "running"
    /\ lease[e] = "lapsed"
    /\ FailRun
    /\ status' = [status EXCEPT ![e] = "failed"]
    /\ Write(e, <<"run.failed">>)
    /\ UNCHANGED <<last, key, worker, broker>>

\* Mutant: only executions that once had a lease are republished.
RedispatchLapsed(e) ==
    /\ status[e] = "queued"
    /\ lease[e] = "lapsed"
    /\ broker[e] < MaxCopies
    /\ broker' = [broker EXCEPT ![e] = @ + 1]
    /\ UNCHANGED <<runVars, execVars, worker>>

\* reconcile_executions, one queued execution.
Redispatch(e) ==
    /\ status[e] = "queued"
    /\ broker[e] < MaxCopies
    /\ broker' = [broker EXCEPT ![e] = @ + 1]
    /\ UNCHANGED <<runVars, execVars, worker>>

-----------------------------------------------------------------------------
Client ==
    \/ StartExecution
    \/ \E b \in Batches : ResumeExecution(b)
    \/ \E e \in Executions : ContinueExecution(e)
    \/ \E i \in Inputs : QueueInput(i)
    \/ \E partial \in Cancels : CancelRun(partial)

\* What a live worker does next.
WorkerStep(e) ==
    \/ FindRunEnded(e)
    \/ ReceiveInputs(e)
    \/ CompactContext(e)
    \/ PrepareContext(e)
    \/ WriteDelta(e)
    \/ RecordUsage(e)
    \/ UpdatePlan(e)
    \/ \E b \in Batches : RequestTools(e, b)
    \/ CompleteRun(e)
    \/ YieldToGuidance(e)
    \/ FinishContinuing(e)
    \/ FailExecution(e)
    \/ AbandonExecution(e)

System(e) ==
    \/ Claim(e)
    \/ DropMessage(e)
    \/ WorkerStep(e)
    \/ CrashWorker(e)
    \/ ExpireLease(e)
    \/ ReconcileExpired(e)
    \/ Redispatch(e)

Next == Client \/ \E e \in Executions : System(e)

Spec == Init /\ [][Next]_vars

(***************************************************************************)
(* Fairness: Beat runs every 30 seconds, so an expired or queued execution *)
(* is dealt with as long as it stays so (weak), a lease that nobody renews *)
(* lapses (weak), and a queue that Beat refills for ever delivers at last  *)
(* (strong: a message may be lost any number of times).  Nothing is asked  *)
(* of the client, and nothing of the workers beyond time passing.          *)
(***************************************************************************)
Fairness ==
    \A e \in Executions :
        /\ SF_vars(Claim(e))
        /\ WF_vars(Redispatch(e))
        /\ WF_vars(ExpireLease(e))
        /\ WF_vars(ReconcileExpired(e))

FairSpec == Spec /\ Fairness

-----------------------------------------------------------------------------
(* Types *)

Refs       == Inputs \cup Batches \cup {NoRef}
Events     == [type : EventTypes, ref : Refs]
Keys       == [kind : {"none", "initial", "tools", "steer"}, ref : Refs \cup Executions]
RunStates  == {"none"} \cup Live \cup Terminal
ExecStates == {"absent"} \cup Active \cup Terminal

\* Every variable holds what its column, row set or worker position can hold.
TypeOK ==
    /\ run \in RunStates
    /\ log \in Seq(Events)
    /\ messages \in Seq({"user", "answer", "partial"})
    /\ last \in 0 .. MaxExec
    /\ status \in [Executions -> ExecStates]
    /\ key \in [Executions -> Keys]
    /\ stream \in [Executions -> Seq(Frames)]
    /\ lease \in [Executions -> {"fresh", "lapsed"}]
    /\ worker \in [Executions -> {"idle", "done", "gone"} \cup Busy]
    /\ broker \in [Executions -> 0 .. MaxCopies]

-----------------------------------------------------------------------------
(* Safety *)

\* At most one model request is queued or running, it is the newest one, and
\* the run is running exactly then or is paused: no interleaving of resume,
\* continue, retries and Beat puts two requests to the model in one run.
OneRequestAtATime ==
    \A e \in Executions : status[e] \in Active => e = last /\ run = "running"

\* A running run that no execution works for is one the client can carry on:
\* its newest execution ended with run.continue, and guidance still waits.
IdleRunCanContinue ==
    run = "running" /\ (\A e \in Executions : status[e] \notin Active) =>
        /\ status[last] = "completed"
        /\ stream[last] # <<>> /\ stream[last][Len(stream[last])] = "run.continue"
        /\ ~KeyUsed(Key("steer", last))
        /\ PendingInputs # {}

\* Guidance that queue_input accepted is never answered past: a run that
\* completed has received all of it.
GuidanceHeard == run = "completed" => PendingInputs = {}

\* Every input is received at most once, after it was queued, in the order
\* of queueing, and as exactly one user message of the run.
GuidanceInOrder ==
    LET received == {k \in DOMAIN log : log[k].type = "input.received"}
    IN /\ \A k \in received : \E j \in 1 .. k - 1 : log[j] = Event("input.queued", log[k].ref)
       /\ \A j, k \in received : j < k => QueuedAt(log[j].ref) < QueuedAt(log[k].ref)
       /\ Cardinality({k \in DOMAIN messages : messages[k] = "user"}) = Cardinality(received)

TerminalEvents == {"run.completed", "run.failed", "run.cancelled"}

Ended(t) == CASE t = "run.completed" -> "completed"
              [] t = "run.failed"    -> "failed"
              [] t = "run.cancelled" -> "cancelled"

\* The event log tells one ending at most and the same one as the run's
\* status, and an answer is stored exactly when the run completed.
OneOutcome ==
    LET endings == {k \in DOMAIN log : log[k].type \in TerminalEvents}
        answers == {k \in DOMAIN messages : messages[k] = "answer"}
    IN /\ \A j, k \in endings : j = k
       /\ \A k \in endings : run = Ended(log[k].type)
       /\ run \in Terminal => endings # {}
       /\ Cardinality(answers) = IF run = "completed" THEN 1 ELSE 0

\* The results of a tool batch enter the run once, whatever is submitted or
\* retried, and nothing but the latest batch can be open.
ToolBatches ==
    \A b \in Batches :
        /\ \A j, k \in DOMAIN log :
               log[j] = Event("tool.output", b) /\ log[k] = Event("tool.output", b) => j = k
        /\ Logged("tool.output", b) => Logged("tool.requested", b)
        /\ run = "waiting_tool" => (LatestBatch(b) <=> FreshBatch(b) = Logged("tool.output", b))
        /\ run \in {"running", "completed"} => FreshBatch(b) = ~Logged("tool.output", b)

\* The unique (run_id, request_key) rows: one execution per tool batch and one
\* per continuation, so no lost acknowledgement repeats a model request.
KeysUnique ==
    \A d, e \in Executions :
        status[d] # "absent" /\ status[e] # "absent" /\ key[d] = key[e] => d = e

\* The requests of a run: they are well formed, follow one another, and none is
\* made twice, over every interleaving of clients, workers, Beat and broker.
RequestsSafe == TypeOK /\ OneRequestAtATime /\ KeysUnique

\* The frames of a finished execution tell its reader what comes next:
\* tools to run, a request to continue, a failure - or, when they end
\* otherwise, a completed run.
StreamTellsNext ==
    \A e \in Executions :
        LET final == IF stream[e] = <<>> THEN "none" ELSE stream[e][Len(stream[e])]
        IN /\ status[e] = "failed" => final = "run.failed"
           /\ status[e] = "completed" =>
                  \/ final \in {"tool.requested", "run.continue"}
                  \/ run = "completed" /\ e = last
           /\ final = "run.failed" => status[e] \in {"failed", "cancelled"} /\ run = "failed"

-----------------------------------------------------------------------------
(* What a step may never do *)

\* subscribe_execution stops when it has read an execution's status as neither
\* queued nor running and then found no more frames: it relies on no frame
\* being added after that.
StreamsSealed ==
    [][\A e \in Executions : status[e] \in Terminal => stream'[e] = stream[e]]_vars

\* Once a run has ended its status and messages are final, no execution is
\* queued or revived, and no worker adds an event - except those of context
\* preparation, which are committed unchecked.
Fenced ==
    /\ UNCHANGED <<run, messages, last>>
    /\ \A e \in Executions : status'[e] \in Active => status[e] = status'[e]
    /\ \/ log' = log
       \/ \E t \in {"context.compacted", "context.prepared"} :
              log' = Append(log, Event(t, NoRef))

EndedRunIsFenced == [][(run \in Terminal) => Fenced]_vars

\* An execution only moves forward: it is claimed at most once and never
\* queued again, and its ending is final - but for a worker so late that Beat
\* gave it up, which turns its failed execution into a cancelled one.
MovesForward(e) ==
    /\ status[e] # "absent" => status'[e] # "absent" /\ key'[e] = key[e]
    /\ status[e] \notin {"absent", "queued"} => status'[e] # "queued"
    /\ status[e] \in Terminal =>
           \/ status'[e] = status[e]
           \/ status[e] = "failed" /\ status'[e] = "cancelled" /\ worker[e] = "claimed"
    /\ worker[e] # "idle" => worker'[e] = worker[e] \/ worker'[e] # "claimed"

ExecutionsMoveForward == [][\A e \in Executions : MovesForward(e)]_vars

-----------------------------------------------------------------------------
(* Progress and refinement *)

\* Whatever workers, broker and leases do, a queued or running execution comes
\* to an end: it is carried out, cancelled or given up as model_worker_lost.
ExecutionsSettle ==
    \A e \in Executions : status[e] \in Active ~> status[e] \in Terminal

\* What a client sees of the run, in the words of RunLifecycle.
Phase ==
    CASE run = "none"         -> "absent"
      [] run = "waiting_tool" -> "tools"
      [] run = "running"      -> IF \E e \in Executions : status[e] \in Active
                                 THEN "thinking" ELSE "paused"
      [] OTHER                -> run

Guidance ==
    [i \in Inputs |-> IF Logged("input.received", i) THEN "received"
                      ELSE IF Logged("input.queued", i) THEN "pending" ELSE "none"]

Lifecycle == INSTANCE RunLifecycle WITH phase <- Phase, guidance <- Guidance

\* The run of the service is the run its clients are promised.
ImplementsLifecycle == Lifecycle!LifecycleSpec

=============================================================================
