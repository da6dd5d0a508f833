------------------------ MODULE AgentExecutionProofs ------------------------
(* What holds of an agent run for any number of executions, inputs, tool   *)
(* batches, frames and Celery messages.                                    *)
EXTENDS AgentExecution, FiniteSetTheorems, SequenceTheorems, TLAPS

-----------------------------------------------------------------------------
(* Types *)

LEMMA EventTyped ==
    ASSUME NEW t \in EventTypes, NEW r \in Refs
    PROVE  Event(t, r) \in Events
  BY DEF Event, Events

LEMMA PendingTyped ==
    ASSUME NEW s \in PendingInOrder
    PROVE  /\ DOMAIN s = 1 .. Cardinality(PendingInputs)
           /\ Cardinality(PendingInputs) \in Nat
           /\ \A k \in DOMAIN s : s[k] \in Inputs
<1>1. IsFiniteSet(PendingInputs)
  BY InputsAssumption, FS_Subset DEF PendingInputs
<1>2. Cardinality(PendingInputs) \in Nat
  BY <1>1, FS_CardinalityType
<1> QED BY <1>2 DEF PendingInOrder, PendingInputs

\* What ReceiveInputs appends, event by event.
LEMMA ReceivedTyped ==
    ASSUME NEW s \in PendingInOrder
    PROVE  /\ [k \in DOMAIN s |-> Event("input.received", s[k])] \in Seq(Events)
           /\ [k \in DOMAIN s |-> "user"] \in Seq({"user", "answer", "partial"})
           /\ [k \in DOMAIN s |-> "input.received"] \in Seq(Frames)
<1>1. /\ DOMAIN s = 1 .. Cardinality(PendingInputs)
      /\ Cardinality(PendingInputs) \in Nat
      /\ \A k \in DOMAIN s : s[k] \in Inputs
  BY PendingTyped
<1>2. \A k \in DOMAIN s : Event("input.received", s[k]) \in Events
  BY <1>1, EventTyped DEF EventTypes, Refs
<1>3. "input.received" \in Frames
  BY DEF Frames
<1> DEFINE n == Cardinality(PendingInputs)
<1>4. [k \in 1 .. n |-> Event("input.received", s[k])] \in Seq(Events)
  BY <1>1, <1>2, IsASeq
<1>5. [k \in 1 .. n |-> "user"] \in Seq({"user", "answer", "partial"})
  BY <1>1, IsASeq
<1>6. [k \in 1 .. n |-> "input.received"] \in Seq(Frames)
  BY <1>1, <1>3, IsASeq
<1> QED BY <1>1, <1>4, <1>5, <1>6

LEMMA WriteTyped ==
    ASSUME TypeOK, NEW e \in Executions, NEW frames \in Seq(Frames), Write(e, frames)
    PROVE  /\ stream' \in [Executions -> Seq(Frames)]
           /\ lease' \in [Executions -> {"fresh", "lapsed"}]
  BY ConcatProperties DEF TypeOK, Write

LEMMA SubmitTyped ==
    ASSUME TypeOK, NEW k \in Keys, NEW frames \in Seq(Frames), Submit(k, frames)
    PROVE  /\ last' \in 0 .. MaxExec
           /\ status' \in [Executions -> ExecStates]
           /\ key' \in [Executions -> Keys]
           /\ stream' \in [Executions -> Seq(Frames)]
           /\ lease' \in [Executions -> {"fresh", "lapsed"}]
           /\ worker' \in [Executions -> {"idle", "done", "gone"} \cup Busy]
           /\ broker' \in [Executions -> 0 .. MaxCopies]
<1>1. last' \in 0 .. MaxExec
  BY BoundsAssumption DEF Submit, TypeOK
<1>2. {0, 1} \subseteq 0 .. MaxCopies
  BY BoundsAssumption
<1>3. broker' \in [Executions -> 0 .. MaxCopies]
  BY <1>2 DEF Submit, TypeOK
<1> QED BY <1>1, <1>3 DEF Submit, TypeOK, ExecStates, Active

LEMMA LogTyped ==
    ASSUME TypeOK, NEW t \in EventTypes, NEW r \in Refs, log' = Append(log, Event(t, r))
    PROVE  log' \in Seq(Events)
  BY EventTyped DEF TypeOK

LEMMA FailRunTyped ==
    ASSUME TypeOK, FailRun
    PROVE  run' \in RunStates /\ log' \in Seq(Events) /\ messages' = messages
  BY EventTyped DEF TypeOK, FailRun, RunStates, Terminal, EventTypes, Refs

\* No frame of the model is outside Frames.
LEMMA FramesTyped ==
    /\ <<>> \in Seq(Frames)
    /\ \A f \in Frames : <<f>> \in Seq(Frames)
  OBVIOUS

LEMMA InitTyped == Init => TypeOK
<1> SUFFICES ASSUME Init PROVE TypeOK
  OBVIOUS
<1>1. NoKey \in Keys
  BY DEF NoKey, Key, Keys, Refs
<1>2. 0 \in 0 .. MaxExec /\ 0 \in 0 .. MaxCopies
  BY BoundsAssumption
<1> QED BY <1>1, <1>2 DEF Init, TypeOK, RunStates, ExecStates

LEMMA ClientTyped == TypeOK /\ Client => TypeOK'
<1> SUFFICES ASSUME TypeOK, Client PROVE TypeOK'
  OBVIOUS
<1>1. CASE StartExecution
  <2>1. Key("initial", NoRef) \in Keys
    BY DEF Key, Keys, Refs
  <2>2. <<"run.started">> \in Seq(Frames)
    BY FramesTyped DEF Frames
  <2>3. log' \in Seq(Events)
    BY <1>1, LogTyped DEF StartExecution, EventTypes, Refs
  <2> QED BY <1>1, <2>1, <2>2, <2>3, SubmitTyped DEF StartExecution, TypeOK, RunStates, Live
<1>2. ASSUME NEW b \in Batches, ResumeExecution(b) PROVE TypeOK'
  <2>1. Key("tools", b) \in Keys
    BY DEF Key, Keys, Refs
  <2>2. log' \in Seq(Events)
    BY <1>2, LogTyped DEF ResumeExecution, EventTypes, Refs
  <2> QED BY <1>2, <2>1, <2>2, FramesTyped, SubmitTyped DEF ResumeExecution, TypeOK, RunStates, Live
<1>3. ASSUME NEW e \in Executions, ContinueExecution(e) PROVE TypeOK'
  <2>1. Key("steer", e) \in Keys
    BY DEF Key, Keys
  <2> QED BY <1>3, <2>1, FramesTyped, SubmitTyped DEF ContinueExecution, TypeOK, runVars
<1>4. ASSUME NEW i \in Inputs, QueueInput(i) PROVE TypeOK'
  <2>1. log' \in Seq(Events)
    BY <1>4, LogTyped DEF QueueInput, EventTypes, Refs
  <2> QED BY <1>4, <2>1 DEF QueueInput, TypeOK, execVars
<1>5. ASSUME NEW partial \in Cancels, CancelRun(partial) PROVE TypeOK'
  <2>1. log' \in Seq(Events)
    BY <1>5, LogTyped DEF CancelRun, EventTypes, Refs
  <2>2. messages' \in Seq({"user", "answer", "partial"})
    BY <1>5 DEF CancelRun, TypeOK
  <2>3. status' \in [Executions -> ExecStates]
    BY <1>5 DEF CancelRun, TypeOK, ExecStates, Terminal
  <2> QED BY <1>5, <2>1, <2>2, <2>3 DEF CancelRun, TypeOK, RunStates, Terminal
<1> QED BY <1>1, <1>2, <1>3, <1>4, <1>5 DEF Client

LEMMA SystemTyped == ASSUME TypeOK, NEW e \in Executions, System(e) PROVE TypeOK'
<1>1. CASE Claim(e)
  BY <1>1, BoundsAssumption DEF Claim, TypeOK, runVars, ExecStates, Active, Busy
<1>2. CASE DropMessage(e)
  BY <1>2, BoundsAssumption DEF DropMessage, TypeOK, runVars, execVars
<1>3. CASE FindRunEnded(e)
  BY <1>3 DEF FindRunEnded, Goto, TypeOK, runVars, ExecStates, Terminal
<1>4. CASE ReceiveInputs(e)
  <2>1. PICK s \in PendingInOrder :
            /\ log' = log \o [k \in DOMAIN s |-> Event("input.received", s[k])]
            /\ messages' = messages \o [k \in DOMAIN s |-> "user"]
            /\ Write(e, [k \in DOMAIN s |-> "input.received"])
    BY <1>4 DEF ReceiveInputs
  <2>2. log' \in Seq(Events) /\ messages' \in Seq({"user", "answer", "partial"})
    BY <2>1, ReceivedTyped, ConcatProperties DEF TypeOK
  <2>3. stream' \in [Executions -> Seq(Frames)] /\ lease' \in [Executions -> {"fresh", "lapsed"}]
    BY <2>1, ReceivedTyped, WriteTyped
  <2> QED BY <1>4, <2>2, <2>3 DEF ReceiveInputs, Goto, TypeOK, Busy
<1>5. CASE CompactContext(e)
  <2>1. log' \in Seq(Events)
    BY <1>5, LogTyped DEF CompactContext, EventTypes, Refs
  <2>2. stream' \in [Executions -> Seq(Frames)] /\ lease' \in [Executions -> {"fresh", "lapsed"}]
    BY <1>5, FramesTyped, WriteTyped DEF CompactContext, Frames, TypeOK
  <2> QED BY <1>5, <2>1, <2>2 DEF CompactContext, Goto, TypeOK, Busy
<1>6. CASE PrepareContext(e)
  <2>1. log' \in Seq(Events)
    BY <1>6, LogTyped DEF PrepareContext, EventTypes, Refs
  <2> QED BY <1>6, <2>1 DEF PrepareContext, Goto, TypeOK, Busy, execVars
<1>7. CASE WriteDelta(e)
  <2>1. stream' \in [Executions -> Seq(Frames)] /\ lease' \in [Executions -> {"fresh", "lapsed"}]
    BY <1>7, FramesTyped, WriteTyped DEF WriteDelta, Frames
  <2> QED BY <1>7, <2>1 DEF WriteDelta, TypeOK, runVars
<1>8. CASE RecordUsage(e)
  <2>1. log' \in Seq(Events)
    BY <1>8, LogTyped DEF RecordUsage, EventTypes, Refs
  <2>2. stream' \in [Executions -> Seq(Frames)] /\ lease' \in [Executions -> {"fresh", "lapsed"}]
    BY <1>8, FramesTyped, WriteTyped DEF RecordUsage, Frames
  <2> QED BY <1>8, <2>1, <2>2 DEF RecordUsage, Goto, TypeOK, Busy
<1>9. CASE UpdatePlan(e)
  <2>1. log' \in Seq(Events)
    BY <1>9, LogTyped DEF UpdatePlan, EventTypes, Refs
  <2>2. stream' \in [Executions -> Seq(Frames)] /\ lease' \in [Executions -> {"fresh", "lapsed"}]
    BY <1>9, FramesTyped, WriteTyped DEF UpdatePlan, Frames
  <2> QED BY <1>9, <2>1, <2>2 DEF UpdatePlan, Goto, TypeOK, Busy
<1>10. ASSUME NEW b \in Batches, RequestTools(e, b) PROVE TypeOK'
  <2>1. log' \in Seq(Events)
    BY <1>10, LogTyped DEF RequestTools, EventTypes, Refs
  <2>2. stream' \in [Executions -> Seq(Frames)] /\ lease' \in [Executions -> {"fresh", "lapsed"}]
    BY <1>10, FramesTyped, WriteTyped DEF RequestTools, Frames
  <2>3. status' \in [Executions -> ExecStates]
    BY <1>10 DEF RequestTools, Settled, TypeOK, ExecStates, Terminal
  <2> QED BY <1>10, <2>1, <2>2, <2>3 DEF RequestTools, Goto, TypeOK, RunStates, Live
<1>11. CASE CompleteRun(e)
  <2>1. /\ Event("message.completed", NoRef) \in Events
        /\ Event("run.completed", NoRef) \in Events
    BY EventTyped DEF EventTypes, Refs
  <2>2. log' \in Seq(Events) /\ messages' \in Seq({"user", "answer", "partial"})
    BY <1>11, <2>1, ConcatProperties DEF CompleteRun, TypeOK
  <2>3. stream' \in [Executions -> Seq(Frames)] /\ lease' \in [Executions -> {"fresh", "lapsed"}]
    BY <1>11, FramesTyped, WriteTyped DEF CompleteRun
  <2>4. status' \in [Executions -> ExecStates]
    BY <1>11 DEF CompleteRun, Settled, TypeOK, ExecStates, Terminal
  <2> QED BY <1>11, <2>2, <2>3, <2>4 DEF CompleteRun, Goto, TypeOK, RunStates, Terminal
<1>12. CASE YieldToGuidance(e)
  <2>1. stream' \in [Executions -> Seq(Frames)] /\ lease' \in [Executions -> {"fresh", "lapsed"}]
    BY <1>12, FramesTyped, WriteTyped DEF YieldToGuidance, Frames
  <2> QED BY <1>12, <2>1 DEF YieldToGuidance, Goto, TypeOK, Busy, runVars
<1>13. CASE FinishContinuing(e)
  <2>1. stream' \in [Executions -> Seq(Frames)] /\ lease' \in [Executions -> {"fresh", "lapsed"}]
    BY <1>13, FramesTyped, WriteTyped DEF FinishContinuing
  <2> QED BY <1>13, <2>1
          DEF FinishContinuing, Settled, Goto, TypeOK, ExecStates, Terminal, runVars
<1>14. CASE FailExecution(e)
  <2>1. stream' \in [Executions -> Seq(Frames)] /\ lease' \in [Executions -> {"fresh", "lapsed"}]
    BY <1>14, FramesTyped, WriteTyped DEF FailExecution, Frames
  <2> QED BY <1>14, <2>1, FailRunTyped DEF FailExecution, Goto, TypeOK, ExecStates, Terminal
<1>15. CASE AbandonExecution(e)
  BY <1>15 DEF AbandonExecution, Goto, TypeOK, runVars, execVars
<1>16. CASE CrashWorker(e)
  BY <1>16 DEF CrashWorker, Goto, TypeOK, runVars, execVars
<1>17. CASE ExpireLease(e)
  BY <1>17 DEF ExpireLease, TypeOK, runVars
<1>18. CASE ReconcileExpired(e)
  <2>1. stream' \in [Executions -> Seq(Frames)] /\ lease' \in [Executions -> {"fresh", "lapsed"}]
    BY <1>18, FramesTyped, WriteTyped DEF ReconcileExpired, Frames
  <2> QED BY <1>18, <2>1, FailRunTyped DEF ReconcileExpired, TypeOK, ExecStates, Terminal
<1>19. CASE Redispatch(e)
  BY <1>19, BoundsAssumption DEF Redispatch, TypeOK, runVars, execVars
<1> QED BY <1>1, <1>2, <1>3, <1>4, <1>5, <1>6, <1>7, <1>8, <1>9, <1>10, <1>11, <1>12, <1>13,
           <1>14, <1>15, <1>16, <1>17, <1>18, <1>19 DEF System, WorkerStep

LEMMA StutterTyped == TypeOK /\ UNCHANGED vars => TypeOK'
  BY DEF TypeOK, vars

\* The type invariant of an agent run.
THEOREM TypeCorrect == Spec => []TypeOK
<1>1. TypeOK /\ [Next]_vars => TypeOK'
  BY ClientTyped, SystemTyped, StutterTyped DEF Next
<1> QED BY InitTyped, <1>1, PTL DEF Spec

-----------------------------------------------------------------------------
(* One request at a time *)

\* Executions are allocated in order, the first with the run itself, and a
\* worker only ever holds one that it claimed.
Allocated ==
    /\ run = "none" => last = 0
    /\ \A e \in Executions : status[e] = "absent" <=> last < e
    /\ \A e \in Executions : worker[e] # "idle" => status[e] \notin {"absent", "queued"}

\* A worker that may still write holds a running execution, or the run is over.
WorkersCurrent ==
    \A e \in Executions : worker[e] \in Busy => status[e] = "running" \/ run \in Terminal

\* The inductive invariant.
RunInv == TypeOK /\ Allocated /\ OneRequestAtATime /\ WorkersCurrent

LEMMA InitRunInv == Init => RunInv
<1> SUFFICES ASSUME Init PROVE RunInv
  OBVIOUS
<1>1. TypeOK
  BY InitTyped
<1>2. \A e \in Executions : 0 < e
  BY DEF Executions
<1> QED BY <1>1, <1>2
        DEF Init, RunInv, Allocated, OneRequestAtATime, WorkersCurrent, Active, Busy

\* What a submission leaves behind, given that nothing is active before it.
LEMMA SubmitInv ==
    ASSUME RunInv, NEW k, NEW frames, Submit(k, frames), run' = "running",
           run \notin Terminal, \A e \in Executions : status[e] \notin Active
    PROVE  (Allocated /\ OneRequestAtATime /\ WorkersCurrent)'
<1>1. last + 1 \in Executions /\ last \in Nat
  BY BoundsAssumption DEF Submit, RunInv, TypeOK, Executions
<1>2. status'[last + 1] = "queued" /\ \A e \in Executions \ {last + 1} : status'[e] = status[e]
  BY <1>1 DEF Submit, RunInv, TypeOK
<1>3. last' = last + 1 /\ worker' = worker
  BY DEF Submit
<1>4. status[last + 1] = "absent" /\ worker[last + 1] = "idle"
  BY <1>1 DEF RunInv, Allocated
<1>5. \A e \in Executions : e \in Nat
  BY DEF Executions
<1>6. Allocated'
  <2>1. \A e \in Executions : status'[e] = "absent" <=> last' < e
    BY <1>1, <1>2, <1>3, <1>5 DEF RunInv, Allocated
  <2>2. \A e \in Executions : worker'[e] # "idle" => status'[e] \notin {"absent", "queued"}
    BY <1>2, <1>3, <1>4 DEF RunInv, Allocated
  <2> QED BY <2>1, <2>2 DEF Allocated
<1>7. OneRequestAtATime'
  BY <1>2, <1>3 DEF OneRequestAtATime
<1>8. WorkersCurrent'
  BY <1>2, <1>3, <1>4 DEF RunInv, WorkersCurrent, Busy, Active
<1> QED BY <1>6, <1>7, <1>8

LEMMA ClientRunInv == RunInv /\ Client => RunInv'
<1> SUFFICES ASSUME RunInv, Client PROVE RunInv'
  OBVIOUS
<1>1. TypeOK'
  BY ClientTyped DEF RunInv
<1> SUFFICES (Allocated /\ OneRequestAtATime /\ WorkersCurrent)'
  BY <1>1 DEF RunInv
<1> USE DEF RunInv
<1>2. CASE StartExecution
  <2>1. \A e \in Executions : status[e] = "absent"
    BY <1>2 DEF StartExecution, Allocated, Executions
  <2> QED BY <1>2, <2>1, SubmitInv DEF StartExecution, Active, Terminal
<1>3. ASSUME NEW b \in Batches, ResumeExecution(b)
      PROVE  (Allocated /\ OneRequestAtATime /\ WorkersCurrent)'
  BY <1>3, SubmitInv DEF ResumeExecution, OneRequestAtATime, Terminal
<1>4. ASSUME NEW e \in Executions, ContinueExecution(e)
      PROVE  (Allocated /\ OneRequestAtATime /\ WorkersCurrent)'
  <2>1. \A f \in Executions : status[f] \notin Active
    BY <1>4 DEF ContinueExecution, OneRequestAtATime, Active
  <2> QED BY <1>4, <2>1, SubmitInv DEF ContinueExecution, runVars, Terminal
<1>5. ASSUME NEW i \in Inputs, QueueInput(i)
      PROVE  (Allocated /\ OneRequestAtATime /\ WorkersCurrent)'
  BY <1>5 DEF QueueInput, execVars, Allocated, OneRequestAtATime, WorkersCurrent
<1>6. ASSUME NEW partial \in Cancels, CancelRun(partial)
      PROVE  (Allocated /\ OneRequestAtATime /\ WorkersCurrent)'
  BY <1>6 DEF CancelRun, Live, Allocated, OneRequestAtATime, WorkersCurrent, Active, Terminal
<1> QED BY <1>2, <1>3, <1>4, <1>5, <1>6 DEF Client

\* A step that leaves an execution's worker behind and ends the execution
\* together with the run's running state.
LEMMA EndingInv ==
    ASSUME RunInv, NEW e \in Executions, status[e] = "running", NEW s \in Terminal,
           status' = [status EXCEPT ![e] = s], last' = last,
           run' # "none", run' = "waiting_tool" => worker'[e] \notin Busy,
           run' = "running" => worker'[e] \notin Busy,
           \A f \in Executions \ {e} : worker'[f] = worker[f],
           worker'[e] = worker[e] \/ worker'[e] = "done", run' \in RunStates
    PROVE  (Allocated /\ OneRequestAtATime /\ WorkersCurrent)'
<1> USE DEF RunInv
<1>1. e = last /\ run = "running"
  BY DEF OneRequestAtATime, Active
<1>2. /\ status'[e] = s
      /\ \A f \in Executions \ {e} : status'[f] = status[f] /\ status[f] \notin Active
  BY <1>1 DEF TypeOK, OneRequestAtATime
<1>3. s \notin {"absent", "queued", "running"}
  BY DEF Terminal
<1>4. Allocated'
  BY <1>1, <1>2, <1>3 DEF Allocated
<1>5. OneRequestAtATime'
  BY <1>2, <1>3 DEF OneRequestAtATime, Active
<1>6. \A f \in Executions \ {e} : worker'[f] \notin Busy
  BY <1>1, <1>2 DEF WorkersCurrent, Terminal, Active
<1>7. WorkersCurrent'
  BY <1>6 DEF WorkersCurrent, RunStates, Live
<1> QED BY <1>4, <1>5, <1>7

\* A step of a worker that changes neither the run nor any status.
LEMMA MovingInv ==
    ASSUME RunInv, NEW e \in Executions, NEW pc, worker[e] \in Busy,
           worker' = [worker EXCEPT ![e] = pc], UNCHANGED <<run, last, status>>
    PROVE  (Allocated /\ OneRequestAtATime /\ WorkersCurrent)'
  BY DEF RunInv, TypeOK, Allocated, OneRequestAtATime, WorkersCurrent, Busy

LEMMA SystemRunInv == ASSUME RunInv, NEW e \in Executions, System(e) PROVE RunInv'
<1>1. TypeOK'
  BY SystemTyped DEF RunInv
<1> SUFFICES (Allocated /\ OneRequestAtATime /\ WorkersCurrent)'
  BY <1>1 DEF RunInv
<1>2. CASE Claim(e)
  BY <1>2 DEF Claim, runVars, RunInv, TypeOK, Allocated, OneRequestAtATime, WorkersCurrent, Active
<1>3. CASE DropMessage(e)
  BY <1>3 DEF DropMessage, runVars, execVars, RunInv, Allocated, OneRequestAtATime, WorkersCurrent
<1>4. CASE FindRunEnded(e)
  <2>1. worker[e] = "claimed" /\ run \in Terminal
    BY <1>4 DEF FindRunEnded, At
  <2> QED BY <1>4, <2>1
          DEF FindRunEnded, Goto, runVars, RunInv, TypeOK, Allocated, OneRequestAtATime,
              WorkersCurrent, Active, Terminal
<1>5. CASE ReceiveInputs(e)
  BY <1>5, MovingInv DEF ReceiveInputs, At, Goto, Busy
<1>6. CASE CompactContext(e)
  BY <1>6, MovingInv DEF CompactContext, At, Goto, Busy
<1>7. CASE PrepareContext(e)
  BY <1>7, MovingInv DEF PrepareContext, At, Goto, Busy, execVars
<1>8. CASE WriteDelta(e)
  BY <1>8 DEF WriteDelta, runVars, RunInv, Allocated, OneRequestAtATime, WorkersCurrent
<1>9. CASE RecordUsage(e)
  BY <1>9, MovingInv DEF RecordUsage, At, Goto, Busy
<1>10. CASE UpdatePlan(e)
  BY <1>10, MovingInv DEF UpdatePlan, At, Goto, Busy
<1>11. ASSUME NEW b \in Batches, RequestTools(e, b)
       PROVE  (Allocated /\ OneRequestAtATime /\ WorkersCurrent)'
  <2>1. Settled("waiting_tool") \in Terminal /\ "waiting_tool" \in RunStates
    BY DEF Settled, Terminal, RunStates, Live
  <2>2. worker'[e] = "done" /\ \A f \in Executions \ {e} : worker'[f] = worker[f]
    BY <1>11 DEF RequestTools, Goto, RunInv, TypeOK
  <2> QED BY <1>11, <2>1, <2>2, EndingInv DEF RequestTools, MayWrite, Busy
<1>12. CASE CompleteRun(e)
  <2>1. Settled("completed") \in Terminal /\ "completed" \in RunStates
    BY DEF Settled, Terminal, RunStates
  <2>2. worker'[e] = "done" /\ \A f \in Executions \ {e} : worker'[f] = worker[f]
    BY <1>12 DEF CompleteRun, Goto, RunInv, TypeOK
  <2> QED BY <1>12, <2>1, <2>2, EndingInv DEF CompleteRun, MayWrite, Busy
<1>13. CASE YieldToGuidance(e)
  BY <1>13, MovingInv DEF YieldToGuidance, At, Goto, Busy, runVars
<1>14. CASE FinishContinuing(e)
  <2>1. Settled(run) \in Terminal /\ run # "none"
    BY <1>14 DEF FinishContinuing, Settled, Terminal, RunInv, OneRequestAtATime, Active
  <2>2. worker'[e] = "done" /\ \A f \in Executions \ {e} : worker'[f] = worker[f]
    BY <1>14 DEF FinishContinuing, Goto, RunInv, TypeOK
  <2> QED BY <1>14, <2>1, <2>2, EndingInv DEF FinishContinuing, Busy, runVars, RunInv, TypeOK
<1>15. CASE FailExecution(e)
  <2>1. run = "running"
    BY <1>15 DEF FailExecution, RunInv, OneRequestAtATime, Active
  <2>2. run' = "failed" /\ "failed" \in Terminal /\ "failed" \in RunStates
    BY <1>15, <2>1 DEF FailExecution, FailRun, Terminal, RunStates
  <2>3. worker'[e] = "done" /\ \A f \in Executions \ {e} : worker'[f] = worker[f]
    BY <1>15 DEF FailExecution, Goto, RunInv, TypeOK
  <2> QED BY <1>15, <2>2, <2>3, EndingInv DEF FailExecution, Busy
<1>16. CASE AbandonExecution(e)
  BY <1>16, MovingInv DEF AbandonExecution, At, Goto, runVars, execVars
<1>17. CASE CrashWorker(e)
  BY <1>17, MovingInv DEF CrashWorker, At, Goto, runVars, execVars
<1>18. CASE ExpireLease(e)
  BY <1>18 DEF ExpireLease, runVars, RunInv, Allocated, OneRequestAtATime, WorkersCurrent
<1>19. CASE ReconcileExpired(e)
  <2>1. run = "running"
    BY <1>19 DEF ReconcileExpired, RunInv, OneRequestAtATime, Active
  <2>2. run' = "failed" /\ "failed" \in Terminal /\ "failed" \in RunStates
    BY <1>19, <2>1 DEF ReconcileExpired, FailRun, Terminal, RunStates
  <2>3. worker' = worker
    BY <1>19 DEF ReconcileExpired
  <2> QED BY <1>19, <2>2, <2>3, EndingInv DEF ReconcileExpired
<1>20. CASE Redispatch(e)
  BY <1>20 DEF Redispatch, runVars, execVars, RunInv, Allocated, OneRequestAtATime, WorkersCurrent
<1> QED BY <1>2, <1>3, <1>4, <1>5, <1>6, <1>7, <1>8, <1>9, <1>10, <1>11, <1>12, <1>13,
           <1>14, <1>15, <1>16, <1>17, <1>18, <1>19, <1>20 DEF System, WorkerStep

LEMMA NextRunInv == RunInv /\ [Next]_vars => RunInv'
<1>1. RunInv /\ UNCHANGED vars => RunInv'
  BY StutterTyped DEF vars, RunInv, Allocated, OneRequestAtATime, WorkersCurrent
<1> QED BY <1>1, ClientRunInv, SystemRunInv DEF Next

\* However resumes, continuations, retries, cancellations, deliveries and Beat
\* interleave, a run never has two model requests queued or running.
THEOREM OneRequest == Spec => []OneRequestAtATime
<1>1. RunInv => OneRequestAtATime
  BY DEF RunInv
<1> QED BY InitRunInv, NextRunInv, <1>1, PTL DEF Spec

-----------------------------------------------------------------------------
(* What no step does *)

\* Of an ended run's executions none is queued or running.
LEMMA EndedIdle ==
    ASSUME RunInv, run \in Terminal
    PROVE  \A e \in Executions : status[e] \notin Active
  BY DEF RunInv, OneRequestAtATime, Terminal

LEMMA EndedFenced == RunInv /\ run \in Terminal /\ [Next]_vars => Fenced
<1> SUFFICES ASSUME RunInv, run \in Terminal, [Next]_vars PROVE Fenced
  OBVIOUS
<1>1. \A e \in Executions : status[e] \notin Active
  BY EndedIdle
<1>2. CASE UNCHANGED vars
  BY <1>2 DEF vars, Fenced
<1>3. CASE Client
  BY <1>3 DEF Client, StartExecution, ResumeExecution, ContinueExecution, QueueInput, CancelRun,
              Live, Terminal
<1>4. ASSUME NEW e \in Executions, System(e) PROVE Fenced
  <2>1. CASE FindRunEnded(e)
    BY <2>1 DEF FindRunEnded, runVars, Fenced, RunInv, TypeOK, Active
  <2>2. CASE CompactContext(e)
    BY <2>2 DEF CompactContext, Fenced
  <2>3. CASE PrepareContext(e)
    BY <2>3 DEF PrepareContext, execVars, Fenced
  <2>4. CASE DropMessage(e) \/ AbandonExecution(e) \/ CrashWorker(e) \/ Redispatch(e)
    BY <2>4 DEF DropMessage, AbandonExecution, CrashWorker, Redispatch, runVars, execVars, Fenced
  <2> QED BY <1>1, <1>4, <2>1, <2>2, <2>3, <2>4
          DEF System, WorkerStep, Claim, ReceiveInputs, WriteDelta, RecordUsage, UpdatePlan,
              RequestTools, CompleteRun, YieldToGuidance, FinishContinuing, FailExecution,
              ExpireLease, ReconcileExpired, MayWrite, Active
<1> QED BY <1>2, <1>3, <1>4 DEF Next

\* Cancelled, failed or completed: what a run was when it ended is what it
\* stays, although workers that have not noticed may still be at work on it.
THEOREM Fencing == Spec => EndedRunIsFenced
<1>1. RunInv /\ [Next]_vars => [(run \in Terminal) => Fenced]_vars
  BY EndedFenced
<1> QED BY InitRunInv, NextRunInv, <1>1, PTL DEF Spec, EndedRunIsFenced

\* A write to one execution's stream by somebody who saw it running.
LEMMA WriteElsewhere ==
    ASSUME RunInv, NEW e \in Executions, status[e] = "running", NEW frames, Write(e, frames)
    PROVE  \A f \in Executions : status[f] \in Terminal => stream'[f] = stream[f]
  BY DEF RunInv, TypeOK, Write, Terminal

LEMMA SubmitElsewhere ==
    ASSUME RunInv, NEW k, NEW frames, Submit(k, frames)
    PROVE  \A f \in Executions :
               status[f] # "absent" =>
                   stream'[f] = stream[f] /\ status'[f] = status[f] /\ key'[f] = key[f]
<1>1. last + 1 \in Executions /\ status[last + 1] = "absent"
  BY BoundsAssumption DEF Submit, RunInv, TypeOK, Allocated, Executions
<1> QED BY <1>1 DEF Submit, RunInv, TypeOK

LEMMA NextSealed ==
    RunInv /\ [Next]_vars => \A e \in Executions : status[e] \in Terminal => stream'[e] = stream[e]
<1> SUFFICES ASSUME RunInv, [Next]_vars
             PROVE  \A e \in Executions : status[e] \in Terminal => stream'[e] = stream[e]
  OBVIOUS
<1>1. CASE UNCHANGED vars
  BY <1>1 DEF vars
<1>2. CASE Client
  BY <1>2, SubmitElsewhere
     DEF Client, StartExecution, ResumeExecution, ContinueExecution, QueueInput, CancelRun,
         execVars, Terminal
<1>3. ASSUME NEW e \in Executions, System(e)
      PROVE  \A f \in Executions : status[f] \in Terminal => stream'[f] = stream[f]
  <2>1. CASE ReceiveInputs(e)
    <3>1. status[e] = "running"
      BY <2>1 DEF ReceiveInputs, At, RunInv, WorkersCurrent, Busy
    <3> QED BY <2>1, <3>1, WriteElsewhere DEF ReceiveInputs
  <2>2. CASE CompactContext(e)
    BY <2>2, WriteElsewhere DEF CompactContext, MayWrite
  <2>3. CASE WriteDelta(e) \/ RecordUsage(e) \/ UpdatePlan(e) \/ YieldToGuidance(e)
    BY <2>3, WriteElsewhere DEF WriteDelta, RecordUsage, UpdatePlan, YieldToGuidance, MayWrite
  <2>4. CASE CompleteRun(e) \/ FinishContinuing(e) \/ \E b \in Batches : RequestTools(e, b)
    BY <2>4, WriteElsewhere DEF CompleteRun, FinishContinuing, RequestTools, MayWrite
  <2>5. CASE FailExecution(e) \/ ReconcileExpired(e)
    BY <2>5, WriteElsewhere DEF FailExecution, ReconcileExpired
  <2>6. CASE \/ Claim(e) \/ DropMessage(e) \/ FindRunEnded(e) \/ PrepareContext(e)
             \/ AbandonExecution(e) \/ CrashWorker(e) \/ ExpireLease(e) \/ Redispatch(e)
    BY <2>6 DEF Claim, DropMessage, FindRunEnded, PrepareContext, AbandonExecution, CrashWorker,
                ExpireLease, Redispatch, execVars
  <2> QED BY <1>3, <2>1, <2>2, <2>3, <2>4, <2>5, <2>6 DEF System, WorkerStep
<1> QED BY <1>1, <1>2, <1>3 DEF Next

\* A subscriber that has seen an execution ended and no further frame has seen
\* every frame there will be.
THEOREM Sealing == Spec => StreamsSealed
<1>1. RunInv /\ [Next]_vars =>
        [\A e \in Executions : status[e] \in Terminal => stream'[e] = stream[e]]_vars
  BY NextSealed
<1> QED BY InitRunInv, NextRunInv, <1>1, PTL DEF Spec, StreamsSealed

-----------------------------------------------------------------------------
(* One execution per request key *)

LEMMA SubmitUnique ==
    ASSUME RunInv, KeysUnique, NEW k, NEW frames, Submit(k, frames), ~KeyUsed(k)
    PROVE  KeysUnique'
<1>1. last + 1 \in Executions /\ status[last + 1] = "absent"
  BY BoundsAssumption DEF Submit, RunInv, TypeOK, Allocated, Executions
<1>2. key'[last + 1] = k
  BY <1>1 DEF Submit, RunInv, TypeOK
<1>3. \A f \in Executions \ {last + 1} : status'[f] = status[f] /\ key'[f] = key[f]
  BY <1>1 DEF Submit, RunInv, TypeOK
<1>4. \A f \in Executions : status[f] # "absent" => key[f] # k
  BY DEF KeyUsed
<1> QED BY <1>2, <1>3, <1>4 DEF KeysUnique

LEMMA KeysKept ==
    ASSUME KeysUnique, key' = key, \A e \in Executions : status[e] = "absent" => status'[e] = "absent"
    PROVE  KeysUnique'
  BY DEF KeysUnique

LEMMA SystemKeys ==
    ASSUME RunInv, NEW e \in Executions, System(e)
    PROVE  key' = key /\ \A f \in Executions : status[f] = "absent" => status'[f] = "absent"
<1>1. key' = key
  BY DEF System, WorkerStep, Claim, DropMessage, FindRunEnded, ReceiveInputs,
              CompactContext, PrepareContext, WriteDelta, RecordUsage, UpdatePlan, RequestTools,
              CompleteRun, YieldToGuidance, FinishContinuing, FailExecution, AbandonExecution,
              CrashWorker, ExpireLease, ReconcileExpired, Redispatch, execVars
<1>2. worker[e] = "claimed" => status[e] # "absent"
  BY DEF RunInv, Allocated
<1>3. \A f \in Executions : status[f] = "absent" => status'[f] = "absent"
  BY <1>2
     DEF System, WorkerStep, Claim, DropMessage, FindRunEnded, ReceiveInputs, CompactContext,
         PrepareContext, WriteDelta, RecordUsage, UpdatePlan, RequestTools, CompleteRun,
         YieldToGuidance, FinishContinuing, FailExecution, AbandonExecution, CrashWorker,
         ExpireLease, ReconcileExpired, Redispatch, execVars, MayWrite, At, RunInv, TypeOK
<1> QED BY <1>1, <1>3

LEMMA NextUnique == RunInv /\ KeysUnique /\ [Next]_vars => KeysUnique'
<1> SUFFICES ASSUME RunInv, KeysUnique, [Next]_vars PROVE KeysUnique'
  OBVIOUS
<1>1. CASE UNCHANGED vars
  BY <1>1, KeysKept DEF vars
<1>2. CASE StartExecution
  <2>1. ~KeyUsed(Key("initial", NoRef))
    BY <1>2 DEF StartExecution, KeyUsed, RunInv, Allocated, Executions
  <2> QED BY <1>2, <2>1, SubmitUnique DEF StartExecution
<1>3. CASE \E b \in Batches : ResumeExecution(b)
  BY <1>3, SubmitUnique DEF ResumeExecution
<1>4. CASE \E e \in Executions : ContinueExecution(e)
  BY <1>4, SubmitUnique DEF ContinueExecution
<1>5. CASE \E i \in Inputs : QueueInput(i)
  BY <1>5, KeysKept DEF QueueInput, execVars
<1>6. CASE \E partial \in Cancels : CancelRun(partial)
  <2>1. key' = key /\ \A e \in Executions : status[e] = "absent" => status'[e] = "absent"
    BY <1>6 DEF CancelRun, Active
  <2> QED BY <2>1, KeysKept
<1>7. ASSUME NEW e \in Executions, System(e) PROVE KeysUnique'
  BY <1>7, SystemKeys, KeysKept
<1> QED BY <1>1, <1>2, <1>3, <1>4, <1>5, <1>6, <1>7 DEF Next, Client

\* Repeated submissions of the same tool results and repeated continuations
\* never become a second execution.
THEOREM UniqueKeys == Spec => []KeysUnique
<1>1. Init => KeysUnique
  BY DEF Init, KeysUnique
<1> QED BY InitRunInv, NextRunInv, NextUnique, <1>1, PTL DEF Spec

\* The requests of a run, as the run of TLC checks them together.
THEOREM SafeRequests == Spec => []RequestsSafe
<1>1. TypeOK /\ OneRequestAtATime /\ KeysUnique => RequestsSafe
  BY DEF RequestsSafe
<1> QED BY <1>1, TypeCorrect, OneRequest, UniqueKeys, PTL

-----------------------------------------------------------------------------
(* Executions move forward *)

\* An execution completes only by the hand of its worker, which then leaves.
Unfinished == \A e \in Executions : worker[e] \in Busy => status[e] # "completed"

LEMMA SystemForward ==
    ASSUME RunInv, Unfinished, NEW e \in Executions, System(e)
    PROVE  Unfinished' /\ \A f \in Executions : MovesForward(f)
<1> USE DEF RunInv
<1>1. key' = key
  BY DEF System, WorkerStep, Claim, DropMessage, FindRunEnded, ReceiveInputs,
         CompactContext, PrepareContext, WriteDelta, RecordUsage, UpdatePlan, RequestTools,
         CompleteRun, YieldToGuidance, FinishContinuing, FailExecution, AbandonExecution,
         CrashWorker, ExpireLease, ReconcileExpired, Redispatch, execVars
<1>2. ASSUME NEW f \in Executions \ {e}
      PROVE  status'[f] = status[f] /\ worker'[f] = worker[f]
  BY DEF System, WorkerStep, Claim, DropMessage, FindRunEnded, ReceiveInputs, Goto,
         CompactContext, PrepareContext, WriteDelta, RecordUsage, UpdatePlan, RequestTools,
         CompleteRun, YieldToGuidance, FinishContinuing, FailExecution, AbandonExecution,
         CrashWorker, ExpireLease, ReconcileExpired, Redispatch, execVars, TypeOK
<1>3. CASE Claim(e)
  BY <1>1, <1>2, <1>3 DEF Claim, Unfinished, MovesForward, TypeOK, Allocated, Terminal
<1>4. CASE FindRunEnded(e)
  <2>1. status[e] \in {"running", "failed", "cancelled"}
    BY <1>4 DEF FindRunEnded, At, Unfinished, TypeOK, Allocated, ExecStates, Active, Terminal, Busy
  <2> QED BY <1>1, <1>2, <1>4, <2>1
          DEF FindRunEnded, At, Goto, Unfinished, MovesForward, TypeOK, Terminal, Busy
<1>5. CASE \/ CompleteRun(e) \/ FinishContinuing(e) \/ FailExecution(e)
           \/ \E b \in Batches : RequestTools(e, b)
  <2>1. /\ status[e] = "running" /\ status'[e] \in Terminal
        /\ worker'[e] = "done"
    BY <1>5 DEF RequestTools, CompleteRun, FinishContinuing, FailExecution, MayWrite, Settled,
                Goto, Terminal, TypeOK
  <2> QED BY <1>1, <1>2, <2>1 DEF Unfinished, MovesForward, Terminal, Busy
<1>6. CASE ReconcileExpired(e)
  <2>1. status[e] = "running" /\ status'[e] = "failed" /\ worker' = worker
    BY <1>6 DEF ReconcileExpired, TypeOK
  <2> QED BY <1>1, <1>2, <2>1 DEF Unfinished, MovesForward, Terminal
<1>7. CASE \/ ReceiveInputs(e) \/ CompactContext(e) \/ PrepareContext(e) \/ RecordUsage(e)
           \/ UpdatePlan(e) \/ YieldToGuidance(e) \/ AbandonExecution(e) \/ CrashWorker(e)
  <2>1. /\ worker[e] \in Busy /\ worker'[e] # "claimed" /\ status' = status
    BY <1>7 DEF ReceiveInputs, CompactContext, PrepareContext, RecordUsage, UpdatePlan,
                YieldToGuidance, AbandonExecution, CrashWorker, At, Goto, Busy, execVars, TypeOK
  <2> QED BY <1>1, <1>2, <2>1 DEF Unfinished, MovesForward
<1>8. CASE DropMessage(e) \/ WriteDelta(e) \/ ExpireLease(e) \/ Redispatch(e)
  BY <1>1, <1>8
     DEF DropMessage, WriteDelta, ExpireLease, Redispatch, execVars, Unfinished, MovesForward
<1> QED BY <1>3, <1>4, <1>5, <1>6, <1>7, <1>8 DEF System, WorkerStep

LEMMA ClientForward ==
    ASSUME RunInv, Unfinished, Client
    PROVE  Unfinished' /\ \A f \in Executions : MovesForward(f)
<1> USE DEF RunInv
<1>1. ASSUME NEW k, NEW frames, Submit(k, frames)
      PROVE  Unfinished' /\ \A f \in Executions : MovesForward(f)
  <2>1. worker' = worker /\ \A f \in Executions : status[f] = "absent" => worker[f] = "idle"
    BY <1>1 DEF Submit, Allocated
  <2>2. \A f \in Executions :
            status[f] # "absent" => status'[f] = status[f] /\ key'[f] = key[f]
    BY <1>1, SubmitElsewhere
  <2> QED BY <2>1, <2>2 DEF Unfinished, MovesForward, Terminal, Busy
<1>2. CASE \E i \in Inputs : QueueInput(i)
  BY <1>2 DEF QueueInput, execVars, Unfinished, MovesForward
<1>3. CASE \E partial \in Cancels : CancelRun(partial)
  <2>1. /\ worker' = worker /\ key' = key
        /\ \A f \in Executions : \/ status'[f] = status[f]
                                 \/ status[f] \in Active /\ status'[f] = "cancelled"
    BY <1>3 DEF CancelRun
  <2> QED BY <2>1 DEF Unfinished, MovesForward, Active, Terminal
<1> QED BY <1>1, <1>2, <1>3 DEF Client, StartExecution, ResumeExecution, ContinueExecution

LEMMA NextForward ==
    RunInv /\ Unfinished /\ [Next]_vars =>
        Unfinished' /\ [\A e \in Executions : MovesForward(e)]_vars
<1>1. Unfinished /\ UNCHANGED vars => Unfinished'
  BY DEF Unfinished, vars
<1> QED BY <1>1, ClientForward, SystemForward DEF Next

\* No execution is claimed twice, queued again or changed after its end,
\* except that a worker given up before its first look cancels it.
THEOREM Forward == Spec => ExecutionsMoveForward
<1>1. Init => Unfinished
  BY DEF Init, Unfinished, Busy
<1> QED BY InitRunInv, NextRunInv, NextForward, <1>1, PTL DEF Spec, ExecutionsMoveForward

-----------------------------------------------------------------------------
(* Every step of AgentExecution is a step of RunLifecycle, or none: the    *)
(* proof that a run keeps what RunLifecycle promises, whatever executions, *)
(* workers and Beat do underneath.                                         *)

Working == \E e \in Executions : status[e] \in Active

\* Guidance keeps waiting from the moment a worker has answered around it
\* until the next model request, and nothing is received unasked.
GuidanceWaits ==
    /\ \A e \in Executions :
           worker[e] = "continuing" /\ status[e] = "running" => PendingInputs # {}
    /\ run = "running" /\ ~Working => PendingInputs # {}
    /\ \A i \in Inputs : Logged("input.received", i) => Logged("input.queued", i)

-----------------------------------------------------------------------------
(* The log and the guidance read from it *)

LEMMA LoggedAppend ==
    ASSUME TypeOK, NEW t, NEW r, log' = Append(log, Event(t, r)), NEW u, NEW q
    PROVE  Logged(u, q)' <=> Logged(u, q) \/ (u = t /\ q = r)
<1>1. Event(u, q) = Event(t, r) <=> u = t /\ q = r
  BY DEF Event
<1>2. /\ DOMAIN log' = 1 .. Len(log) + 1
      /\ DOMAIN log = 1 .. Len(log)
      /\ Len(log) \in Nat
      /\ \A k \in DOMAIN log : log'[k] = log[k]
      /\ log'[Len(log) + 1] = Event(t, r)
  BY DEF TypeOK
<1> QED BY <1>1, <1>2 DEF Logged

\* An event that is not about inputs.
LEMMA GuidanceKept ==
    ASSUME TypeOK, NEW t, NEW r, log' = Append(log, Event(t, r)),
           t \notin {"input.queued", "input.received"}
    PROVE  /\ Guidance' = Guidance
           /\ PendingInputs' = PendingInputs
           /\ \A i \in Inputs : /\ Logged("input.received", i)' <=> Logged("input.received", i)
                                /\ Logged("input.queued", i)' <=> Logged("input.queued", i)
<1>1. \A i \in Inputs : /\ Logged("input.received", i)' <=> Logged("input.received", i)
                        /\ Logged("input.queued", i)' <=> Logged("input.queued", i)
  BY LoggedAppend
<1> QED BY <1>1 DEF Guidance, PendingInputs

LEMMA GuidanceSame ==
    ASSUME log' = log
    PROVE  /\ Guidance' = Guidance
           /\ PendingInputs' = PendingInputs
           /\ \A i \in Inputs : /\ Logged("input.received", i)' <=> Logged("input.received", i)
                                /\ Logged("input.queued", i)' <=> Logged("input.queued", i)
  BY DEF Guidance, PendingInputs, Logged

LEMMA WaitingIsPending == Lifecycle!Waiting = PendingInputs
  BY DEF Lifecycle!Waiting, Guidance, PendingInputs

\* receive_inputs leaves out none of the pending inputs: the enumeration is
\* injective, hence onto.
LEMMA AllReceived ==
    ASSUME TypeOK, NEW s \in PendingInOrder
    PROVE  \A i \in PendingInputs : \E k \in DOMAIN s : s[k] = i
<1> DEFINE n == Cardinality(PendingInputs)
<1>1. IsFiniteSet(PendingInputs) /\ n \in Nat /\ s \in [1 .. n -> PendingInputs]
  BY InputsAssumption, FS_Subset, FS_CardinalityType DEF PendingInputs, PendingInOrder
<1>2. \A i \in PendingInputs : QueuedAt(i) \in Nat
  BY DEF PendingInputs, Logged, QueuedAt, TypeOK
<1>3. ASSUME NEW j \in 1 .. n, NEW k \in 1 .. n, s[j] = s[k] PROVE j = k
  <2>1. \A p, q \in 1 .. n : p < q => QueuedAt(s[p]) < QueuedAt(s[q])
    BY <1>1 DEF PendingInOrder
  <2>2. ~(j < k) /\ ~(k < j)
    BY <1>1, <1>2, <1>3, <2>1
  <2> QED BY <1>1, <2>2
<1>4. s \in Injection(1 .. n, PendingInputs)
  BY <1>1, <1>3 DEF Injection, IsInjective
<1>5. Cardinality(1 .. n) = n
  BY <1>1, FS_Interval
<1>6. s \in Surjection(1 .. n, PendingInputs)
  BY <1>1, <1>4, <1>5, FS_Injection
<1> QED BY <1>1, <1>6 DEF Surjection

LEMMA ReceivedLog ==
    ASSUME TypeOK, NEW s \in PendingInOrder,
           log' = log \o [k \in DOMAIN s |-> Event("input.received", s[k])]
    PROVE  \A i \in Inputs :
             /\ Logged("input.queued", i)' <=> Logged("input.queued", i)
             /\ Logged("input.received", i)' <=> Logged("input.received", i) \/ i \in PendingInputs
<1> DEFINE n == Cardinality(PendingInputs)
           t == [k \in DOMAIN s |-> Event("input.received", s[k])]
<1>1. DOMAIN s = 1 .. n /\ n \in Nat /\ s \in [1 .. n -> PendingInputs]
  BY PendingTyped DEF PendingInOrder
<1>2. t \in Seq(Events) /\ Len(t) = n
  <2>1. t \in Seq(Events)
    BY ReceivedTyped
  <2>2. DOMAIN t = 1 .. n
    BY <1>1
  <2> HIDE DEF t
  <2> QED BY <1>1, <2>1, <2>2, LenProperties
<1> HIDE DEF t
<1>3. /\ DOMAIN log' = 1 .. Len(log) + n
      /\ DOMAIN log = 1 .. Len(log) /\ Len(log) \in Nat
      /\ \A k \in 1 .. Len(log) : log'[k] = log[k]
      /\ \A k \in 1 .. n : log'[Len(log) + k] = t[k]
  <2>1. log' = log \o t
    BY DEF t
  <2> QED BY <1>1, <1>2, <2>1, ConcatProperties DEF TypeOK
<1>4. \A k \in 1 .. n : t[k] = Event("input.received", s[k])
  BY <1>1 DEF t
<1>5. \A k \in DOMAIN log' : k \in DOMAIN log \/ \E m \in 1 .. n : k = Len(log) + m
  <2> TAKE k \in DOMAIN log'
  <2>1. CASE k <= Len(log)
    BY <1>3, <2>1
  <2>2. CASE k > Len(log)
    <3>1. k - Len(log) \in 1 .. n /\ k = Len(log) + (k - Len(log))
      BY <1>1, <1>3, <2>2
    <3> QED BY <3>1
  <2> QED BY <1>1, <1>3, <2>1, <2>2
<1>6. \A i, j : /\ Event("input.queued", i) # Event("input.received", j)
                /\ Event("input.received", i) = Event("input.received", j) => i = j
  BY DEF Event
<1> TAKE i \in Inputs
<1>7. Logged("input.queued", i)' <=> Logged("input.queued", i)
  <2>1. ASSUME NEW k \in DOMAIN log', log'[k] = Event("input.queued", i)
        PROVE  k \in DOMAIN log /\ log[k] = Event("input.queued", i)
    BY <1>3, <1>4, <1>5, <1>6, <2>1
  <2>2. ASSUME NEW k \in DOMAIN log, log[k] = Event("input.queued", i)
        PROVE  k \in DOMAIN log' /\ log'[k] = Event("input.queued", i)
    BY <1>1, <1>3, <2>2
  <2> QED BY <2>1, <2>2 DEF Logged
<1>8. ASSUME Logged("input.received", i)' PROVE Logged("input.received", i) \/ i \in PendingInputs
  <2>1. PICK k \in DOMAIN log' : log'[k] = Event("input.received", i)
    BY <1>8 DEF Logged
  <2>2. CASE k \in DOMAIN log
    BY <1>3, <2>1, <2>2 DEF Logged
  <2>3. ASSUME NEW m \in 1 .. n, k = Len(log) + m PROVE i \in PendingInputs
    <3>1. Event("input.received", s[m]) = Event("input.received", i)
      BY <1>3, <1>4, <2>1, <2>3
    <3>2. s[m] = i
      BY <1>6, <3>1
    <3> QED BY <1>1, <3>2
  <2> QED BY <1>5, <2>2, <2>3
<1>9. ASSUME Logged("input.received", i) PROVE Logged("input.received", i)'
  BY <1>1, <1>3, <1>9 DEF Logged
<1>10. ASSUME i \in PendingInputs PROVE Logged("input.received", i)'
  <2>1. PICK k \in 1 .. n : s[k] = i
    BY <1>1, <1>10, AllReceived
  <2>2. Len(log) + k \in DOMAIN log'
    BY <1>1, <1>3
  <2> QED BY <1>3, <1>4, <2>1, <2>2 DEF Logged
<1> QED BY <1>7, <1>8, <1>9, <1>10

\* complete_run's two events are not about inputs either.
LEMMA CompletedLog ==
    ASSUME TypeOK,
           log' = log \o <<Event("message.completed", NoRef), Event("run.completed", NoRef)>>
    PROVE  /\ Guidance' = Guidance
           /\ PendingInputs' = PendingInputs
           /\ \A i \in Inputs : /\ Logged("input.received", i)' <=> Logged("input.received", i)
                                /\ Logged("input.queued", i)' <=> Logged("input.queued", i)
<1>1. /\ DOMAIN log' = 1 .. Len(log) + 2
      /\ DOMAIN log = 1 .. Len(log) /\ Len(log) \in Nat
      /\ \A k \in 1 .. Len(log) : log'[k] = log[k]
      /\ log'[Len(log) + 1] = Event("message.completed", NoRef)
      /\ log'[Len(log) + 2] = Event("run.completed", NoRef)
  BY DEF TypeOK
<1>2. \A k \in DOMAIN log' : k \in DOMAIN log \/ k = Len(log) + 1 \/ k = Len(log) + 2
  BY <1>1
<1>3. \A i \in Inputs : /\ Logged("input.received", i)' <=> Logged("input.received", i)
                        /\ Logged("input.queued", i)' <=> Logged("input.queued", i)
  BY <1>1, <1>2 DEF Logged, Event
<1> QED BY <1>3 DEF Guidance, PendingInputs

-----------------------------------------------------------------------------
(* Guidance waits *)

LEMMA InitWaits == Init => GuidanceWaits
<1> SUFFICES ASSUME Init PROVE GuidanceWaits
  OBVIOUS
<1>1. \A i \in Inputs : ~Logged("input.received", i)
  BY DEF Init, Logged
<1> QED BY <1>1 DEF Init, GuidanceWaits

\* Enough for any step that neither receives nor sets a worker to continue.
LEMMA WaitsKept ==
    ASSUME GuidanceWaits, PendingInputs \subseteq PendingInputs',
           \A i \in Inputs : Logged("input.received", i)' => Logged("input.queued", i)',
           \A e \in Executions :
               worker'[e] = "continuing" /\ status'[e] = "running" =>
                   worker[e] = "continuing" /\ status[e] = "running",
           run' = "running" /\ ~Working' => run = "running" /\ ~Working
    PROVE  GuidanceWaits'
  BY DEF GuidanceWaits

LEMMA ClientWaits == ASSUME RunInv, GuidanceWaits, Client PROVE GuidanceWaits'
<1> USE DEF RunInv
<1>1. ASSUME NEW k, NEW frames, Submit(k, frames) PROVE Working' /\ worker' = worker
  <2>1. last + 1 \in Executions
    BY <1>1, BoundsAssumption DEF Submit, TypeOK, Executions
  <2>2. status'[last + 1] = "queued"
    BY <1>1, <2>1 DEF Submit, TypeOK
  <2> QED BY <1>1, <2>1, <2>2 DEF Submit, Working, Active
<1>2. ASSUME NEW k, NEW frames, Submit(k, frames), NEW e \in Executions,
             worker'[e] = "continuing", status'[e] = "running"
      PROVE  worker[e] = "continuing" /\ status[e] = "running"
  <2>1. status[e] # "absent"
    BY <1>2 DEF Submit, Allocated
  <2> QED BY <1>2, <2>1, SubmitElsewhere DEF Submit
<1>3. CASE StartExecution
  BY <1>1, <1>2, <1>3, GuidanceKept, WaitsKept DEF StartExecution, GuidanceWaits
<1>4. ASSUME NEW b \in Batches, ResumeExecution(b) PROVE GuidanceWaits'
  BY <1>1, <1>2, <1>4, GuidanceKept, WaitsKept DEF ResumeExecution, GuidanceWaits
<1>5. ASSUME NEW e \in Executions, ContinueExecution(e) PROVE GuidanceWaits'
  BY <1>1, <1>2, <1>5, GuidanceSame, WaitsKept DEF ContinueExecution, runVars, GuidanceWaits
<1>6. ASSUME NEW i \in Inputs, QueueInput(i) PROVE GuidanceWaits'
  <2>1. \A j \in Inputs : /\ Logged("input.queued", j)' <=> Logged("input.queued", j) \/ j = i
                          /\ Logged("input.received", j)' <=> Logged("input.received", j)
    BY <1>6, LoggedAppend DEF QueueInput
  <2>2. PendingInputs \subseteq PendingInputs'
    BY <2>1 DEF PendingInputs
  <2> QED BY <1>6, <2>1, <2>2, WaitsKept DEF QueueInput, execVars, GuidanceWaits, Working
<1>7. ASSUME NEW partial \in Cancels, CancelRun(partial) PROVE GuidanceWaits'
  BY <1>7, GuidanceKept, WaitsKept DEF CancelRun, GuidanceWaits, Working
<1> QED BY <1>3, <1>4, <1>5, <1>6, <1>7 DEF Client

LEMMA SystemWaits ==
    ASSUME RunInv, GuidanceWaits, NEW e \in Executions, System(e) PROVE GuidanceWaits'
<1> USE DEF RunInv
<1>1. CASE ReceiveInputs(e)
  <2>1. status[e] = "running" /\ run = "running" /\ e = last
    BY <1>1 DEF ReceiveInputs, At, WorkersCurrent, OneRequestAtATime, Busy, Active
  <2>2. PICK s \in PendingInOrder :
            log' = log \o [k \in DOMAIN s |-> Event("input.received", s[k])]
    BY <1>1 DEF ReceiveInputs
  <2>3. \A i \in Inputs : Logged("input.received", i)' => Logged("input.queued", i)'
    BY <2>2, ReceivedLog DEF GuidanceWaits, PendingInputs
  <2>4. Working'
    BY <1>1, <2>1 DEF ReceiveInputs, Working, Active
  <2>5. \A f \in Executions : ~(worker'[f] = "continuing" /\ status'[f] = "running")
    BY <1>1, <2>1 DEF ReceiveInputs, At, Goto, OneRequestAtATime, Active, TypeOK
  <2> QED BY <2>3, <2>4, <2>5 DEF GuidanceWaits
<1>2. CASE YieldToGuidance(e)
  <2>1. UNCHANGED <<log, run, status>> /\ PendingInputs # {}
    BY <1>2 DEF YieldToGuidance, runVars
  <2> QED BY <2>1, GuidanceSame DEF GuidanceWaits
<1>3. CASE FinishContinuing(e)
  <2>1. PendingInputs # {} /\ log' = log
    BY <1>3 DEF FinishContinuing, At, GuidanceWaits, runVars
  <2> QED BY <2>1, GuidanceSame DEF GuidanceWaits
<1>4. CASE Claim(e)
  <2>1. /\ Working'
        /\ worker'[e] = "claimed"
        /\ \A f \in Executions \ {e} : worker'[f] = worker[f] /\ status'[f] = status[f]
    BY <1>4 DEF Claim, Working, Active, TypeOK
  <2>2. log' = log
    BY <1>4 DEF Claim, runVars
  <2> QED BY <2>1, <2>2, GuidanceSame, WaitsKept DEF GuidanceWaits
<1>12. CASE DropMessage(e) \/ Redispatch(e) \/ ExpireLease(e)
  BY <1>12, GuidanceSame, WaitsKept
     DEF DropMessage, Redispatch, ExpireLease, runVars, execVars, GuidanceWaits, Working
<1>5. CASE AbandonExecution(e) \/ CrashWorker(e)
  BY <1>5, GuidanceSame, WaitsKept
     DEF AbandonExecution, CrashWorker, Goto, runVars, execVars, GuidanceWaits, Working, TypeOK
<1>6. CASE FindRunEnded(e)
  BY <1>6, GuidanceSame, WaitsKept
     DEF FindRunEnded, Goto, runVars, GuidanceWaits, TypeOK, Terminal
<1>7. CASE CompactContext(e) \/ PrepareContext(e) \/ RecordUsage(e) \/ UpdatePlan(e)
  <2>1. \E t \in EventTypes \ {"input.queued", "input.received"} : log' = Append(log, Event(t, NoRef))
    BY <1>7 DEF CompactContext, PrepareContext, RecordUsage, UpdatePlan, EventTypes
  <2>2. /\ run' = run /\ status' = status
        /\ \A f \in Executions : worker'[f] = "continuing" => worker[f] = "continuing"
    BY <1>7 DEF CompactContext, PrepareContext, RecordUsage, UpdatePlan, Goto, execVars, TypeOK
  <2> QED BY <2>1, <2>2, GuidanceKept, WaitsKept DEF GuidanceWaits, Working
<1>8. CASE WriteDelta(e)
  BY <1>8, GuidanceSame, WaitsKept DEF WriteDelta, runVars, GuidanceWaits, Working
<1>9. ASSUME NEW b \in Batches, RequestTools(e, b) PROVE GuidanceWaits'
  <2>1. log' = Append(log, Event("tool.requested", b)) /\ run' = "waiting_tool"
    BY <1>9 DEF RequestTools
  <2>2. \A f \in Executions :
            worker'[f] = "continuing" /\ status'[f] = "running" =>
                worker[f] = "continuing" /\ status[f] = "running"
    BY <1>9 DEF RequestTools, Goto, TypeOK
  <2> QED BY <2>1, <2>2, GuidanceKept, WaitsKept DEF GuidanceWaits
<1>10. CASE CompleteRun(e)
  <2>1. /\ run' = "completed"
        /\ \A f \in Executions : worker'[f] = "continuing" => f # e
        /\ \A f \in Executions \ {e} : status'[f] = status[f]
    BY <1>10 DEF CompleteRun, Goto, TypeOK
  <2>2. \A f \in Executions \ {e} : status[f] # "running"
    BY <1>10 DEF CompleteRun, MayWrite, OneRequestAtATime, Active
  <2>3. \A i \in Inputs : Logged("input.received", i)' => Logged("input.queued", i)'
    <3>1. log' = log \o <<Event("message.completed", NoRef), Event("run.completed", NoRef)>>
      BY <1>10 DEF CompleteRun
    <3> QED BY <3>1, CompletedLog DEF GuidanceWaits
  <2> QED BY <2>1, <2>2, <2>3 DEF GuidanceWaits
<1>11. CASE FailExecution(e) \/ ReconcileExpired(e)
  <2>1. run = "running"
    BY <1>11 DEF FailExecution, ReconcileExpired, OneRequestAtATime, Active
  <2>2. run' = "failed" /\ log' = Append(log, Event("run.failed", NoRef))
    BY <1>11, <2>1 DEF FailExecution, ReconcileExpired, FailRun, Terminal
  <2>3. \A f \in Executions :
            worker'[f] = "continuing" /\ status'[f] = "running" =>
                worker[f] = "continuing" /\ status[f] = "running"
    BY <1>11 DEF FailExecution, ReconcileExpired, Goto, TypeOK
  <2> QED BY <2>2, <2>3, GuidanceKept, WaitsKept DEF GuidanceWaits
<1> QED BY <1>1, <1>2, <1>3, <1>4, <1>5, <1>6, <1>7, <1>8, <1>9, <1>10, <1>11, <1>12
        DEF System, WorkerStep

LEMMA NextWaits == RunInv /\ GuidanceWaits /\ [Next]_vars => GuidanceWaits'
<1>1. GuidanceWaits /\ UNCHANGED vars => GuidanceWaits'
  BY GuidanceSame DEF vars, GuidanceWaits, Working
<1> QED BY <1>1, ClientWaits, SystemWaits DEF Next

-----------------------------------------------------------------------------
(* Step simulation *)

LEMMA InitSimulated == Init => Lifecycle!LifecycleInit
<1> SUFFICES ASSUME Init PROVE Lifecycle!LifecycleInit
  OBVIOUS
<1>1. \A i \in Inputs : ~Logged("input.received", i) /\ ~Logged("input.queued", i)
  BY DEF Init, Logged
<1> QED BY <1>1 DEF Init, Lifecycle!LifecycleInit, Phase, Guidance

LEMMA PhaseRead ==
    /\ run = "none" => Phase = "absent"
    /\ run = "waiting_tool" => Phase = "tools"
    /\ run = "running" /\ Working => Phase = "thinking"
    /\ run = "running" /\ ~Working => Phase = "paused"
    /\ run \in Terminal => Phase = run
  BY DEF Phase, Working, Terminal

LEMMA PhaseKept == ASSUME run' = run, Working' = Working PROVE Phase' = Phase
  BY DEF Phase, Working

LEMMA ClientSimulated ==
    ASSUME RunInv, GuidanceWaits, Client
    PROVE  Lifecycle!LifecycleNext
<1> USE DEF RunInv
<1>1. ASSUME NEW k, NEW frames, Submit(k, frames) PROVE Working'
  <2>1. last + 1 \in Executions
    BY <1>1, BoundsAssumption DEF Submit, TypeOK, Executions
  <2>2. status'[last + 1] = "queued"
    BY <1>1, <2>1 DEF Submit, TypeOK
  <2> QED BY <2>1, <2>2 DEF Working, Active
<1>2. CASE StartExecution
  <2>1. Phase = "absent" /\ Phase' = "thinking"
    BY <1>1, <1>2 DEF StartExecution, Phase, Working
  <2>2. Guidance' = Guidance
    BY <1>2, GuidanceKept DEF StartExecution
  <2> QED BY <2>1, <2>2 DEF Lifecycle!LifecycleNext, Lifecycle!Start, Lifecycle!Become
<1>3. ASSUME NEW b \in Batches, ResumeExecution(b) PROVE Lifecycle!LifecycleNext
  <2>1. Phase = "tools" /\ Phase' = "thinking"
    BY <1>1, <1>3 DEF ResumeExecution, Phase, Working
  <2>2. Guidance' = Guidance
    BY <1>3, GuidanceKept DEF ResumeExecution
  <2> QED BY <2>1, <2>2 DEF Lifecycle!LifecycleNext, Lifecycle!UseTools, Lifecycle!Become
<1>4. ASSUME NEW e \in Executions, ContinueExecution(e) PROVE Lifecycle!LifecycleNext
  <2>1. ~Working
    BY <1>4 DEF ContinueExecution, Working, OneRequestAtATime, Active
  <2>2. Phase = "paused" /\ Phase' = "thinking"
    BY <1>1, <1>4, <2>1 DEF ContinueExecution, Phase, Working, runVars
  <2>3. Guidance' = Guidance
    BY <1>4, GuidanceSame DEF ContinueExecution, runVars
  <2>4. Lifecycle!Waiting # {}
    BY <1>4, <2>1, WaitingIsPending DEF ContinueExecution, GuidanceWaits
  <2> QED BY <2>2, <2>3, <2>4 DEF Lifecycle!LifecycleNext, Lifecycle!Continue, Lifecycle!Become
<1>5. ASSUME NEW i \in Inputs, QueueInput(i) PROVE Lifecycle!LifecycleNext
  <2>1. Phase' = Phase
    BY <1>5 DEF QueueInput, execVars, Phase
  <2>2. Phase \in Lifecycle!Ongoing
    BY <1>5 DEF QueueInput, Live, Phase, Lifecycle!Ongoing
  <2>3. \A j \in Inputs : /\ Logged("input.queued", j)' <=> Logged("input.queued", j) \/ j = i
                          /\ Logged("input.received", j)' <=> Logged("input.received", j)
    BY <1>5, LoggedAppend DEF QueueInput
  <2>4. ~Logged("input.queued", i) /\ ~Logged("input.received", i)
    BY <1>5 DEF QueueInput, GuidanceWaits
  <2>5. Guidance[i] = "none" /\ Guidance' = [Guidance EXCEPT ![i] = "pending"]
    BY <2>3, <2>4 DEF Guidance
  <2> QED BY <2>1, <2>2, <2>5 DEF Lifecycle!LifecycleNext, Lifecycle!Guide
<1>6. ASSUME NEW partial \in Cancels, CancelRun(partial) PROVE Lifecycle!LifecycleNext
  <2>1. Phase \in Lifecycle!Ongoing /\ Phase' = "cancelled"
    BY <1>6 DEF CancelRun, Live, Phase, Lifecycle!Ongoing
  <2>2. Guidance' = Guidance
    BY <1>6, GuidanceKept DEF CancelRun
  <2> QED BY <2>1, <2>2 DEF Lifecycle!LifecycleNext, Lifecycle!Cancel, Lifecycle!Become
<1> QED BY <1>2, <1>3, <1>4, <1>5, <1>6 DEF Client

LEMMA SystemSimulated ==
    ASSUME RunInv, GuidanceWaits, NEW e \in Executions, System(e)
    PROVE  Lifecycle!LifecycleNext \/ UNCHANGED <<Phase, Guidance>>
<1> USE DEF RunInv
<1>1. ASSUME status[e] = "running" PROVE run = "running" /\ Working /\ Phase = "thinking"
  BY <1>1, PhaseRead DEF OneRequestAtATime, Working, Active
<1>2. ASSUME status[e] = "running", NEW s \in Terminal, status' = [status EXCEPT ![e] = s]
      PROVE  ~Working'
  BY <1>2 DEF OneRequestAtATime, Working, Active, Terminal, TypeOK
<1>3. CASE ReceiveInputs(e)
  <2>1. status[e] = "running"
    BY <1>3 DEF ReceiveInputs, At, WorkersCurrent, Busy
  <2>2. Phase = "thinking" /\ Phase' = Phase
    BY <1>1, <1>3, <2>1, PhaseKept DEF ReceiveInputs, Working
  <2>3. PICK s \in PendingInOrder :
            log' = log \o [k \in DOMAIN s |-> Event("input.received", s[k])]
    BY <1>3 DEF ReceiveInputs
  <2>4. \A i \in Inputs :
             /\ Logged("input.queued", i)' <=> Logged("input.queued", i)
             /\ Logged("input.received", i)' <=> Logged("input.received", i) \/ i \in PendingInputs
    BY <2>3, ReceivedLog
  <2>5. Guidance' = [i \in Inputs |-> IF i \in Lifecycle!Waiting THEN "received" ELSE Guidance[i]]
    BY <2>4, WaitingIsPending DEF Guidance
  <2> QED BY <2>2, <2>5 DEF Lifecycle!LifecycleNext, Lifecycle!Hear
<1>4. ASSUME NEW b \in Batches, RequestTools(e, b) PROVE Lifecycle!LifecycleNext
  <2>1. Phase = "thinking" /\ Phase' = "tools"
    BY <1>1, <1>4 DEF RequestTools, MayWrite, Phase
  <2>2. Guidance' = Guidance
    BY <1>4, GuidanceKept DEF RequestTools
  <2> QED BY <2>1, <2>2 DEF Lifecycle!LifecycleNext, Lifecycle!AskTools, Lifecycle!Become
<1>5. CASE CompleteRun(e)
  <2>1. Phase = "thinking" /\ Phase' = "completed"
    BY <1>1, <1>5 DEF CompleteRun, MayWrite, Phase
  <2>2. Guidance' = Guidance
    BY <1>5, CompletedLog DEF CompleteRun
  <2>3. Lifecycle!Waiting = {}
    BY <1>5, WaitingIsPending DEF CompleteRun
  <2> QED BY <2>1, <2>2, <2>3 DEF Lifecycle!LifecycleNext, Lifecycle!Answer, Lifecycle!Become
<1>6. CASE FinishContinuing(e)
  <2>1. Settled(run) \in Terminal
    BY DEF Settled, Terminal
  <2>2. run = "running" /\ run' = "running" /\ log' = log /\ ~Working' /\ Phase = "thinking"
    BY <1>1, <1>2, <1>6, <2>1 DEF FinishContinuing, runVars
  <2>3. Phase' = "paused"
    BY <2>2 DEF Phase, Working
  <2>4. Lifecycle!Waiting # {}
    BY <1>6, WaitingIsPending DEF FinishContinuing, At, GuidanceWaits
  <2> QED BY <2>2, <2>3, <2>4, GuidanceSame
          DEF Lifecycle!LifecycleNext, Lifecycle!Pause, Lifecycle!Become
<1>7. CASE FailExecution(e) \/ ReconcileExpired(e)
  <2>1. run = "running" /\ Phase = "thinking"
    BY <1>1, <1>7 DEF FailExecution, ReconcileExpired
  <2>2. run' = "failed" /\ log' = Append(log, Event("run.failed", NoRef))
    BY <1>7, <2>1 DEF FailExecution, ReconcileExpired, FailRun, Terminal
  <2>3. Phase' = "failed" /\ Guidance' = Guidance
    BY <2>2, GuidanceKept DEF Phase
  <2> QED BY <2>1, <2>3 DEF Lifecycle!LifecycleNext, Lifecycle!Fail, Lifecycle!Become
<1>8. CASE Claim(e)
  <2>1. Working /\ Working' /\ run' = run /\ log' = log
    BY <1>8 DEF Claim, Working, Active, TypeOK, runVars
  <2> QED BY <2>1, GuidanceSame, PhaseKept
<1>9. CASE FindRunEnded(e)
  <2>1. run \in Terminal /\ run' = run /\ log' = log
    BY <1>9 DEF FindRunEnded, runVars
  <2>2. Phase' = Phase
    BY <2>1 DEF Phase, Terminal
  <2> QED BY <2>1, <2>2, GuidanceSame
<1>10. CASE CompactContext(e) \/ PrepareContext(e) \/ RecordUsage(e) \/ UpdatePlan(e)
  <2>1. \E t \in EventTypes \ {"input.queued", "input.received"} : log' = Append(log, Event(t, NoRef))
    BY <1>10 DEF CompactContext, PrepareContext, RecordUsage, UpdatePlan, EventTypes
  <2>2. run' = run /\ status' = status
    BY <1>10 DEF CompactContext, PrepareContext, RecordUsage, UpdatePlan, execVars
  <2> QED BY <2>1, <2>2, GuidanceKept, PhaseKept DEF Working
<1>11. CASE \/ DropMessage(e) \/ Redispatch(e) \/ ExpireLease(e) \/ AbandonExecution(e)
            \/ CrashWorker(e) \/ WriteDelta(e) \/ YieldToGuidance(e)
  <2>1. run' = run /\ status' = status /\ log' = log
    BY <1>11 DEF DropMessage, Redispatch, ExpireLease, AbandonExecution, CrashWorker, WriteDelta,
                 YieldToGuidance, runVars, execVars
  <2> QED BY <2>1, GuidanceSame, PhaseKept DEF Working
<1> QED BY <1>3, <1>4, <1>5, <1>6, <1>7, <1>8, <1>9, <1>10, <1>11 DEF System, WorkerStep

LEMMA NextSimulated ==
    RunInv /\ GuidanceWaits /\ [Next]_vars =>
        [Lifecycle!LifecycleNext]_(Lifecycle!lifecycleVars)
<1>1. UNCHANGED vars => UNCHANGED <<Phase, Guidance>>
  BY GuidanceSame, PhaseKept DEF vars, Working
<1> QED BY <1>1, ClientSimulated, SystemSimulated DEF Next, Lifecycle!lifecycleVars

\* An agent run is what RunLifecycle says a run is.
THEOREM Refinement == Spec => ImplementsLifecycle
<1> QED BY InitRunInv, NextRunInv, InitWaits, NextWaits, InitSimulated, NextSimulated, PTL
        DEF Spec, ImplementsLifecycle, Lifecycle!LifecycleSpec

-----------------------------------------------------------------------------
(* No guidance is answered past *)

LEMMA NextHeard == RunInv /\ GuidanceHeard /\ [Next]_vars => GuidanceHeard'
<1> SUFFICES ASSUME RunInv, GuidanceHeard, [Next]_vars, run' = "completed"
             PROVE  PendingInputs' = {}
  BY DEF GuidanceHeard
<1>1. CASE run = "completed"
  <2>1. Fenced
    BY <1>1, EndedFenced DEF Terminal
  <2>2. PendingInputs = {}
    BY <1>1 DEF GuidanceHeard
  <2>3. CASE log' = log
    BY <2>2, <2>3, GuidanceSame
  <2>4. ASSUME NEW t \in {"context.compacted", "context.prepared"},
               log' = Append(log, Event(t, NoRef))
        PROVE  PendingInputs' = {}
    BY <2>2, <2>4, GuidanceKept DEF RunInv
  <2> QED BY <2>1, <2>3, <2>4 DEF Fenced
<1>2. ASSUME NEW e \in Executions, CompleteRun(e) PROVE PendingInputs' = {}
  BY <1>2, CompletedLog DEF CompleteRun, RunInv
<1>3. ASSUME run # "completed" PROVE \E e \in Executions : CompleteRun(e)
  <2>1. ~Client
    BY <1>3 DEF Client, StartExecution, ResumeExecution, ContinueExecution, QueueInput, CancelRun,
                runVars
  <2> QED
    BY <1>3, <2>1
    DEF Next, System, WorkerStep, Claim, DropMessage, FindRunEnded, ReceiveInputs, CompactContext,
        PrepareContext, WriteDelta, RecordUsage, UpdatePlan, RequestTools, YieldToGuidance,
        FinishContinuing, FailExecution, FailRun, AbandonExecution, CrashWorker, ExpireLease,
        ReconcileExpired, Redispatch, runVars, vars
<1> QED BY <1>1, <1>2, <1>3

\* A run completes only when every input it accepted has been received.
THEOREM Heard == Spec => []GuidanceHeard
<1>1. Init => GuidanceHeard
  BY DEF Init, GuidanceHeard
<1> QED BY InitRunInv, NextRunInv, NextHeard, <1>1, PTL DEF Spec

-----------------------------------------------------------------------------
(* What the rows of an agent run tell whoever reads them later: its event   *)
(* log, its messages, its tool batches and the frames of its executions,    *)
(* for any number of each.                                                  *)

-----------------------------------------------------------------------------
(* What a step adds to the log *)

\* The log is only ever added to.
LogGrows == \A k \in DOMAIN log : k \in DOMAIN log' /\ log'[k] = log[k]

Newer == DOMAIN log' \ DOMAIN log

LEMMA GrowsByOne ==
    ASSUME TypeOK, NEW t, NEW r, log' = Append(log, Event(t, r))
    PROVE  /\ LogGrows
           /\ Newer = {Len(log) + 1}
           /\ log'[Len(log) + 1] = Event(t, r)
           /\ \A k \in DOMAIN log : k \in Nat /\ k <= Len(log)
           /\ Len(log) \in Nat
  BY DEF TypeOK, LogGrows, Newer

LEMMA GrowsByTwo ==
    ASSUME TypeOK, NEW t, NEW u, log' = log \o <<Event(t, NoRef), Event(u, NoRef)>>
    PROVE  /\ LogGrows
           /\ Newer = {Len(log) + 1, Len(log) + 2}
           /\ log'[Len(log) + 1] = Event(t, NoRef)
           /\ log'[Len(log) + 2] = Event(u, NoRef)
           /\ \A k \in DOMAIN log : k \in Nat /\ k <= Len(log)
           /\ Len(log) \in Nat
  BY DEF TypeOK, LogGrows, Newer

LEMMA GrowsByReceived ==
    ASSUME TypeOK, NEW s \in PendingInOrder,
           log' = log \o [k \in DOMAIN s |-> Event("input.received", s[k])]
    PROVE  /\ LogGrows
           /\ Newer = {Len(log) + m : m \in 1 .. Cardinality(PendingInputs)}
           /\ \A m \in 1 .. Cardinality(PendingInputs) :
                  log'[Len(log) + m] = Event("input.received", s[m])
           /\ \A k \in DOMAIN log : k \in Nat /\ k <= Len(log)
           /\ Len(log) \in Nat /\ Cardinality(PendingInputs) \in Nat
           /\ DOMAIN s = 1 .. Cardinality(PendingInputs)
<1> DEFINE n == Cardinality(PendingInputs)
           t == [k \in DOMAIN s |-> Event("input.received", s[k])]
<1>1. DOMAIN s = 1 .. n /\ n \in Nat
  BY PendingTyped
<1>2. t \in Seq(Events) /\ DOMAIN t = 1 .. n
  BY <1>1, ReceivedTyped
<1>3. \A m \in 1 .. n : t[m] = Event("input.received", s[m])
  BY <1>1
<1> HIDE DEF t
<1>4. Len(t) = n
  BY <1>1, <1>2, LenProperties
<1>5. log' = log \o t
  BY DEF t
<1>6. /\ DOMAIN log' = 1 .. Len(log) + n
      /\ DOMAIN log = 1 .. Len(log) /\ Len(log) \in Nat
      /\ \A k \in 1 .. Len(log) : log'[k] = log[k]
      /\ \A k \in 1 .. n : log'[Len(log) + k] = t[k]
  BY <1>1, <1>2, <1>4, <1>5, ConcatProperties DEF TypeOK
<1>7. LogGrows
  BY <1>1, <1>6 DEF LogGrows
<1>8. Newer = {Len(log) + m : m \in 1 .. n}
  <2>1. ASSUME NEW k \in Newer PROVE \E m \in 1 .. n : k = Len(log) + m
    <3>1. k - Len(log) \in 1 .. n /\ k = Len(log) + (k - Len(log))
      BY <1>1, <1>6, <2>1 DEF Newer
    <3> QED BY <3>1
  <2>2. ASSUME NEW m \in 1 .. n PROVE Len(log) + m \in Newer
    BY <1>1, <1>6, <2>2 DEF Newer
  <2> QED BY <2>1, <2>2
<1> QED BY <1>1, <1>3, <1>6, <1>7, <1>8

LEMMA EventRead == \A t, r : Event(t, r).type = t /\ Event(t, r).ref = r
  BY DEF Event

\* The events of context preparation and of a model's output.
Quiet == {"context.compacted", "context.prepared", "context.usage", "task.plan.updated"}

Silent == UNCHANGED runVars
Noted  == /\ run # "none" /\ UNCHANGED <<run, messages>>
          /\ \E t \in Quiet : log' = Append(log, Event(t, NoRef))
Failed == /\ run = "running" /\ run' = "failed" /\ messages' = messages
          /\ log' = Append(log, Event("run.failed", NoRef))

\* The steps that matter to the rows of the run.
HistoryStep ==
    \/ Silent \/ Noted \/ Failed \/ StartExecution
    \/ \E b \in Batches : ResumeExecution(b)
    \/ \E i \in Inputs : QueueInput(i)
    \/ \E partial \in Cancels : CancelRun(partial)
    \/ \E e \in Executions : ReceiveInputs(e) /\ run = "running"
    \/ \E e \in Executions, b \in Batches : RequestTools(e, b)
    \/ \E e \in Executions : CompleteRun(e)

LEMMA NextHistory == RunInv /\ [Next]_vars => HistoryStep
<1> SUFFICES ASSUME RunInv, [Next]_vars PROVE HistoryStep
  OBVIOUS
<1> USE DEF RunInv
<1>1. CASE UNCHANGED vars
  BY <1>1 DEF vars, runVars, Silent, HistoryStep
<1>2. CASE Client
  BY <1>2 DEF Client, ContinueExecution, Silent, HistoryStep
<1>3. ASSUME NEW e \in Executions, System(e) PROVE HistoryStep
  <2>1. worker[e] \in Busy => run # "none"
    BY DEF Allocated, Busy, Executions
  <2>2. CASE CompactContext(e) \/ PrepareContext(e) \/ RecordUsage(e) \/ UpdatePlan(e)
    <3>1. run # "none" /\ UNCHANGED <<run, messages>>
      BY <2>1, <2>2 DEF CompactContext, PrepareContext, RecordUsage, UpdatePlan, At, Busy
    <3>2. \E t \in Quiet : log' = Append(log, Event(t, NoRef))
      BY <2>2 DEF CompactContext, PrepareContext, RecordUsage, UpdatePlan, Quiet
    <3> QED BY <3>1, <3>2 DEF Noted, HistoryStep
  <2>3. CASE FailExecution(e) \/ ReconcileExpired(e)
    <3>1. run = "running"
      BY <2>3 DEF FailExecution, ReconcileExpired, OneRequestAtATime, Active
    <3> QED BY <2>3, <3>1 DEF FailExecution, ReconcileExpired, FailRun, Terminal, Failed, HistoryStep
  <2>4. CASE ReceiveInputs(e)
    <3>1. run = "running"
      BY <2>4 DEF ReceiveInputs, At, WorkersCurrent, OneRequestAtATime, Busy, Active
    <3> QED BY <2>4, <3>1 DEF HistoryStep
  <2>5. CASE (\E b \in Batches : RequestTools(e, b)) \/ CompleteRun(e)
    BY <2>5 DEF HistoryStep
  <2>6. CASE \/ Claim(e) \/ DropMessage(e) \/ FindRunEnded(e) \/ WriteDelta(e) \/ YieldToGuidance(e)
             \/ FinishContinuing(e) \/ AbandonExecution(e) \/ CrashWorker(e) \/ ExpireLease(e)
             \/ Redispatch(e)
    BY <2>6 DEF Claim, DropMessage, FindRunEnded, WriteDelta, YieldToGuidance, FinishContinuing,
                AbandonExecution, CrashWorker, ExpireLease, Redispatch, Silent, HistoryStep
  <2> QED BY <1>3, <2>2, <2>3, <2>4, <2>5, <2>6 DEF System, WorkerStep
<1> QED BY <1>1, <1>2, <1>3 DEF Next

-----------------------------------------------------------------------------
(* One outcome *)

\* The ending in the log is the one the run had.
Endings ==
    /\ \A j, k \in DOMAIN log :
           log[j].type \in TerminalEvents /\ log[k].type \in TerminalEvents => j = k
    /\ \A k \in DOMAIN log : log[k].type \in TerminalEvents => run = Ended(log[k].type)
    /\ run \in Terminal => \E k \in DOMAIN log : log[k].type \in TerminalEvents

\* The answer is stored with the completion, and none before it.
OneAnswer ==
    /\ run # "completed" => \A k \in DOMAIN messages : messages[k] # "answer"
    /\ run = "completed" =>
           \E a \in DOMAIN messages : \A k \in DOMAIN messages : messages[k] = "answer" <=> k = a

LEMMA EndedTerminal == \A t \in TerminalEvents : Ended(t) \in Terminal
  BY DEF TerminalEvents, Ended, Terminal

\* Nothing that ends a run is added, and the run's own ending is what it was.
LEMMA EndingsKept ==
    ASSUME Endings, LogGrows, \A k \in Newer : log'[k].type \notin TerminalEvents,
           run' = run \/ (run \notin Terminal /\ run' \notin Terminal)
    PROVE  Endings'
<1>1. \A k \in DOMAIN log' : log'[k].type \in TerminalEvents => k \in DOMAIN log /\ log'[k] = log[k]
  BY DEF LogGrows, Newer
<1>2. run' # run => \A k \in DOMAIN log : log[k].type \notin TerminalEvents
  BY EndedTerminal DEF Endings
<1> QED BY <1>1, <1>2 DEF Endings, LogGrows

\* A run without an ending gets one.
LEMMA EndingsAdded ==
    ASSUME Endings, LogGrows, run \notin Terminal, NEW n \in Newer,
           log'[n].type \in TerminalEvents, run' = Ended(log'[n].type),
           \A k \in Newer \ {n} : log'[k].type \notin TerminalEvents
    PROVE  Endings'
<1>1. \A k \in DOMAIN log : log[k].type \notin TerminalEvents
  BY EndedTerminal DEF Endings
<1>2. \A k \in DOMAIN log' : log'[k].type \in TerminalEvents => k = n
  BY <1>1 DEF LogGrows, Newer
<1>3. n \in DOMAIN log'
  BY DEF Newer
<1> QED BY <1>2, <1>3 DEF Endings

LEMMA StepEndings == ASSUME TypeOK, Endings, HistoryStep PROVE Endings'
<1>1. CASE Silent
  BY <1>1 DEF Silent, runVars, Endings
<1>2. ASSUME NEW t, NEW r, log' = Append(log, Event(t, r)), t \notin TerminalEvents,
             run' = run \/ (run \notin Terminal /\ run' \notin Terminal)
      PROVE  Endings'
  BY <1>2, GrowsByOne, EndingsKept DEF Event
<1>3. ASSUME NEW t \in TerminalEvents, log' = Append(log, Event(t, NoRef)), run \notin Terminal,
             run' = Ended(t)
      PROVE  Endings'
  <2>1. Event(t, NoRef).type = t
    BY DEF Event
  <2> QED BY <1>3, <2>1, GrowsByOne, EndingsAdded
<1>4. CASE Noted
  BY <1>2, <1>4 DEF Noted, Quiet, TerminalEvents
<1>5. CASE Failed
  <2>1. "run.failed" \in TerminalEvents /\ Ended("run.failed") = "failed"
    BY DEF TerminalEvents, Ended
  <2> QED BY <1>3, <1>5, <2>1 DEF Failed, Terminal
<1>6. CASE StartExecution
  BY <1>2, <1>6 DEF StartExecution, TerminalEvents, Terminal
<1>7. ASSUME NEW b \in Batches, ResumeExecution(b) PROVE Endings'
  BY <1>2, <1>7 DEF ResumeExecution, TerminalEvents, Terminal
<1>8. ASSUME NEW i \in Inputs, QueueInput(i) PROVE Endings'
  BY <1>2, <1>8 DEF QueueInput, TerminalEvents
<1>9. ASSUME NEW partial \in Cancels, CancelRun(partial) PROVE Endings'
  <2>1. "run.cancelled" \in TerminalEvents /\ Ended("run.cancelled") = "cancelled"
    BY DEF TerminalEvents, Ended
  <2> QED BY <1>3, <1>9, <2>1 DEF CancelRun, Live, Terminal
<1>10. ASSUME NEW e \in Executions, ReceiveInputs(e) PROVE Endings'
  <2>1. PICK s \in PendingInOrder :
            log' = log \o [k \in DOMAIN s |-> Event("input.received", s[k])]
    BY <1>10 DEF ReceiveInputs
  <2>2. LogGrows /\ \A k \in Newer : log'[k].type = "input.received"
    BY SMTT(60), <2>1, GrowsByReceived DEF Event
  <2> QED BY <1>10, <2>2, EndingsKept DEF ReceiveInputs, TerminalEvents
<1>11. ASSUME NEW e \in Executions, NEW b \in Batches, RequestTools(e, b) PROVE Endings'
  BY <1>2, <1>11 DEF RequestTools, TerminalEvents, Terminal
<1>12. ASSUME NEW e \in Executions, CompleteRun(e) PROVE Endings'
  <2>1. log' = log \o <<Event("message.completed", NoRef), Event("run.completed", NoRef)>>
    BY <1>12 DEF CompleteRun
  <2>2. /\ LogGrows /\ Newer = {Len(log) + 1, Len(log) + 2}
        /\ log'[Len(log) + 1].type = "message.completed"
        /\ log'[Len(log) + 2].type = "run.completed"
    BY <2>1, GrowsByTwo DEF Event
  <2>3. /\ "run.completed" \in TerminalEvents /\ Ended("run.completed") = "completed"
        /\ "message.completed" \notin TerminalEvents
    BY DEF TerminalEvents, Ended
  <2>4. run = "running" /\ run' = "completed" /\ run \notin Terminal
    BY <1>12 DEF CompleteRun, Terminal
  <2> QED BY <2>2, <2>3, <2>4, EndingsAdded
<1> QED BY <1>1, <1>4, <1>5, <1>6, <1>7, <1>8, <1>9, <1>10, <1>11, <1>12 DEF HistoryStep

LEMMA StepAnswer == ASSUME TypeOK, OneAnswer, HistoryStep PROVE OneAnswer'
<1>1. ASSUME messages' = messages, run' = "completed" <=> run = "completed" PROVE OneAnswer'
  BY <1>1 DEF OneAnswer
<1>2. CASE \/ Silent \/ Noted \/ Failed \/ StartExecution
           \/ \E b \in Batches : ResumeExecution(b)
           \/ \E i \in Inputs : QueueInput(i)
           \/ \E e \in Executions, b \in Batches : RequestTools(e, b)
  BY <1>1, <1>2 DEF Silent, Noted, Failed, StartExecution, ResumeExecution, QueueInput, RequestTools,
                    runVars
<1>3. ASSUME NEW partial \in Cancels, CancelRun(partial) PROVE OneAnswer'
  <2>1. run # "completed" /\ run' = "cancelled"
    BY <1>3 DEF CancelRun, Live
  <2>2. messages' = messages \/ messages' = Append(messages, "partial")
    BY <1>3 DEF CancelRun
  <2>3. ASSUME messages' = Append(messages, "partial")
        PROVE  \A k \in DOMAIN messages' :
                   (k \in DOMAIN messages /\ messages'[k] = messages[k]) \/ messages'[k] = "partial"
    BY <2>3 DEF TypeOK
  <2> QED BY <2>1, <2>2, <2>3 DEF OneAnswer
<1>4. ASSUME NEW e \in Executions, ReceiveInputs(e), run = "running" PROVE OneAnswer'
  <2>1. PICK s \in PendingInOrder : messages' = messages \o [k \in DOMAIN s |-> "user"]
    BY <1>4 DEF ReceiveInputs
  <2> DEFINE t == [k \in DOMAIN s |-> "user"]
  <2>2. t \in Seq({"user", "answer", "partial"}) /\ \A k \in DOMAIN t : t[k] = "user"
    BY ReceivedTyped
  <2> HIDE DEF t
  <2>3. \A k \in DOMAIN (messages \o t) :
            \/ k \in DOMAIN messages /\ (messages \o t)[k] = messages[k]
            \/ (messages \o t)[k] = "user"
    <3> SUFFICES ASSUME NEW k \in DOMAIN (messages \o t)
                 PROVE  \/ k \in DOMAIN messages /\ (messages \o t)[k] = messages[k]
                        \/ (messages \o t)[k] = "user"
      OBVIOUS
    <3>1. CASE k <= Len(messages)
      BY <2>2, <3>1 DEF TypeOK
    <3>2. CASE k > Len(messages)
      <4>1. k - Len(messages) \in DOMAIN t /\ (messages \o t)[k] = t[k - Len(messages)]
        BY <2>2, <3>2 DEF TypeOK
      <4> QED BY <2>2, <4>1
    <3> QED BY <2>2, <3>1, <3>2 DEF TypeOK
  <2>4. messages' = messages \o t /\ run' = "running"
    BY <1>4, <2>1 DEF ReceiveInputs, t
  <2> QED BY <1>4, <2>3, <2>4 DEF OneAnswer
<1>5. ASSUME NEW e \in Executions, CompleteRun(e) PROVE OneAnswer'
  <2>1. run # "completed" /\ run' = "completed" /\ messages' = Append(messages, "answer")
    BY <1>5 DEF CompleteRun
  <2>2. /\ DOMAIN messages' = 1 .. Len(messages) + 1 /\ DOMAIN messages = 1 .. Len(messages)
        /\ Len(messages) \in Nat
        /\ messages'[Len(messages) + 1] = "answer"
        /\ \A k \in DOMAIN messages : messages'[k] = messages[k] /\ messages[k] # "answer"
    BY <2>1 DEF OneAnswer, TypeOK
  <2>3. Len(messages) + 1 \in DOMAIN messages'
    BY <2>2
  <2>4. \A k \in DOMAIN messages' : messages'[k] = "answer" <=> k = Len(messages) + 1
    BY <2>2
  <2> QED BY <2>1, <2>3, <2>4 DEF OneAnswer
<1> QED BY <1>2, <1>3, <1>4, <1>5 DEF HistoryStep

LEMMA OutcomeRead == Endings /\ OneAnswer => OneOutcome
<1> SUFFICES ASSUME Endings, OneAnswer PROVE OneOutcome
  OBVIOUS
<1> DEFINE answers == {k \in DOMAIN messages : messages[k] = "answer"}
<1>1. run # "completed" => answers = {}
  BY DEF OneAnswer
<1>2. run = "completed" => \E a \in DOMAIN messages : answers = {a}
  BY DEF OneAnswer
<1>3. Cardinality(answers) = IF run = "completed" THEN 1 ELSE 0
  BY <1>1, <1>2, FS_EmptySet, FS_Singleton
<1> QED BY <1>3 DEF Endings, OneOutcome

\* Whoever ends a run, worker, client or Beat, it ends once: the log tells one
\* ending, the run's own, and the answer is stored exactly when it completed.
THEOREM OutcomeOnce == Spec => []OneOutcome
<1>1. Init => Endings /\ OneAnswer
  BY DEF Init, Endings, OneAnswer, Terminal
<1>2. RunInv => TypeOK
  BY DEF RunInv
<1> QED BY InitRunInv, NextRunInv, NextHistory, StepEndings, StepAnswer, OutcomeRead,
           <1>1, <1>2, PTL DEF Spec

-----------------------------------------------------------------------------
(* The tool batches *)

ToolEvents == {"tool.requested", "tool.output"}

\* ToolBatches, batch by batch: asked for, answered, open.
OneOutput(b) ==
    \A j, k \in DOMAIN log :
        log[j] = Event("tool.output", b) /\ log[k] = Event("tool.output", b) => j = k

BatchesOpen ==
    \A b \in Batches :
        /\ OneOutput(b)
        /\ Logged("tool.output", b) => Logged("tool.requested", b)
        /\ run = "waiting_tool" =>
               (LatestBatch(b) <=> Logged("tool.requested", b) /\ ~Logged("tool.output", b))
        /\ run \in {"running", "completed"} =>
               (Logged("tool.requested", b) <=> Logged("tool.output", b))

LEMMA BatchesRead == BatchesOpen <=> ToolBatches
<1> DEFINE asked(b) == Logged("tool.requested", b)
           given(b) == Logged("tool.output", b)
<1>1. ASSUME NEW b \in Batches
      PROVE  /\ FreshBatch(b) = given(b) <=> (~asked(b) <=> given(b))
             /\ FreshBatch(b) = ~given(b) <=> (asked(b) <=> given(b))
  <2>1. asked(b) \in BOOLEAN /\ given(b) \in BOOLEAN
    BY DEF Logged
  <2> QED BY <2>1, Zenon DEF FreshBatch
<1> QED BY <1>1 DEF BatchesOpen, ToolBatches, OneOutput

\* A run that does not exist has told nothing yet.
ToolInv == BatchesOpen /\ (run = "none" => log = <<>>)

\* Nothing about tools is added.
LEMMA ToolsKept ==
    ASSUME BatchesOpen, LogGrows, \A k \in Newer : log'[k].type \notin ToolEvents,
           \/ run' = run
           \/ run' \in {"failed", "cancelled"}
           \/ run = "running" /\ run' = "completed"
    PROVE  BatchesOpen'
<1>1. ASSUME NEW t \in ToolEvents, NEW r, NEW k
      PROVE  k \in DOMAIN log' /\ log'[k] = Event(t, r) <=> k \in DOMAIN log /\ log[k] = Event(t, r)
  <2>1. Event(t, r).type = t
    BY DEF Event
  <2> QED BY <1>1, <2>1 DEF LogGrows, Newer
<1>2. ASSUME NEW k
      PROVE  k \in DOMAIN log' /\ log'[k].type = "tool.requested"
                 <=> k \in DOMAIN log /\ log[k].type = "tool.requested"
  BY DEF LogGrows, Newer, ToolEvents
<1>3. ASSUME NEW b \in Batches
      PROVE  /\ Logged("tool.output", b)' <=> Logged("tool.output", b)
             /\ Logged("tool.requested", b)' <=> Logged("tool.requested", b)
             /\ LatestBatch(b)' <=> LatestBatch(b)
  BY <1>1, <1>2 DEF Logged, LatestBatch, ToolEvents
<1> QED BY <1>1, <1>3 DEF BatchesOpen, OneOutput, ToolEvents

LEMMA ToolsRequested ==
    ASSUME TypeOK, BatchesOpen, NEW b \in Batches, FreshBatch(b), run = "running",
           log' = Append(log, Event("tool.requested", b)), run' = "waiting_tool"
    PROVE  BatchesOpen'
<1>1. /\ LogGrows /\ Newer = {Len(log) + 1} /\ log'[Len(log) + 1] = Event("tool.requested", b)
      /\ \A k \in DOMAIN log : k \in Nat /\ k <= Len(log)
      /\ Len(log) \in Nat
  BY GrowsByOne
<1>2. /\ Event("tool.requested", b).type = "tool.requested"
      /\ \A c : Event("tool.requested", b) # Event("tool.output", c)
      /\ \A c : Event("tool.requested", b) = Event("tool.requested", c) <=> b = c
  BY DEF Event
<1>3. \A k \in DOMAIN log' : k \in DOMAIN log \/ k = Len(log) + 1
  BY <1>1 DEF Newer
<1>4. Len(log) + 1 \in DOMAIN log'
  BY <1>1 DEF Newer
<1>5. ASSUME NEW c \in Batches
      PROVE  /\ \A k : k \in DOMAIN log' /\ log'[k] = Event("tool.output", c)
                           <=> k \in DOMAIN log /\ log[k] = Event("tool.output", c)
             /\ Logged("tool.output", c)' <=> Logged("tool.output", c)
             /\ Logged("tool.requested", c)' <=> Logged("tool.requested", c) \/ c = b
  BY <1>1, <1>2, <1>3, <1>4 DEF Logged, LogGrows
<1>6. ASSUME NEW c \in Batches PROVE LatestBatch(c)' <=> c = b
  <2>1. LatestBatch(b)'
    BY <1>1, <1>2, <1>3, <1>4 DEF LatestBatch
  <2>2. ASSUME LatestBatch(c)' PROVE c = b
    <3>1. PICK k \in DOMAIN log' : /\ log'[k] = Event("tool.requested", c)
                                   /\ \A j \in DOMAIN log' : log'[j].type = "tool.requested" => j <= k
      BY <2>2 DEF LatestBatch
    <3>2. k = Len(log) + 1
      BY <1>1, <1>2, <1>3, <1>4, <3>1
    <3> QED BY <1>1, <1>2, <3>1, <3>2
  <2> QED BY <2>1, <2>2
<1>7. \A c \in Batches : Logged("tool.requested", c) <=> Logged("tool.output", c)
  BY DEF BatchesOpen, OneOutput, FreshBatch
<1>8. ~Logged("tool.requested", b)
  BY DEF FreshBatch
<1> QED BY <1>5, <1>6, <1>7, <1>8 DEF BatchesOpen, OneOutput, FreshBatch

LEMMA ToolsAnswered ==
    ASSUME TypeOK, BatchesOpen, NEW b \in Batches, LatestBatch(b), run = "waiting_tool",
           log' = Append(log, Event("tool.output", b)), run' = "running"
    PROVE  BatchesOpen'
<1>1. /\ LogGrows /\ Newer = {Len(log) + 1} /\ log'[Len(log) + 1] = Event("tool.output", b)
      /\ Len(log) \in Nat
  BY GrowsByOne
<1>2. /\ \A c : Event("tool.output", b) # Event("tool.requested", c)
      /\ \A c : Event("tool.output", b) = Event("tool.output", c) <=> b = c
  BY DEF Event
<1>3. \A k : k \in DOMAIN log' <=> k \in DOMAIN log \/ k = Len(log) + 1
  BY <1>1 DEF Newer, LogGrows
<1>4. ASSUME NEW c \in Batches
      PROVE  /\ Logged("tool.output", c)' <=> Logged("tool.output", c) \/ c = b
             /\ Logged("tool.requested", c)' <=> Logged("tool.requested", c)
  BY <1>1, <1>2, <1>3 DEF Logged, LogGrows
<1>5. Logged("tool.requested", b) /\ ~Logged("tool.output", b)
  BY DEF LatestBatch, Logged, BatchesOpen
<1>6. ASSUME NEW c \in Batches, c # b
      PROVE  Logged("tool.requested", c) <=> Logged("tool.output", c)
  <2>1. ~LatestBatch(c)
    <3> SUFFICES ASSUME LatestBatch(c) PROVE FALSE
      OBVIOUS
    <3>1. PICK k \in DOMAIN log : /\ log[k] = Event("tool.requested", c)
                                  /\ \A j \in DOMAIN log : log[j].type = "tool.requested" => j <= k
      BY DEF LatestBatch
    <3>2. PICK l \in DOMAIN log : /\ log[l] = Event("tool.requested", b)
                                  /\ \A j \in DOMAIN log : log[j].type = "tool.requested" => j <= l
      BY DEF LatestBatch
    <3>3. k \in Nat /\ l \in Nat
      BY DEF TypeOK
    <3>4. k = l
      BY <3>1, <3>2, <3>3 DEF Event
    <3> QED BY <1>6, <3>1, <3>2, <3>4 DEF Event
  <2> QED BY <1>6, <2>1 DEF BatchesOpen, OneOutput, FreshBatch
<1>7. \A c \in Batches : Logged("tool.requested", c)' <=> Logged("tool.output", c)'
  BY <1>4, <1>5, <1>6
<1>8. ASSUME NEW c \in Batches, NEW j \in DOMAIN log', NEW k \in DOMAIN log',
             log'[j] = Event("tool.output", c), log'[k] = Event("tool.output", c)
      PROVE  j = k
  <2>1. CASE c = b
    BY <1>1, <1>3, <1>5, <1>8, <2>1 DEF LogGrows, Logged
  <2>2. CASE c # b
    BY <1>1, <1>2, <1>3, <1>8, <2>2 DEF LogGrows, BatchesOpen, OneOutput
  <2> QED BY <2>1, <2>2
<1> QED BY <1>7, <1>8 DEF BatchesOpen, OneOutput, FreshBatch

LEMMA StepTools == ASSUME TypeOK, ToolInv, HistoryStep PROVE ToolInv'
<1> USE DEF ToolInv
<1>1. CASE Silent
  BY <1>1 DEF Silent, runVars, BatchesOpen, OneOutput, LatestBatch, Logged
<1>2. ASSUME NEW t, NEW r, log' = Append(log, Event(t, r)), t \notin ToolEvents, run' # "none",
             run' = run \/ run' \in {"failed", "cancelled"}
      PROVE  ToolInv'
  BY <1>2, GrowsByOne, ToolsKept DEF Event
<1>3. CASE Noted
  BY <1>2, <1>3 DEF Noted, Quiet, ToolEvents
<1>4. CASE Failed
  BY <1>2, <1>4 DEF Failed, ToolEvents
<1>5. CASE StartExecution
  <2>1. log = <<>> /\ log' = Append(log, Event("run.started", NoRef)) /\ run' = "running"
    BY <1>5 DEF StartExecution
  <2>2. DOMAIN log' = {1} /\ log'[1].type = "run.started"
    BY <2>1 DEF Event
  <2>3. \A t \in ToolEvents, r \in Batches : ~Logged(t, r)'
    BY <2>2 DEF Logged, ToolEvents, Event
  <2> QED BY <2>1, <2>3 DEF BatchesOpen, OneOutput, ToolEvents, Logged
<1>6. ASSUME NEW b \in Batches, ResumeExecution(b) PROVE ToolInv'
  BY <1>6, ToolsAnswered DEF ResumeExecution
<1>7. ASSUME NEW i \in Inputs, QueueInput(i) PROVE ToolInv'
  BY <1>2, <1>7 DEF QueueInput, ToolEvents, Live
<1>8. ASSUME NEW partial \in Cancels, CancelRun(partial) PROVE ToolInv'
  BY <1>2, <1>8 DEF CancelRun, ToolEvents
<1>9. ASSUME NEW e \in Executions, ReceiveInputs(e), run = "running" PROVE ToolInv'
  <2>1. PICK s \in PendingInOrder :
            log' = log \o [k \in DOMAIN s |-> Event("input.received", s[k])]
    BY <1>9 DEF ReceiveInputs
  <2>2. LogGrows /\ \A k \in Newer : log'[k].type = "input.received"
    <3>1. /\ LogGrows /\ Newer = {Len(log) + m : m \in 1 .. Cardinality(PendingInputs)}
          /\ \A m \in 1 .. Cardinality(PendingInputs) :
                 log'[Len(log) + m] = Event("input.received", s[m])
      BY <2>1, GrowsByReceived
    <3> QED BY <3>1, EventRead
  <2> QED BY <1>9, <2>2, ToolsKept DEF ReceiveInputs, ToolEvents
<1>10. ASSUME NEW e \in Executions, NEW b \in Batches, RequestTools(e, b) PROVE ToolInv'
  BY <1>10, ToolsRequested DEF RequestTools
<1>11. ASSUME NEW e \in Executions, CompleteRun(e) PROVE ToolInv'
  <2>1. log' = log \o <<Event("message.completed", NoRef), Event("run.completed", NoRef)>>
    BY <1>11 DEF CompleteRun
  <2>2. LogGrows /\ \A k \in Newer : log'[k].type \in {"message.completed", "run.completed"}
    <3>1. /\ LogGrows /\ Newer = {Len(log) + 1, Len(log) + 2}
          /\ log'[Len(log) + 1] = Event("message.completed", NoRef)
          /\ log'[Len(log) + 2] = Event("run.completed", NoRef)
      BY <2>1, GrowsByTwo
    <3> QED BY <3>1, EventRead
  <2> QED BY <1>11, <2>2, ToolsKept DEF CompleteRun, ToolEvents
<1> QED BY <1>1, <1>3, <1>4, <1>5, <1>6, <1>7, <1>8, <1>9, <1>10, <1>11 DEF HistoryStep

\* Whatever is submitted, resumed or retried, the results of a tool batch
\* enter the run once, only after the batch was asked for, and a run that
\* waits for tools waits for its latest batch and no other.
THEOREM BatchesOnce == Spec => []ToolBatches
<1>1. Init => ToolInv
  BY DEF Init, ToolInv, BatchesOpen, OneOutput, Logged
<1>2. ToolInv => ToolBatches
  BY BatchesRead DEF ToolInv
<1>3. RunInv => TypeOK
  BY DEF RunInv
<1> QED BY InitRunInv, NextRunInv, NextHistory, StepTools, <1>1, <1>2, <1>3, PTL DEF Spec
-----------------------------------------------------------------------------
(* The last frame of an execution *)

Final(e) == IF stream[e] = <<>> THEN "none" ELSE stream[e][Len(stream[e])]

LEMMA FinalKept == ASSUME stream' = stream PROVE \A d \in Executions : Final(d)' = Final(d)
  BY DEF Final

LEMMA FinalWrite ==
    ASSUME TypeOK, NEW e \in Executions, NEW f \in Frames, Write(e, <<f>>)
    PROVE  Final(e)' = f /\ \A d \in Executions \ {e} : Final(d)' = Final(d)
<1>1. stream'[e] = stream[e] \o <<f>> /\ \A d \in Executions \ {e} : stream'[d] = stream[d]
  BY DEF TypeOK, Write
<1>2. stream[e] \in Seq(Frames)
  BY DEF TypeOK
<1>3. stream[e] \o <<f>> # <<>> /\ (stream[e] \o <<f>>)[Len(stream[e] \o <<f>>)] = f
  BY <1>2
<1> QED BY <1>1, <1>3 DEF Final

LEMMA FinalNothing ==
    ASSUME TypeOK, NEW e \in Executions, Write(e, <<>>)
    PROVE  \A d \in Executions : Final(d)' = Final(d)
<1>1. stream'[e] = stream[e] \o <<>> /\ \A d \in Executions \ {e} : stream'[d] = stream[d]
  BY DEF TypeOK, Write
<1>2. stream[e] \o <<>> = stream[e]
  BY DEF TypeOK
<1> QED BY <1>1, <1>2 DEF Final

LEMMA FinalReceived ==
    ASSUME TypeOK, NEW e \in Executions, NEW s \in PendingInOrder,
           Write(e, [k \in DOMAIN s |-> "input.received"])
    PROVE  /\ Final(e)' \in {Final(e), "input.received"}
           /\ \A d \in Executions \ {e} : Final(d)' = Final(d)
<1> DEFINE t == [k \in DOMAIN s |-> "input.received"]
<1>1. t \in Seq(Frames) /\ \A k \in DOMAIN t : t[k] = "input.received"
  BY ReceivedTyped
<1>2. stream'[e] = stream[e] \o t /\ \A d \in Executions \ {e} : stream'[d] = stream[d]
  BY DEF TypeOK, Write
<1> HIDE DEF t
<1>3. stream[e] \in Seq(Frames)
  BY DEF TypeOK
<1>4. CASE Len(t) = 0
  <2>1. stream[e] \o t = stream[e]
    BY <1>1, <1>3, <1>4
  <2> QED BY <1>2, <2>1 DEF Final
<1>5. CASE Len(t) # 0
  <2>1. /\ stream[e] \o t # <<>> /\ Len(t) \in DOMAIN t
        /\ (stream[e] \o t)[Len(stream[e] \o t)] = t[Len(t)]
    BY <1>1, <1>3, <1>5
  <2> QED BY <1>1, <1>2, <2>1 DEF Final
<1> QED BY <1>4, <1>5

\* A new execution has told nothing that ends it.
LEMMA FinalSubmit ==
    ASSUME RunInv, NEW k, NEW frames \in {<<>>, <<"run.started">>}, Submit(k, frames)
    PROVE  \E n \in Executions :
               /\ n = last + 1 /\ status[n] = "absent"
               /\ status'[n] = "queued" /\ key'[n] = k /\ Final(n)' \in {"none", "run.started"}
               /\ \A d \in Executions \ {n} :
                      Final(d)' = Final(d) /\ status'[d] = status[d] /\ key'[d] = key[d]
               /\ last' = last + 1 /\ worker' = worker
<1>1. PICK n \in Executions : n = last + 1
  BY BoundsAssumption DEF Submit, RunInv, TypeOK, Executions
<1>2. status[n] = "absent"
  BY <1>1 DEF RunInv, Allocated, TypeOK
<1>3. /\ stream'[n] = frames /\ status'[n] = "queued" /\ key'[n] = k
      /\ \A d \in Executions \ {n} :
             stream'[d] = stream[d] /\ status'[d] = status[d] /\ key'[d] = key[d]
  BY <1>1 DEF Submit, RunInv, TypeOK
<1>4. Final(n)' \in {"none", "run.started"}
  BY <1>3 DEF Final
<1> QED BY <1>1, <1>2, <1>3, <1>4 DEF Final, Submit

-----------------------------------------------------------------------------
(* The frames of a finished execution tell what comes next *)

\* What the end of an execution's frames says, and what a worker that has
\* told its reader to continue still has to do.
Tells(e) ==
    /\ status[e] = "failed" => Final(e) = "run.failed"
    /\ status[e] = "completed" =>
           Final(e) \in {"tool.requested", "run.continue"} \/ (run = "completed" /\ e = last)
    /\ Final(e) = "run.failed" => status[e] \in {"failed", "cancelled"} /\ run = "failed"
    /\ worker[e] = "continuing" /\ status[e] = "running" => Final(e) = "run.continue"

\* A run that no execution works for has been told to continue.
Paused ==
    run = "running" /\ ~Working => status[last] = "completed" /\ Final(last) = "run.continue"

\* A continuation is newer than what it continues.
SteerForward ==
    \A d, e \in Executions : status[d] # "absent" /\ key[d] = Key("steer", e) => e < d

StreamInv == /\ \A e \in Executions : Tells(e)
             /\ Paused
             /\ SteerForward

LEMMA InitStream == Init => StreamInv
  BY DEF Init, StreamInv, Tells, Paused, SteerForward, Final

\* While the run runs a step of one execution can break nothing elsewhere.
LEMMA TellsOne ==
    ASSUME \A d \in Executions : Tells(d), run = "running", NEW e \in Executions, Tells(e)', last' = last,
           \A d \in Executions \ {e} :
               Final(d)' = Final(d) /\ status'[d] = status[d] /\ worker'[d] = worker[d]
    PROVE  \A d \in Executions : Tells(d)'
<1>1. ASSUME NEW d \in Executions \ {e} PROVE Tells(d)'
  BY <1>1 DEF Tells
<1> QED BY <1>1

\* A worker that only moves on, or leaves.
LEMMA TellsMoved ==
    ASSUME \A d \in Executions : Tells(d), UNCHANGED <<run, last>>,
           \A d \in Executions :
               /\ Final(d)' = Final(d)
               /\ status'[d] \in {status[d], "cancelled"}
               /\ worker'[d] = "continuing" => worker[d] = "continuing"
    PROVE  \A d \in Executions : Tells(d)'
<1> SUFFICES ASSUME NEW d \in Executions PROVE Tells(d)'
  OBVIOUS
<1>1. Tells(d)
  OBVIOUS
<1>2. /\ Final(d)' = Final(d) /\ status'[d] \in {status[d], "cancelled"}
      /\ worker'[d] = "continuing" => worker[d] = "continuing"
  OBVIOUS
<1> QED BY <1>1, <1>2 DEF Tells

LEMMA SubmitTells ==
    ASSUME RunInv, \A d \in Executions : Tells(d), NEW k, NEW frames \in {<<>>, <<"run.started">>},
           Submit(k, frames), run' = "running", run \notin Terminal
    PROVE  (\A d \in Executions : Tells(d))' /\ Paused'
<1>1. PICK n \in Executions :
          /\ status'[n] = "queued" /\ Final(n)' \in {"none", "run.started"}
          /\ \A d \in Executions \ {n} : Final(d)' = Final(d) /\ status'[d] = status[d]
          /\ worker' = worker
  BY FinalSubmit
<1>2. Tells(n)'
  BY <1>1 DEF Tells
<1>3. ASSUME NEW d \in Executions \ {n} PROVE Tells(d)'
  BY <1>1, <1>3 DEF Tells, Terminal
<1>4. Working'
  BY <1>1 DEF Working, Active
<1> QED BY <1>2, <1>3, <1>4 DEF Paused

LEMMA ClientTells ==
    ASSUME RunInv, StreamInv, Client PROVE (\A d \in Executions : Tells(d))' /\ Paused'
<1> USE DEF StreamInv
<1>1. CASE StartExecution
  BY <1>1, SubmitTells DEF StartExecution, Terminal
<1>2. CASE \E b \in Batches : ResumeExecution(b)
  BY <1>2, SubmitTells DEF ResumeExecution, Terminal
<1>3. CASE \E e \in Executions : ContinueExecution(e)
  BY <1>3, SubmitTells DEF ContinueExecution, runVars, Terminal
<1>4. CASE \E i \in Inputs : QueueInput(i)
  BY <1>4 DEF QueueInput, execVars, Tells, Paused, Working, Final
<1>5. ASSUME NEW partial \in Cancels, CancelRun(partial)
      PROVE  (\A d \in Executions : Tells(d))' /\ Paused'
  <2>1. /\ run \in Live /\ run' = "cancelled" /\ last' = last /\ worker' = worker
        /\ stream' = stream
        /\ \A d \in Executions : status'[d] \in {status[d], "cancelled"}
    BY <1>5 DEF CancelRun
  <2>2. ASSUME NEW d \in Executions PROVE Tells(d)'
    BY <2>1, FinalKept DEF Tells, Live
  <2> QED BY <2>1, <2>2 DEF Paused
<1> QED BY <1>1, <1>2, <1>3, <1>4, <1>5 DEF Client

LEMMA SystemTells ==
    ASSUME RunInv, StreamInv, NEW e \in Executions, System(e)
    PROVE  (\A d \in Executions : Tells(d))' /\ Paused'
<1> USE DEF StreamInv
<1> TypeOK
  BY DEF RunInv
<1>1. status[e] \in Active => run = "running" /\ e = last
  BY DEF RunInv, OneRequestAtATime
<1>2. status[e] = "running" => run = "running" /\ e = last
  BY <1>1 DEF Active
<1>3. \A d \in Executions \ {e} : status[e] \in Active => status[d] \notin Active
  BY DEF RunInv, OneRequestAtATime
<1>4. ASSUME NEW pc, Goto(e, pc)
      PROVE  worker'[e] = pc /\ \A d \in Executions \ {e} : worker'[d] = worker[d]
  BY <1>4 DEF Goto, TypeOK
\* A frame written while the execution goes on.
<1>5. ASSUME NEW f \in Frames \ {"run.failed"}, Write(e, <<f>>), MayWrite(e), UNCHANGED <<run, last, status>>,
             \A d \in Executions \ {e} : worker'[d] = worker[d],
             worker'[e] = "continuing" => f = "run.continue"
      PROVE  (\A d \in Executions : Tells(d))' /\ Paused'
  <2>1. Final(e)' = f /\ \A d \in Executions \ {e} : Final(d)' = Final(d)
    BY <1>5, FinalWrite
  <2>2. run = "running" /\ status[e] = "running"
    BY <1>2, <1>5 DEF MayWrite
  <2>3. Tells(e)'
    BY <1>5, <2>1, <2>2 DEF Tells
  <2>4. \A d \in Executions : Tells(d)'
    BY <1>5, <2>1, <2>2, <2>3, TellsOne
  <2>5. Working'
    BY <1>5, <2>2 DEF Working, Active
  <2> QED BY <2>4, <2>5 DEF Paused
\* The execution ends together with the running of the run.
<1>6. ASSUME status[e] = "running", NEW s \in Terminal, status' = [status EXCEPT ![e] = s], last' = last,
             run' # "running", \A d \in Executions \ {e} : Final(d)' = Final(d) /\ worker'[d] = worker[d],
             \/ s = "failed" /\ run' = "failed" /\ Final(e)' = "run.failed"
             \/ s = "completed" /\ run' = "waiting_tool" /\ Final(e)' = "tool.requested"
             \/ s = "completed" /\ run' = "completed" /\ Final(e)' # "run.failed"
      PROVE  (\A d \in Executions : Tells(d))' /\ Paused'
  <2>1. status'[e] = s /\ \A d \in Executions \ {e} : status'[d] = status[d]
    BY <1>6 DEF TypeOK
  <2>2. Tells(e)'
    BY <1>2, <1>6, <2>1 DEF Tells
  <2>3. \A d \in Executions : Tells(d)'
    BY <1>2, <1>6, <2>1, <2>2, TellsOne
  <2> QED BY <1>6, <2>3 DEF Paused
<1>7. CASE Claim(e)
  <2>1. /\ status[e] = "queued" /\ status'[e] = "running" /\ worker'[e] = "claimed"
        /\ stream' = stream /\ run' = run /\ last' = last
        /\ \A d \in Executions \ {e} : status'[d] = status[d] /\ worker'[d] = worker[d]
    BY <1>7 DEF Claim, runVars, TypeOK
  <2>2. Tells(e)'
    BY <2>1, FinalKept DEF Tells
  <2>3. \A d \in Executions : Tells(d)'
    BY <1>1, <2>1, <2>2, FinalKept, TellsOne DEF Active
  <2>4. Working'
    BY <2>1 DEF Working, Active
  <2> QED BY <2>3, <2>4 DEF Paused
<1>8. CASE ReceiveInputs(e)
  <2>1. status[e] = "running" /\ run = "running"
    BY <1>2, <1>8 DEF ReceiveInputs, At, RunInv, WorkersCurrent, Busy
  <2>2. PICK s \in PendingInOrder : Write(e, [k \in DOMAIN s |-> "input.received"])
    BY <1>8 DEF ReceiveInputs
  <2>3. /\ Final(e)' \in {Final(e), "input.received"}
        /\ \A d \in Executions \ {e} : Final(d)' = Final(d)
    BY <2>2, FinalReceived
  <2>4. /\ UNCHANGED <<run, last, status>> /\ worker'[e] = "preparing"
        /\ \A d \in Executions \ {e} : worker'[d] = worker[d]
    BY <1>4, <1>8 DEF ReceiveInputs
  <2>5. Tells(e)'
    BY <2>1, <2>3, <2>4 DEF Tells
  <2>6. \A d \in Executions : Tells(d)'
    BY <2>1, <2>3, <2>4, <2>5, TellsOne
  <2>7. Working'
    BY <2>1, <2>4 DEF Working, Active
  <2> QED BY <2>6, <2>7 DEF Paused
<1>9. CASE \/ WriteDelta(e) \/ RecordUsage(e) \/ UpdatePlan(e)
           \/ (CompactContext(e) /\ Write(e, <<"context.compacted">>) /\ MayWrite(e))
  <2>1. \E f \in {"delta", "context.usage", "task.plan.updated", "context.compacted"} : Write(e, <<f>>)
    BY <1>9 DEF WriteDelta, RecordUsage, UpdatePlan
  <2>2. /\ MayWrite(e) /\ UNCHANGED <<run, last, status>>
        /\ \A d \in Executions \ {e} : worker'[d] = worker[d]
        /\ worker'[e] # "continuing"
    BY <1>4, <1>9 DEF WriteDelta, RecordUsage, UpdatePlan, CompactContext, runVars, At, Goto, TypeOK
  <2> QED BY <1>5, <2>1, <2>2 DEF Frames
<1>10. CASE YieldToGuidance(e)
  BY <1>4, <1>5, <1>10 DEF YieldToGuidance, runVars, Frames
<1>11. ASSUME NEW b \in Batches, RequestTools(e, b)
       PROVE  (\A d \in Executions : Tells(d))' /\ Paused'
  <2>1. /\ status[e] = "running" /\ status' = [status EXCEPT ![e] = "completed"] /\ last' = last
        /\ run' = "waiting_tool" /\ \A d \in Executions \ {e} : worker'[d] = worker[d]
    BY <1>4, <1>11 DEF RequestTools, MayWrite, Settled
  <2>2. Final(e)' = "tool.requested" /\ \A d \in Executions \ {e} : Final(d)' = Final(d)
    BY <1>11, FinalWrite DEF RequestTools, Frames
  <2> QED BY <1>6, <2>1, <2>2 DEF Terminal
<1>12. CASE CompleteRun(e)
  <2>1. /\ status[e] = "running" /\ status' = [status EXCEPT ![e] = "completed"] /\ last' = last
        /\ run' = "completed" /\ \A d \in Executions \ {e} : worker'[d] = worker[d]
    BY <1>4, <1>12 DEF CompleteRun, MayWrite, Settled
  <2>2. \A d \in Executions : Final(d)' = Final(d)
    BY <1>12, FinalNothing DEF CompleteRun
  <2>3. Final(e) # "run.failed"
    BY <2>1 DEF Tells
  <2> QED BY <1>6, <2>1, <2>2, <2>3 DEF Terminal
<1>13. CASE FailExecution(e) \/ ReconcileExpired(e)
  <2>1. /\ status[e] = "running" /\ status' = [status EXCEPT ![e] = "failed"] /\ last' = last
        /\ \A d \in Executions \ {e} : worker'[d] = worker[d]
    BY <1>4, <1>13 DEF FailExecution, ReconcileExpired
  <2>2. run' = "failed"
    BY <1>2, <1>13, <2>1 DEF FailExecution, ReconcileExpired, FailRun, Terminal
  <2>3. Final(e)' = "run.failed" /\ \A d \in Executions \ {e} : Final(d)' = Final(d)
    BY <1>13, FinalWrite DEF FailExecution, ReconcileExpired, Frames
  <2> QED BY <1>6, <2>1, <2>2, <2>3 DEF Terminal
<1>14. CASE FinishContinuing(e)
  <2>1. /\ worker[e] = "continuing" /\ status[e] = "running" /\ run' = run /\ last' = last
        /\ status'[e] = Settled(run) /\ worker'[e] = "done"
        /\ \A d \in Executions \ {e} : status'[d] = status[d] /\ worker'[d] = worker[d]
    BY <1>4, <1>14 DEF FinishContinuing, At, runVars, TypeOK
  <2>2. \A d \in Executions : Final(d)' = Final(d)
    BY <1>14, FinalNothing DEF FinishContinuing
  <2>3. run = "running" /\ e = last /\ status'[e] = "completed" /\ Final(e) = "run.continue"
    BY <1>2, <2>1 DEF Settled, Tells
  <2>4. Tells(e)'
    BY <2>1, <2>2, <2>3 DEF Tells
  <2>5. \A d \in Executions : Tells(d)'
    BY <2>1, <2>2, <2>3, <2>4, TellsOne
  <2> QED BY <2>1, <2>2, <2>3, <2>5 DEF Paused
<1>15. CASE FindRunEnded(e)
  <2>1. /\ UNCHANGED <<run, last, stream>> /\ run \in Terminal
        /\ \A d \in Executions : status'[d] \in {status[d], "cancelled"}
        /\ \A d \in Executions : worker'[d] = "continuing" => worker[d] = "continuing"
    BY <1>4, <1>15 DEF FindRunEnded, runVars, TypeOK
  <2> QED BY <2>1, FinalKept, TellsMoved DEF Paused, Terminal
<1>16. CASE \/ DropMessage(e) \/ PrepareContext(e) \/ AbandonExecution(e) \/ CrashWorker(e)
            \/ ExpireLease(e) \/ Redispatch(e)
            \/ (CompactContext(e) /\ UNCHANGED <<stream, lease>>)
  <2>1. UNCHANGED <<run, last, stream, status>>
    BY <1>16 DEF DropMessage, PrepareContext, AbandonExecution, CrashWorker, ExpireLease, Redispatch,
                 CompactContext, runVars, execVars
  <2>2. \A d \in Executions : worker'[d] = "continuing" => worker[d] = "continuing"
    BY <1>16 DEF DropMessage, PrepareContext, AbandonExecution, CrashWorker, ExpireLease, Redispatch,
                 CompactContext, Goto, TypeOK
  <2>3. \A d \in Executions : Tells(d)'
    BY <2>1, <2>2, FinalKept, TellsMoved
  <2>4. Final(last)' = Final(last) /\ Working' = Working
    BY <2>1 DEF Final, Working
  <2> QED BY <2>1, <2>3, <2>4 DEF Paused
<1>17. CASE CompactContext(e)
  BY <1>9, <1>16, <1>17 DEF CompactContext
<1> QED BY <1>7, <1>8, <1>9, <1>10, <1>11, <1>12, <1>13, <1>14, <1>15, <1>16, <1>17
        DEF System, WorkerStep

LEMMA NextSteers == RunInv /\ SteerForward /\ [Next]_vars => SteerForward'
<1> SUFFICES ASSUME RunInv, SteerForward, [Next]_vars PROVE SteerForward'
  OBVIOUS
<1>1. ASSUME key' = key, \A e \in Executions : status[e] = "absent" => status'[e] = "absent"
      PROVE  SteerForward'
  BY <1>1 DEF SteerForward
<1>2. ASSUME NEW k, NEW frames \in {<<>>, <<"run.started">>}, Submit(k, frames),
             \A e \in Executions : k = Key("steer", e) => e = last
      PROVE  SteerForward'
  <2>1. PICK n \in Executions :
            /\ n = last + 1 /\ key'[n] = k
            /\ \A d \in Executions \ {n} : status'[d] = status[d] /\ key'[d] = key[d]
    BY <1>2, FinalSubmit
  <2>2. last < n
    BY <2>1 DEF RunInv, TypeOK
  <2> QED BY <1>2, <2>1, <2>2 DEF SteerForward
<1>3. CASE StartExecution
  BY <1>2, <1>3 DEF StartExecution, Key
<1>4. CASE \E b \in Batches : ResumeExecution(b)
  BY <1>2, <1>4 DEF ResumeExecution, Key
<1>5. CASE \E e \in Executions : ContinueExecution(e)
  BY <1>2, <1>5 DEF ContinueExecution, Key
<1>6. CASE \E i \in Inputs : QueueInput(i)
  BY <1>1, <1>6 DEF QueueInput, execVars
<1>7. CASE \E partial \in Cancels : CancelRun(partial)
  <2>1. key' = key /\ \A e \in Executions : status[e] = "absent" => status'[e] = "absent"
    BY <1>7 DEF CancelRun, Active
  <2> QED BY <1>1, <2>1
<1>8. CASE UNCHANGED vars
  BY <1>1, <1>8 DEF vars
<1>9. ASSUME NEW e \in Executions, System(e) PROVE SteerForward'
  <2>1. key' = key /\ \A f \in Executions : status[f] = "absent" => status'[f] = "absent"
    BY <1>9, SystemKeys
  <2> QED BY <1>1, <2>1
<1> QED BY <1>3, <1>4, <1>5, <1>6, <1>7, <1>8, <1>9 DEF Next, Client

LEMMA NextStream == RunInv /\ StreamInv /\ [Next]_vars => StreamInv'
<1>1. StreamInv /\ UNCHANGED vars => StreamInv'
  BY DEF vars, StreamInv, Tells, Paused, SteerForward, Working, Final
<1>2. RunInv /\ StreamInv /\ Next => (\A d \in Executions : Tells(d))' /\ Paused'
  BY ClientTells, SystemTells DEF Next
<1> QED BY <1>1, <1>2, NextSteers DEF StreamInv

LEMMA TellsRead == StreamInv => StreamTellsNext
  BY DEF StreamInv, Tells, StreamTellsNext, Final

LEMMA IdleRead == RunInv /\ StreamInv /\ GuidanceWaits => IdleRunCanContinue
<1> SUFFICES ASSUME RunInv, StreamInv, GuidanceWaits, run = "running", ~Working
             PROVE  /\ status[last] = "completed"
                    /\ stream[last] # <<>> /\ stream[last][Len(stream[last])] = "run.continue"
                    /\ ~KeyUsed(Key("steer", last))
                    /\ PendingInputs # {}
  BY DEF IdleRunCanContinue, Working
<1>1. status[last] = "completed" /\ Final(last) = "run.continue"
  BY DEF StreamInv, Paused
<1>2. PendingInputs # {}
  BY DEF GuidanceWaits
<1>3. ~KeyUsed(Key("steer", last))
  <2> SUFFICES ASSUME NEW d \in Executions, status[d] # "absent", key[d] = Key("steer", last)
               PROVE  FALSE
    BY DEF KeyUsed
  <2>1. d <= last /\ d \in Nat /\ last \in Nat
    BY DEF RunInv, Allocated, TypeOK, Executions
  <2>2. last \in Executions
    BY <2>1 DEF RunInv, TypeOK, Executions
  <2>3. last < d
    BY <2>2 DEF StreamInv, SteerForward
  <2> QED BY <2>1, <2>3
<1> QED BY <1>1, <1>2, <1>3 DEF Final

\* Whoever reads an execution's frames to the end learns what to do next:
\* run the tools, continue, or give up, and an end without any of these is
\* that of a completed run.
THEOREM StreamTells == Spec => []StreamTellsNext
  BY InitRunInv, NextRunInv, InitStream, NextStream, TellsRead, PTL DEF Spec

\* No run is left running with nobody to carry it on: its newest execution
\* told the client to continue, nobody did so yet, and guidance waits for it.
THEOREM IdleContinues == Spec => []IdleRunCanContinue
  BY InitRunInv, NextRunInv, InitStream, NextStream, InitWaits, NextWaits, IdleRead, PTL DEF Spec
-----------------------------------------------------------------------------
(* The order of guidance *)

InputEvents == {"input.queued", "input.received"}

IsQueued(k, i)   == k \in DOMAIN log /\ log[k] = Event("input.queued", i)
IsReceived(k, i) == k \in DOMAIN log /\ log[k] = Event("input.received", i)

\* Every input is queued once and received after that; inputs are received in
\* the order of queueing, and what still waits was queued after all of them.
OrderInv ==
    /\ \A k \in DOMAIN log : log[k].type \in InputEvents => log[k].ref \in Inputs
    /\ \A i \in Inputs : \A j, k : IsQueued(j, i) /\ IsQueued(k, i) => j = k
    /\ \A i \in Inputs : \A k : IsReceived(k, i) => \E j \in 1 .. k - 1 : IsQueued(j, i)
    /\ \A h, i \in Inputs : \A j, k, a, b :
           IsReceived(j, h) /\ IsReceived(k, i) /\ j < k /\ IsQueued(a, h) /\ IsQueued(b, i) => a < b
    /\ \A h, i \in Inputs : \A j, a, b :
           IsReceived(j, h) /\ i \in PendingInputs /\ IsQueued(a, h) /\ IsQueued(b, i) => a < b

LEMMA OrderKept ==
    ASSUME OrderInv, LogGrows, \A k \in Newer : log'[k].type \notin InputEvents
    PROVE  OrderInv'
<1>1. ASSUME NEW i, NEW k
      PROVE  /\ IsQueued(k, i)' <=> IsQueued(k, i)
             /\ IsReceived(k, i)' <=> IsReceived(k, i)
  BY EventRead DEF LogGrows, Newer, InputEvents, IsQueued, IsReceived
<1>2. PendingInputs' = PendingInputs
  <2>1. ASSUME NEW i
        PROVE  /\ Logged("input.queued", i)' <=> Logged("input.queued", i)
               /\ Logged("input.received", i)' <=> Logged("input.received", i)
    BY <1>1 DEF Logged, IsQueued, IsReceived
  <2> QED BY <2>1 DEF PendingInputs
<1>3. \A k \in DOMAIN log' : log'[k].type \in InputEvents => log'[k].ref \in Inputs
  BY DEF OrderInv, LogGrows, Newer
<1> QED BY <1>1, <1>2, <1>3 DEF OrderInv

LEMMA OrderQueued ==
    ASSUME TypeOK, OrderInv, NEW i \in Inputs, ~Logged("input.queued", i),
           log' = Append(log, Event("input.queued", i))
    PROVE  OrderInv'
<1> DEFINE n == Len(log) + 1
<1>1. /\ LogGrows /\ Newer = {n} /\ log'[n] = Event("input.queued", i)
      /\ \A k \in DOMAIN log : k \in Nat /\ k < n
      /\ n \in Nat
  BY GrowsByOne
<1> HIDE DEF n
<1>2. ASSUME NEW h, NEW k
      PROVE  /\ IsQueued(k, h)' <=> IsQueued(k, h) \/ (k = n /\ h = i)
             /\ IsReceived(k, h)' <=> IsReceived(k, h)
  <2>1. \A g : Event("input.queued", i) # Event("input.received", g)
    BY EventRead
  <2>2. Event("input.queued", i) = Event("input.queued", h) <=> h = i
    BY EventRead
  <2> QED BY <1>1, <2>1, <2>2 DEF LogGrows, Newer, IsQueued, IsReceived
<1>3. \A k : ~IsQueued(k, i) /\ ~IsReceived(k, i)
  BY DEF Logged, OrderInv, IsQueued
<1>4. PendingInputs' = PendingInputs \cup {i}
  <2>1. ASSUME NEW h
        PROVE  /\ Logged("input.queued", h)' <=> Logged("input.queued", h) \/ h = i
               /\ Logged("input.received", h)' <=> Logged("input.received", h)
    BY <1>2 DEF Logged, IsQueued, IsReceived
  <2>2. ~Logged("input.received", i)
    BY <1>3 DEF Logged, IsReceived
  <2> QED BY <2>1, <2>2 DEF PendingInputs
<1>5. \A k \in DOMAIN log' : log'[k].type \in InputEvents => log'[k].ref \in Inputs
  BY <1>1, EventRead DEF OrderInv, LogGrows, Newer
<1>6. ASSUME NEW h \in Inputs, NEW a, IsQueued(a, h) PROVE a < n
  BY <1>1, <1>6 DEF IsQueued
<1>7. \A h \in Inputs : \A j, k : IsQueued(j, h)' /\ IsQueued(k, h)' => j = k
  BY <1>2, <1>3 DEF OrderInv
<1>8. \A h \in Inputs : \A k : IsReceived(k, h)' => \E j \in 1 .. k - 1 : IsQueued(j, h)'
  BY <1>2 DEF OrderInv
<1>9. ASSUME NEW g \in Inputs, NEW h \in Inputs, NEW j, NEW k, NEW a, NEW b,
             IsReceived(j, g)', IsReceived(k, h)', j < k, IsQueued(a, g)', IsQueued(b, h)'
      PROVE  a < b
  <2>1. IsReceived(j, g) /\ IsReceived(k, h) /\ IsQueued(a, g) /\ IsQueued(b, h)
    BY <1>2, <1>3, <1>9
  <2> QED BY <1>9, <2>1 DEF OrderInv
<1>10. ASSUME NEW g \in Inputs, NEW h \in Inputs, NEW j, NEW a, NEW b,
              IsReceived(j, g)', h \in PendingInputs', IsQueued(a, g)', IsQueued(b, h)'
       PROVE  a < b
  <2>1. IsReceived(j, g) /\ IsQueued(a, g)
    BY <1>2, <1>3, <1>10
  <2>2. CASE h = i
    BY <1>2, <1>3, <1>6, <1>10, <2>1, <2>2
  <2>3. CASE h # i
    BY <1>2, <1>4, <1>10, <2>1, <2>3 DEF OrderInv
  <2> QED BY <2>2, <2>3
<1> QED BY <1>5, <1>7, <1>8, <1>9, <1>10 DEF OrderInv

LEMMA QueuedWhere ==
    ASSUME OrderInv, NEW i \in Inputs, NEW k, IsQueued(k, i) PROVE QueuedAt(i) = k
  BY DEF QueuedAt, OrderInv, IsQueued

LEMMA OrderReceived ==
    ASSUME TypeOK, OrderInv, NEW s \in PendingInOrder,
           log' = log \o [k \in DOMAIN s |-> Event("input.received", s[k])]
    PROVE  OrderInv'
<1> DEFINE n == Cardinality(PendingInputs)
<1>1. /\ LogGrows /\ Newer = {Len(log) + m : m \in 1 .. n}
      /\ \A m \in 1 .. n : log'[Len(log) + m] = Event("input.received", s[m])
      /\ \A k \in DOMAIN log : k \in Nat /\ k <= Len(log)
      /\ Len(log) \in Nat /\ n \in Nat /\ DOMAIN s = 1 .. n
  BY GrowsByReceived
<1>2. /\ \A m \in 1 .. n : s[m] \in PendingInputs
      /\ \A l, m \in 1 .. n : l < m => QueuedAt(s[l]) < QueuedAt(s[m])
  BY <1>1 DEF PendingInOrder
<1> HIDE DEF n
<1>3. ASSUME NEW h, NEW k
      PROVE  /\ IsQueued(k, h)' <=> IsQueued(k, h)
             /\ IsReceived(k, h)' =>
                    IsReceived(k, h) \/ \E m \in 1 .. n : k = Len(log) + m /\ h = s[m]
             /\ IsReceived(k, h) => IsReceived(k, h)'
  <2>1. k \in DOMAIN log' => k \in DOMAIN log \/ \E m \in 1 .. n : k = Len(log) + m
    BY <1>1 DEF Newer
  <2>2. k \in DOMAIN log => k \in DOMAIN log' /\ log'[k] = log[k]
    BY <1>1 DEF LogGrows
  <2>3. ASSUME NEW m \in 1 .. n, k = Len(log) + m PROVE k \notin DOMAIN log
    BY <1>1, <2>3
  <2>4. CASE k \in DOMAIN log
    BY <2>2, <2>4 DEF IsQueued, IsReceived
  <2>5. CASE k \notin DOMAIN log
    <3>1. ASSUME NEW m \in 1 .. n, k = Len(log) + m
          PROVE  k \in DOMAIN log' /\ log'[k] = Event("input.received", s[m])
      BY <1>1, <3>1 DEF Newer
    <3>2. ~IsQueued(k, h) /\ ~IsReceived(k, h)
      BY <2>5 DEF IsQueued, IsReceived
    <3>3. ~IsQueued(k, h)'
      <4> SUFFICES ASSUME IsQueued(k, h)' PROVE FALSE
        OBVIOUS
      <4>1. PICK m \in 1 .. n : k = Len(log) + m
        BY <2>1, <2>5 DEF IsQueued
      <4>2. Event("input.received", s[m]) = Event("input.queued", h)
        BY <3>1, <4>1 DEF IsQueued
      <4> QED BY <4>2 DEF Event
    <3>4. IsReceived(k, h)' => \E m \in 1 .. n : k = Len(log) + m /\ h = s[m]
      <4> SUFFICES ASSUME IsReceived(k, h)' PROVE \E m \in 1 .. n : k = Len(log) + m /\ h = s[m]
        OBVIOUS
      <4>1. PICK m \in 1 .. n : k = Len(log) + m
        BY <2>1, <2>5 DEF IsReceived
      <4>2. Event("input.received", s[m]) = Event("input.received", h)
        BY <3>1, <4>1 DEF IsReceived
      <4>3. s[m] = h
        BY <4>2 DEF Event
      <4> QED BY <4>1, <4>3
    <3> QED BY <3>2, <3>3, <3>4
  <2> QED BY <2>4, <2>5
<1>4. \A k \in DOMAIN log' : log'[k].type \in InputEvents => log'[k].ref \in Inputs
  <2> SUFFICES ASSUME NEW k \in DOMAIN log', log'[k].type \in InputEvents PROVE log'[k].ref \in Inputs
    OBVIOUS
  <2>1. CASE k \in DOMAIN log
    BY <1>1, <2>1 DEF OrderInv, LogGrows
  <2>2. CASE k \notin DOMAIN log
    <3>1. PICK m \in 1 .. n : k = Len(log) + m
      BY <1>1, <2>2 DEF Newer
    <3> QED BY <1>1, <1>2, <3>1, EventRead DEF PendingInputs
  <2> QED BY <2>1, <2>2
<1>5. \A i \in PendingInputs : \E b : IsQueued(b, i)
  BY DEF PendingInputs, Logged, IsQueued
<1>6. ASSUME NEW h \in Inputs, NEW k, IsReceived(k, h)' PROVE \E j \in 1 .. k - 1 : IsQueued(j, h)
  <2>1. CASE IsReceived(k, h)
    BY <2>1 DEF OrderInv
  <2>2. ASSUME NEW m \in 1 .. n, k = Len(log) + m, h = s[m]
        PROVE  \E j \in 1 .. k - 1 : IsQueued(j, h)
    <3>1. PICK b : IsQueued(b, h)
      BY <1>2, <1>5, <2>2
    <3>2. b \in DOMAIN log /\ b <= Len(log) /\ b \in Nat /\ DOMAIN log = 1 .. Len(log)
      BY <1>1, <3>1 DEF IsQueued, TypeOK
    <3>3. b \in 1 .. k - 1
      BY <1>1, <2>2, <3>2
    <3> QED BY <3>1, <3>3
  <2> QED BY <1>3, <1>6, <2>1, <2>2
<1>7. ASSUME NEW g \in Inputs, NEW h \in Inputs, NEW j, NEW k, NEW a, NEW b,
             IsReceived(j, g)', IsReceived(k, h)', j < k, IsQueued(a, g), IsQueued(b, h)
      PROVE  a < b
  <2>1. CASE IsReceived(j, g) /\ IsReceived(k, h)
    BY <1>7, <2>1 DEF OrderInv
  <2>2. ASSUME IsReceived(j, g), NEW m \in 1 .. n, h = s[m] PROVE a < b
    <3>1. h \in PendingInputs
      BY <1>2, <2>2
    <3> QED BY <1>7, <2>2, <3>1 DEF OrderInv
  <2>3. ASSUME NEW l \in 1 .. n, j = Len(log) + l, IsReceived(k, h) PROVE FALSE
    <3>1. k <= Len(log) /\ k \in Nat
      BY <1>1, <2>3 DEF IsReceived
    <3> QED BY <1>1, <1>7, <2>3, <3>1
  <2>4. ASSUME NEW l \in 1 .. n, j = Len(log) + l, g = s[l], NEW m \in 1 .. n, k = Len(log) + m, h = s[m]
        PROVE  a < b
    <3>1. l < m
      BY <1>1, <1>7, <2>4
    <3>2. QueuedAt(g) = a /\ QueuedAt(h) = b
      BY <1>7, QueuedWhere
    <3> QED BY <1>2, <2>4, <3>1, <3>2
  <2> QED BY <1>3, <1>7, <2>1, <2>2, <2>3, <2>4
<1>8. PendingInputs' = {}
  <2>1. ASSUME NEW i \in Inputs, Logged("input.queued", i)' PROVE Logged("input.received", i)'
    <3>1. Logged("input.queued", i)
      BY <1>3, <2>1 DEF Logged, IsQueued
    <3>2. CASE Logged("input.received", i)
      BY <1>3, <3>2 DEF Logged, IsReceived
    <3>3. CASE ~Logged("input.received", i)
      <4>1. i \in PendingInputs
        BY <3>1, <3>3 DEF PendingInputs
      <4>2. PICK m \in 1 .. n : s[m] = i
        BY <1>1, <4>1, AllReceived
      <4>3. Len(log) + m \in DOMAIN log'
        BY <1>1 DEF Newer
      <4> QED BY <1>1, <4>2, <4>3 DEF Logged
    <3> QED BY <3>2, <3>3
  <2> QED BY <2>1 DEF PendingInputs
<1>9. \A i \in Inputs : \A j, k : IsQueued(j, i)' /\ IsQueued(k, i)' => j = k
  BY <1>3 DEF OrderInv
<1>10. \A i \in Inputs : \A k : IsReceived(k, i)' => \E j \in 1 .. k - 1 : IsQueued(j, i)'
  BY <1>3, <1>6
<1>11. \A h, i \in Inputs : \A j, k, a, b :
           IsReceived(j, h)' /\ IsReceived(k, i)' /\ j < k /\ IsQueued(a, h)' /\ IsQueued(b, i)' => a < b
  BY <1>3, <1>7
<1> QED BY <1>4, <1>8, <1>9, <1>10, <1>11 DEF OrderInv

LEMMA StepOrder == ASSUME TypeOK, OrderInv, HistoryStep PROVE OrderInv'
<1>1. ASSUME log' = log PROVE OrderInv'
  BY <1>1 DEF OrderInv, IsQueued, IsReceived, PendingInputs, Logged
<1>2. ASSUME NEW t, NEW r, log' = Append(log, Event(t, r)), t \notin InputEvents PROVE OrderInv'
  BY <1>2, GrowsByOne, OrderKept, EventRead
<1>3. CASE Silent
  BY <1>1, <1>3 DEF Silent, runVars
<1>4. CASE Noted \/ Failed \/ StartExecution
  <2>1. \E t \in Quiet \cup {"run.failed", "run.started"} : log' = Append(log, Event(t, NoRef))
    BY <1>4 DEF Noted, Failed, StartExecution
  <2> QED BY <1>2, <2>1 DEF Quiet, InputEvents
<1>5. ASSUME NEW b \in Batches, ResumeExecution(b) PROVE OrderInv'
  BY <1>2, <1>5 DEF ResumeExecution, InputEvents
<1>6. ASSUME NEW i \in Inputs, QueueInput(i) PROVE OrderInv'
  BY <1>6, OrderQueued DEF QueueInput
<1>7. ASSUME NEW partial \in Cancels, CancelRun(partial) PROVE OrderInv'
  BY <1>2, <1>7 DEF CancelRun, InputEvents
<1>8. ASSUME NEW e \in Executions, ReceiveInputs(e) PROVE OrderInv'
  BY <1>8, OrderReceived DEF ReceiveInputs
<1>9. ASSUME NEW e \in Executions, NEW b \in Batches, RequestTools(e, b) PROVE OrderInv'
  BY <1>2, <1>9 DEF RequestTools, InputEvents
<1>10. ASSUME NEW e \in Executions, CompleteRun(e) PROVE OrderInv'
  <2>1. log' = log \o <<Event("message.completed", NoRef), Event("run.completed", NoRef)>>
    BY <1>10 DEF CompleteRun
  <2>2. LogGrows /\ \A k \in Newer : log'[k].type \in {"message.completed", "run.completed"}
    <3>1. /\ LogGrows /\ Newer = {Len(log) + 1, Len(log) + 2}
          /\ log'[Len(log) + 1] = Event("message.completed", NoRef)
          /\ log'[Len(log) + 2] = Event("run.completed", NoRef)
      BY <2>1, GrowsByTwo
    <3> QED BY <3>1, EventRead
  <2> QED BY <2>2, OrderKept DEF InputEvents
<1> QED BY <1>3, <1>4, <1>5, <1>6, <1>7, <1>8, <1>9, <1>10 DEF HistoryStep

-----------------------------------------------------------------------------
(* One user message for each input received *)

ReceivedAt == {k \in DOMAIN log : log[k].type = "input.received"}
UserAt     == {k \in DOMAIN messages : messages[k] = "user"}

CountInv == /\ IsFiniteSet(ReceivedAt) /\ IsFiniteSet(UserAt)
            /\ Cardinality(ReceivedAt) = Cardinality(UserAt)

LEMMA CountAdded ==
    ASSUME NEW m \in Nat, NEW n \in Nat, NEW S, IsFiniteSet(S), S \subseteq 1 .. m
    PROVE  /\ IsFiniteSet(S \cup (m + 1) .. (m + n))
           /\ Cardinality(S \cup (m + 1) .. (m + n)) = Cardinality(S) + n
<1> DEFINE T == (m + 1) .. (m + n)
<1>1. IsFiniteSet(T) /\ Cardinality(T) = n
  <2>1. m + 1 \in Int /\ m + n \in Int
    OBVIOUS
  <2>2. IsFiniteSet(T) /\ Cardinality(T) = IF m + 1 > m + n THEN 0 ELSE (m + n) - (m + 1) + 1
    BY <2>1, FS_Interval
  <2> QED BY <2>2
<1>2. S \cap T = {}
  OBVIOUS
<1>3. /\ IsFiniteSet(S \cup T)
      /\ Cardinality(S \cup T) = Cardinality(S) + Cardinality(T) - Cardinality(S \cap T)
  BY <1>1, FS_Union
<1>4. Cardinality(S \cap T) = 0 /\ Cardinality(S) \in Nat
  BY <1>2, FS_EmptySet, FS_CardinalityType
<1> QED BY <1>1, <1>3, <1>4

LEMMA StepCount == ASSUME TypeOK, CountInv, HistoryStep PROVE CountInv'
<1>1. ASSUME LogGrows, \A k \in Newer : log'[k].type # "input.received" PROVE ReceivedAt' = ReceivedAt
  BY <1>1 DEF ReceivedAt, LogGrows, Newer
<1>2. ASSUME NEW x, x # "user", messages' = Append(messages, x) PROVE UserAt' = UserAt
  BY <1>2 DEF UserAt, TypeOK
<1>3. ASSUME NEW t, NEW r, log' = Append(log, Event(t, r)), t # "input.received"
      PROVE  ReceivedAt' = ReceivedAt
  BY <1>1, <1>3, GrowsByOne, EventRead
<1>4. CASE Silent
  BY <1>4 DEF Silent, runVars, CountInv, ReceivedAt, UserAt
<1>5. CASE \/ Noted \/ Failed \/ StartExecution \/ \E b \in Batches : ResumeExecution(b)
           \/ \E i \in Inputs : QueueInput(i)
           \/ \E e \in Executions, b \in Batches : RequestTools(e, b)
  <2>1. messages' = messages
    BY <1>5 DEF Noted, Failed, StartExecution, ResumeExecution, QueueInput, RequestTools
  <2>2. \E t \in EventTypes \ {"input.received"}, r \in Refs : log' = Append(log, Event(t, r))
    BY <1>5 DEF Noted, Quiet, Failed, StartExecution, ResumeExecution, QueueInput, RequestTools,
                EventTypes, Refs
  <2> QED BY <1>3, <2>1, <2>2 DEF CountInv, UserAt
<1>6. ASSUME NEW partial \in Cancels, CancelRun(partial) PROVE CountInv'
  <2>1. /\ log' = Append(log, Event("run.cancelled", NoRef))
        /\ messages' = messages \/ messages' = Append(messages, "partial")
    BY <1>6 DEF CancelRun
  <2> QED BY <1>2, <1>3, <2>1 DEF CountInv, UserAt
<1>7. ASSUME NEW e \in Executions, CompleteRun(e) PROVE CountInv'
  <2>1. /\ log' = log \o <<Event("message.completed", NoRef), Event("run.completed", NoRef)>>
        /\ messages' = Append(messages, "answer")
    BY <1>7 DEF CompleteRun
  <2>2. LogGrows /\ \A k \in Newer : log'[k].type # "input.received"
    <3>1. /\ LogGrows /\ Newer = {Len(log) + 1, Len(log) + 2}
          /\ log'[Len(log) + 1] = Event("message.completed", NoRef)
          /\ log'[Len(log) + 2] = Event("run.completed", NoRef)
      BY <2>1, GrowsByTwo
    <3> QED BY <3>1, EventRead
  <2> QED BY <1>1, <1>2, <2>1, <2>2 DEF CountInv
<1>8. ASSUME NEW e \in Executions, ReceiveInputs(e) PROVE CountInv'
  <2>1. PICK s \in PendingInOrder :
            /\ log' = log \o [k \in DOMAIN s |-> Event("input.received", s[k])]
            /\ messages' = messages \o [k \in DOMAIN s |-> "user"]
    BY <1>8 DEF ReceiveInputs
  <2> DEFINE n == Cardinality(PendingInputs)
             t == [k \in DOMAIN s |-> "user"]
             m == Len(messages)
  <2>2. /\ LogGrows /\ Newer = {Len(log) + l : l \in 1 .. n}
        /\ \A l \in 1 .. n : log'[Len(log) + l] = Event("input.received", s[l])
        /\ Len(log) \in Nat /\ n \in Nat /\ DOMAIN s = 1 .. n
    BY <2>1, GrowsByReceived
  <2>3. t \in Seq({"user", "answer", "partial"}) /\ DOMAIN t = 1 .. n
    BY <2>2, ReceivedTyped
  <2>4. \A l \in 1 .. n : t[l] = "user"
    BY <2>2
  <2> HIDE DEF t, n
  <2>5. Len(t) = n
    BY <2>2, <2>3, LenProperties
  <2>6. /\ DOMAIN messages' = 1 .. m + n /\ DOMAIN messages = 1 .. m /\ m \in Nat
        /\ \A k \in 1 .. m : messages'[k] = messages[k]
        /\ \A l \in 1 .. n : messages'[m + l] = "user"
    BY <2>1, <2>3, <2>4, <2>5, ConcatProperties DEF TypeOK, t
  <2> HIDE DEF m
  <2>7. UserAt' = UserAt \cup (m + 1) .. (m + n)
    <3>1. ASSUME NEW k \in (m + 1) .. (m + n) PROVE k \in 1 .. m + n /\ messages'[k] = "user"
      <4>1. k - m \in 1 .. n /\ k = m + (k - m)
        BY <2>2, <2>6, <3>1
      <4> QED BY <2>2, <2>6, <4>1
    <3> QED BY <2>2, <2>6, <3>1 DEF UserAt
  <2>8. Newer = (Len(log) + 1) .. (Len(log) + n)
    <3>1. ASSUME NEW k \in (Len(log) + 1) .. (Len(log) + n) PROVE k \in {Len(log) + l : l \in 1 .. n}
      <4>1. k - Len(log) \in 1 .. n /\ k = Len(log) + (k - Len(log))
        BY <2>2, <3>1
      <4> QED BY <4>1
    <3>2. ASSUME NEW l \in 1 .. n PROVE Len(log) + l \in (Len(log) + 1) .. (Len(log) + n)
      BY <2>2, <3>2
    <3> QED BY <2>2, <3>1, <3>2
  <2>9. \A k \in Newer : log'[k].type = "input.received"
    BY <2>2, EventRead
  <2>10. ReceivedAt' = ReceivedAt \cup Newer
    BY <2>2, <2>9 DEF ReceivedAt, LogGrows, Newer
  <2>11. UserAt \subseteq 1 .. m /\ ReceivedAt \subseteq 1 .. Len(log)
    BY <2>6 DEF UserAt, ReceivedAt, TypeOK
  <2>12. IsFiniteSet(UserAt') /\ Cardinality(UserAt') = Cardinality(UserAt) + n
    BY <2>2, <2>6, <2>7, <2>11, CountAdded DEF CountInv
  <2>13. IsFiniteSet(ReceivedAt') /\ Cardinality(ReceivedAt') = Cardinality(ReceivedAt) + n
    <3>1. ReceivedAt' = ReceivedAt \cup (Len(log) + 1) .. (Len(log) + n)
      BY <2>8, <2>10
    <3> HIDE DEF ReceivedAt
    <3> QED BY <2>2, <2>11, <3>1, CountAdded DEF CountInv
  <2> QED BY <2>12, <2>13 DEF CountInv
<1> QED BY <1>4, <1>5, <1>6, <1>7, <1>8 DEF HistoryStep

LEMMA OrderRead == TypeOK /\ OrderInv /\ CountInv => GuidanceInOrder
<1> SUFFICES ASSUME TypeOK, OrderInv, CountInv PROVE GuidanceInOrder
  OBVIOUS
<1>1. ASSUME NEW k \in ReceivedAt
      PROVE  k \in Nat /\ log[k].ref \in Inputs /\ IsReceived(k, log[k].ref)
  <2>1. log[k] \in Events /\ k \in Nat
    BY <1>1 DEF ReceivedAt, TypeOK
  <2>2. log[k] = Event("input.received", log[k].ref)
    BY <1>1, <2>1 DEF ReceivedAt, Event, Events
  <2> QED BY <1>1, <2>1, <2>2 DEF ReceivedAt, IsReceived, OrderInv, InputEvents
<1>2. ASSUME NEW k \in ReceivedAt PROVE \E j \in 1 .. k - 1 : IsQueued(j, log[k].ref)
  BY <1>1, <1>2 DEF OrderInv
<1>3. ASSUME NEW j \in ReceivedAt, NEW k \in ReceivedAt, j < k
      PROVE  QueuedAt(log[j].ref) < QueuedAt(log[k].ref)
  <2>1. PICK a : IsQueued(a, log[j].ref)
    BY <1>2, <1>3
  <2>2. PICK b : IsQueued(b, log[k].ref)
    BY <1>2, <1>3
  <2>3. a < b
    BY <1>1, <1>3, <2>1, <2>2 DEF OrderInv
  <2> QED BY <1>1, <1>3, <2>1, <2>2, <2>3, QueuedWhere
<1>4. Cardinality(UserAt) = Cardinality(ReceivedAt)
  BY DEF CountInv
<1> QED BY <1>2, <1>3, <1>4 DEF GuidanceInOrder, ReceivedAt, UserAt, IsQueued

\* Guidance is heard in the order it was given, each input once, after it was
\* queued, and as one user message.
THEOREM InOrder == Spec => []GuidanceInOrder
<1>1. Init => OrderInv /\ CountInv
  <2> SUFFICES ASSUME Init PROVE OrderInv /\ CountInv
    OBVIOUS
  <2>1. log = <<>> /\ messages = <<>>
    BY DEF Init
  <2>2. ReceivedAt = {} /\ UserAt = {}
    BY <2>1 DEF ReceivedAt, UserAt
  <2>3. CountInv
    BY <2>2, FS_EmptySet DEF CountInv
  <2>4. OrderInv
    BY <2>1 DEF OrderInv, IsQueued, IsReceived
  <2> QED BY <2>3, <2>4
<1>2. RunInv => TypeOK
  BY DEF RunInv
<1> QED BY InitRunInv, NextRunInv, NextHistory, StepOrder, StepCount, OrderRead, <1>1, <1>2, PTL
        DEF Spec

=============================================================================
