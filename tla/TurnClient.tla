----------------------------- MODULE TurnClient -----------------------------
(***************************************************************************)
(* One turn as its client sees it: the loop that reads the stream of a     *)
(* model request, runs the tools it asks for, sends their results and      *)
(* reads on (packages/agent-runtime/src/tool-loop.ts, server-stream.ts),   *)
(* over a network that breaks streams and loses, delays and repeats        *)
(* requests, against a run that keeps the promises of RunLifecycle.        *)
(*                                                                         *)
(* The loop is one thread of control, so an action is the code between two *)
(* awaits.  The tool frames of a batch are committed at once               *)
(* (execution_worker.py) and are one frame here.                           *)
(***************************************************************************)
EXTENDS Naturals, FiniteSets, Sequences, SequencesExt

CONSTANTS
    Inputs,        \* steering inputs
    Calls,         \* tool calls the model may ask for
    Operation,     \* the tool and arguments of a call
    Loads,         \* the calls that load a capability
    Dynamic,       \* the calls of the tools a capability brings
    MaxExecutions, \* bound on the model requests of the run
    MaxAttempts,   \* the length of RECOVERY_DELAYS
    MaxFaults      \* bound on broken streams and unanswered requests

ASSUME ClientConstants ==
    /\ IsFiniteSet(Calls)
    /\ Loads \subseteq Calls
    /\ Dynamic \subseteq Calls \ Loads
    /\ MaxExecutions \in Nat \ {0}
    /\ MaxAttempts \in Nat \ {0}
    /\ MaxFaults \in Nat

VARIABLES
    phase, guidance,  \* the run, as RunLifecycle has it
    executions,       \* its model requests: key, frames, whether open, tools offered
    stray,            \* requests whose answer nobody waits for any more
    loop,             \* what runToolLoop waits for
    stream,           \* the response being read: execution and frames read
    requests,         \* calls read in this response
    continuation,     \* continuationId, 0 when undefined
    batch,            \* the execution whose results are pending, 0 for none
    attempts,         \* recovery attempts made
    faults,           \* what the network has done so far
    running,          \* calls whose tool has not finished
    events,           \* what onEvent has been told
    reached,          \* how often the tool of a call was started
    failures,         \* failedToolCalls
    catalog,          \* capabilities in the dynamic catalog
    aborted           \* execution.signal.aborted

serverVars == <<phase, guidance, executions>>
readVars   == <<stream, requests, continuation>>
toolVars   == <<running, reached, failures, catalog>>
vars == <<serverVars, stray, loop, readVars, batch, attempts, faults, toolVars, events, aborted>>

Lifecycle == INSTANCE RunLifecycle

Over   == {"completed", "failed", "cancelled"}
Latest == Len(executions)
Key(kind, e) == [kind |-> kind, after |-> e]
Execution(key, tools) == [key |-> key, frames |-> <<>>, open |-> TRUE, offered |-> tools]
Frame(type, calls) == [type |-> type, calls |-> calls]
Nothing == [execution |-> 0, read |-> 0]

\* A frame by its identity, the SSE id "execution:sequence", and a result by its call.
Told(e, n)   == [type |-> "frame", execution |-> e, number |-> n, call |-> 0]
Completed(c) == [type |-> "tool.completed", execution |-> 0, number |-> 0, call |-> c]

Init ==
    /\ Lifecycle!LifecycleInit
    /\ executions = <<>>
    /\ stray = {}
    /\ loop = "starting"
    /\ stream = Nothing
    /\ requests = {}
    /\ continuation = 0
    /\ batch = 0
    /\ attempts = 0
    /\ faults = 0
    /\ running = {}
    /\ events = <<>>
    /\ reached = [c \in Calls |-> 0]
    /\ failures = [o \in {Operation[c] : c \in Calls} |-> 0]
    /\ catalog = {}
    /\ aborted = FALSE

-----------------------------------------------------------------------------
(* The service, one committed transaction at a time. *)

Longer(x, frames, open) ==
    [key |-> x.key, frames |-> x.frames \o frames, open |-> open, offered |-> x.offered]
Extend(e, frames) == [executions EXCEPT ![e] = Longer(@, frames, TRUE)]
Close(e, frames)  == [executions EXCEPT ![e] = Longer(@, frames, FALSE)]
Written(e, type)  == \E n \in DOMAIN executions[e].frames : executions[e].frames[n].type = type
Thinking == phase = "thinking" /\ executions[Latest].open

ServerUnchanged == UNCHANGED <<stray, loop, readVars, batch, attempts, faults, toolVars, events, aborted>>

\* A delta, once per request.
ServerWrites ==
    /\ Thinking
    /\ ~Written(Latest, "delta")
    /\ ~Written(Latest, "run.continue")
    /\ executions' = Extend(Latest, <<Frame("delta", {})>>)
    /\ UNCHANGED <<phase, guidance>>
    /\ ServerUnchanged

\* Guidance is accepted at any time, and heard at the head of a request.
ServerAccepts == \E i \in Inputs : Lifecycle!Guide(i) /\ UNCHANGED executions /\ ServerUnchanged

ServerHears ==
    /\ Thinking
    /\ executions[Latest].frames = <<>>
    /\ Lifecycle!Waiting # {}
    /\ Lifecycle!Hear
    /\ executions' = Extend(Latest, <<Frame("input.received", {})>>)
    /\ ServerUnchanged

Asked == {c \in Calls : \E e \in DOMAIN executions : \E n \in DOMAIN executions[e].frames :
                            c \in executions[e].frames[n].calls}

\* The model asks for calls it has not asked for before; a call of a tool
\* that was not offered is answered with a rejection.
ServerAsks ==
    /\ Thinking
    /\ ~Written(Latest, "run.continue")
    /\ Latest < MaxExecutions
    /\ \E calls \in (SUBSET Calls) \ {{}} :
        /\ calls \cap Asked = {}
        /\ executions' = Close(Latest, <<Frame("tool.requested", calls)>>)
    /\ Lifecycle!AskTools
    /\ ServerUnchanged

\* run.continue is committed before the execution ends.
ServerContinues ==
    /\ Thinking
    /\ Latest < MaxExecutions
    /\ Lifecycle!Waiting # {}
    /\ ~Written(Latest, "run.continue")
    /\ executions' = Extend(Latest, <<Frame("run.continue", {})>>)
    /\ UNCHANGED <<phase, guidance>>
    /\ ServerUnchanged

ServerPauses ==
    /\ Thinking
    /\ Written(Latest, "run.continue")
    /\ Lifecycle!Pause
    /\ executions' = Close(Latest, <<>>)
    /\ ServerUnchanged

ServerAnswers ==
    /\ Thinking
    /\ Lifecycle!Answer
    /\ executions' = Close(Latest, <<>>)
    /\ ServerUnchanged

\* The model fails, or the worker is lost and its lease expires; after
\* run.continue it can only be the worker.
ServerFails ==
    /\ Thinking
    /\ Lifecycle!Fail
    /\ executions' = Close(Latest, <<Frame("run.failed", {})>>)
    /\ ServerUnchanged

\* The interruption's cancel request, which ends the streams of the run.
ServerCancelled ==
    /\ aborted
    /\ Lifecycle!Cancel
    /\ UNCHANGED executions
    /\ ServerUnchanged

Server ==
    \/ ServerWrites \/ ServerAccepts \/ ServerHears \/ ServerAsks \/ ServerContinues
    \/ ServerPauses \/ ServerAnswers \/ ServerFails \/ ServerCancelled

-----------------------------------------------------------------------------
(* A request, and what the service does with it. *)

Request(type, e) == [type |-> type, execution |-> e, tools |-> catalog]

KeyOf(r) == Key(IF r.type = "continue" THEN "steer" ELSE "tools", r.execution)
Existing(r) == {e \in 1..Latest : executions[e].key = KeyOf(r)}

\* A recovery without results subscribes to the latest request.
Resubscribes(r) == r.type = "recover" /\ r.execution = 0

\* Mutant: a run that was paused for guidance is not continued.
SubmitsTools(r) ==
    /\ ~Resubscribes(r)
    /\ Existing(r) = {}
    /\ r.execution = Latest
    /\ phase = "tools"

Submits(r) ==
    /\ ~Resubscribes(r)
    /\ Existing(r) = {}
    /\ r.execution = Latest
    /\ phase = IF r.type = "continue" THEN "paused" ELSE "tools"

Refused(r) == ~Resubscribes(r) /\ Existing(r) = {} /\ ~Submits(r)

\* The request is served; the execution it answers with is Reply(r).
Serve(r) ==
    IF Submits(r)
    THEN /\ IF r.type = "continue" THEN Lifecycle!Continue ELSE Lifecycle!UseTools
         /\ executions' = Append(executions, Execution(KeyOf(r), r.tools))
    ELSE UNCHANGED serverVars

Reply(r) ==
    IF Resubscribes(r) THEN Latest
    ELSE IF Submits(r) THEN Latest + 1
    ELSE CHOOSE e \in Existing(r) : TRUE

\* A request that its sender has given up arrives, or never does.
StrayArrives ==
    \E r \in stray :
        /\ stray' = stray \ {r}
        /\ Serve(r)
        /\ UNCHANGED <<loop, readVars, batch, attempts, faults, toolVars, events, aborted>>

StrayVanishes ==
    \E r \in stray :
        /\ stray' = stray \ {r}
        /\ UNCHANGED <<serverVars, loop, readVars, batch, attempts, faults, toolVars, events, aborted>>

-----------------------------------------------------------------------------
(* The loop. *)

Read(e) ==
    /\ loop' = "reading"
    /\ stream' = [execution |-> e, read |-> 0]
    /\ requests' = {}
    /\ continuation' = 0

StopReading(next) == loop' = next /\ stream' = Nothing /\ UNCHANGED <<requests, continuation>>

\* ConversationTransport.start: a failure is not recovered.
StartAnswered ==
    /\ loop = "starting"
    /\ ~aborted
    /\ Lifecycle!Start
    /\ executions' = <<Execution(Key("initial", 0), catalog)>>
    /\ Read(1)
    /\ UNCHANGED <<stray, batch, attempts, faults, toolVars, events, aborted>>

StartFails ==
    /\ loop = "starting"
    /\ loop' = IF aborted THEN "ended" ELSE "failed"
    /\ \/ Lifecycle!Start /\ executions' = <<Execution(Key("initial", 0), catalog)>>
       \/ UNCHANGED serverVars
    /\ UNCHANGED <<stray, readVars, batch, attempts, faults, toolVars, events, aborted>>

\* Mutant: a frame told before is skipped altogether when it is replayed.
ReadFrameOnce ==
    /\ loop = "reading"
    /\ ~aborted
    /\ LET e == stream.execution
           n == stream.read + 1
           frame == executions[e].frames[n]
           known == Contains(events, Told(e, n))
       IN  /\ n <= Len(executions[e].frames)
           /\ stream' = [stream EXCEPT !.read = n]
           /\ requests' = IF known THEN requests ELSE requests \cup frame.calls
           /\ continuation' = IF frame.type = "run.continue" /\ ~known THEN e ELSE continuation
           /\ events' = IF known THEN events ELSE Append(events, Told(e, n))
    /\ UNCHANGED <<serverVars, stray, loop, batch, attempts, faults, toolVars, aborted>>

\* Mutant: a replayed frame is told again.
ReadFrameAgain ==
    /\ loop = "reading"
    /\ ~aborted
    /\ LET e == stream.execution
           n == stream.read + 1
           frame == executions[e].frames[n]
       IN  /\ n <= Len(executions[e].frames)
           /\ Len(events) < 8
           /\ stream' = [stream EXCEPT !.read = n]
           /\ requests' = requests \cup frame.calls
           /\ continuation' = IF frame.type = "run.continue" THEN e ELSE continuation
           /\ events' = Append(events, Told(e, n))
    /\ UNCHANGED <<serverVars, stray, loop, batch, attempts, faults, toolVars, aborted>>

\* processLine: a frame that was told before still counts as a request or a
\* continuation, it is only not told again.
ReadFrame ==
    /\ loop = "reading"
    /\ ~aborted
    /\ LET e == stream.execution
           n == stream.read + 1
           frame == executions[e].frames[n]
       IN  /\ n <= Len(executions[e].frames)
           /\ stream' = [stream EXCEPT !.read = n]
           /\ requests' = requests \cup frame.calls
           /\ continuation' = IF frame.type = "run.continue" THEN e ELSE continuation
           /\ events' = IF Contains(events, Told(e, n)) THEN events
                        ELSE Append(events, Told(e, n))
    /\ UNCHANGED <<serverVars, stray, loop, batch, attempts, faults, toolVars, aborted>>

\* subscribe_execution ends the stream of a closed execution after its last
\* frame, and that of a cancelled run at once.
Done ==
    \/ phase = "cancelled"
    \/ /\ ~executions[stream.execution].open
       /\ stream.read = Len(executions[stream.execution].frames)

ReadDone ==
    /\ loop = "reading"
    /\ Done

EndLoop ==
    /\ ReadDone
    /\ aborted \/ (continuation = 0 /\ requests = {})
    /\ StopReading("ended")
    /\ UNCHANGED <<serverVars, stray, batch, attempts, faults, toolVars, events, aborted>>

FollowContinuation ==
    /\ ReadDone
    /\ ~aborted
    /\ continuation # 0
    /\ StopReading("continuing")
    /\ UNCHANGED <<serverVars, stray, batch, attempts, faults, toolVars, events, aborted>>

\* Every call is started in the same step, after the check of repeated
\* failures; a call with a rejection is answered without its tool.
Rejected(c)   == c \in Dynamic /\ executions[stream.execution].offered = {}
Exhausted(c)  == failures[Operation[c]] >= 2

ExecuteTools ==
    /\ ReadDone
    /\ ~aborted
    /\ continuation = 0
    /\ requests # {}
    /\ LET rejected == {c \in requests : Rejected(c)}
       IN  /\ running' = requests \ rejected
           /\ reached' = [c \in Calls |->
                  IF c \in requests \ rejected /\ ~Exhausted(c) THEN reached[c] + 1 ELSE reached[c]]
           /\ events' = events \o SetToSeq({Completed(c) : c \in rejected})
    /\ batch' = stream.execution
    /\ StopReading("executing")
    /\ UNCHANGED <<serverVars, stray, attempts, faults, failures, catalog, aborted>>

\* DesktopToolRegistry.execute returns: the tool's result or an error.
FinishTool(c) ==
    /\ loop = "executing"
    /\ c \in running
    /\ running' = running \ {c}
    /\ events' = Append(events, Completed(c))
    /\ \/ /\ failures' = [failures EXCEPT ![Operation[c]] = IF @ < 3 THEN @ + 1 ELSE @]
          /\ UNCHANGED catalog
       \/ /\ ~Exhausted(c)
          /\ failures' = [failures EXCEPT ![Operation[c]] = 0]
          /\ catalog' = catalog \cup ({c} \cap Loads)
    /\ UNCHANGED <<serverVars, stray, loop, readVars, batch, attempts, faults, reached, aborted>>

SendResults ==
    /\ loop = "executing"
    /\ running = {}
    /\ loop' = IF aborted THEN "ended" ELSE "resuming"
    /\ UNCHANGED <<serverVars, stray, readVars, batch, attempts, faults, toolVars, events, aborted>>

\* What the loop is waiting for an answer to.
Outstanding ==
    CASE loop = "resuming"   -> Request("resume", batch)
      [] loop = "continuing" -> Request("continue", continuation)
      [] loop = "recovering" -> Request("recover", batch)

Waits == loop \in {"resuming", "continuing", "recovering"} /\ ~aborted

RequestAnswered ==
    /\ Waits
    /\ ~Refused(Outstanding)
    /\ Serve(Outstanding)
    /\ Read(Reply(Outstanding))
    /\ batch' = 0
    /\ attempts' = 0
    /\ UNCHANGED <<stray, faults, toolVars, events, aborted>>

\* Mutant: the recovery after a lost resume forgets the results.
RecoverEmpty(left) ==
    /\ batch' = 0
    /\ IF loop = "recovering"
       THEN IF attempts + 1 < MaxAttempts
            THEN attempts' = attempts + 1 /\ loop' = loop
            ELSE attempts' = 0 /\ loop' = "failed"
       ELSE attempts' = 0 /\ loop' = "recovering"
    /\ stray' = stray \cup left
    /\ stream' = Nothing
    /\ UNCHANGED <<serverVars, requests, continuation, toolVars, events, aborted>>

\* A failed request or a broken stream: recover with what is pending, and in
\* recover the next of the delays, until there is none.
Recover(left) ==
    /\ batch' = IF loop = "continuing" THEN 0 ELSE batch
    /\ IF loop = "recovering"
       THEN IF attempts + 1 < MaxAttempts
            THEN attempts' = attempts + 1 /\ loop' = loop
            ELSE attempts' = 0 /\ loop' = "failed"
       ELSE attempts' = 0 /\ loop' = "recovering"
    /\ stray' = stray \cup left
    /\ stream' = Nothing
    /\ UNCHANGED <<serverVars, requests, continuation, toolVars, events, aborted>>

Fault == faults < MaxFaults /\ faults' = faults + 1

\* No answer: the request or the answer is lost, or late.
RequestUnanswered == Waits /\ Fault /\ Recover({Outstanding})

\* 409, which is worth another attempt.
RequestRefused == Waits /\ Refused(Outstanding) /\ Recover({}) /\ UNCHANGED faults

\* Any other status: recover throws.
RecoveryDenied ==
    /\ Waits
    /\ loop = "recovering"
    /\ loop' = "failed"
    /\ attempts' = 0
    /\ UNCHANGED <<serverVars, stray, readVars, batch, faults, toolVars, events, aborted>>

StreamBreaks == loop = "reading" /\ ~aborted /\ Fault /\ Recover({})

\* interruptTurn: the signal is the controller's, so every request and every
\* wait of the loop fails at once, and recover throws.
Abort ==
    /\ ~aborted
    /\ loop \notin {"ended", "failed"}
    /\ aborted' = TRUE
    /\ UNCHANGED <<serverVars, stray, loop, readVars, batch, attempts, faults, toolVars, events>>

LeaveAborted ==
    /\ aborted
    /\ loop \in {"reading", "resuming", "continuing", "recovering"}
    /\ StopReading("ended")
    /\ UNCHANGED <<serverVars, stray, batch, attempts, faults, toolVars, events, aborted>>

Client ==
    \/ StartAnswered \/ StartFails
    \/ ReadFrame \/ EndLoop \/ FollowContinuation \/ ExecuteTools
    \/ \E c \in Calls : FinishTool(c)
    \/ SendResults
    \/ RequestAnswered \/ RequestUnanswered \/ RequestRefused \/ RecoveryDenied
    \/ StreamBreaks \/ Abort \/ LeaveAborted

Next == Server \/ StrayArrives \/ StrayVanishes \/ Client

Spec == Init /\ [][Next]_vars

-----------------------------------------------------------------------------
(* The service ends what it began, or its reconciliation does                *)
(* (reconcile_executions); tools return; an answer that is not lost comes.   *)
(* Nothing is promised of streams and requests beyond MaxFaults, of the      *)
(* interruption, and of requests nobody waits for.                           *)
Loop ==
    \/ StartAnswered \/ ReadFrame \/ EndLoop \/ FollowContinuation \/ ExecuteTools
    \/ SendResults \/ RequestAnswered \/ RequestRefused \/ LeaveAborted
    \/ StartFails

Fairness ==
    /\ WF_vars(Server)
    /\ WF_vars(Loop)
    /\ \A c \in Calls : WF_vars(FinishTool(c))

FairSpec == Spec /\ Fairness

-----------------------------------------------------------------------------
Stopped == loop \in {"ended", "failed"}

Frames(e) == executions[e].frames

\* Every variable holds what the service can write or the loop can keep.
TypeOK ==
    /\ phase \in Lifecycle!Phases
    /\ guidance \in [Inputs -> {"none", "pending", "received"}]
    /\ executions \in Seq([key : [kind : {"initial", "tools", "steer"}, after : 0..MaxExecutions],
                            frames : Seq([type : {"delta", "input.received", "tool.requested",
                                                  "run.continue", "run.failed"},
                                          calls : SUBSET Calls]),
                            open : BOOLEAN, offered : SUBSET Loads])
    /\ Latest \in 0..MaxExecutions
    /\ \A r \in stray : r.type \in {"resume", "continue", "recover"} /\ r.execution \in 0..Latest
    /\ loop \in {"starting", "reading", "executing", "resuming", "continuing", "recovering",
                 "ended", "failed"}
    /\ stream.execution \in 0..Latest
    /\ loop = "reading" => stream.execution > 0 /\ stream.read \in 0..Len(Frames(stream.execution))
    /\ requests \subseteq Calls
    /\ continuation \in 0..Latest
    /\ batch \in 0..Latest
    /\ attempts \in 0..(MaxAttempts - 1)
    /\ faults \in 0..MaxFaults
    /\ running \subseteq Calls
    /\ running # {} => loop = "executing"
    /\ \A o \in DOMAIN failures : failures[o] \in 0..3
    /\ reached \in [Calls -> Nat]
    /\ catalog \subseteq Loads
    /\ aborted \in BOOLEAN

\* A turn that was not interrupted never ends as answered while the run still
\* waits for its client: however often streams break, a request for tools or a
\* continuation that was read is acted on (runToolLoop returns at line 84).
EndsWithRun == loop = "ended" /\ ~aborted => phase \in Over

\* What the turn is told is what the service wrote, in order and each frame
\* once, although a recovered stream is read from its start (seenEvents), and
\* the end of a tool once, after its request.
Earlier(v, i) == \E j \in 1..(i - 1) : events[j] = v

EventsInOrder ==
    /\ \A i, j \in DOMAIN events : events[i] = events[j] => i = j
    /\ \A i \in DOMAIN events : LET v == events[i] IN
           \/ v.type = "tool.completed" /\ \E j \in 1..(i - 1) :
                  /\ events[j].type = "frame"
                  /\ v.call \in Frames(events[j].execution)[events[j].number].calls
           \/ v.type = "frame" /\ v.number > 1 /\ Earlier(Told(v.execution, v.number - 1), i)
           \/ /\ v.type = "frame" /\ v.number = 1
              /\ v.execution > 1 =>
                     LET last == Len(Frames(v.execution - 1))
                     IN  Earlier(Told(v.execution - 1, last), i)

\* No tool is started twice for one call, whichever of the requests that
\* carry its result are lost, late or repeated.
ToolsRunOnce == \A c \in Calls : reached[c] <= 1

\* However often streams break and requests are repeated, what was read again is
\* neither told nor done again.
ReplayHarmless == TypeOK /\ EventsInOrder /\ ToolsRunOnce

\* The turn ends when the network lets it, unless its worker was lost between
\* the commit of run.continue and the end of its execution.
WorkerLost == phase = "failed" /\ Written(Latest, "run.continue")
EndsUnlessLost == <>(Stopped \/ WorkerLost)

=============================================================================
