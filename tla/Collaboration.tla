----------------------------- MODULE Collaboration -----------------------------
(***************************************************************************)
(* One task of a multi-agent team: its rows on the server                  *)
(* (services/multi_agents/commands.py, state.py), the orchestrators that   *)
(* the desktop runs for it (multi-agents/multi-agent-service.ts, the       *)
(* collaboration tool) and the page that starts and stops them             *)
(* (pages/multi-agent/useMultiAgentExecution.ts, useCollaborationWorkspace *)
(* .ts, TaskRoster.tsx).                                                   *)
(*                                                                         *)
(* A server command is one transaction.  An orchestrator acts between two  *)
(* awaits on the copy of the task it read last.                            *)
(***************************************************************************)
EXTENDS Naturals, FiniteSets, Sequences, SequencesExt

CONSTANTS
    Nodes,    \* members of the team
    Host,     \* the member with isHost
    Requests, \* requestIds the page can draw
    NoRequest,
    Limit,    \* executionLimit of the task
    MaxTurns  \* bound on the turns started since the last reset

ASSUME CollaborationConstants ==
    /\ Host \in Nodes
    /\ NoRequest \notin Requests
    /\ Limit \in Nat \ {0}
    /\ MaxTurns \in Nat \ {0}

VARIABLES
    task, \* MultiAgentTask with the statuses of its members
    runs, \* the orchestrators: activeRuns and where each one waits
    screen  \* MultiAgentPage: its request, the runs it listens to, the task it
          \* shows, its pending calls

collaborationVars == <<task, runs, screen>>

Speaking   == {"ready", "running"}
Speakers(t) == {n \in Nodes : t.member[n] \in Speaking}

NoRun == [at |-> "idle", speaker |-> Host, turn |-> "none", cancelled |-> FALSE]

CollaborationInit ==
    /\ task = [status |-> "draft", member |-> [n \in Nodes |-> "idle"], queue |-> <<>>, count |-> 0]
    /\ runs = [r \in Requests |-> NoRun]
    /\ screen = [request |-> NoRequest, runs |-> {}, shown |-> "draft", sending |-> {}, stopping |-> {}]

-----------------------------------------------------------------------------
(* state.py *)

ClearQueue(t) ==
    [t EXCEPT !.queue = <<>>,
              !.member = [n \in Nodes |-> IF @[n] = "queued" THEN "idle" ELSE @[n]]]

Queued(t, n, queue) ==
    [t EXCEPT !.queue = queue, !.member[n] = IF @ = "idle" THEN "queued" ELSE @]

Enqueue(t, n) ==
    Queued(t, n, IF t.member[n] # "ready" /\ ~Contains(t.queue, n)
                 THEN Append(t.queue, n) ELSE t.queue)

\* A member is in the queue once.
Without(queue, n) ==
    IF Contains(queue, n) THEN RemoveAt(queue, CHOOSE i \in DOMAIN queue : queue[i] = n) ELSE queue

EnqueueFront(t, n) == Queued(t, n, <<n>> \o Without(t.queue, n))

\* Mutant: the next speaker is activated though one is ready or running.
ActivateAlways(t) ==
    IF t.queue = <<>> THEN [t EXCEPT !.member[Host] = "ready"]
    ELSE [t EXCEPT !.queue = Tail(@), !.member[Head(t.queue)] = "ready"]

ActivateNext(t) ==
    IF Speakers(t) # {} THEN t
    ELSE IF t.queue = <<>> THEN [t EXCEPT !.member[Host] = "ready"]
    ELSE [t EXCEPT !.queue = Tail(@), !.member[Head(t.queue)] = "ready"]

CallHost(t) == ActivateNext(Enqueue(t, Host))

-----------------------------------------------------------------------------
(* commands.py: the task after a command *)

\* start_task, for a task that _startable; _reset_task forgets the turns.
Startable == task.status \in {"draft", "failed", "stopped"}
Started ==
    CallHost([status |-> "running", member |-> [n \in Nodes |-> "idle"], queue |-> <<>>,
              count |-> IF task.status = "draft" THEN task.count ELSE 0])

\* start_node
NodeReady(n) ==
    /\ task.status = "running"
    /\ task.member[n] = "ready"
    /\ \A m \in Nodes : task.member[m] # "running"
AtLimit(n) == task.count >= Limit /\ n # Host
Refused(n) == CallHost(ClearQueue([task EXCEPT !.member[n] = "idle"]))
NodeStarted(n) == [task EXCEPT !.member[n] = "running", !.count = @ + 1]

\* recover_host
HostRecovered == IF task.status = "running" THEN ActivateNext(task) ELSE task

\* post_message of a running member to another one, or to the user
MayPost(n) == task.member[n] = "running" /\ task.status = "running"
PostedToUser(n) == [task EXCEPT !.member[n] = "idle", !.status = "waiting_user"]
PostedTo(n, to) ==
    LET idle == [task EXCEPT !.member[n] = "idle"]
    IN  IF task.count >= Limit THEN CallHost(ClearQueue(idle))
                               ELSE ActivateNext(Enqueue(idle, to))

\* post_user_message
UserPosted(n) ==
    LET resumed == [task EXCEPT !.status = "running", !.count = 0]
    IN  CASE task.status = "waiting_user" -> ActivateNext(EnqueueFront(resumed, n))
          [] task.status = "failed" -> ActivateNext(EnqueueFront(ClearQueue(resumed), n))
          [] task.status = "running" -> ActivateNext(Enqueue(task, n))
          [] OTHER -> task

\* complete_node of a running member, with an answer or with none
Completed(n, answered) ==
    LET idle == [task EXCEPT !.member[n] = "idle"]
    IN  CASE task.queue # <<>> -> ActivateNext(idle)
          [] task.queue = <<>> /\ answered -> [idle EXCEPT !.status = "waiting_user"]
          [] OTHER -> CallHost(idle)

\* fail_node asks neither for the member's status nor for the task's.
Failed(n) ==
    LET idle == [task EXCEPT !.member[n] = "idle"]
    IN  IF n = Host THEN ClearQueue([idle EXCEPT !.status = "failed"]) ELSE CallHost(idle)

\* stop_task
StoppedTask ==
    IF task.status \in {"running", "waiting_user"}
    THEN [task EXCEPT !.status = "stopped", !.queue = <<>>, !.member = [n \in Nodes |-> "idle"]]
    ELSE task

-----------------------------------------------------------------------------
(* The orchestrator of request r.  runs[r].at is what it waits for. *)

Step(r, to) == runs' = [runs EXCEPT ![r].at = to]

\* A task.updated event, or the answer of runTask, reaches the page that
\* started the run; one that was left since hears nothing.
Shows(r, t) == screen' = [screen EXCEPT !.shown = IF r \in screen.runs THEN t.status ELSE @]

\* The promise of runTask settles: executeTask unsubscribes, forgets the
\* page's request, whichever it is, and shows the task it was given.
Ends(r, t) ==
    /\ runs' = [runs EXCEPT ![r] = [NoRun EXCEPT !.at = "done"]]
    /\ screen' = IF r \in screen.runs
               THEN [screen EXCEPT !.request = NoRequest, !.runs = @ \ {r}, !.shown = t.status]
               ELSE screen

\* orchestrate: the next round, on the copy t of the task that was read.
Round(r, t) ==
    LET ready == {n \in Nodes : t.member[n] = "ready"}
    IN  \/ t.status # "running" /\ Ends(r, t)
        \/ /\ t.status = "running"
           /\ \/ runs[r].cancelled /\ Step(r, "reload")
              \/ /\ ~runs[r].cancelled
                 /\ \/ \E n \in ready : runs' = [runs EXCEPT ![r].at = "node", ![r].speaker = n]
                    \/ ready = {} /\ Step(r, "recover")
           /\ Shows(r, t)

\* runMultiAgentTask: the task as it is, then start_task unless it runs.
LoadTask(r) ==
    /\ runs[r].at = "load"
    /\ IF task.status = "running" THEN Round(r, task)
                                  ELSE Step(r, "start") /\ UNCHANGED screen
    /\ UNCHANGED task

StartTask(r) ==
    /\ runs[r].at = "start"
    /\ IF Startable THEN task' = Started /\ Round(r, Started)
                    ELSE Ends(r, task) /\ UNCHANGED task

\* A run that was cancelled returns the task as it is now.
ReloadTask(r) ==
    /\ runs[r].at = "reload"
    /\ Ends(r, task)
    /\ UNCHANGED task

RecoverHost(r) ==
    LET ready == {n \in Nodes : HostRecovered.member[n] = "ready"}
    IN  /\ runs[r].at = "recover"
        /\ task' = HostRecovered
        /\ \/ \E n \in ready :
                 /\ runs' = [runs EXCEPT ![r].at = "node", ![r].speaker = n]
                 /\ UNCHANGED screen
           \/ ready = {} /\ Ends(r, HostRecovered)

\* runTurn: start_node, and startTurn unless the member's thread has a turn.
StartNode(r) ==
    LET n == runs[r].speaker
    IN  /\ runs[r].at = "node"
        /\ task.count < MaxTurns
        /\ IF NodeReady(n) /\ ~AtLimit(n)
           THEN /\ task' = NodeStarted(n)
                /\ IF \E o \in Requests : runs[o].turn # "none" /\ runs[o].speaker = n
                   THEN Ends(r, task')
                   ELSE /\ runs' = [runs EXCEPT ![r].at = "turn", ![r].turn = "running"]
                        /\ UNCHANGED screen
           ELSE /\ task' = IF NodeReady(n) THEN Refused(n) ELSE task
                /\ Ends(r, task')

\* agent_message: the turn that handed over is interrupted.
HandOver(r) ==
    LET n == runs[r].speaker
    IN  /\ runs[r].turn \in {"running", "interrupting"}
        /\ MayPost(n)
        /\ \/ task' = PostedToUser(n)
           \/ \E to \in Nodes \ {n} :
                 /\ ~(n = Host /\ task.count >= Limit)
                 /\ task' = PostedTo(n, to)
        /\ runs' = [runs EXCEPT ![r].turn = "handed"]
        /\ UNCHANGED screen

\* The turn ends, by itself or by its interruption.
Outcomes(turn) ==
    IF turn = "running" THEN {"answer", "empty", "failed", "lost"} ELSE {"stopped", "lost"}
EndNodeTurn(r) ==
    /\ runs[r].at = "turn"
    /\ \E end \in Outcomes(runs[r].turn) :
          runs' = [runs EXCEPT ![r].turn = "none",
                       ![r].at = IF runs[r].turn = "handed" /\ end = "stopped" THEN "handed" ELSE end]
    /\ UNCHANGED <<task, screen>>

\* getMultiAgentTask, and what runTurn makes of the copy at once.
ReadTask(r) ==
    LET n     == runs[r].speaker
        mine  == task.status = "running" /\ task.member[n] = "running"
        posts == CASE runs[r].at = "failed" -> "fail"
                   [] runs[r].at = "lost" /\ mine -> "fail"
                   [] runs[r].at \in {"answer", "empty", "stopped"} /\ mine ->
                         IF runs[r].at = "answer" THEN "complete" ELSE "completeEmpty"
                   [] OTHER -> "loop"
    IN  /\ runs[r].at \in {"answer", "empty", "failed", "lost", "stopped", "handed"}
        /\ IF posts = "loop" THEN Round(r, task) ELSE Step(r, posts) /\ UNCHANGED screen
        /\ UNCHANGED task

CompleteNode(r) ==
    /\ runs[r].at \in {"complete", "completeEmpty"}
    /\ IF task.member[runs[r].speaker] = "running"
       THEN /\ task' = Completed(runs[r].speaker, runs[r].at = "complete")
            /\ Round(r, task')
       ELSE Ends(r, task) /\ UNCHANGED task

FailNode(r) ==
    /\ runs[r].at = "fail"
    /\ task' = Failed(runs[r].speaker)
    /\ Round(r, task')

\* A request of the orchestrator fails: task.failed, and the page reloads.
RequestFails(r) ==
    /\ runs[r].at \in {"load", "start", "reload", "recover", "node", "answer", "empty", "failed", "lost",
                       "stopped", "handed", "complete", "completeEmpty", "fail"}
    /\ Ends(r, task)
    /\ UNCHANGED task

-----------------------------------------------------------------------------
(* The page *)

Execute(r) ==
    /\ runs[r].at = "idle"
    /\ runs' = [runs EXCEPT ![r].at = "load"]

\* runCollaboration for the draft it has just created, onRerun for a task that
\* is shown failed or stopped: nothing disables its button while a run starts.
Rerun(r) ==
    /\ \/ screen.shown \in {"failed", "stopped"}
       \/ screen.shown = "draft" /\ \A o \in Requests : runs[o] = NoRun
    /\ Execute(r)
    /\ screen' = [screen EXCEPT !.request = r, !.runs = @ \cup {r}]
    /\ UNCHANGED task

\* sendGroupMessage decides by the task it shows whether to resume.
SendMessage(n) ==
    /\ screen.sending = {}
    /\ screen' = [screen EXCEPT !.sending = {[to |-> n, resume |-> screen.shown \in {"waiting_user", "failed"}]}]
    /\ UNCHANGED <<task, runs>>

MessagePosted ==
    \E sent \in screen.sending :
        /\ task' = UserPosted(sent.to)
        /\ LET shows == [screen EXCEPT !.sending = {}, !.shown = task'.status]
           IN  \/ /\ sent.resume
                  /\ \E r \in Requests : Execute(r) /\ screen' = [shows EXCEPT !.request = r, !.runs = @ \cup {r}]
               \/ /\ ~sent.resume
                  /\ screen' = shows
                  /\ UNCHANGED runs

\* stopTask: stop_task, then the turn of the request, if the page knows one.
ClickStop ==
    /\ screen.shown = "running"
    /\ screen.stopping = {}
    /\ screen' = [screen EXCEPT !.stopping = {[run |-> screen.request, posted |-> FALSE]}]
    /\ runs' = [r \in Requests |->
                   IF r = screen.request THEN [runs[r] EXCEPT !.cancelled = TRUE] ELSE runs[r]]
    /\ UNCHANGED task

StopPosted ==
    \E stop \in screen.stopping :
        /\ ~stop.posted
        /\ task' = StoppedTask
        /\ screen' = [screen EXCEPT !.stopping = {[stop EXCEPT !.posted = TRUE]}]
        /\ runs' = [r \in Requests |->
                       IF r = stop.run /\ runs[r].turn = "running"
                       THEN [runs[r] EXCEPT !.turn = "interrupting"] ELSE runs[r]]

StopShown ==
    /\ \E stop \in screen.stopping :
          /\ stop.posted
          /\ stop.run \in Requests => runs[stop.run].turn # "interrupting"
    /\ screen' = [screen EXCEPT !.stopping = {}, !.request = NoRequest, !.shown = task.status]
    /\ UNCHANGED <<task, runs>>

\* The user leaves for another page and comes back: the page is mounted anew.
Revisit ==
    /\ screen' = [request |-> NoRequest, runs |-> {}, shown |-> task.status, sending |-> {}, stopping |-> {}]
    /\ screen.sending = {} /\ screen.stopping = {}
    /\ UNCHANGED <<task, runs>>

-----------------------------------------------------------------------------
Orchestrate(r) ==
    \/ LoadTask(r) \/ StartTask(r) \/ ReloadTask(r) \/ RecoverHost(r) \/ StartNode(r)
    \/ HandOver(r) \/ EndNodeTurn(r) \/ ReadTask(r) \/ CompleteNode(r) \/ FailNode(r)
    \/ RequestFails(r)

CollaborationNext ==
    \/ \E r \in Requests : Orchestrate(r) \/ Rerun(r)
    \/ \E n \in Nodes : SendMessage(n)
    \/ MessagePosted \/ ClickStop \/ StopPosted \/ StopShown \/ Revisit

-----------------------------------------------------------------------------
\* The rows, the orchestrators and the page hold what the code can put there.
CollaborationTypeOK ==
    /\ task.status \in {"draft", "running", "waiting_user", "failed", "stopped"}
    /\ task.member \in [Nodes -> {"idle", "queued", "ready", "running"}]
    /\ \A n \in Nodes : Cardinality({i \in DOMAIN task.queue : task.queue[i] = n}) <= 1
    /\ task.count \in 0 .. MaxTurns
    /\ \A r \in Requests : runs[r].turn # "none" => runs[r].at = "turn"
    /\ screen.request \in Requests \cup {NoRequest}

\* Whatever stale orchestrators post and the user sends or stops, the
\* conversation neither splits nor stalls on the server: a running task has
\* exactly one member whose turn it is, another has none running beside it,
\* a queued member keeps its place, and past the limit only the host speaks.
FloorPasses ==
    /\ task.status = "running" => Cardinality(Speakers(task)) = 1
    /\ Cardinality(Speakers(task)) <= 1
    /\ \A n \in Nodes : task.member[n] = "queued" => Contains(task.queue, n)
    /\ \A n \in Nodes \ {Host} : task.member[n] = "running" => task.count <= Limit

\* architecture.md: "Only one node has the active Turn at a time."  Violated: a
\* page that was left and opened again knows no request, its stop ends the task
\* on the server and lets the turn run, and a rerun starts the host's beside it.
OneTurn == Cardinality({r \in Requests : runs[r].turn = "running"}) <= 1
=============================================================================
