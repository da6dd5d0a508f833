------------------------------- MODULE Timeline -------------------------------
(***************************************************************************)
(* The steps of one turn as its watchers build them from the events of the  *)
(* run: the projector of the desktop turns the events into items and its    *)
(* page the items into steps, the phone turns the events into steps itself, *)
(* and the API writes the steps it saves from its own event log.  Events    *)
(* reach the watchers once and in order (TurnClient has what lies between). *)
(*                                                                         *)
(* A word stands for a delta; it is the number of the execution it belongs  *)
(* to.  Call ids are fresh in every execution.  The results of tools, and   *)
(* the count of failed calls that refuses a repeated one, are left out.     *)
(***************************************************************************)
EXTENDS Naturals, Sequences, SequencesExt, FiniteSetsExt

CONSTANTS
    MaxExecutions,    \* bound: the executions of the run
    MaxWords          \* bound: the words of one reasoning or message

VARIABLES
    watcher,      \* who runs the turn: the desktop or the phone
    run,          \* the run at the API and the tool calls of the watcher
    record,       \* the steps the API has in its event log
    projector,    \* the items of the projector and its active task
    steps,        \* the steps on the page of the watcher
    written       \* the phone: the text it shows being written

timelineVars == <<watcher, run, record, projector, steps, written>>

Plans == {"no task", "a task"}
Item(id, kind, task) ==
    [id |-> id, kind |-> kind, status |-> "running", content |-> <<>>, task |-> task]
RunStep == Item(<<"run", 0, 0>>, "run", "no task")

Done(x) == [x EXCEPT !.status = "done"]
DoneWhere(s, Of(_)) ==
    [i \in DOMAIN s |-> IF s[i].status = "running" /\ Of(s[i]) THEN Done(s[i]) ELSE s[i]]
PlacesOf(s, id) == {i \in DOMAIN s : s[i].id = id}
LastRunning(s, kind) ==
    Max({0} \cup {i \in DOMAIN s : s[i].kind = kind /\ s[i].status = "running"})
Grown(s, i, w) == [s EXCEPT ![i].content = Append(@, w)]

-----------------------------------------------------------------------------
\* The projector: what an event makes of its items, and the events it sends.

Completions(s) == [k \in DOMAIN s |-> [type |-> "item.completed", item |-> Done(s[k])]]

Closed(p) ==
    LET Text(x) == x.kind # "tool"
    IN  [items |-> DoneWhere(p.items, Text), task |-> p.task,
         sent |-> Completions(SelectSeq(p.items, LAMBDA x : Text(x) /\ x.status = "running"))]

\* Map.set keeps the place of an id it already has.
ItemBegun(p, x) ==
    [items |-> IF PlacesOf(p.items, x.id) = {} THEN Append(p.items, x)
               ELSE [i \in DOMAIN p.items |-> IF p.items[i].id = x.id THEN x ELSE p.items[i]],
     task |-> p.task,
     sent |-> <<[type |-> "item.started", item |-> x]>>]

Ended(p, id) ==
    IF PlacesOf(p.items, id) = {} THEN p @@ [sent |-> <<>>]
    ELSE LET i == Min(PlacesOf(p.items, id))
         IN  [items |-> [p.items EXCEPT ![i] = Done(@)], task |-> p.task,
              sent |-> <<[type |-> "item.completed", item |-> Done(p.items[i])]>>]

\* Mutant: a delta goes to the first text of its kind, in progress or not.
DeltaOfFirst(p, kind, w) ==
    LET found == {j \in DOMAIN p.items : p.items[j].kind = kind}
    IN  IF found = {} THEN p @@ [sent |-> <<>>]
        ELSE [items |-> Grown(p.items, Min(found), w), task |-> p.task,
              sent |-> <<[type |-> "item.delta", id |-> p.items[Min(found)].id, word |-> w]>>]

DeltaOf(p, kind, w) ==
    LET i == LastRunning(p.items, kind)
    IN  IF i = 0 THEN p @@ [sent |-> <<>>]
        ELSE [items |-> Grown(p.items, i, w), task |-> p.task,
              sent |-> <<[type |-> "item.delta", id |-> p.items[i].id, word |-> w]>>]

Requested(p, e) ==
    LET closed == Closed(p)
        opened == ItemBegun([items |-> closed.items, task |-> p.task],
                          Item(e.id, "tool", IF e.task # "no task" THEN e.task ELSE p.task))
    IN  IF e.plan THEN closed
        ELSE [opened EXCEPT !.sent = closed.sent \o @]

Projected(p, e) ==
    CASE e.type \in {"run.continue", "input.received"} -> Closed(p)
      [] e.type = "task.plan.updated" -> [items |-> p.items, task |-> e.task, sent |-> <<>>]
      [] e.type = "compaction.started" -> ItemBegun(p, Item(<<"context", 0, 0>>, "context", "no task"))
      [] e.type = "compaction.completed" -> Ended(p, <<"context", 0, 0>>)
      [] e.type = "reasoning.started" -> ItemBegun(p, Item(e.id, "reasoning", p.task))
      [] e.type = "message.started" -> ItemBegun(p, Item(e.id, "message", p.task))
      [] e.type = "reasoning.delta" -> DeltaOf(p, "reasoning", e.word)
      [] e.type = "message.delta" -> DeltaOf(p, "message", e.word)
      [] e.type = "tool.requested" -> Requested(p, e)
      [] e.type = "tool.completed" -> Ended(p, e.id)
      [] e.type = "run.failed" -> [items |-> p.items, task |-> p.task,
                                   sent |-> <<[type |-> "turn.ended"]>>]

FinishedProjection(p) ==
    [items |-> DoneWhere(p.items, LAMBDA x : TRUE), task |-> p.task,
     sent |-> Completions(SelectSeq(p.items, LAMBDA x : x.status = "running"))]

\* The page of the desktop: what an event of the projector makes of its steps.
UpdateActivity(s, v) ==
    CASE v.type = "item.started" -> Append(s, v.item)
      [] v.type = "item.delta" -> Grown(s, Min(PlacesOf(s, v.id)), v.word)
      [] v.type = "item.completed" ->
            [s EXCEPT ![Min(PlacesOf(s, v.item.id))] = [Done(@) EXCEPT !.content = v.item.content]]
      [] v.type = "turn.ended" -> DoneWhere(s, LAMBDA x : TRUE)

\* The page without the message that is the answer.
WithoutFinalResponse(s, answer) ==
    LET found == {i \in DOMAIN s : s[i].kind = "message" /\ s[i].content = answer}
    IN  IF answer = <<>> \/ found = {} THEN s ELSE RemoveAt(s, Max(found))

\* The phone: what an event of the run makes of its steps, and of the text it shows.
UpdateMobileActivity(s, e) ==
    LET Reasoning(x) == x.kind = "reasoning"
        Delta(kind) == IF LastRunning(s, kind) = 0 THEN s
                       ELSE Grown(s, LastRunning(s, kind), e.word)
        Begins(t, kind) == Append(t, Item(e.id, kind, "no task"))
        settled == DoneWhere(s, LAMBDA x : x.kind \in {"reasoning", "message"})
    IN  CASE e.type = "reasoning.started" -> Begins(DoneWhere(s, Reasoning), "reasoning")
          [] e.type = "message.started" -> Begins(DoneWhere(s, Reasoning), "message")
          [] e.type = "reasoning.delta" -> Delta("reasoning")
          [] e.type = "message.delta" -> Delta("message")
          [] e.type = "tool.requested" ->
                IF e.plan THEN settled ELSE Append(settled, Item(e.id, "tool", e.task))
          [] e.type = "tool.completed" -> DoneWhere(s, LAMBDA x : x.id = e.id)
          [] OTHER -> s

UpdateStreamingContent(text, e) ==
    CASE e.type \in {"message.started", "tool.requested"} -> <<>>
      [] e.type = "message.delta" -> Append(text, e.word)
      [] OTHER -> text

\* The watcher takes an event: on the desktop the projector and then its page.
Watched(w, e) ==
    IF watcher = "phone"
    THEN [w EXCEPT !.steps = UpdateMobileActivity(@, e), !.written = UpdateStreamingContent(@, e)]
    ELSE LET p == Projected(w.projector, e)
         IN  [w EXCEPT !.projector = [items |-> p.items, task |-> p.task],
                       !.steps = FoldLeft(UpdateActivity, @, p.sent)]

Emit(events) ==
    LET w == FoldLeft(Watched, [projector |-> projector, steps |-> steps, written |-> written],
                      events)
    IN  projector' = w.projector /\ steps' = w.steps /\ written' = w.written

-----------------------------------------------------------------------------
\* The run.  Its phases: preparing a request, compacting the context for it,
\* streaming the answer, waiting for tools, between two executions, and over.

TimelineInit ==
    /\ watcher \in {"desktop", "phone"}
    /\ run = [n |-> 1, phase |-> "preparing", reasoning |-> <<>>, answer |-> <<>>,
              plan |-> "no task", open |-> {}, heard |-> FALSE]
    /\ record = <<>>
    /\ projector = [items |-> <<>>, task |-> "no task"]
    /\ steps = <<RunStep>>
    /\ written = <<>>

RunOver == run.phase \in {"ended", "failed", "interrupted"}

CompactionStarts ==
    /\ run.phase = "preparing"
    /\ run' = [run EXCEPT !.phase = "compacting"]
    /\ Emit(<<[type |-> "compaction.started"]>>)
    /\ UNCHANGED <<watcher, record>>

\* The request is ready and the provider is asked.
Requests ==
    /\ run.phase \in {"preparing", "compacting"}
    /\ run' = [run EXCEPT !.phase = "streaming"]
    /\ Emit(IF run.phase = "compacting" THEN <<[type |-> "compaction.completed"]>> ELSE <<>>)
    /\ UNCHANGED <<watcher, record>>

\* A chunk of the provider; a kind starts with its first word.
ReasoningChunk ==
    /\ run.phase = "streaming" /\ Len(run.reasoning) < MaxWords
    /\ run' = [run EXCEPT !.reasoning = Append(@, run.n)]
    /\ Emit((IF run.reasoning = <<>>
             THEN <<[type |-> "reasoning.started", id |-> <<"reasoning", run.n, 0>>]>> ELSE <<>>)
            \o <<[type |-> "reasoning.delta", word |-> run.n]>>)
    /\ UNCHANGED <<watcher, record>>

MessageChunk ==
    /\ run.phase = "streaming" /\ Len(run.answer) < MaxWords
    /\ run' = [run EXCEPT !.answer = Append(@, run.n)]
    /\ Emit((IF run.answer = <<>>
             THEN <<[type |-> "message.started", id |-> <<"message", run.n, 0>>]>> ELSE <<>>)
            \o <<[type |-> "message.delta", word |-> run.n]>>)
    /\ UNCHANGED <<watcher, record>>

\* What the API logs of the texts of an execution.
Logged(kind, content) ==
    IF content = <<>> THEN <<>>
    ELSE <<[Item(<<kind, run.n, 0>>, kind, "no task") EXCEPT !.status = "done", !.content = content]>>
LoggedTexts == Logged("reasoning", run.reasoning) \o Logged("message", run.answer)

\* The provider asks for tools: it may first update the plan, which is a call of
\* its own, and some calls name a tool that was not offered and are rejected.
\* bound: two calls besides the one that updates the plan
RequestsTools ==
    \E plan \in Plans \cup {"kept"}, calls \in SUBSET {1, 2}, rejected \in SUBSET {2} :
        LET planned == plan # "kept"
            task == IF planned THEN plan ELSE run.plan
            Id(k) == <<"tool", run.n, k>>
            all == (IF planned THEN <<0>> ELSE <<>>) \o SetToSortSeq(calls, <)
        IN  /\ run.phase = "streaming" /\ run.n < MaxExecutions
            /\ all # <<>> /\ rejected \subseteq calls
            /\ run' = [run EXCEPT !.phase = "tools", !.plan = task, !.open = Range(all) \ rejected]
            /\ record' = record \o LoggedTexts
                  \o [k \in 1..Cardinality(calls) |->
                        Item(Id(SetToSortSeq(calls, <)[k]), "tool", task)]
            /\ Emit((IF planned THEN <<[type |-> "task.plan.updated", task |-> plan]>> ELSE <<>>)
                    \o [k \in DOMAIN all |->
                          [type |-> "tool.requested", id |-> Id(all[k]), plan |-> all[k] = 0,
                           task |-> IF all[k] = 0 THEN "no task" ELSE task]]
                    \o [k \in 1..Cardinality(rejected) |-> [type |-> "tool.completed", id |-> Id(2)]])
            /\ UNCHANGED watcher

\* A tool returns.  An interrupted turn of the desktop takes no event any more,
\* the steps of a phone still do.
ToolReturns(k) ==
    /\ run.phase \in {"tools", "interrupted"} /\ k \in run.open
    /\ run' = [run EXCEPT !.open = @ \ {k},
                          !.phase = IF @ = "tools" /\ run.open = {k} THEN "between" ELSE @]
    /\ IF run.phase = "interrupted" /\ watcher = "desktop" THEN Emit(<<>>)
       ELSE Emit(<<[type |-> "tool.completed", id |-> <<"tool", run.n, k>>]>>)
    /\ UNCHANGED <<watcher, record>>

\* Guidance came while the answer was written: the run goes on with it.  The
\* phone sends none.
Continues ==
    /\ run.phase = "streaming" /\ run.n < MaxExecutions /\ watcher = "desktop"
    /\ run' = [run EXCEPT !.phase = "between", !.heard = TRUE]
    /\ record' = record \o LoggedTexts
    /\ Emit(<<[type |-> "run.continue"]>>)
    /\ UNCHANGED watcher

\* The results of all tools, or the continuation, are submitted; the results are
\* logged, and the guidance there is comes first.
NextExecution(heard) ==
    /\ run.phase = "between" /\ (run.heard => heard)
    /\ heard => watcher = "desktop"
    /\ run' = [run EXCEPT !.n = @ + 1, !.phase = "preparing", !.reasoning = <<>>,
                          !.answer = <<>>, !.heard = FALSE, !.open = {}]
    /\ record' = DoneWhere(record, LAMBDA x : TRUE)
    /\ Emit(IF heard THEN <<[type |-> "input.received"]>> ELSE <<>>)
    /\ UNCHANGED watcher

\* The answer is whole: the API saves it with its activity, and the desktop
\* closes the items still open before it ends the turn.
Completes ==
    /\ run.phase = "streaming"
    /\ run' = [run EXCEPT !.phase = "ended"]
    /\ record' = record \o Logged("reasoning", run.reasoning)
    /\ IF watcher = "phone" THEN UNCHANGED <<projector, steps, written>>
       ELSE LET p == FinishedProjection(projector)
            IN  /\ projector' = [items |-> p.items, task |-> p.task]
                /\ steps' = FoldLeft(UpdateActivity, steps, Append(p.sent, [type |-> "turn.ended"]))
                /\ UNCHANGED written
    /\ UNCHANGED watcher

RunFails ==
    /\ run.phase \in {"preparing", "compacting", "streaming"}
    /\ run' = [run EXCEPT !.phase = "failed"]
    /\ Emit(<<[type |-> "run.failed"]>>)
    /\ UNCHANGED <<watcher, record>>

Interrupts ==
    /\ ~RunOver
    /\ run' = [run EXCEPT !.phase = "interrupted"]
    /\ steps' = IF watcher = "phone" THEN steps ELSE UpdateActivity(steps, [type |-> "turn.ended"])
    /\ UNCHANGED <<watcher, record, projector, written>>

TimelineNext ==
    \/ CompactionStarts \/ Requests \/ ReasoningChunk \/ MessageChunk
    \/ RequestsTools \/ Continues \/ Completes \/ RunFails \/ Interrupts
    \/ \E k \in 0..2 : ToolReturns(k)
    \/ \E heard \in BOOLEAN : NextExecution(heard)

-----------------------------------------------------------------------------
\* The run, what was recorded of it and the steps of each reader are of the kinds the
\* code writes.
TimelineTypeOK ==
    /\ watcher \in {"desktop", "phone"}
    /\ run.n \in 1..MaxExecutions /\ run.open \subseteq 0..2 /\ run.plan \in Plans
    /\ projector.task \in Plans
    /\ \A s \in {record, projector.items, steps} :
           \A i \in DOMAIN s : s[i].status \in {"running", "done"} /\ s[i].task \in Plans

\* What a reader sees of texts and tools, whatever their order.  The log of the
\* API names the task of a text by the plan at the end of its execution, the
\* live steps by the plan at its beginning, so tasks count for tools only.
Seen(s, kinds) ==
    {<<s[i].kind, s[i].content, IF s[i].kind = "tool" THEN <<s[i].id, s[i].task, s[i].status>> ELSE "">> :
        i \in {j \in DOMAIN s : s[j].kind \in kinds}}

\* The step of a second compaction, which has the id of the first.
DoubleCompaction(i) == i # Min(PlacesOf(steps, steps[i].id))

\* The steps a turn was watched with are those a reload shows (turn-event-projector.ts
\* and updateActivity.ts against build_run_activity): when a turn ends normally, the
\* texts and tools on the desktop, and the messages and tools on the phone, are the
\* ones the API saved; until then a step of the desktop is running exactly while its
\* item is in progress, and none is after the turn; and the phone shows the text
\* being written and no other.  The desktop's second compaction of a turn reuses the
\* id of the first, whose step alone is closed; the phone loses the reasoning that
\* comes after the first words of a message.
TimelineAgrees ==
    /\ run.phase = "ended" =>
          LET kinds == {"message", "tool"} \cup (IF watcher = "desktop" THEN {"reasoning"} ELSE {})
          IN  Seen(WithoutFinalResponse(steps, run.answer), kinds) = Seen(record, kinds)
    /\ watcher = "desktop" =>
          /\ RunOver => \A i \in DOMAIN steps : steps[i].status = "done"
          /\ ~RunOver =>
                {steps[i].id : i \in {j \in DOMAIN steps \ {1} :
                     steps[j].status = "running" /\ ~DoubleCompaction(j)}}
                = {x.id : x \in {y \in Range(projector.items) :
                     y.status = "running" /\ ~\E j \in DOMAIN steps :
                                                 steps[j].id = y.id /\ DoubleCompaction(j)}}
    /\ watcher = "phone" =>
          written = LET i == LastRunning(steps, "message")
                    IN  IF i = 0 THEN <<>> ELSE steps[i].content

=============================================================================
