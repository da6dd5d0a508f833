------------------------------ MODULE Followups ------------------------------
(***************************************************************************)
(* The follow-up queue of one thread.                                      *)
(*                                                                         *)
(* While a turn runs, messages are queued.  A queued message is dispatched *)
(* as a turn of its own, steered into the active turn, or withdrawn.  The  *)
(* queue is saved on every change, the turns and the requests it waits for *)
(* are not; an uncertain delivery is checked against the API.              *)
(*                                                                         *)
(* The host is one JavaScript thread: an action is the code between two    *)
(* awaits, and a call that has still to pass its first await is a token    *)
(* (drains, finishing, removing).  The server is external: a run hears the *)
(* inputs it accepted, and completes only when it has heard them all.      *)
(* Abstracted: contents, models, the events of a turn other than those     *)
(* that concern inputs.                                                    *)
(***************************************************************************)
EXTENDS Naturals, Sequences, FiniteSets, SequencesExt

CONSTANTS
    MaxInputs,      \* bound: messages queued
    MaxTurns,       \* bound: turns of the thread
    MaxCrashes,     \* bound: kills of the application
    MaxCalls,       \* bound: calls of drainFollowups under way
    Orderly         \* TRUE: exchanges with the API do not overtake each other, and
                    \* no other pass and no steering begins while reconcile runs

ASSUME QueueAssumption ==
    /\ MaxInputs \in Nat /\ MaxTurns \in Nat /\ MaxCrashes \in Nat
    /\ MaxCalls \in Nat \ {0}
    /\ Orderly \in BOOLEAN

Inputs == 1 .. MaxInputs
Turns  == 1 .. MaxTurns

VARIABLES
    queue,          \* FollowupState.inputs, saved on every change
    paused,         \* FollowupState.paused, saved with it
    loaded,         \* the thread has an entry in queues
    active,         \* activeThreads of the thread: the turn, or 0
    stopping,       \* the active turn is being interrupted
    turns,          \* turns started so far
    origin,         \* the input a turn was dispatched for, or 0
    drains,         \* calls of drainFollowups on their way
    finishing,      \* calls of finishFollowups on their way
    removing,       \* calls of followupReceived on their way
    wire,           \* requests sent and answers not yet taken, oldest first
    run,            \* the turn's run: "absent", "live", "completed" or "failed"
    waiting,        \* inputs the run has accepted and not received
    heard,          \* inputs the run has received, as its first message or later
    told,           \* inputs of which the turn's stream has told
    added,          \* messages queued so far
    withdrawn,      \* messages taken back by the user
    held,           \* messages in the queue at a kill, until it is resumed
    crashes         \* kills so far

saved   == <<queue, paused>>
turn    == <<active, stopping, turns, origin, told>>
calls   == <<drains, finishing, removing>>
server  == <<run, waiting, heard>>
history == <<added, withdrawn, held, crashes>>
vars    == <<saved, loaded, turn, calls, wire, server, history>>

-----------------------------------------------------------------------------
(* FollowupQueue *)

Ids(q) == {q[k].id : k \in DOMAIN q}

AllQueued(q) == \A k \in DOMAIN q : q[k].status = "queued"

Queued(i) == \E k \in DOMAIN queue : queue[k].id = i /\ queue[k].status = "queued"

\* The queue without the item i, which is in it once at most.
Without(q, i) ==
    IF i \in Ids(q) THEN RemoveAt(q, CHOOSE k \in DOMAIN q : q[k].id = i) ELSE q

With(q, i, s, t) ==
    [k \in DOMAIN q |-> IF q[k].id = i THEN [id |-> i, status |-> s, turn |-> t] ELSE q[k]]

\* Mutant: the turn is not deleted from the item.
ResetStatus(q, i) ==
    [k \in DOMAIN q |-> IF q[k].id = i THEN [q[k] EXCEPT !.status = "queued"] ELSE q[k]]

Reset(q, i) == With(q, i, "queued", 0)

-----------------------------------------------------------------------------
(* Requests *)

Start(t)    == [kind |-> "start", turn |-> t, waited |-> FALSE, answer |-> "none"]
Post(i, t)  == [kind |-> "steer", id |-> i, turn |-> t, waited |-> TRUE, answer |-> "none"]

\* A step of reconcile: the item it asks for, and the rest of its list.
Check(caller, item, rest) ==
    [kind |-> "check", id |-> item.id, turn |-> item.turn, initial |-> item.status = "sending",
     caller |-> caller, rest |-> rest, waited |-> TRUE, answer |-> "none"]

\* Messages are numbered as they are queued: the first of some items.
FirstOf(items) == {item \in items : \A other \in items : item.id <= other.id}

\* The exchanges that may go on.
Ready == IF Orderly THEN DOMAIN wire \cap {1} ELSE DOMAIN wire

Init ==
    /\ queue     = <<>>
    /\ paused    = FALSE
    /\ loaded    = TRUE
    /\ active    = 0
    /\ stopping  = FALSE
    /\ turns     = 0
    /\ origin    = [t \in Turns |-> 0]
    /\ drains    = 0
    /\ finishing = {}
    /\ removing  = {}
    /\ wire      = <<>>
    /\ run       = [t \in Turns |-> "absent"]
    /\ waiting   = [t \in Turns |-> {}]
    /\ heard     = [t \in Turns |-> {}]
    /\ told      = [t \in Turns |-> {}]
    /\ added     = 0
    /\ withdrawn = {}
    /\ held      = {}
    /\ crashes   = 0

-----------------------------------------------------------------------------
(* Checking uncertain deliveries *)

\* One more call of drainFollowups.
CallDrain == drains < MaxCalls /\ drains' = drains + 1

\* reconcile works through a list of items taken when it began; after the last
\* one its caller goes on: resumeFollowups resumes and drains, unless an input
\* is still uncertain and no turn is active.
Proceed(caller, items, q, p, w) ==
    /\ queue' = q
    /\ IF items # {}
       THEN /\ \E item \in FirstOf(items) :
                  wire' = Append(w, Check(caller, item, items \ {item}))
            /\ paused' = p
            /\ UNCHANGED <<drains, held>>
       ELSE /\ wire' = w
            /\ IF caller = "resume" /\ (active # 0 \/ AllQueued(q))
               THEN paused' = FALSE /\ CallDrain /\ held' = {}
               ELSE paused' = p /\ UNCHANGED <<drains, held>>

Checking(k) == wire[k].kind = "check"

Undisturbed == Orderly => \A k \in DOMAIN wire : ~Checking(k)

Uncertain(q) == {q[k] : k \in {j \in DOMAIN q : q[j].status # "queued" /\ q[j].turn # 0}}

\* Mutant: an input that still waits is taken for received.
ApplyEarly(q, request) ==
    CASE request.answer \in {"received", "waiting"} -> Without(q, request.id)
      [] request.answer = "not_received" -> Reset(q, request.id)

\* What an answer does to the item.
Apply(q, request) ==
    CASE request.answer = "received"     -> Without(q, request.id)
      [] request.answer = "not_received" -> Reset(q, request.id)
      [] request.answer = "waiting"      -> q

CheckAnswered(k) ==
    /\ k \in Ready
    /\ Checking(k) /\ wire[k].answer # "none"
    /\ Proceed(wire[k].caller, wire[k].rest, Apply(queue, wire[k]), paused, RemoveAt(wire, k))
    /\ UNCHANGED <<loaded, turn, finishing, removing, server, added, withdrawn, crashes>>

\* Mutant: an unknown outcome counts as not received.
ResendUnknown(k) ==
    /\ k \in DOMAIN wire
    /\ Checking(k)
    /\ Proceed(wire[k].caller, wire[k].rest, Reset(queue, wire[k].id), paused, RemoveAt(wire, k))
    /\ UNCHANGED <<loaded, turn, finishing, removing, server, added, withdrawn, crashes>>

\* The request or its answer is lost: the item stays as it is.
CheckFails(k) ==
    /\ k \in DOMAIN wire
    /\ Checking(k)
    /\ Proceed(wire[k].caller, wire[k].rest, queue, paused, RemoveAt(wire, k))
    /\ UNCHANGED <<loaded, turn, finishing, removing, server, added, withdrawn, crashes>>

\* Mutant: the loaded queue goes on as it was saved.
LoadUnpaused ==
    /\ ~loaded
    /\ loaded' = TRUE
    /\ Proceed("load", Uncertain(queue), queue, paused, wire)
    /\ UNCHANGED <<turn, finishing, removing, server, added, withdrawn, crashes>>

\* The first use of the queue after a start.
Load ==
    /\ ~loaded
    /\ loaded' = TRUE
    /\ Proceed("load", Uncertain(queue), queue, paused \/ queue # <<>>, wire)
    /\ UNCHANGED <<turn, finishing, removing, server, added, withdrawn, crashes>>

-----------------------------------------------------------------------------
(* The user *)

\* submitConversationMessage with a turn or a queue, enqueueFollowup.  The
\* turn may have ended since it was looked at.
Enqueue ==
    /\ loaded
    /\ added < MaxInputs
    /\ added' = added + 1
    /\ queue' = Append(queue, [id |-> added + 1, status |-> "queued", turn |-> 0])
    /\ CallDrain
    /\ UNCHANGED <<paused, loaded, turn, finishing, removing, wire, server, withdrawn, held, crashes>>

Withdraw(i) ==
    /\ loaded
    /\ Queued(i)
    /\ queue' = Without(queue, i)
    /\ withdrawn' = withdrawn \cup {i}
    /\ UNCHANGED <<paused, loaded, turn, calls, wire, server, added, held, crashes>>

\* The button is shown with a paused queue that is not empty.  Bound: one call
\* at a time.
Resume ==
    /\ loaded
    /\ paused /\ queue # <<>>
    /\ Undisturbed
    /\ \A k \in DOMAIN wire : Checking(k) => wire[k].caller # "resume"
    /\ Proceed("resume", Uncertain(queue), queue, paused, wire)
    /\ UNCHANGED <<loaded, turn, finishing, removing, server, added, withdrawn, crashes>>

Interrupt ==
    /\ active # 0 /\ ~stopping
    /\ stopping' = TRUE
    /\ UNCHANGED <<saved, loaded, active, turns, origin, told, calls, wire, server, history>>

-----------------------------------------------------------------------------
(* Turns *)

\* startTurn for the input i, or 0.
Begin(i) ==
    /\ turns < MaxTurns
    /\ turns'  = turns + 1
    /\ active' = turns + 1
    /\ origin' = [origin EXCEPT ![turns + 1] = i]
    /\ wire'   = Append(wire, Start(turns + 1))
    /\ UNCHANGED <<stopping, told>>

\* submitConversationMessage with nothing queued, or an edited message.
StartUserTurn ==
    /\ loaded
    /\ active = 0
    /\ Begin(0)
    /\ UNCHANGED <<saved, loaded, calls, server, history>>

Dispatchable == ~paused /\ queue # <<>> /\ AllQueued(queue)

\* drainFollowups past its await.
Drain ==
    /\ drains > 0
    /\ drains' = drains - 1
    /\ \/ /\ active = 0 /\ Dispatchable
          /\ Begin(queue[1].id)
          /\ queue' = With(queue, queue[1].id, "sending", turns + 1)
       \/ /\ active # 0 \/ ~Dispatchable
          /\ UNCHANGED <<turn, queue, wire>>
    /\ UNCHANGED <<paused, loaded, finishing, removing, server, history>>

\* The stream tells of run.started ...
SeeStarted(t) ==
    /\ active = t
    /\ run[t] # "absent"
    /\ origin[t] \notin told[t] \cup {0}
    /\ told' = [told EXCEPT ![t] = @ \cup {origin[t]}]
    /\ removing' = removing \cup {origin[t]}
    /\ UNCHANGED <<saved, loaded, active, stopping, turns, origin, drains, finishing, wire, server, history>>

\* ... and of input.received, which an interrupted turn ignores.
SeeReceived(t, i) ==
    /\ active = t
    /\ i \in heard[t] \ (told[t] \cup {origin[t]})
    /\ told' = [told EXCEPT ![t] = @ \cup {i}]
    /\ removing' = IF stopping THEN removing ELSE removing \cup {i}
    /\ UNCHANGED <<saved, loaded, active, stopping, turns, origin, drains, finishing, wire, server, history>>

\* Mutant: the input is removed and nothing is dispatched.
ReceivedSilently(i) ==
    /\ i \in removing
    /\ removing' = removing \ {i}
    /\ queue' = Without(queue, i)
    /\ UNCHANGED <<paused, loaded, turn, drains, finishing, wire, server, history>>

\* followupReceived past its await.
Received(i) ==
    /\ i \in removing
    /\ removing' = removing \ {i}
    /\ queue' = Without(queue, i)
    /\ CallDrain
    /\ UNCHANGED <<paused, loaded, turn, finishing, wire, server, history>>

\* The stream settles.  It was read to its end, or it broke.
EndTurn(t, read) ==
    /\ active = t
    /\ read => run[t] = "completed" /\ heard[t] \subseteq told[t]
    /\ active' = 0
    /\ stopping' = FALSE
    /\ finishing' = finishing \cup {<<t, read /\ ~stopping>>}
    /\ UNCHANGED <<saved, loaded, turns, origin, told, drains, removing, wire, server, history>>

\* finishFollowups past its await.
Finish(t, completed) ==
    /\ <<t, completed>> \in finishing
    /\ finishing' = finishing \ {<<t, completed>>}
    /\ \/ /\ completed
          /\ CallDrain
          /\ UNCHANGED <<saved, wire, held>>
       \/ /\ ~completed
          /\ Undisturbed
          /\ Proceed("finish", Uncertain(queue), queue, TRUE, wire)
    /\ UNCHANGED <<loaded, turn, removing, server, added, withdrawn, crashes>>

-----------------------------------------------------------------------------
(* Steering *)

\* steerFollowup, up to its request.
Steer(i) ==
    /\ loaded
    /\ active # 0
    /\ Queued(i)
    /\ Undisturbed
    /\ queue' = With(queue, i, "steering", active)
    /\ wire'  = Append(wire, Post(i, active))
    /\ UNCHANGED <<paused, loaded, turn, calls, server, history>>

\* The server refuses: 404 or 409.
SteerRefused(k) ==
    /\ k \in Ready
    /\ wire[k].kind = "steer" /\ wire[k].answer = "refused"
    /\ queue'  = Reset(queue, wire[k].id)
    /\ CallDrain
    /\ wire'   = RemoveAt(wire, k)
    /\ UNCHANGED <<paused, loaded, turn, finishing, removing, server, history>>

\* The request or its answer is lost; the request may still arrive.
SteerFails(k) ==
    /\ k \in DOMAIN wire
    /\ wire[k].kind = "steer" /\ wire[k].waited
    /\ paused' = TRUE
    /\ wire' = IF wire[k].answer = "none" THEN [wire EXCEPT ![k].waited = FALSE]
                                          ELSE RemoveAt(wire, k)
    /\ UNCHANGED <<queue, loaded, turn, calls, server, history>>

-----------------------------------------------------------------------------
(* The server (external) and the network *)

\* The start request arrives.
ServeStart(k) ==
    /\ k \in Ready
    /\ wire[k].kind = "start"
    /\ LET t == wire[k].turn IN
        /\ run' = [run EXCEPT ![t] = "live"]
        /\ heard' = [heard EXCEPT ![t] = {origin[t]} \ {0}]
    /\ wire' = RemoveAt(wire, k)
    /\ UNCHANGED <<saved, loaded, turn, calls, waiting, history>>

\* queue_input: accepted already, accepted now, or refused.
ServeSteer(k) ==
    /\ k \in Ready
    /\ wire[k].kind = "steer" /\ wire[k].answer = "none"
    /\ LET t == wire[k].turn
           i == wire[k].id
           known == i \in waiting[t] \cup heard[t]
       IN \/ /\ known \/ run[t] = "live"
             /\ waiting' = [waiting EXCEPT ![t] = IF known THEN @ ELSE @ \cup {i}]
             /\ wire' = RemoveAt(wire, k)
          \/ /\ ~known /\ run[t] # "live"
             /\ wire' = IF wire[k].waited THEN [wire EXCEPT ![k].answer = "refused"]
                                          ELSE RemoveAt(wire, k)
             /\ UNCHANGED waiting
    /\ UNCHANGED <<saved, loaded, turn, calls, run, heard, history>>

\* input_status.
Status(request) ==
    LET t == request.turn IN
    IF run[t] # "absent" /\ (request.initial \/ request.id \in heard[t]) THEN "received"
    ELSE IF run[t] = "live" /\ request.id \in waiting[t] THEN "waiting"
    ELSE "not_received"

ServeCheck(k) ==
    /\ k \in Ready
    /\ Checking(k) /\ wire[k].answer = "none"
    /\ wire' = [wire EXCEPT ![k].answer = Status(wire[k])]
    /\ UNCHANGED <<saved, loaded, turn, calls, server, history>>

ServerHears(t) ==
    /\ run[t] = "live" /\ waiting[t] # {}
    /\ heard'   = [heard EXCEPT ![t] = @ \cup waiting[t]]
    /\ waiting' = [waiting EXCEPT ![t] = {}]
    /\ UNCHANGED <<saved, loaded, turn, calls, wire, run, history>>

ServerEnds(t) ==
    /\ run[t] = "live"
    /\ \/ waiting[t] = {} /\ run' = [run EXCEPT ![t] = "completed"]
       \/ run' = [run EXCEPT ![t] = "failed"]
    /\ UNCHANGED <<saved, loaded, turn, calls, wire, waiting, heard, history>>

\* A request nobody waits for is lost.
Drop(k) ==
    /\ k \in DOMAIN wire /\ ~wire[k].waited
    /\ wire' = RemoveAt(wire, k)
    /\ UNCHANGED <<saved, loaded, turn, calls, server, history>>

\* Kill and restart: what is on its way still arrives.
Crash ==
    /\ crashes < MaxCrashes
    /\ crashes'   = crashes + 1
    /\ loaded'    = FALSE
    /\ active'    = 0
    /\ stopping'  = FALSE
    /\ drains'    = 0
    /\ finishing' = {}
    /\ removing'  = {}
    /\ held'      = Ids(queue)
    /\ LET sent == {k \in DOMAIN wire : ~Checking(k) /\ wire[k].answer = "none"}
       IN \E f \in [1 .. Cardinality(sent) -> sent] :
              /\ \A j, k \in DOMAIN f : j < k => f[j] < f[k]
              /\ wire' = [k \in DOMAIN f |-> [wire[f[k]] EXCEPT !.waited = FALSE]]
    /\ UNCHANGED <<saved, turns, origin, told, server, added, withdrawn>>

-----------------------------------------------------------------------------
HostStep ==
    \/ Load \/ Enqueue \/ Resume \/ Interrupt \/ StartUserTurn \/ Drain
    \/ \E i \in Inputs : Withdraw(i) \/ Received(i) \/ Steer(i)
    \/ \E t \in Turns : \/ SeeStarted(t)
                        \/ \E i \in Inputs : SeeReceived(t, i)
                        \/ \E b \in BOOLEAN : EndTurn(t, b) \/ Finish(t, b)
    \/ \E k \in DOMAIN wire : \/ CheckAnswered(k) \/ CheckFails(k)
                              \/ SteerRefused(k) \/ SteerFails(k)

ServerStep ==
    \/ \E k \in DOMAIN wire : ServeStart(k) \/ ServeSteer(k) \/ ServeCheck(k) \/ Drop(k)
    \/ \E t \in Turns : ServerHears(t) \/ ServerEnds(t)

Next == HostStep \/ ServerStep \/ Crash

Spec == Init /\ [][Next]_vars

-----------------------------------------------------------------------------
(* Safety *)

Items == [id : Inputs, status : {"queued", "sending", "steering"}, turn : Turns \cup {0}]

\* Every variable has its type; an item is in the queue once, and names a turn
\* exactly when it is on its way.
TypeOK ==
    /\ \A k \in DOMAIN queue : queue[k] \in Items /\ (queue[k].turn = 0 <=> queue[k].status = "queued")
    /\ Cardinality(Ids(queue)) = Len(queue)
    /\ paused \in BOOLEAN /\ loaded \in BOOLEAN /\ stopping \in BOOLEAN
    /\ active \in Turns \cup {0} /\ turns \in Turns \cup {0}
    /\ origin \in [Turns -> Inputs \cup {0}]
    /\ drains \in Nat
    /\ finishing \subseteq Turns \X BOOLEAN /\ removing \subseteq Inputs
    /\ \A k \in DOMAIN wire :
           /\ wire[k].kind \in {"start", "steer", "check"} /\ wire[k].turn \in Turns
           /\ wire[k].answer \in {"none", "refused", "received", "waiting", "not_received"}
    /\ run \in [Turns -> {"absent", "live", "completed", "failed"}]
    /\ waiting \in [Turns -> SUBSET Inputs]
    /\ heard \in [Turns -> SUBSET Inputs]
    /\ told \in [Turns -> SUBSET Inputs]
    /\ added \in Inputs \cup {0} /\ withdrawn \subseteq Inputs /\ held \subseteq Inputs
    /\ crashes \in 0 .. MaxCrashes

Hearing(i) == {t \in Turns : i \in heard[t]}

\* A message is never lost: until a run has received it or the user has it
\* back, it is in the queue, over steering, failures, checks and kills.
NeverLost ==
    \A i \in 1 .. added : i \in Ids(queue) \/ i \in withdrawn \/ Hearing(i) # {}

\* docs/architecture.md:210-211: "Queue dispatch, steering and withdrawal are
\* mutually exclusive for each input."  A message is received by one run at most,
\* and by none once the user has it back.
DeliveredOnce ==
    \A i \in Inputs :
        /\ Cardinality(Hearing(i)) <= 1
        /\ i \in withdrawn => Hearing(i) = {}

\* followup-host.ts:31, "Restart never silently dispatches work": what was in the
\* queue when the application was killed waits for the user.
RestartHolds == loaded /\ held \cap Ids(queue) # {} => paused

\* The queue loses nothing and starts nothing by itself.
QueueSafe == TypeOK /\ NeverLost /\ RestartHolds

\* Nothing is on its way that could still move the queue.
Quiet ==
    /\ loaded /\ active = 0
    /\ drains = 0 /\ finishing = {} /\ removing = {}
    /\ \A k \in DOMAIN wire : ~wire[k].waited

\* No wakeup is lost: an idle thread whose queue could be dispatched has a call
\* of drainFollowups coming.
NoLostWakeup == Quiet => ~Dispatchable

\* docs/architecture.md:200-201: "Successful completion dispatches one queued
\* message as a new Turn; interruption or failure pauses the queue."  A queue
\* with a queued message stands still only when it is paused.
NeverStuck == Quiet /\ (\E i \in Inputs : Queued(i)) => paused

=============================================================================
