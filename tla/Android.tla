-------------------------------- MODULE Android --------------------------------
(***************************************************************************)
(* The Android device of the desktop: who holds it, how it is booted,      *)
(* disconnected and released, the operations queued on it and the one      *)
(* video stream that shows it (packages/android-use/src: android-host.ts,  *)
(* managed-emulator.ts, automation/server.ts, video/stream.ts, index.ts;   *)
(* desktop/electron/android: android-service.ts, android-presentation.ts,  *)
(* android-installation.ts; desktop/src/features/android).                 *)
(*                                                                         *)
(* A step runs from one await that really waits to the next: an await of a  *)
(* promise that is already settled lets nothing else in.  The device is on  *)
(* or off; a link is the target and the automation server of one boot.     *)
(***************************************************************************)
EXTENDS Naturals, FiniteSets, Sequences, SequencesExt

CONSTANTS
    Owners,     \* conversations that use the device
    NoOwnerYet, \* nobody
    Operations, \* screenshots, snapshots and actions
    Viewers,    \* video sessions of the panels
    NoViewer

ASSUME AndroidConstants ==
    /\ NoOwnerYet \notin Owners
    /\ NoViewer \notin Viewers
    /\ IsFiniteSet(Operations) /\ IsFiniteSet(Viewers)

VARIABLES
    host,      \* AndroidHost
    turn,      \* the conversations with a turn: its registry has an Android plugin
    operation, \* the operations, and
    pending,   \* pendingAction: the chain they wait in
    view,      \* the video sessions of android-presentation.ts,
    viewer,    \* the current one,
    stream     \* and its AndroidVideoStream

androidVars == <<host, turn, operation, pending, view, viewer, stream>>
videoVars   == <<view, viewer, stream>>

\* phase, owner and timer (releaseTimer) as in the code; boot: where connect
\* waits, for whom, whether it is aborted; stopping: where disconnect waits;
\* releasing: the automation server of a lost link still closes; managed:
\* this.managed is set; emulator: its process lives; start: the calls of start
\* and what they wait for; agents: the calls that are the agent's.
AndroidInit ==
    /\ host = [phase |-> "stopped", owner |-> NoOwnerYet, timer |-> FALSE,
               boot |-> [at |-> "none", by |-> NoOwnerYet, aborted |-> FALSE],
               stopping |-> "no", releasing |-> FALSE, target |-> 0, automation |-> 0,
               video |-> NoViewer, managed |-> FALSE, emulator |-> FALSE,
               start |-> [c \in Owners |-> "none"], agents |-> {}, external |-> FALSE,
               installing |-> FALSE]
    /\ turn = [c \in Owners |-> FALSE]
    /\ operation = [o \in Operations |->
           [at |-> "none", owner |-> NoOwnerYet, link |-> 0, agent |-> FALSE]]
    /\ pending = <<>>
    /\ view = [v \in Viewers |->
           [at |-> "none", owner |-> NoOwnerYet, aborted |-> FALSE, link |-> 0, old |-> NoViewer]]
    /\ viewer = NoViewer
    /\ stream = [v \in Viewers |-> "none"]

Access(h, c) == h.owner \in {NoOwnerYet, c}
Booting(h)   == h.boot.at # "none"
NoBoot       == [at |-> "none", by |-> NoOwnerYet, aborted |-> FALSE]

\* Mutant: the timer is left to run.
EndedTimed(h, phase) == [h EXCEPT !.phase = phase, !.owner = NoOwnerYet]

\* update with phase stopped or error: nobody holds the device any more.
Ended(h, phase) == [h EXCEPT !.phase = phase, !.owner = NoOwnerYet, !.timer = FALSE]

\* The number of a new link: none that anything still refers to.
Links == {host.target, host.automation} \cup {operation[o].link : o \in Operations}
            \cup {view[v].link : v \in Viewers}
NewLink == CHOOSE n \in 1 .. Cardinality(Operations) + Cardinality(Viewers) + 3 :
               n \notin Links /\ \A m \in 1 .. (n - 1) : m \in Links

\* AndroidVideoStream.close of the stream in this.video.
VideoClosed(h) == [v \in Viewers |->
    IF v = h.video /\ stream[v] = "live" THEN "closing" ELSE stream[v]]

-----------------------------------------------------------------------------
(* start and connect *)

\* start after its waits: the conversation takes the device and boots it, or
\* joins the boot under way.
BeginStart(h, c) ==
    IF ~Access(h, c) THEN [h EXCEPT !.start[c] = "none"]
    ELSE LET held == [h EXCEPT !.owner = c, !.timer = IF h.owner = c THEN FALSE ELSE @]
         IN  IF h.phase = "running" THEN [held EXCEPT !.start[c] = "none"]
             ELSE IF Booting(h) THEN [held EXCEPT !.start[c] = "boot"]
             ELSE [held EXCEPT !.start[c] = "boot", !.phase = "starting",
                               !.boot = [at |-> "previous", by |-> c, aborted |-> FALSE],
                               !.managed = FALSE,
                               !.emulator = IF h.managed THEN FALSE ELSE @]

\* The calls that waited go on: one takes the device, the others are refused.
Resumed(h, waiting) ==
    IF waiting = {} THEN {h}
    ELSE {[BeginStart(h, c) EXCEPT !.start = [x \in Owners |->
              IF x \in waiting \ {c} THEN "none" ELSE @[x]]] : c \in waiting}

\* The panel's start (startAndroid) is refused during an installation.
CallStart(c, agent) ==
    LET h == [host EXCEPT !.agents = IF agent THEN @ \cup {c} ELSE @ \ {c}]
    IN  /\ host.start[c] = "none"
        /\ IF agent THEN turn[c] ELSE ~host.installing
        /\ host' = IF h.stopping # "no" THEN [h EXCEPT !.start[c] = "stop"]
                   ELSE IF h.releasing THEN [h EXCEPT !.start[c] = "release"]
                   ELSE BeginStart(h, c)
        /\ UNCHANGED <<turn, operation, pending, videoVars>>

\* The turn of the start that boots is interrupted.
AbortStart(c) ==
    /\ host.start[c] = "boot" /\ host.boot.by = c /\ c \in host.agents
    /\ ~host.boot.aborted
    /\ host' = [host EXCEPT !.boot.aborted = TRUE]
    /\ UNCHANGED <<turn, operation, pending, videoVars>>

\* The previous emulator is closed, the device is started or looked up.
BootDevice ==
    /\ host.boot.at = "previous"
    /\ host' = IF host.external THEN [host EXCEPT !.boot.at = "device"]
               ELSE [host EXCEPT !.boot.at = "device", !.managed = TRUE, !.emulator = TRUE]
    /\ UNCHANGED <<turn, operation, pending, videoVars>>

\* It answers: the automation server is started on it.
BootAutomation ==
    /\ host.boot.at = "device" /\ ~host.boot.aborted
    /\ host.external \/ host.emulator
    /\ host' = [host EXCEPT !.boot.at = "automation", !.target = NewLink, !.automation = NewLink]
    /\ UNCHANGED <<turn, operation, pending, videoVars>>

BootStarters(h) == [c \in Owners |-> IF h.start[c] = "boot" THEN "none" ELSE h.start[c]]

BootDone ==
    /\ host.boot.at = "automation" /\ ~host.boot.aborted
    /\ host.automation # 0
    /\ host' = [host EXCEPT !.phase = "running", !.boot = NoBoot, !.start = BootStarters(host)]
    /\ UNCHANGED <<turn, operation, pending, videoVars>>

\* Aborted, timed out, offline, exited: what was started is closed.
BootFails ==
    /\ host.boot.at \in {"device", "automation"}
    /\ host' = [host EXCEPT !.boot.at = "closing"]
    /\ UNCHANGED <<turn, operation, pending, videoVars>>

-----------------------------------------------------------------------------
(* stop and disconnect *)

Stages == <<"boot", "releasing", "automation", "video", "pending", "managed">>

\* What disconnect finds to wait for at a stage.
Waits(h, ops, stage) ==
    CASE stage = "boot"       -> Booting(h)
      [] stage = "releasing"  -> h.releasing
      [] stage = "automation" -> h.automation # 0
      [] stage = "video"      -> h.video # NoViewer
      [] stage = "pending"    -> \E o \in ToSet(ops) : operation[o].link # h.automation
      [] stage = "managed"    -> h.managed

\* The end of disconnect: the calls of start that waited for it go on.
Stopped(h) ==
    LET over    == [Ended(h, "stopped") EXCEPT !.target = 0, !.stopping = "no"]
        waiting == {c \in Owners : h.start[c] = "stop"}
    IN  IF h.releasing
        THEN {[over EXCEPT !.start = [c \in Owners |-> IF c \in waiting THEN "release" ELSE @[c]]]}
        ELSE Resumed(over, waiting)

\* disconnect goes on behind the first n stages.
Advance(h, ops, n) ==
    LET left == {i \in (n + 1) .. Len(Stages) : Waits(h, ops, Stages[i])}
    IN  IF left = {} THEN Stopped(h)
        ELSE {[h EXCEPT !.stopping = Stages[CHOOSE i \in left : \A j \in left : i <= j]]}

\* stop: cancelRelease, then disconnect unless it already runs.
Stop(h) ==
    IF h.stopping # "no" THEN {[h EXCEPT !.timer = FALSE]}
    ELSE Advance([h EXCEPT !.timer = FALSE, !.phase = "stopping",
                           !.boot.aborted = Booting(h)], pending, 0)

\* stopFor: the panel's power button, the agent's tool.
StopFor(c) ==
    /\ Access(host, c)
    /\ host' \in Stop(host)
    /\ UNCHANGED <<turn, operation, pending, videoVars>>

ReleaseTimer ==
    /\ host.timer
    /\ host' \in Stop(host)
    /\ UNCHANGED <<turn, operation, pending, videoVars>>

\* The catch of connect has closed what it started.
BootClosed ==
    LET h == [Ended(host, IF host.boot.aborted THEN "stopped" ELSE "error") EXCEPT
                 !.boot = NoBoot, !.start = BootStarters(host), !.target = 0, !.automation = 0,
                 !.managed = FALSE, !.emulator = IF host.managed THEN FALSE ELSE @]
    IN  /\ host.boot.at = "closing"
        /\ host' \in IF h.stopping = "boot" THEN Advance(h, pending, 1) ELSE {h}
        /\ UNCHANGED <<turn, operation, pending, videoVars>>

\* The automation server of a lost link is closed: first the calls of start
\* that waited for it go on, then a disconnect that came after them.
BootReleased ==
    /\ host.releasing
    /\ host' \in UNION {IF h.stopping = "releasing" THEN Advance(h, pending, 2) ELSE {h} :
           h \in Resumed([host EXCEPT !.releasing = FALSE], {c \in Owners : host.start[c] = "release"})}
    /\ UNCHANGED <<turn, operation, pending, videoVars>>

AutomationClosed ==
    /\ host.stopping = "automation"
    /\ host' \in Advance([host EXCEPT !.automation = 0], pending, 3)
    /\ UNCHANGED <<turn, operation, pending, videoVars>>

\* The stream is closed, which takes a while.
VideoStops ==
    /\ host.stopping = "video"
    /\ IF stream[host.video] = "live"
       THEN stream' = VideoClosed(host) /\ UNCHANGED host
       ELSE /\ stream[host.video] # "closing"
            /\ host' \in Advance([host EXCEPT !.video = NoViewer], pending, 4)
            /\ UNCHANGED stream
    /\ UNCHANGED <<turn, operation, pending, view, viewer>>

EmulatorStopped ==
    /\ host.stopping = "managed"
    /\ host' \in Stopped([host EXCEPT !.managed = FALSE, !.emulator = FALSE])
    /\ UNCHANGED <<turn, operation, pending, videoVars>>

-----------------------------------------------------------------------------
(* The device is lost *)

Disconnected(h) ==
    [Ended(h, "error") EXCEPT !.target = 0, !.releasing = (h.automation # 0),
                              !.automation = 0, !.video = NoViewer]

\* The emulator exits: its callback asks the phase.
EmulatorExits ==
    LET h    == [host EXCEPT !.emulator = FALSE]
        lost == host.managed /\ host.phase \in {"starting", "running"}
    IN  /\ host.emulator
        /\ host' = IF lost THEN Disconnected(h) ELSE h
        /\ stream' = IF lost THEN VideoClosed(host) ELSE stream
        /\ UNCHANGED <<turn, operation, pending, view, viewer>>

\* watchTarget finds an external device offline.
DeviceOffline ==
    /\ host.external /\ host.phase = "running"
    /\ host' = Disconnected(host)
    /\ stream' = VideoClosed(host)
    /\ UNCHANGED <<turn, operation, pending, view, viewer>>

-----------------------------------------------------------------------------
(* Turns: the Android plugin of a turn's tool registry.  A thread has one    *)
(* turn at a time, and its registry is closed before the next one starts.   *)

RetainFor(h, c)  == IF h.owner = c THEN [h EXCEPT !.timer = FALSE] ELSE h
ReleaseFor(h, c) == IF h.owner = c THEN [h EXCEPT !.timer = TRUE] ELSE h

\* Mutant: the plugin of a turn leaves the timer of the last one.
TurnOnly(c) ==
    /\ ~turn[c]
    /\ turn' = [turn EXCEPT ![c] = TRUE]
    /\ UNCHANGED <<host, operation, pending, videoVars>>

TurnStarts(c) ==
    /\ ~turn[c]
    /\ turn' = [turn EXCEPT ![c] = TRUE]
    /\ host' = RetainFor(host, c)
    /\ UNCHANGED <<operation, pending, videoVars>>

\* A turn closes its registry when its tools have returned.
TurnEnds(c) ==
    /\ turn[c]
    /\ c \in host.agents => host.start[c] = "none"
    /\ \A o \in ToSet(pending) : ~(operation[o].agent /\ operation[o].owner = c)
    /\ turn' = [turn EXCEPT ![c] = FALSE]
    /\ host' = ReleaseFor(host, c)
    /\ UNCHANGED <<operation, pending, videoVars>>

-----------------------------------------------------------------------------
(* Operations: enqueue *)

\* operation.active: the agent acts, the user's input is dropped.
Operates == pending # <<>> /\ operation[pending[1]].at = "running" /\ operation[pending[1]].agent

Connected(h, c) == Access(h, c) /\ h.phase = "running" /\ h.target # 0 /\ h.automation # 0

EnqueueOperation(o, c, agent) ==
    /\ operation[o].at = "none"
    /\ IF agent THEN turn[c] ELSE ~Operates
    /\ Connected(host, c)
    /\ operation' = [operation EXCEPT ![o] =
           [at |-> "queued", owner |-> c, link |-> host.automation, agent |-> agent]]
    /\ pending' = Append(pending, o)
    /\ UNCHANGED <<host, turn, videoVars>>

\* The operation settles; a disconnect that waits for the chain goes on.
Settled(o, h) ==
    /\ pending' = Tail(pending)
    /\ operation' = [operation EXCEPT ![o] =
           [at |-> "none", owner |-> NoOwnerYet, link |-> 0, agent |-> FALSE]]
    /\ host' \in IF h.stopping = "pending" /\ ~Waits(h, Tail(pending), "pending")
                 THEN Advance(h, Tail(pending), 5) ELSE {h}

BeginOperation(o) ==
    /\ pending # <<>> /\ pending[1] = o /\ operation[o].at = "queued"
    /\ IF Connected(host, operation[o].owner) /\ host.automation = operation[o].link
       THEN operation' = [operation EXCEPT ![o].at = "running"] /\ UNCHANGED <<host, pending>>
       ELSE Settled(o, host)
    /\ UNCHANGED <<turn, videoVars>>

EndOperation(o) ==
    /\ operation[o].at = "running"
    /\ Settled(o, host)
    /\ UNCHANGED <<turn, videoVars>>

\* android_automation_unavailable: the server of the current link is gone.
LoseAutomation(o) ==
    /\ operation[o].at = "running"
    /\ host.automation = operation[o].link
    /\ Settled(o, Disconnected(host))
    /\ stream' = VideoClosed(host)
    /\ UNCHANGED <<turn, view, viewer>>

-----------------------------------------------------------------------------
(* Video: android-presentation.ts and openVideo *)

NoView == [at |-> "none", owner |-> NoOwnerYet, aborted |-> FALSE, link |-> 0, old |-> NoViewer]

\* stopAndroidVideo of the current session, when it is one of vs.
Aborted(vs)       == [v \in Viewers |-> IF v \in vs THEN [view[v] EXCEPT !.aborted = TRUE] ELSE view[v]]
StreamsClosed(vs) == [v \in Viewers |-> IF v \in vs /\ stream[v] = "live" THEN "closing" ELSE stream[v]]

\* startAndroidVideo: the session before it is aborted and its stream closed.
StartVideo(v, c) ==
    LET waits == viewer # NoViewer /\ view[viewer].at = "open" /\ stream[viewer] # "closed"
    IN  /\ view[v] = NoView /\ stream[v] = "none"
        /\ Access(host, c) /\ host.phase = "running"
        /\ viewer' = v
        /\ view' = [Aborted({viewer}) EXCEPT ![v] =
               [NoView EXCEPT !.at = IF waits THEN "previous" ELSE "server", !.owner = c,
                              !.old = IF waits THEN viewer ELSE NoViewer]]
        /\ stream' = StreamsClosed({viewer})
        /\ UNCHANGED <<host, turn, operation, pending>>

PreviousClosed(v) ==
    /\ view[v].at = "previous" /\ stream[view[v].old] # "closing"
    /\ view' = [view EXCEPT ![v].at = "server", ![v].old = NoViewer]
    /\ UNCHANGED <<host, turn, operation, pending, viewer, stream>>

\* The session is over: aborted, or failed and stopped by fail.
VideoOver(v) ==
    /\ view' = [Aborted({v}) EXCEPT ![v].at = "done", ![v].link = 0, ![v].old = NoViewer]
    /\ viewer' = IF viewer = v THEN NoViewer ELSE viewer

MakeStream(v, link) ==
    /\ stream' = [stream EXCEPT ![v] = "live"]
    /\ host' = [host EXCEPT !.video = v]
    /\ view' = [view EXCEPT ![v].at = "starting", ![v].link = link, ![v].old = NoViewer]
    /\ UNCHANGED viewer

\* The video server is there: openVideo closes the stream before it.
OpenVideo(v) ==
    /\ view[v].at = "server"
    /\ IF view[v].aborted \/ ~Connected(host, view[v].owner)
       THEN VideoOver(v) /\ UNCHANGED <<host, stream>>
       ELSE IF host.video = NoViewer THEN MakeStream(v, host.target)
       ELSE /\ view' = [view EXCEPT ![v].at = "old", ![v].link = host.target, ![v].old = host.video]
            /\ stream' = VideoClosed(host)
            /\ UNCHANGED <<host, viewer>>
    /\ UNCHANGED <<turn, operation, pending>>

\* Mutant: after the wait the session's signal is not asked again.
OldClosedAnyway(v) ==
    /\ view[v].at = "old" /\ stream[view[v].old] # "closing"
    /\ IF ~Connected(host, view[v].owner) \/ host.target # view[v].link
       THEN VideoOver(v) /\ UNCHANGED <<host, stream>>
       ELSE MakeStream(v, view[v].link)
    /\ UNCHANGED <<turn, operation, pending>>

OldClosed(v) ==
    /\ view[v].at = "old" /\ stream[view[v].old] # "closing"
    /\ IF view[v].aborted \/ ~Connected(host, view[v].owner) \/ host.target # view[v].link
       THEN VideoOver(v) /\ UNCHANGED <<host, stream>>
       ELSE MakeStream(v, view[v].link)
    /\ UNCHANGED <<turn, operation, pending>>

\* stream.start returns, or rejects because the stream was closed.
StreamStarted(v) ==
    /\ view[v].at = "starting"
    /\ IF stream[v] = "live" THEN view' = [view EXCEPT ![v].at = "open"] /\ UNCHANGED viewer
       ELSE VideoOver(v)
    /\ UNCHANGED <<host, turn, operation, pending, stream>>

\* stopVideo of the panel, its window destroyed, or the stream failing.
StopVideo(v) ==
    /\ viewer = v
    /\ viewer' = NoViewer
    /\ view' = Aborted({v})
    /\ stream' = StreamsClosed({v})
    /\ UNCHANGED <<host, turn, operation, pending>>

StreamClosed(v) ==
    /\ stream[v] = "closing"
    /\ stream' = [stream EXCEPT ![v] = "closed"]
    /\ UNCHANGED <<host, turn, operation, pending, view, viewer>>

\* Bound: an identifier is used again once nothing refers to its stream.
ForgetView(v) ==
    /\ view[v].at = "done" \/ (view[v].at = "open" /\ view[v].aborted)
    /\ stream[v] \in {"none", "closed"} /\ host.video # v /\ viewer # v
    /\ \A u \in Viewers : view[u].old # v
    /\ view' = [view EXCEPT ![v] = NoView]
    /\ stream' = [stream EXCEPT ![v] = "none"]
    /\ UNCHANGED <<host, turn, operation, pending, viewer>>

-----------------------------------------------------------------------------
(* Settings and installation *)

Idle(h) == ~Booting(h) /\ h.stopping = "no" /\ h.phase # "running"

\* configure, of a refresh or a saved setting; another device may be selected.
Configure(external) ==
    /\ ~host.installing /\ Idle(host) /\ host.phase \notin {"starting", "stopping"}
    /\ host' = [Ended(host, "stopped") EXCEPT !.external = external]
    /\ UNCHANGED <<turn, operation, pending, videoVars>>

StartInstallation ==
    /\ ~host.installing
    /\ host.phase \notin {"starting", "running", "stopping"}
    /\ host' = [host EXCEPT !.installing = TRUE]
    /\ UNCHANGED <<turn, operation, pending, videoVars>>

\* The job ends: activation configures the host, or is refused by it.
EndInstallation ==
    /\ host.installing
    /\ \/ host' = [host EXCEPT !.installing = FALSE]
       \/ Idle(host) /\ host' = [Ended(host, "stopped") EXCEPT !.installing = FALSE]
    /\ UNCHANGED <<turn, operation, pending, videoVars>>

-----------------------------------------------------------------------------
AndroidNext ==
    \/ \E c \in Owners :
          \/ \E agent \in BOOLEAN :
                CallStart(c, agent) \/ \E o \in Operations : EnqueueOperation(o, c, agent)
          \/ AbortStart(c) \/ StopFor(c) \/ TurnStarts(c) \/ TurnEnds(c)
          \/ \E v \in Viewers : StartVideo(v, c)
    \/ BootDevice \/ BootAutomation \/ BootDone \/ BootFails \/ BootClosed
    \/ ReleaseTimer \/ BootReleased \/ AutomationClosed \/ VideoStops \/ EmulatorStopped
    \/ EmulatorExits \/ DeviceOffline
    \/ \E o \in Operations : BeginOperation(o) \/ EndOperation(o) \/ LoseAutomation(o)
    \/ \E v \in Viewers :
          \/ PreviousClosed(v) \/ OpenVideo(v) \/ OldClosed(v) \/ StreamStarted(v)
          \/ StopVideo(v) \/ StreamClosed(v) \/ ForgetView(v)
    \/ \E external \in BOOLEAN : Configure(external)
    \/ StartInstallation \/ EndInstallation

-----------------------------------------------------------------------------
\* The device, its calls and its streams are in the states the code knows.
AndroidTypeOK ==
    /\ host.phase \in {"stopped", "starting", "running", "stopping", "error"}
    /\ host.owner \in Owners \cup {NoOwnerYet}
    /\ host.timer => host.owner # NoOwnerYet
    /\ host.boot.at \in {"none", "previous", "device", "automation", "closing"}
    /\ host.stopping \in {"no"} \cup ToSet(Stages)
    /\ \A o \in Operations : operation[o].at # "none" <=> o \in ToSet(pending)

\* The device is released three minutes after a turn only when its owner has
\* no other turn by then: the next turn of the conversation stops the timer,
\* whoever else starts, stops, loses or takes over the device in between.
GraceAfterLastTurn == host.timer => ~turn[host.owner]

\* At most one stream shows the device, and it is that of the session the
\* panels opened last, whichever of two sessions waits longer for the stream
\* before it to close.
OneStream == \A v \in Viewers : stream[v] = "live" => viewer = v /\ ~view[v].aborted
=============================================================================
