------------------------------ MODULE Automation ------------------------------
(***************************************************************************)
(* What an agent may do on the Android device from what it has seen: nodes  *)
(* of a snapshot, points of a screenshot, or a selector, while the user     *)
(* touches the same device and its screen changes by itself                 *)
(* (packages/android-use/src: automation/automation.ts, selector.ts,        *)
(* coordinates.ts, android-host.ts, command.ts).                            *)
(*                                                                         *)
(* The operations on the device run one after the other; a touch of the     *)
(* user goes past that queue, except while the agent acts.  A scene is what *)
(* the screen shows of the node that is acted on, its ancestors and those   *)
(* like it, and the rotation.                                               *)
(***************************************************************************)
EXTENDS Naturals, FiniteSets

CONSTANTS
    Scenes,        \* what the screen can show
    Turned,        \* the scenes in which the screen is turned
    Ambiguous,     \* the scenes in which a selector matches several nodes
    MaxSeen,       \* bound: the snapshots and screenshots that are taken
    MaxActs,       \* bound: the actions of the agent
    MaxTouches     \* bound: the touches of the user

ASSUME AutomationConstants ==
    /\ Scenes # {} /\ Turned \subseteq Scenes /\ Ambiguous \subseteq Scenes
    /\ {MaxSeen, MaxActs, MaxTouches} \subseteq Nat

VARIABLES
    scene,      \* what the screen shows
    latest,     \* the snapshot whose nodes may be used
    shot,       \* the screenshot whose points may be used
    seen,       \* what the agent was given, by number
    step,       \* the operation that runs on the device
    touches,    \* the touches of the user
    acts,       \* the actions the agent has asked for
    stale,      \* the screenshots a touch or an action came after
    performed   \* the last action that was performed

automationVars == <<scene, latest, shot, seen, step, touches, acts, stale, performed>>

Nothing == [id |-> 0, kind |-> "none", scene |-> CHOOSE s \in Scenes : TRUE]
Resting == [at |-> "idle", of |-> Nothing, seen |-> CHOOSE s \in Scenes : TRUE]
Rotation(s) == s \in Turned

AutomationInit ==
    /\ scene \in Scenes
    /\ latest = Nothing /\ shot = Nothing
    /\ seen = {} /\ step = Resting
    /\ touches = 0 /\ acts = 0 /\ stale = {}
    /\ performed = [by |-> "none", stale |-> FALSE, same |-> TRUE]

Given(kind) == {x \in seen : x.kind = kind}
NewId == Cardinality(seen) + 1

-----------------------------------------------------------------------------
SceneChanges ==
    /\ scene' \in Scenes \ {scene}
    /\ UNCHANGED <<latest, shot, seen, step, touches, acts, stale, performed>>

\* invalidate: no node and no point that was seen may be used any more.
Invalidated == latest' = Nothing /\ shot' = Nothing
Aged == stale' = stale \cup {x.id : x \in Given("shot")}

\* The user touches the device, or types: not while the agent acts.
Touch ==
    /\ touches < MaxTouches
    /\ step.at \in {"idle", "dumped", "captured"}
    /\ touches' = touches + 1
    /\ Invalidated /\ Aged
    /\ scene' \in Scenes
    /\ UNCHANGED <<seen, step, acts, performed>>

\* A snapshot: the nodes are dumped, then its rotation must be that of the screen.
Snapshot ==
    /\ step.at = "idle" /\ NewId <= MaxSeen
    /\ latest' = Nothing
    /\ step' = [Resting EXCEPT !.at = "dumped", !.seen = scene]
    /\ UNCHANGED <<scene, shot, seen, touches, acts, stale, performed>>

SnapshotTaken ==
    /\ step.at = "dumped"
    /\ IF Rotation(step.seen) # Rotation(scene) THEN UNCHANGED <<latest, seen>>
       ELSE LET x == [id |-> NewId, kind |-> "snapshot", scene |-> step.seen] IN
            latest' = x /\ seen' = seen \cup {x}
    /\ step' = Resting
    /\ UNCHANGED <<scene, shot, touches, acts, stale, performed>>

\* A screenshot: the picture is taken between two looks at the screen, which must agree.
Screenshot ==
    /\ step.at = "idle" /\ NewId <= MaxSeen
    /\ step' = [Resting EXCEPT !.at = "captured", !.seen = scene]
    /\ UNCHANGED <<scene, latest, shot, seen, touches, acts, stale, performed>>

ScreenshotTaken ==
    /\ step.at = "captured"
    /\ IF Rotation(step.seen) # Rotation(scene) THEN UNCHANGED <<shot, seen>>
       ELSE LET x == [id |-> NewId, kind |-> "shot", scene |-> step.seen] IN
            shot' = x /\ seen' = seen \cup {x}
    /\ step' = Resting
    /\ UNCHANGED <<scene, latest, touches, acts, stale, performed>>

-----------------------------------------------------------------------------
Asked == step.at = "idle" /\ acts < MaxActs /\ acts' = acts + 1

\* A node of a snapshot is asked for: only of the latest one, by the selector of
\* the node, which must then be found on the screen.
ActOnNode(x) ==
    /\ Asked /\ x \in Given("snapshot")
    /\ step' = IF x = latest THEN [Resting EXCEPT !.at = "finding", !.of = x] ELSE Resting
    /\ UNCHANGED <<scene, latest, shot, seen, touches, stale, performed>>

ActOnSelector ==
    /\ Asked
    /\ step' = [Resting EXCEPT !.at = "finding"]
    /\ UNCHANGED <<scene, latest, shot, seen, touches, stale, performed>>

\* An operation fails before it acts: the node is not there in time, is gone or
\* disabled, the turn is stopped, or the device does not answer.
Fails ==
    /\ step.at # "idle"
    /\ step' = Resting
    /\ UNCHANGED <<scene, latest, shot, seen, touches, acts, stale, performed>>

\* The nodes that match are listed as a snapshot of their own.
Listed ==
    LET x == [id |-> NewId, kind |-> "snapshot", scene |-> scene] IN
    latest' = x /\ seen' = seen \cup {x}

\* resolve: what is on the screen now is dumped.  The node must be the one of the
\* snapshot, and the only one; else the candidates are a snapshot of their own.
FoundUnchecked ==
    /\ step.at = "finding"
    /\ IF scene \in Ambiguous
       THEN Listed /\ step' = Resting /\ UNCHANGED shot
       ELSE step' = [step EXCEPT !.at = "found", !.seen = scene] /\ UNCHANGED <<latest, shot, seen>>
    /\ UNCHANGED <<scene, touches, acts, stale, performed>>

Found ==
    /\ step.at = "finding"
    /\ IF step.of.kind = "snapshot" /\ (latest # step.of \/ scene # step.of.scene)
       THEN /\ Invalidated /\ step' = Resting
            /\ UNCHANGED <<scene, seen, touches, acts, stale, performed>>
       ELSE FoundUnchecked

\* The node is clicked, held or written to: whether or not the device does it,
\* nothing seen before may be used.
PerformOnNode(writes) ==
    /\ step.at = "found"
    /\ Invalidated /\ Aged
    /\ scene' \in Scenes
    /\ performed' = [by |-> step.of.kind, stale |-> FALSE,
                     same |-> step.of.kind = "snapshot" => step.seen = step.of.scene]
    /\ step' = IF writes THEN [Resting EXCEPT !.at = "reading"] ELSE Resting
    /\ UNCHANGED <<seen, touches, acts>>

\* What was written is read back; where the field cannot be told from others,
\* those are listed.
ReadBack ==
    /\ step.at = "reading"
    /\ Listed \/ UNCHANGED <<latest, seen>>
    /\ step' = Resting
    /\ UNCHANGED <<scene, shot, touches, acts, stale, performed>>

-----------------------------------------------------------------------------
\* A point of a screenshot is asked for: only of the latest one, and of a screen
\* of the same size and rotation; the point is mapped onto that screen.
ActOnPoint(x) ==
    /\ Asked /\ x \in Given("shot")
    /\ IF x # shot THEN step' = Resting /\ UNCHANGED shot
       ELSE IF Rotation(scene) # Rotation(x.scene) THEN step' = Resting /\ shot' = Nothing
       ELSE step' = [Resting EXCEPT !.at = "mapped", !.of = x, !.seen = scene] /\ UNCHANGED shot
    /\ UNCHANGED <<scene, latest, seen, touches, stale, performed>>

\* A tap or a swipe leaves the screenshot good for the next one; holding a point does not.
PerformAtPoint(holds) ==
    /\ step.at = "mapped"
    /\ scene' \in Scenes
    /\ IF holds THEN Invalidated /\ Aged ELSE latest' = Nothing /\ UNCHANGED <<shot, stale>>
    /\ performed' = [by |-> "shot", stale |-> step.of.id \in stale,
                     same |-> Rotation(step.seen) = Rotation(step.of.scene)]
    /\ step' = Resting
    /\ UNCHANGED <<seen, touches, acts>>

\* A key, or what else needs no point, by the agent or from the queue by the user.
PressKey ==
    /\ Asked
    /\ Invalidated /\ Aged
    /\ scene' \in Scenes
    /\ UNCHANGED <<seen, step, touches, performed>>

\* The device is lost or stopped, and its session closed: the next one knows
\* nothing of what this one saw.
Closed ==
    /\ Invalidated /\ Aged
    /\ step' = Resting
    /\ UNCHANGED <<scene, seen, touches, acts, performed>>

AutomationNext ==
    \/ SceneChanges \/ Touch \/ Snapshot \/ SnapshotTaken \/ Screenshot \/ ScreenshotTaken
    \/ ActOnSelector \/ Found \/ ReadBack \/ PressKey \/ Fails \/ Closed
    \/ \E x \in seen : ActOnNode(x) \/ ActOnPoint(x)
    \/ \E option \in BOOLEAN : PerformOnNode(option) \/ PerformAtPoint(option)

-----------------------------------------------------------------------------
\* The snapshots, screenshots and operations are of the kinds the source knows.
AutomationTypeOK ==
    /\ scene \in Scenes /\ latest.kind \in {"none", "snapshot"} /\ shot.kind \in {"none", "shot"}
    /\ step.at \in {"idle", "dumped", "captured", "finding", "found", "mapped", "reading"}
    /\ \A x, y \in seen : x.id = y.id => x = y

\* An action on a node of a snapshot is performed on the node as the agent saw
\* it, and one at a point of a screenshot on a screen that is turned as it was;
\* since the agent was given the screenshot, nobody touched the screen, pressed a
\* key, held a point or acted on a node.
ActsOnWhatWasSeen == performed.same /\ ~performed.stale
=============================================================================
