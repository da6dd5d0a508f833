---------------------------- MODULE DevicesProofs ----------------------------
(***************************************************************************)
(* Proofs about the devices: what an agent does on the screen of the Android *)
(* device, the installation of its tools, its operations and the video of    *)
(* its panels, and the phone.  Each component has an inductive invariant,    *)
(* XInv, and three lemmas: it holds at the start (XStarts), every step keeps *)
(* it (XKept), and it implies what the runs check (XInvSafe).  The theorems  *)
(* at the end put them together for MCDevices.                               *)
(***************************************************************************)
EXTENDS MCDevices, SequenceTheorems, FiniteSetTheorems, TLAPS

-----------------------------------------------------------------------------
(* What an agent does on the screen *)

Kinds == {"snapshot", "shot"}

AutomationTyped ==
    /\ scene \in Scenes
    /\ IsFiniteSet(seen) /\ seen \subseteq [id : Nat, kind : Kinds, scene : Scenes]
    /\ \A x \in seen : 1 <= x.id /\ x.id <= Cardinality(seen)
    /\ \A x, y \in seen : x.id = y.id => x = y
    /\ stale \subseteq {x.id : x \in seen}
    /\ latest = Nothing \/ latest \in Given("snapshot")
    /\ shot = Nothing \/ shot \in Given("shot")
    /\ DOMAIN step = {"at", "of", "seen"}
    /\ step.at \in {"idle", "dumped", "captured", "finding", "found", "mapped", "reading"}
    /\ step.seen \in Scenes

\* The screenshot that may be used is younger than every touch; an operation
\* that is about to act has found what was seen.
AutomationInv ==
    /\ AutomationTyped
    /\ shot.id \notin stale
    /\ step.at = "found" /\ step.of.kind = "snapshot" => step.seen = step.of.scene
    /\ step.at = "mapped" =>
          step.of.id \notin stale /\ Rotation(step.seen) = Rotation(step.of.scene)
    /\ ActsOnWhatWasSeen

LEMMA NothingIs ==
    /\ Nothing.id = 0 /\ Nothing.kind = "none" /\ Nothing.scene \in Scenes
    /\ Resting.at = "idle" /\ Resting.of = Nothing /\ Resting.seen \in Scenes
    /\ DOMAIN Resting = {"at", "of", "seen"}
<1>1. (CHOOSE s \in Scenes : TRUE) \in Scenes
  BY AutomationConstants
<1> QED
  BY <1>1 DEF Nothing, Resting

LEMMA AutomationStarts == AutomationInit => AutomationInv
<1> SUFFICES ASSUME AutomationInit PROVE AutomationInv
  OBVIOUS
<1>1. IsFiniteSet({})
  BY FS_EmptySet
<1> QED
  BY <1>1, NothingIs DEF AutomationInit, AutomationInv, AutomationTyped, ActsOnWhatWasSeen

\* What is given to the agent has a number of its own, that no touch came after.
LEMMA Numbered ==
    ASSUME AutomationTyped, NEW kind \in Kinds, NEW s \in Scenes,
           NEW x, x = [id |-> NewId, kind |-> kind, scene |-> s],
           NEW now, now = seen \cup {x}
    PROVE  /\ IsFiniteSet(now) /\ now \subseteq [id : Nat, kind : Kinds, scene : Scenes]
           /\ \A y \in now : 1 <= y.id /\ y.id <= Cardinality(now)
           /\ \A y, z \in now : y.id = z.id => y = z
           /\ x.id \notin stale /\ stale \subseteq {y.id : y \in now}
<1>1. Cardinality(seen) \in Nat
  BY FS_CardinalityType DEF AutomationTyped
<1>2. x.id = Cardinality(seen) + 1 /\ x \in [id : Nat, kind : Kinds, scene : Scenes]
  BY <1>1 DEF NewId
<1>3. \A y \in seen : y.id \in Nat /\ 1 <= y.id /\ y.id <= Cardinality(seen)
  BY DEF AutomationTyped
<1>4. x \notin seen
  BY <1>1, <1>2, <1>3
<1>5. IsFiniteSet(now) /\ Cardinality(now) = Cardinality(seen) + 1
  BY <1>4, FS_AddElement DEF AutomationTyped
<1>6. x.id \notin stale
  BY <1>1, <1>2, <1>3 DEF AutomationTyped
<1>7. \A y \in now : 1 <= y.id /\ y.id <= Cardinality(now)
  BY <1>1, <1>2, <1>3, <1>5
<1>8. \A y, z \in now : y.id = z.id => y = z
  BY <1>1, <1>2, <1>3 DEF AutomationTyped
<1>9. stale \subseteq {y.id : y \in now}
  BY DEF AutomationTyped
<1>10. now \subseteq [id : Nat, kind : Kinds, scene : Scenes]
  BY <1>2 DEF AutomationTyped
<1> QED
  BY <1>5, <1>6, <1>7, <1>8, <1>9, <1>10

LEMMA AutomationKept == AutomationInv /\ [AutomationNext]_automationVars => AutomationInv'
<1> SUFFICES ASSUME AutomationInv, [AutomationNext]_automationVars PROVE AutomationInv'
  OBVIOUS
<1> USE NothingIs
<1> DEFINE ids == {x.id : x \in seen}
<1>0. /\ 0 \notin ids /\ {x.id : x \in Given("shot")} \subseteq ids
      /\ \A x \in seen : x.kind # "none"
  BY DEF AutomationInv, AutomationTyped, Given, Kinds
<1>1. CASE SceneChanges
  BY <1>1 DEF SceneChanges, AutomationInv, AutomationTyped, ActsOnWhatWasSeen, Given
<1>2. CASE Touch
  BY <1>0, <1>2 DEF Touch, Invalidated, Aged, AutomationInv, AutomationTyped, ActsOnWhatWasSeen, Given
<1>3. CASE Snapshot
  BY <1>3 DEF Snapshot, AutomationInv, AutomationTyped, ActsOnWhatWasSeen, Given
<1>4. CASE SnapshotTaken
  <2>1. CASE Rotation(step.seen) # Rotation(scene)
    BY <1>4, <2>1 DEF SnapshotTaken, AutomationInv, AutomationTyped, ActsOnWhatWasSeen, Given
  <2>2. CASE Rotation(step.seen) = Rotation(scene)
    <3> DEFINE x == [id |-> NewId, kind |-> "snapshot", scene |-> step.seen]
    <3>1. /\ latest' = x /\ seen' = seen \cup {x} /\ step' = Resting
          /\ UNCHANGED <<scene, shot, touches, acts, stale, performed>>
      BY <1>4, <2>2 DEF SnapshotTaken
    <3>2. x.kind = "snapshot" /\ x.id = NewId
      OBVIOUS
    <3>3. /\ IsFiniteSet(seen') /\ seen' \subseteq [id : Nat, kind : Kinds, scene : Scenes]
          /\ \A y \in seen' : 1 <= y.id /\ y.id <= Cardinality(seen')
          /\ \A y, z \in seen' : y.id = z.id => y = z
          /\ stale \subseteq {y.id : y \in seen'}
      <4>1. step.seen \in Scenes /\ "snapshot" \in Kinds /\ AutomationTyped
        BY DEF AutomationInv, AutomationTyped, Kinds
      <4>2. x = [id |-> NewId, kind |-> "snapshot", scene |-> step.seen]
        OBVIOUS
      <4> HIDE DEF x
      <4> QED
        BY <3>1, <4>1, <4>2, Numbered
    <3> HIDE DEF x
    <3> QED
      BY <3>1, <3>2, <3>3 DEF AutomationInv, AutomationTyped, ActsOnWhatWasSeen, Given
  <2> QED
    BY <2>1, <2>2
<1>5. CASE Screenshot
  BY <1>5 DEF Screenshot, AutomationInv, AutomationTyped, ActsOnWhatWasSeen, Given
<1>6. CASE ScreenshotTaken
  <2>1. CASE Rotation(step.seen) # Rotation(scene)
    BY <1>6, <2>1 DEF ScreenshotTaken, AutomationInv, AutomationTyped, ActsOnWhatWasSeen, Given
  <2>2. CASE Rotation(step.seen) = Rotation(scene)
    <3> DEFINE x == [id |-> NewId, kind |-> "shot", scene |-> step.seen]
    <3>1. /\ shot' = x /\ seen' = seen \cup {x} /\ step' = Resting
          /\ UNCHANGED <<scene, latest, touches, acts, stale, performed>>
      BY <1>6, <2>2 DEF ScreenshotTaken
    <3>2. x.kind = "shot" /\ x.id = NewId
      OBVIOUS
    <3>3. /\ IsFiniteSet(seen') /\ seen' \subseteq [id : Nat, kind : Kinds, scene : Scenes]
          /\ \A y \in seen' : 1 <= y.id /\ y.id <= Cardinality(seen')
          /\ \A y, z \in seen' : y.id = z.id => y = z
          /\ x.id \notin stale /\ stale \subseteq {y.id : y \in seen'}
      <4>1. step.seen \in Scenes /\ "shot" \in Kinds /\ AutomationTyped
        BY DEF AutomationInv, AutomationTyped, Kinds
      <4>2. x = [id |-> NewId, kind |-> "shot", scene |-> step.seen]
        OBVIOUS
      <4> HIDE DEF x
      <4> QED
        BY <3>1, <4>1, <4>2, Numbered
    <3> HIDE DEF x
    <3> QED
      BY <3>1, <3>2, <3>3 DEF AutomationInv, AutomationTyped, ActsOnWhatWasSeen, Given
  <2> QED
    BY <2>1, <2>2
<1>7. CASE ActOnSelector
  BY <1>7 DEF ActOnSelector, Asked, AutomationInv, AutomationTyped, ActsOnWhatWasSeen, Given
<1>8. CASE Found
  <2>1. CASE step.of.kind = "snapshot" /\ (latest # step.of \/ scene # step.of.scene)
    BY <1>0, <1>8, <2>1 DEF Found, Invalidated, Aged, AutomationInv, AutomationTyped, ActsOnWhatWasSeen, Given
  <2>2. CASE ~(step.of.kind = "snapshot" /\ (latest # step.of \/ scene # step.of.scene)) /\ scene \notin Ambiguous
    <3>1. /\ step.at = "finding" /\ step' = [step EXCEPT !.at = "found", !.seen = scene]
          /\ UNCHANGED <<latest, shot, seen, scene, touches, acts, stale, performed>>
      BY <1>8, <2>2 DEF Found, FoundUnchecked
    <3>2. /\ DOMAIN step' = DOMAIN step /\ step'.at = "found" /\ step'.seen = scene
          /\ step'.of = step.of
      BY <3>1 DEF AutomationInv, AutomationTyped
    <3> QED
      BY <2>2, <3>1, <3>2 DEF AutomationInv, AutomationTyped, ActsOnWhatWasSeen, Given
  <2>3. CASE ~(step.of.kind = "snapshot" /\ (latest # step.of \/ scene # step.of.scene)) /\ scene \in Ambiguous
    <3> DEFINE x == [id |-> NewId, kind |-> "snapshot", scene |-> scene]
    <3>1. /\ latest' = x /\ seen' = seen \cup {x} /\ step' = Resting
          /\ UNCHANGED <<scene, shot, touches, acts, stale, performed>>
      BY <1>8, <2>3 DEF Found, FoundUnchecked, Listed
    <3>2. x.kind = "snapshot" /\ x.id = NewId
      OBVIOUS
    <3>3. /\ IsFiniteSet(seen') /\ seen' \subseteq [id : Nat, kind : Kinds, scene : Scenes]
          /\ \A y \in seen' : 1 <= y.id /\ y.id <= Cardinality(seen')
          /\ \A y, z \in seen' : y.id = z.id => y = z
          /\ stale \subseteq {y.id : y \in seen'}
      <4>1. scene \in Scenes /\ "snapshot" \in Kinds /\ AutomationTyped
        BY DEF AutomationInv, AutomationTyped, Kinds
      <4>2. x = [id |-> NewId, kind |-> "snapshot", scene |-> scene]
        OBVIOUS
      <4> HIDE DEF x
      <4> QED
        BY <3>1, <4>1, <4>2, Numbered
    <3> HIDE DEF x
    <3> QED
      BY <3>1, <3>2, <3>3 DEF AutomationInv, AutomationTyped, ActsOnWhatWasSeen, Given
  <2> QED
    BY <2>1, <2>2, <2>3
<1>9. CASE ReadBack
  <2>1. CASE UNCHANGED <<latest, seen>>
    BY <1>9, <2>1 DEF ReadBack, AutomationInv, AutomationTyped, ActsOnWhatWasSeen, Given
  <2>2. CASE Listed
    <3> DEFINE x == [id |-> NewId, kind |-> "snapshot", scene |-> scene]
    <3>1. /\ latest' = x /\ seen' = seen \cup {x} /\ step' = Resting
          /\ UNCHANGED <<scene, shot, touches, acts, stale, performed>>
      BY <1>9, <2>2 DEF ReadBack, Listed
    <3>2. x.kind = "snapshot" /\ x.id = NewId
      OBVIOUS
    <3>3. /\ IsFiniteSet(seen') /\ seen' \subseteq [id : Nat, kind : Kinds, scene : Scenes]
          /\ \A y \in seen' : 1 <= y.id /\ y.id <= Cardinality(seen')
          /\ \A y, z \in seen' : y.id = z.id => y = z
          /\ stale \subseteq {y.id : y \in seen'}
      <4>1. scene \in Scenes /\ "snapshot" \in Kinds /\ AutomationTyped
        BY DEF AutomationInv, AutomationTyped, Kinds
      <4>2. x = [id |-> NewId, kind |-> "snapshot", scene |-> scene]
        OBVIOUS
      <4> HIDE DEF x
      <4> QED
        BY <3>1, <4>1, <4>2, Numbered
    <3> HIDE DEF x
    <3> QED
      BY <3>1, <3>2, <3>3 DEF AutomationInv, AutomationTyped, ActsOnWhatWasSeen, Given
  <2> QED
    BY <1>9, <2>1, <2>2 DEF ReadBack
<1>10. CASE PressKey
  BY <1>0, <1>10 DEF PressKey, Asked, Invalidated, Aged, AutomationInv, AutomationTyped, ActsOnWhatWasSeen, Given
<1>11. CASE Fails
  BY <1>11 DEF Fails, AutomationInv, AutomationTyped, ActsOnWhatWasSeen, Given
<1>12. CASE Closed
  BY <1>0, <1>12 DEF Closed, Invalidated, Aged, AutomationInv, AutomationTyped, ActsOnWhatWasSeen, Given
<1>13. ASSUME NEW x \in seen, ActOnNode(x) PROVE AutomationInv'
  BY <1>13 DEF ActOnNode, Asked, AutomationInv, AutomationTyped, ActsOnWhatWasSeen, Given
<1>14. ASSUME NEW x \in seen, ActOnPoint(x) PROVE AutomationInv'
  BY <1>0, <1>14 DEF ActOnPoint, Asked, AutomationInv, AutomationTyped, ActsOnWhatWasSeen, Given
<1>15. ASSUME NEW option \in BOOLEAN, PerformOnNode(option) PROVE AutomationInv'
  BY <1>0, <1>15 DEF PerformOnNode, Invalidated, Aged, AutomationInv, AutomationTyped, ActsOnWhatWasSeen, Given
<1>16. ASSUME NEW option \in BOOLEAN, PerformAtPoint(option) PROVE AutomationInv'
  <2>1. ~performed'.stale /\ performed'.same
    BY <1>16 DEF PerformAtPoint, AutomationInv
  <2>2. /\ scene' \in Scenes /\ step' = Resting /\ UNCHANGED <<seen, touches, acts>>
        /\ \/ Invalidated /\ Aged
           \/ latest' = Nothing /\ UNCHANGED <<shot, stale>>
    BY <1>16 DEF PerformAtPoint
  <2> QED
    BY <1>0, <2>1, <2>2 DEF Invalidated, Aged, AutomationInv, AutomationTyped, ActsOnWhatWasSeen, Given
<1>17. CASE UNCHANGED automationVars
  BY <1>17 DEF automationVars, AutomationInv, AutomationTyped, ActsOnWhatWasSeen, Given
<1> QED
  BY <1>1, <1>2, <1>3, <1>4, <1>5, <1>6, <1>7, <1>8, <1>9, <1>10, <1>11, <1>12, <1>13, <1>14,
     <1>15, <1>16, <1>17 DEF AutomationNext

LEMMA AutomationInvSafe == AutomationInv => AutomationTypeOK /\ ActsOnWhatWasSeen
  BY NothingIs DEF AutomationInv, AutomationTyped, AutomationTypeOK, Given

-----------------------------------------------------------------------------
(* The installation of the tools *)

JobEnded == {"idle", "completed", "error", "canceled"}
OnPart == {"verifying", "downloading", "extracting", "staged", "moved", "removing"}
JobRecords == [phase : JobEnded \cup OnPart \cup {"checking", "next", "finishing"},
               at : 0 .. Parts, reused : SUBSET Components, aborted : BOOLEAN, moved : Dirs]

InstallTyped ==
    /\ dir \in [Components -> Dirs]
    /\ aside \in [Components -> SUBSET Dirs]
    /\ archive \in [Components -> {"none", "good"}]
    /\ job \in JobRecords
    /\ had \subseteq Components
    /\ activated \in BOOLEAN

\* What is activated is current, and the job that runs has nothing to do; what
\* was moved aside and not removed has its place filled.
InstallInv ==
    /\ InstallTyped
    /\ job.phase \in OnPart => job.at \in Components
    /\ job.phase = "removing" => IsCurrent(job.at)
    /\ activated => job.phase \notin OnPart
    /\ activated /\ job.phase = "next" => job.reused = Components
    /\ InstallSafe

LEMMA NoJobIs ==
    ASSUME NEW phase \in JobEnded \cup {"checking"}
    PROVE  NoJob(phase) \in JobRecords /\ NoJob(phase).phase = phase
  BY InstallConstants DEF NoJob, JobRecords, Dirs

LEMMA InstallStarts == InstallInit => InstallInv
<1> SUFFICES ASSUME InstallInit PROVE InstallInv
  OBVIOUS
<1>1. job \in JobRecords /\ job.phase = "idle"
  BY NoJobIs DEF InstallInit, JobEnded
<1> QED
  BY <1>1 DEF InstallInit, InstallInv, InstallTyped, InstallSafe, WorkingKept, ActivatedComplete,
     Dirs, Works, OnPart

\* A job that ends leaves what is on the disk, and so what holds of it.
LEMMA JobEnds ==
    ASSUME InstallInv, NEW phase \in JobEnded \cup {"checking"}, job' = NoJob(phase),
           UNCHANGED <<dir, aside, activated, had>>, archive' \in [Components -> {"none", "good"}]
    PROVE  InstallInv'
<1>1. job' \in JobRecords /\ job'.phase = phase
  BY NoJobIs
<1>2. phase \notin OnPart /\ phase # "next" /\ phase # "removing"
  BY DEF JobEnded, OnPart
<1> QED
  BY <1>1, <1>2 DEF InstallInv, InstallTyped, InstallSafe, WorkingKept, ActivatedComplete, IsCurrent

LEMMA FailedEnds == Failed => \E phase \in JobEnded : job' = NoJob(phase)
  BY DEF Failed, JobEnded

LEMMA InstallKept == InstallInv /\ [InstallNext]_installVars => InstallInv'
<1> SUFFICES ASSUME InstallInv, [InstallNext]_installVars PROVE InstallInv'
  OBVIOUS
<1> DEFINE Same == UNCHANGED <<dir, aside, activated, had>>
<1>0. archive \in [Components -> {"none", "good"}]
  BY DEF InstallInv, InstallTyped
<1>f. ASSUME Failed, Same, archive' \in [Components -> {"none", "good"}] PROVE InstallInv'
  BY <1>f, FailedEnds, JobEnds
<1>s. ASSUME Same, UNCHANGED archive, job' \in JobRecords,
             job'.phase \in OnPart => job'.at \in Components,
             job'.phase # "removing",
             activated => job'.phase \notin OnPart,
             activated /\ job'.phase = "next" => job'.reused = Components
      PROVE  InstallInv'
  BY <1>s DEF InstallInv, InstallTyped, InstallSafe, WorkingKept, ActivatedComplete, IsCurrent
<1> HIDE DEF Same
<1>1. CASE Install
  <2>1. job' = NoJob("checking") /\ UNCHANGED <<dir, aside, archive, activated, had>>
    BY <1>1 DEF Install, disk
  <2> QED
    BY <1>0, <2>1, JobEnds
<1>2. CASE CancelInstall
  <2>1. /\ job' = [job EXCEPT !.aborted = TRUE] /\ job \in JobRecords
        /\ UNCHANGED <<dir, aside, archive, activated, had>>
    BY <1>2 DEF CancelInstall, disk, Counted, InstallInv, InstallTyped
  <2>2. /\ job' \in JobRecords /\ job'.phase = job.phase /\ job'.at = job.at
        /\ job'.reused = job.reused
    BY <2>1 DEF JobRecords
  <2> QED
    BY <2>1, <2>2 DEF InstallInv, InstallTyped, InstallSafe, WorkingKept, ActivatedComplete, IsCurrent
<1>3. CASE Check
  <2>1. CASE job.aborted \/ \E p \in Components : dir[p] = "foreign"
    BY <1>0, <1>3, <1>f, <2>1 DEF Check, disk, Counted, Same
  <2>2. CASE ~(job.aborted \/ \E p \in Components : dir[p] = "foreign")
    <3> DEFINE reused == {p \in Components : IsCurrent(p)}
               first == 0
    <3>1. /\ job' = [job EXCEPT !.phase = "next", !.at = first, !.reused = reused]
          /\ Same /\ UNCHANGED archive
      BY <1>3, <2>2 DEF Check, disk, Counted, Same
    <3>2. /\ reused \in SUBSET Components /\ (activated => reused = Components)
          /\ first \in 0 .. Parts
      BY InstallConstants DEF InstallInv, InstallSafe, ActivatedComplete
    <3> HIDE DEF reused, first
    <3>3. job' \in JobRecords /\ job'.phase = "next" /\ job'.reused = reused
      BY <3>1, <3>2, InstallConstants DEF InstallInv, InstallTyped, JobRecords
    <3> QED
      BY <1>s, <3>1, <3>2, <3>3 DEF OnPart
  <2> QED
    BY <2>1, <2>2
<1>4. CASE StepFails
  BY <1>0, <1>4, <1>f DEF StepFails, disk, Counted, Same
<1>5. CASE NextPart
  <2>0. job.phase = "next" /\ Same /\ UNCHANGED archive /\ job \in JobRecords
    BY <1>5 DEF NextPart, disk, Counted, Same, InstallInv, InstallTyped
  <2>1. CASE job.aborted
    BY <1>0, <1>5, <1>f, <2>0, <2>1 DEF NextPart
  <2>2. CASE ~job.aborted /\ Left(job.at) = {}
    <3>1. job' = [job EXCEPT !.phase = "finishing"]
      BY <1>5, <2>2 DEF NextPart
    <3>2. job' \in JobRecords /\ job'.phase = "finishing"
      BY <2>0, <3>1 DEF JobRecords
    <3> QED
      BY <1>s, <2>0, <3>2 DEF OnPart
  <2>3. CASE ~job.aborted /\ Left(job.at) # {}
    <3>1. PICK q \in Left(job.at) : job' = [job EXCEPT !.phase = "verifying", !.at = q]
      BY <1>5, <2>3 DEF NextPart
    <3>2. q \in Components /\ q \notin job.reused
      BY <2>0, <3>1, InstallConstants DEF Left, Components, JobRecords
    <3>3. job' \in JobRecords /\ job'.phase = "verifying" /\ job'.at = q
      <4>1. q \in 0 .. Parts
        BY <3>2, InstallConstants DEF Components
      <4> QED
        BY <2>0, <3>1, <4>1 DEF JobRecords, OnPart
    <3>4. ~activated
      BY <2>0, <3>2 DEF InstallInv
    <3> QED
      BY <1>s, <2>0, <3>2, <3>3, <3>4
  <2> QED
    BY <2>1, <2>2, <2>3
<1>6. CASE Verify
  <2>0. job.phase = "verifying" /\ Same /\ UNCHANGED archive /\ job \in JobRecords
    BY <1>6 DEF Verify, disk, Counted, Same, InstallInv, InstallTyped
  <2>1. CASE job.aborted
    BY <1>0, <1>6, <1>f, <2>0, <2>1 DEF Verify
  <2>2. CASE ~job.aborted
    <3>1. PICK phase \in {"extracting", "downloading"} : job' = [job EXCEPT !.phase = phase]
      BY <1>6, <2>2 DEF Verify
    <3>2. job' \in JobRecords /\ job'.phase = phase /\ job'.at = job.at
      BY <2>0, <3>1 DEF JobRecords, OnPart
    <3> QED
      BY <1>s, <2>0, <3>1, <3>2 DEF InstallInv, OnPart
  <2> QED
    BY <2>1, <2>2
<1>7. CASE Download
  <2>0. job.phase = "downloading" /\ Same /\ job \in JobRecords
    BY <1>7 DEF Download, Counted, Same, InstallInv, InstallTyped
  <2>1. CASE Failed /\ UNCHANGED archive
    BY <1>0, <1>f, <2>0, <2>1
  <2>2. CASE archive' = [archive EXCEPT ![job.at] = "good"] /\ job' = [job EXCEPT !.phase = "extracting"]
    <3>1. job' \in JobRecords /\ job'.phase = "extracting" /\ job'.at = job.at
      BY <2>0, <2>2 DEF JobRecords, OnPart
    <3>2. archive' \in [Components -> {"none", "good"}]
      BY <1>0, <2>2
    <3> QED
      BY <2>0, <3>1, <3>2 DEF Same, InstallInv, InstallTyped, InstallSafe, WorkingKept,
         ActivatedComplete, IsCurrent, OnPart
  <2> QED
    BY <1>7, <2>1, <2>2 DEF Download
<1>8. CASE Extract
  <2>0. job.phase = "extracting" /\ Same /\ UNCHANGED archive /\ job \in JobRecords
    BY <1>8 DEF Extract, disk, Counted, Same, InstallInv, InstallTyped
  <2>1. CASE job.aborted
    BY <1>0, <1>8, <1>f, <2>0, <2>1 DEF Extract
  <2>2. CASE ~job.aborted
    <3>1. job' = [job EXCEPT !.phase = "staged"]
      BY <1>8, <2>2 DEF Extract
    <3>2. job' \in JobRecords /\ job'.phase = "staged" /\ job'.at = job.at
      BY <2>0, <3>1 DEF JobRecords, OnPart
    <3> QED
      BY <1>s, <2>0, <3>2 DEF InstallInv, OnPart
  <2> QED
    BY <2>1, <2>2
<1>9. CASE MoveAside
  <2>0. /\ job.phase = "staged" /\ job \in JobRecords /\ job.at \in Components /\ ~activated
        /\ UNCHANGED <<archive, activated, had>>
    BY <1>9 DEF MoveAside, Counted, InstallInv, InstallTyped, OnPart
  <2>1. CASE dir[job.at] = "foreign"
    BY <1>0, <1>9, <1>f, <2>0, <2>1 DEF MoveAside, Same
  <2>2. CASE dir[job.at] # "foreign"
    <3> DEFINE p == job.at
               old == dir[p]
    <3>1. /\ job' = [job EXCEPT !.phase = "moved", !.moved = old]
          /\ aside' = [aside EXCEPT ![p] = @ \cup ({old} \ {"none"})]
          /\ dir' = [dir EXCEPT ![p] = "none"]
      BY <1>9, <2>2 DEF MoveAside
    <3>2. p \in Components /\ old \in Dirs /\ dir[p] = old
      BY <2>0 DEF InstallInv, InstallTyped
    <3> HIDE DEF p, old
    <3>3. job' \in JobRecords /\ job'.phase = "moved" /\ job'.at = job.at
      BY <2>0, <3>1, <3>2 DEF JobRecords, OnPart
    <3>4. dir' \in [Components -> Dirs] /\ aside' \in [Components -> SUBSET Dirs]
      BY <3>1, <3>2 DEF InstallInv, InstallTyped, Dirs
    <3>5. WorkingKept'
      <4> SUFFICES ASSUME NEW q \in had
                   PROVE  Works(dir'[q]) \/ \E d \in aside'[q] : Works(d)
        BY <2>0 DEF WorkingKept
      <4>1. Works(dir[q]) \/ \E d \in aside[q] : Works(d)
        BY DEF InstallInv, InstallSafe, WorkingKept
      <4>2. q \in Components /\ dir \in [Components -> Dirs] /\ aside \in [Components -> SUBSET Dirs]
        BY DEF InstallInv, InstallTyped
      <4>3. CASE q # p
        BY <3>1, <4>1, <4>2, <4>3
      <4>4. CASE q = p
        <5>1. aside'[q] = aside[q] \cup ({old} \ {"none"})
          BY <3>1, <4>2, <4>4
        <5>2. Works(old) => old # "none"
          BY DEF Works
        <5> QED
          BY <3>2, <4>1, <4>4, <5>1, <5>2
      <4> QED
        BY <4>3, <4>4
    <3> QED
      BY <2>0, <3>3, <3>4, <3>5
      DEF InstallInv, InstallTyped, InstallSafe, ActivatedComplete, p
  <2> QED
    BY <2>1, <2>2
<1>10. CASE Publish
  <2>0. /\ job.phase = "moved" /\ job \in JobRecords /\ job.at \in Components /\ ~activated
        /\ UNCHANGED <<aside, archive, activated>>
    BY <1>10 DEF Publish, InstallInv, InstallTyped, OnPart
  <2> DEFINE p == job.at
  <2>1. /\ dir' = [dir EXCEPT ![p] = "current"] /\ had' = had \cup {p}
        /\ job' = [job EXCEPT !.phase = "removing"]
    BY <1>10 DEF Publish
  <2>2. job' \in JobRecords /\ job'.phase = "removing" /\ job'.at = p
    BY <2>0, <2>1 DEF JobRecords, OnPart
  <2> HIDE DEF p
  <2>3. /\ dir' \in [Components -> Dirs] /\ p \in Components /\ dir'[p] = "current"
        /\ \A q \in Components \ {p} : dir'[q] = dir[q]
    BY <2>0, <2>1 DEF InstallInv, InstallTyped, Dirs, p
  <2>4. WorkingKept'
    BY <2>0, <2>1, <2>3 DEF InstallInv, InstallTyped, InstallSafe, WorkingKept, Works
  <2> QED
    BY <2>0, <2>1, <2>2, <2>3, <2>4
    DEF InstallInv, InstallTyped, InstallSafe, ActivatedComplete, IsCurrent
<1>11. CASE PublishFails
  <2>0. /\ job.phase = "moved" /\ job \in JobRecords /\ job.at \in Components /\ ~activated
        /\ Failed /\ UNCHANGED <<archive, activated, had>>
    BY <1>11 DEF PublishFails, Counted, InstallInv, InstallTyped, OnPart
  <2>1. CASE ~(dir[job.at] = "none" /\ job.moved # "none")
    BY <1>0, <1>11, <1>f, <2>0, <2>1 DEF PublishFails, Same
  <2>2. CASE dir[job.at] = "none" /\ job.moved # "none"
    <3> DEFINE p == job.at
               old == job.moved
    <3>1. dir' = [dir EXCEPT ![p] = old] /\ aside' = [aside EXCEPT ![p] = @ \ {old}]
      BY <1>11, <2>2 DEF PublishFails
    <3>2. p \in Components /\ old \in Dirs /\ dir[p] = "none"
      BY <2>0, <2>2 DEF JobRecords
    <3>3. PICK phase \in JobEnded : job' = NoJob(phase)
      BY <2>0, FailedEnds
    <3>4. job' \in JobRecords /\ job'.phase \in JobEnded
      BY <3>3, NoJobIs
    <3> HIDE DEF p, old
    <3>5. dir' \in [Components -> Dirs] /\ aside' \in [Components -> SUBSET Dirs]
      BY <3>1, <3>2 DEF InstallInv, InstallTyped
    <3>6. WorkingKept'
      <4> SUFFICES ASSUME NEW q \in had
                   PROVE  Works(dir'[q]) \/ \E d \in aside'[q] : Works(d)
        BY <2>0 DEF WorkingKept
      <4>1. Works(dir[q]) \/ \E d \in aside[q] : Works(d)
        BY DEF InstallInv, InstallSafe, WorkingKept
      <4>2. q \in Components /\ dir \in [Components -> Dirs] /\ aside \in [Components -> SUBSET Dirs]
        BY DEF InstallInv, InstallTyped
      <4>3. CASE q # p
        BY <3>1, <4>1, <4>2, <4>3
      <4>4. CASE q = p
        <5>1. dir'[q] = old /\ aside'[q] = aside[q] \ {old} /\ ~Works(dir[q])
          BY <3>1, <3>2, <4>2, <4>4 DEF Works
        <5> QED
          BY <4>1, <5>1
      <4> QED
        BY <4>3, <4>4
    <3> QED
      BY <2>0, <3>4, <3>5, <3>6
      DEF InstallInv, InstallTyped, InstallSafe, ActivatedComplete, JobEnded, OnPart
  <2> QED
    BY <2>1, <2>2
<1>12. CASE RemoveOld
  <2>0. /\ job.phase = "removing" /\ job \in JobRecords /\ job.at \in Components /\ ~activated
        /\ IsCurrent(job.at) /\ UNCHANGED <<dir, activated, had>>
    BY <1>12 DEF RemoveOld, Counted, InstallInv, InstallTyped, OnPart
  <2> DEFINE p == job.at
             old == job.moved
  <2>1. /\ aside' = [aside EXCEPT ![p] = @ \ {old}]
        /\ archive' = [archive EXCEPT ![p] = "none"]
        /\ job' = [job EXCEPT !.phase = "next", !.moved = "none"]
    BY <1>12 DEF RemoveOld
  <2>2. job' \in JobRecords /\ job'.phase = "next"
    BY <2>0, <2>1 DEF JobRecords, Dirs
  <2> HIDE DEF p, old
  <2>3. archive' \in [Components -> {"none", "good"}] /\ aside' \in [Components -> SUBSET Dirs]
    BY <1>0, <2>1 DEF InstallInv, InstallTyped
  <2>4. WorkingKept'
    <3> SUFFICES ASSUME NEW q \in had
                 PROVE  Works(dir[q]) \/ \E d \in aside'[q] : Works(d)
      BY <2>0 DEF WorkingKept
    <3>1. Works(dir[q]) \/ \E d \in aside[q] : Works(d)
      BY DEF InstallInv, InstallSafe, WorkingKept
    <3>2. q \in Components /\ aside \in [Components -> SUBSET Dirs]
      BY DEF InstallInv, InstallTyped
    <3>3. CASE q # p
      BY <2>1, <3>1, <3>2, <3>3
    <3>4. CASE q = p
      BY <2>0, <3>4 DEF p, IsCurrent, Works
    <3> QED
      BY <3>3, <3>4
  <2> QED
    BY <2>0, <2>2, <2>3, <2>4
    DEF InstallInv, InstallTyped, InstallSafe, ActivatedComplete, OnPart
<1>13. CASE Activate
  <2>1. CASE ~\A p \in Components : IsCurrent(p)
    BY <1>0, <1>13, <1>f, <2>1 DEF Activate, disk, Counted, Same
  <2>2. CASE \A p \in Components : IsCurrent(p)
    <3>1. /\ activated' = TRUE /\ job' = NoJob("completed")
          /\ UNCHANGED <<dir, aside, archive, had>>
      BY <1>13, <2>2 DEF Activate, disk, Counted
    <3>2. job' \in JobRecords /\ job'.phase = "completed"
      BY <3>1, NoJobIs DEF JobEnded
    <3> QED
      BY <2>2, <3>1, <3>2
      DEF InstallInv, InstallTyped, InstallSafe, WorkingKept, ActivatedComplete, IsCurrent, OnPart
  <2> QED
    BY <2>1, <2>2
<1>14. CASE ActivateFails
  BY <1>0, <1>14, <1>f DEF ActivateFails, disk, Counted, Same
<1>15. CASE Crash
  BY <1>0, <1>15, JobEnds DEF Crash, JobEnded
<1>16. ASSUME NEW p \in Components, UserPuts(p) PROVE InstallInv'
  <2>1. /\ dir[p] = "none" /\ dir' = [dir EXCEPT ![p] = "foreign"]
        /\ UNCHANGED <<aside, archive, job, activated, had>>
    BY <1>16 DEF UserPuts, Counted
  <2>2. /\ dir' \in [Components -> Dirs] /\ ~IsCurrent(p) /\ ~Works(dir[p])
        /\ \A q \in Components \ {p} : dir'[q] = dir[q]
    BY <2>1 DEF InstallInv, InstallTyped, Dirs, IsCurrent, Works
  <2>3. WorkingKept'
    BY <2>1, <2>2 DEF InstallInv, InstallTyped, InstallSafe, WorkingKept
  <2>4. ~activated /\ (job.phase = "removing" => job.at \in Components \ {p})
    BY <2>2 DEF InstallInv, InstallSafe, ActivatedComplete, OnPart
  <2> QED
    BY <2>1, <2>2, <2>3, <2>4
    DEF InstallInv, InstallTyped, InstallSafe, ActivatedComplete, IsCurrent
<1>17. CASE UNCHANGED installVars
  BY <1>17 DEF installVars, InstallInv, InstallTyped, InstallSafe, WorkingKept, ActivatedComplete,
     IsCurrent
<1> QED
  BY <1>1, <1>2, <1>3, <1>4, <1>5, <1>6, <1>7, <1>8, <1>9, <1>10, <1>11, <1>12, <1>13, <1>14,
     <1>15, <1>16, <1>17 DEF InstallNext

LEMMA InstallInvSafe == InstallInv => InstallTypeOK /\ InstallSafe
  BY DEF InstallInv, InstallTyped, InstallTypeOK, JobRecords

\* What the user has put there, no step moves or replaces.
LEMMA ForeignStays ==
    ASSUME InstallInv, [InstallNext]_installVars, NEW p \in Components, dir[p] = "foreign"
    PROVE  dir'[p] = "foreign"
<1>0. dir \in [Components -> Dirs]
  BY DEF InstallInv, InstallTyped
<1>1. CASE UNCHANGED dir
  BY <1>1
<1>2. CASE MoveAside \/ Publish \/ PublishFails
  BY <1>0, <1>2 DEF MoveAside, Publish, PublishFails
<1>3. ASSUME NEW q \in Components, UserPuts(q) PROVE dir'[p] = "foreign"
  BY <1>0, <1>3 DEF UserPuts
<1> QED
  BY <1>1, <1>2, <1>3 DEF InstallNext, Install, CancelInstall, Check, StepFails, NextPart, Verify,
     Download, Extract, RemoveOld, Activate, ActivateFails, Crash, disk, installVars

-----------------------------------------------------------------------------
(* The device *)

HostFields == {"phase", "owner", "timer", "boot", "stopping", "releasing", "target", "automation",
               "video", "managed", "emulator", "start", "agents", "external", "installing"}
StageNames == {"boot", "releasing", "automation", "video", "pending", "managed"}

\* A state of the host in which the timer runs only for an owner without a turn.
HostOK(h) ==
    /\ DOMAIN h = HostFields /\ DOMAIN h.boot = {"at", "by", "aborted"}
    /\ h.phase \in {"stopped", "starting", "running", "stopping", "error"}
    /\ h.owner \in Owners \cup {NoOwnerYet}
    /\ h.timer \in BOOLEAN /\ (h.timer => h.owner \in Owners /\ ~turn[h.owner])
    /\ h.boot.at \in {"none", "previous", "device", "automation", "closing"}
    /\ h.stopping \in {"no"} \cup StageNames

\* The chain holds each operation that is asked once, and the first may run.
ChainOK ==
    /\ DOMAIN operation = Operations
    /\ \A o \in Operations : DOMAIN operation[o] = {"at", "owner", "link", "agent"}
    /\ pending \in Seq(Operations)
    /\ \A i, j \in 1 .. Len(pending) : pending[i] = pending[j] => i = j
    /\ \A o \in Operations : operation[o].at # "none" <=> \E i \in 1 .. Len(pending) : pending[i] = o
    /\ \A o \in Operations : operation[o].at = "running" => pending # <<>> /\ pending[1] = o

ViewFields == {"at", "owner", "aborted", "link", "old"}

\* A session that is not aborted is the current one, and has a stream only once
\* it has made it.
ViewOK(v) ==
    /\ DOMAIN view[v] = ViewFields /\ view[v].aborted \in BOOLEAN
    /\ view[v].at # "none" /\ ~view[v].aborted => viewer = v
    /\ view[v].at \in {"none", "previous", "server", "old"} => stream[v] = "none"
    /\ stream[v] = "live" => viewer = v /\ ~view[v].aborted

AndroidInv ==
    /\ DOMAIN turn = Owners /\ \A c \in Owners : turn[c] \in BOOLEAN
    /\ HostOK(host)
    /\ ChainOK
    /\ DOMAIN view = Viewers /\ DOMAIN stream = Viewers
    /\ \A v \in Viewers : ViewOK(v)

-----------------------------------------------------------------------------
LEMMA EndedOK ==
    ASSUME NEW h, HostOK(h), NEW phase \in {"stopped", "starting", "running", "stopping", "error"}
    PROVE  HostOK(Ended(h, phase)) /\ Ended(h, phase).timer = FALSE
  BY DEF HostOK, Ended, HostFields

LEMMA BeginStartOK ==
    ASSUME NEW h, HostOK(h), NEW c \in Owners
    PROVE  HostOK(BeginStart(h, c))
<1> DEFINE taken == [h EXCEPT !.owner = c, !.timer = IF h.owner = c THEN FALSE ELSE @]
<1>1. CASE ~Access(h, c)
  BY <1>1 DEF BeginStart, HostOK, HostFields
<1>2. CASE Access(h, c)
  <2>1. HostOK(taken) /\ taken.timer = FALSE
    BY <1>2, AndroidConstants DEF HostOK, HostFields, Access
  <2>2. BeginStart(h, c) =
             IF h.phase = "running" THEN [taken EXCEPT !.start[c] = "none"]
             ELSE IF Booting(h) THEN [taken EXCEPT !.start[c] = "boot"]
             ELSE [taken EXCEPT !.start[c] = "boot", !.phase = "starting",
                               !.boot = [at |-> "previous", by |-> c, aborted |-> FALSE],
                               !.managed = FALSE,
                               !.emulator = IF h.managed THEN FALSE ELSE @]
    BY <1>2 DEF BeginStart
  <2> HIDE DEF taken
  <2> QED
    BY <2>1, <2>2 DEF HostOK, HostFields
<1> QED
  BY <1>1, <1>2

LEMMA ResumedOK ==
    ASSUME NEW h, HostOK(h), NEW waiting \in SUBSET Owners
    PROVE  \A g \in Resumed(h, waiting) : HostOK(g)
<1>1. CASE waiting = {}
  BY <1>1 DEF Resumed
<1>2. CASE waiting # {}
  <2> SUFFICES ASSUME NEW c \in waiting, NEW starts
               PROVE  HostOK([BeginStart(h, c) EXCEPT !.start = starts])
    BY <1>2 DEF Resumed
  <2> DEFINE g == BeginStart(h, c)
  <2>1. HostOK(g)
    BY BeginStartOK
  <2> HIDE DEF g
  <2>2. HostOK([g EXCEPT !.start = starts])
    BY <2>1 DEF HostOK, HostFields
  <2> QED
    BY <2>2 DEF g
<1> QED
  BY <1>1, <1>2

LEMMA StoppedOK ==
    ASSUME NEW h, HostOK(h)
    PROVE  \A g \in Stopped(h) : HostOK(g)
<1> DEFINE over == [Ended(h, "stopped") EXCEPT !.target = 0, !.stopping = "no"]
           waiting == {c \in Owners : h.start[c] = "stop"}
<1>1. HostOK(over)
  <2> DEFINE ended == Ended(h, "stopped")
  <2>1. HostOK(ended)
    BY EndedOK
  <2> HIDE DEF ended
  <2>2. HostOK([ended EXCEPT !.target = 0, !.stopping = "no"])
    BY <2>1 DEF HostOK, HostFields
  <2> QED
    BY <2>2 DEF ended
<1>2. Stopped(h) = IF h.releasing
        THEN {[over EXCEPT !.start = [c \in Owners |-> IF c \in waiting THEN "release" ELSE @[c]]]}
        ELSE Resumed(over, waiting)
  BY DEF Stopped
<1>3. waiting \in SUBSET Owners
  OBVIOUS
<1> HIDE DEF over, waiting
<1>4. CASE h.releasing
  <2>1. PICK starts : Stopped(h) = {[over EXCEPT !.start = starts]}
    BY <1>2, <1>4
  <2>2. HostOK([over EXCEPT !.start = starts])
    BY <1>1 DEF HostOK, HostFields
  <2> QED
    BY <2>1, <2>2
<1>5. CASE ~h.releasing
  BY <1>1, <1>2, <1>3, <1>5, ResumedOK
<1> QED
  BY <1>4, <1>5

LEMMA FirstOfSix ==
    ASSUME NEW S \in SUBSET (1 .. 6), S # {}
    PROVE  \E i \in S : \A j \in S : i <= j
<1>1. 1 .. 6 = {1, 2, 3, 4, 5, 6}
  OBVIOUS
<1>2. CASE 1 \in S
  BY <1>1, <1>2
<1>3. CASE 1 \notin S /\ 2 \in S
  BY <1>1, <1>3
<1>4. CASE 1 \notin S /\ 2 \notin S /\ 3 \in S
  BY <1>1, <1>4
<1>5. CASE 1 \notin S /\ 2 \notin S /\ 3 \notin S /\ 4 \in S
  BY <1>1, <1>5
<1>6. CASE 1 \notin S /\ 2 \notin S /\ 3 \notin S /\ 4 \notin S /\ 5 \in S
  BY <1>1, <1>6
<1>7. CASE 1 \notin S /\ 2 \notin S /\ 3 \notin S /\ 4 \notin S /\ 5 \notin S
  <2>1. S = {6}
    BY <1>1, <1>7
  <2> QED
    BY <2>1
<1> QED
  BY <1>2, <1>3, <1>4, <1>5, <1>6, <1>7

LEMMA StagesAre == Len(Stages) = 6 /\ \A i \in 1 .. 6 : Stages[i] \in StageNames
<1>1. Len(Stages) = 6 /\ 1 .. 6 = {1, 2, 3, 4, 5, 6}
  BY DEF Stages
<1>2. /\ Stages[1] \in StageNames /\ Stages[2] \in StageNames /\ Stages[3] \in StageNames
      /\ Stages[4] \in StageNames /\ Stages[5] \in StageNames /\ Stages[6] \in StageNames
  BY DEF Stages, StageNames
<1> QED
  BY <1>1, <1>2

LEMMA AdvanceOK ==
    ASSUME NEW h, HostOK(h), NEW ops, NEW n \in 0 .. 6
    PROVE  \A g \in Advance(h, ops, n) : HostOK(g)
<1> DEFINE left == {i \in (n + 1) .. Len(Stages) : Waits(h, ops, Stages[i])}
           next == CHOOSE i \in left : \A j \in left : i <= j
<1>1. Advance(h, ops, n) = IF left = {} THEN Stopped(h) ELSE {[h EXCEPT !.stopping = Stages[next]]}
  BY DEF Advance
<1>2. left \in SUBSET (1 .. 6)
  BY StagesAre
<1> HIDE DEF left
<1>3. CASE left = {}
  BY <1>1, <1>3, StoppedOK
<1>4. CASE left # {}
  <2>1. next \in left
    BY <1>2, <1>4, FirstOfSix
  <2>2. Stages[next] \in StageNames
    BY <1>2, <2>1, StagesAre
  <2> HIDE DEF next
  <2>3. HostOK([h EXCEPT !.stopping = Stages[next]])
    BY <2>2 DEF HostOK, HostFields
  <2> QED
    BY <1>1, <1>4, <2>3
<1> QED
  BY <1>3, <1>4

LEMMA StopOK ==
    ASSUME NEW h, HostOK(h)
    PROVE  \A g \in Stop(h) : HostOK(g)
<1>1. CASE h.stopping # "no"
  BY <1>1 DEF Stop, HostOK, HostFields
<1>2. CASE h.stopping = "no"
  <2> DEFINE now == [h EXCEPT !.timer = FALSE, !.phase = "stopping", !.boot.aborted = Booting(h)]
             none == 0
  <2>1. Stop(h) = Advance(now, pending, none)
    BY <1>2 DEF Stop
  <2>2. HostOK(now) /\ none \in 0 .. 6
    BY DEF HostOK, HostFields
  <2> HIDE DEF now, none
  <2> QED
    BY <2>1, <2>2, AdvanceOK
<1> QED
  BY <1>1, <1>2

LEMMA DisconnectedOK ==
    ASSUME NEW h, HostOK(h)
    PROVE  HostOK(Disconnected(h))
<1> DEFINE ended == Ended(h, "error")
<1>1. HostOK(ended)
  BY EndedOK
<1>2. Disconnected(h) = [ended EXCEPT !.target = 0, !.releasing = (h.automation # 0),
                                      !.automation = 0, !.video = NoViewer]
  BY DEF Disconnected
<1> HIDE DEF ended
<1> QED
  BY <1>1, <1>2 DEF HostOK, HostFields
-----------------------------------------------------------------------------
LEMMA AndroidStarts == AndroidInit => AndroidInv
<1> SUFFICES ASSUME AndroidInit PROVE AndroidInv
  OBVIOUS
<1>1. HostOK(host)
  BY DEF AndroidInit, HostOK, HostFields
<1>2. ChainOK
  BY DEF AndroidInit, ChainOK
<1>3. \A v \in Viewers : ViewOK(v)
  BY DEF AndroidInit, ViewOK, ViewFields
<1> QED
  BY <1>1, <1>2, <1>3 DEF AndroidInit, AndroidInv

LEMMA HostMoves ==
    ASSUME AndroidInv, UNCHANGED <<turn, operation, pending, videoVars>>, HostOK(host')
    PROVE  AndroidInv'
  BY DEF AndroidInv, HostOK, ChainOK, ViewOK, videoVars

\* The device moves, and the stream that shows it may be closed with it.
LEMMA HostMovesVideo ==
    ASSUME AndroidInv, UNCHANGED <<turn, operation, pending, view, viewer>>, HostOK(host'),
           stream' \in {stream, VideoClosed(host)}
    PROVE  AndroidInv'
<1>1. DOMAIN stream' = Viewers
  BY DEF AndroidInv, VideoClosed
<1>2. \A v \in Viewers : stream'[v] = stream[v] \/ (stream[v] = "live" /\ stream'[v] = "closing")
  BY DEF AndroidInv, VideoClosed
<1>3. \A v \in Viewers : ViewOK(v)'
  BY <1>2 DEF AndroidInv, ViewOK
<1> QED
  BY <1>1, <1>3 DEF AndroidInv, HostOK, ChainOK

LEMMA HostSteps ==
    ASSUME AndroidInv,
           \/ \E c \in Owners : \/ \E agent \in BOOLEAN : CallStart(c, agent)
                                \/ AbortStart(c) \/ StopFor(c)
           \/ BootDevice \/ BootAutomation \/ BootDone \/ BootFails \/ BootClosed
           \/ ReleaseTimer \/ BootReleased \/ AutomationClosed \/ EmulatorStopped
           \/ \E external \in BOOLEAN : Configure(external)
           \/ StartInstallation \/ EndInstallation
    PROVE  AndroidInv'
<1>0. HostOK(host)
  BY DEF AndroidInv
<1> SUFFICES UNCHANGED <<turn, operation, pending, videoVars>> /\ HostOK(host')
  BY HostMoves
<1>1. ASSUME NEW c \in Owners, NEW agent \in BOOLEAN, CallStart(c, agent)
      PROVE  UNCHANGED <<turn, operation, pending, videoVars>> /\ HostOK(host')
  <2> DEFINE h == [host EXCEPT !.agents = IF agent THEN @ \cup {c} ELSE @ \ {c}]
  <2>1. /\ host' = IF h.stopping # "no" THEN [h EXCEPT !.start[c] = "stop"]
                   ELSE IF h.releasing THEN [h EXCEPT !.start[c] = "release"]
                   ELSE BeginStart(h, c)
        /\ UNCHANGED <<turn, operation, pending, videoVars>>
    BY <1>1 DEF CallStart
  <2>2. HostOK(h)
    BY <1>0 DEF HostOK, HostFields
  <2> HIDE DEF h
  <2>3. HostOK([h EXCEPT !.start[c] = "stop"]) /\ HostOK([h EXCEPT !.start[c] = "release"])
    BY <2>2 DEF HostOK, HostFields
  <2>4. HostOK(BeginStart(h, c))
    BY <2>2, BeginStartOK
  <2> QED
    BY <2>1, <2>3, <2>4
<1>2. ASSUME NEW c \in Owners, AbortStart(c)
      PROVE  UNCHANGED <<turn, operation, pending, videoVars>> /\ HostOK(host')
  BY <1>0, <1>2 DEF AbortStart, HostOK, HostFields
<1>3. ASSUME NEW c \in Owners, StopFor(c)
      PROVE  UNCHANGED <<turn, operation, pending, videoVars>> /\ HostOK(host')
  BY <1>0, <1>3, StopOK DEF StopFor
<1>4. CASE BootDevice
  BY <1>0, <1>4 DEF BootDevice, HostOK, HostFields
<1>5. CASE BootAutomation
  BY <1>0, <1>5 DEF BootAutomation, HostOK, HostFields
<1>6. CASE BootDone
  <2>1. /\ host' = [host EXCEPT !.phase = "running", !.boot = NoBoot, !.start = BootStarters(host)]
        /\ UNCHANGED <<turn, operation, pending, videoVars>>
    BY <1>6 DEF BootDone
  <2>2. DOMAIN NoBoot = {"at", "by", "aborted"} /\ NoBoot.at = "none"
    BY DEF NoBoot
  <2> QED
    BY <1>0, <2>1, <2>2 DEF HostOK, HostFields
<1>7. CASE BootFails
  BY <1>0, <1>7 DEF BootFails, HostOK, HostFields
<1>8. CASE BootClosed
  <2> DEFINE phase == IF host.boot.aborted THEN "stopped" ELSE "error"
             ended == Ended(host, phase)
             h == [ended EXCEPT
                 !.boot = NoBoot, !.start = BootStarters(host), !.target = 0, !.automation = 0,
                 !.managed = FALSE, !.emulator = IF host.managed THEN FALSE ELSE @]
             one == 1
  <2>1. /\ host' \in IF h.stopping = "boot" THEN Advance(h, pending, one) ELSE {h}
        /\ UNCHANGED <<turn, operation, pending, videoVars>>
    BY <1>8 DEF BootClosed
  <2>2. HostOK(ended) /\ one \in 0 .. 6
    <3>1. phase \in {"stopped", "starting", "running", "stopping", "error"} /\ one \in 0 .. 6
      OBVIOUS
    <3> HIDE DEF phase, one
    <3> QED
      BY <1>0, <3>1, EndedOK
  <2>3. DOMAIN NoBoot = {"at", "by", "aborted"} /\ NoBoot.at = "none"
    BY DEF NoBoot
  <2> HIDE DEF ended, one
  <2>4. HostOK(h)
    BY <2>2, <2>3 DEF HostOK, HostFields
  <2> HIDE DEF h
  <2> QED
    BY <2>1, <2>2, <2>4, AdvanceOK
<1>9. CASE ReleaseTimer
  BY <1>0, <1>9, StopOK DEF ReleaseTimer
<1>10. CASE BootReleased
  <2> DEFINE freed == [host EXCEPT !.releasing = FALSE]
             waiting == {c \in Owners : host.start[c] = "release"}
             two == 2
  <2>1. PICK h \in Resumed(freed, waiting) :
           host' \in IF h.stopping = "releasing" THEN Advance(h, pending, two) ELSE {h}
    BY <1>10 DEF BootReleased
  <2>2. HostOK(freed) /\ waiting \in SUBSET Owners /\ two \in 0 .. 6
    BY <1>0 DEF HostOK, HostFields
  <2>3. UNCHANGED <<turn, operation, pending, videoVars>>
    BY <1>10 DEF BootReleased
  <2> HIDE DEF freed, waiting, two
  <2>4. HostOK(h)
    BY <2>1, <2>2, ResumedOK
  <2> QED
    BY <2>1, <2>2, <2>3, <2>4, AdvanceOK
<1>11. CASE AutomationClosed
  <2> DEFINE h == [host EXCEPT !.automation = 0]
             three == 3
  <2>1. /\ host' \in Advance(h, pending, three)
        /\ UNCHANGED <<turn, operation, pending, videoVars>>
    BY <1>11 DEF AutomationClosed
  <2>2. HostOK(h) /\ three \in 0 .. 6
    BY <1>0 DEF HostOK, HostFields
  <2> HIDE DEF h, three
  <2> QED
    BY <2>1, <2>2, AdvanceOK
<1>12. CASE EmulatorStopped
  <2> DEFINE h == [host EXCEPT !.managed = FALSE, !.emulator = FALSE]
  <2>1. host' \in Stopped(h) /\ UNCHANGED <<turn, operation, pending, videoVars>>
    BY <1>12 DEF EmulatorStopped
  <2>2. HostOK(h)
    BY <1>0 DEF HostOK, HostFields
  <2> HIDE DEF h
  <2> QED
    BY <2>1, <2>2, StoppedOK
<1>13. ASSUME NEW external \in BOOLEAN, Configure(external)
       PROVE  UNCHANGED <<turn, operation, pending, videoVars>> /\ HostOK(host')
  <2> DEFINE ended == Ended(host, "stopped")
  <2>1. /\ host' = [ended EXCEPT !.external = external]
        /\ UNCHANGED <<turn, operation, pending, videoVars>>
    BY <1>13 DEF Configure
  <2>2. HostOK(ended)
    BY <1>0, EndedOK
  <2> HIDE DEF ended
  <2> QED
    BY <2>1, <2>2 DEF HostOK, HostFields
<1>14. CASE StartInstallation
  BY <1>0, <1>14 DEF StartInstallation, HostOK, HostFields
<1>15. CASE EndInstallation
  <2> DEFINE ended == Ended(host, "stopped")
  <2>1. /\ host' \in {[host EXCEPT !.installing = FALSE], [ended EXCEPT !.installing = FALSE]}
        /\ UNCHANGED <<turn, operation, pending, videoVars>>
    BY <1>15 DEF EndInstallation
  <2>2. HostOK(ended)
    BY <1>0, EndedOK
  <2> HIDE DEF ended
  <2>3. HostOK([host EXCEPT !.installing = FALSE]) /\ HostOK([ended EXCEPT !.installing = FALSE])
    BY <1>0, <2>2 DEF HostOK, HostFields
  <2> QED
    BY <2>1, <2>3
<1> QED
  BY <1>1, <1>2, <1>3, <1>4, <1>5, <1>6, <1>7, <1>8, <1>9, <1>10, <1>11, <1>12, <1>13, <1>14, <1>15

LEMMA LossSteps ==
    ASSUME AndroidInv, VideoStops \/ EmulatorExits \/ DeviceOffline
    PROVE  AndroidInv'
<1>0. HostOK(host)
  BY DEF AndroidInv
<1> SUFFICES /\ UNCHANGED <<turn, operation, pending, view, viewer>> /\ HostOK(host')
             /\ stream' \in {stream, VideoClosed(host)}
  BY HostMovesVideo
<1>1. CASE VideoStops
  <2> DEFINE h == [host EXCEPT !.video = NoViewer]
             four == 4
  <2>1. /\ \/ stream' = VideoClosed(host) /\ UNCHANGED host
           \/ host' \in Advance(h, pending, four) /\ UNCHANGED stream
        /\ UNCHANGED <<turn, operation, pending, view, viewer>>
    BY <1>1 DEF VideoStops
  <2>2. HostOK(h) /\ four \in 0 .. 6
    BY <1>0 DEF HostOK, HostFields
  <2> HIDE DEF h, four
  <2> QED
    BY <1>0, <2>1, <2>2, AdvanceOK
<1>2. CASE EmulatorExits
  <2> DEFINE h == [host EXCEPT !.emulator = FALSE]
  <2>1. /\ host' \in {h, Disconnected(h)} /\ stream' \in {stream, VideoClosed(host)}
        /\ UNCHANGED <<turn, operation, pending, view, viewer>>
    BY <1>2 DEF EmulatorExits
  <2>2. HostOK(h)
    BY <1>0 DEF HostOK, HostFields
  <2> HIDE DEF h
  <2> QED
    BY <2>1, <2>2, DisconnectedOK
<1>3. CASE DeviceOffline
  BY <1>0, <1>3, DisconnectedOK DEF DeviceOffline
<1> QED
  BY <1>1, <1>2, <1>3

LEMMA TurnSteps ==
    ASSUME AndroidInv, NEW c \in Owners, TurnStarts(c) \/ TurnEnds(c)
    PROVE  AndroidInv'
<1>1. CASE TurnStarts(c)
  <2>1. /\ turn' = [turn EXCEPT ![c] = TRUE]
        /\ host' = IF host.owner = c THEN [host EXCEPT !.timer = FALSE] ELSE host
        /\ UNCHANGED <<operation, pending, videoVars>>
    BY <1>1 DEF TurnStarts, RetainFor
  <2>2. HostOK(host)'
    BY <2>1 DEF AndroidInv, HostOK, HostFields
  <2> QED
    BY ZenonT(60), <2>1, <2>2 DEF AndroidInv, ChainOK, ViewOK, videoVars
<1>2. CASE TurnEnds(c)
  <2>1. /\ turn' = [turn EXCEPT ![c] = FALSE]
        /\ host' = IF host.owner = c THEN [host EXCEPT !.timer = TRUE] ELSE host
        /\ UNCHANGED <<operation, pending, videoVars>>
    BY <1>2 DEF TurnEnds, ReleaseFor
  <2>2. HostOK(host)'
    BY <2>1 DEF AndroidInv, HostOK, HostFields
  <2> QED
    BY ZenonT(60), <2>1, <2>2 DEF AndroidInv, ChainOK, ViewOK, videoVars
<1> QED
  BY <1>1, <1>2

-----------------------------------------------------------------------------
\* The first operation of the chain settles.
LEMMA SettledOK ==
    ASSUME AndroidInv, NEW o \in Operations, pending # <<>>, pending[1] = o,
           NEW h, HostOK(h), Settled(o, h)
    PROVE  ChainOK' /\ HostOK(host')
<1> DEFINE none == [at |-> "none", owner |-> NoOwnerYet, link |-> 0, agent |-> FALSE]
           five == 5
<1>1. /\ pending' = Tail(pending) /\ operation' = [operation EXCEPT ![o] = none]
      /\ host' \in {h} \cup Advance(h, Tail(pending), five)
  BY DEF Settled
<1>2. none.at = "none" /\ DOMAIN none = {"at", "owner", "link", "agent"} /\ five \in 0 .. 6
  OBVIOUS
<1> HIDE DEF none, five
<1>3. HostOK(host')
  BY <1>1, <1>2, AdvanceOK
<1>4. /\ pending \in Seq(Operations) /\ Len(pending) \in Nat \ {0}
      /\ pending' \in Seq(Operations) /\ Len(pending') = Len(pending) - 1
      /\ \A i \in 1 .. Len(pending) - 1 : pending'[i] = pending[i + 1]
  BY <1>1 DEF AndroidInv, ChainOK
<1>5. \A i, j \in 1 .. Len(pending) : pending[i] = pending[j] => i = j
  BY DEF AndroidInv, ChainOK
<1>6. \A i, j \in 1 .. Len(pending') : pending'[i] = pending'[j] => i = j
  <2> SUFFICES ASSUME NEW i \in 1 .. Len(pending'), NEW j \in 1 .. Len(pending'),
                      pending'[i] = pending'[j]
               PROVE  i = j
    OBVIOUS
  <2>1. i + 1 \in 1 .. Len(pending) /\ j + 1 \in 1 .. Len(pending)
    BY <1>4
  <2>2. pending[i + 1] = pending[j + 1]
    BY <1>4
  <2>3. i + 1 = j + 1
    BY <1>5, <2>1, <2>2
  <2> QED
    BY <1>4, <2>3
<1>7. ASSUME NEW p \in Operations
      PROVE  operation'[p].at # "none" <=> \E i \in 1 .. Len(pending') : pending'[i] = p
  <2>1. CASE p = o
    <3>1. operation'[p].at = "none"
      BY <1>1, <1>2, <2>1 DEF AndroidInv, ChainOK
    <3>2. ASSUME NEW i \in 1 .. Len(pending'), pending'[i] = p PROVE FALSE
      <4>1. i + 1 \in 1 .. Len(pending) /\ 1 \in 1 .. Len(pending) /\ pending[i + 1] = pending[1]
        BY <1>4, <2>1, <3>2
      <4>2. i + 1 = 1
        BY <1>5, <4>1
      <4> QED
        BY <1>4, <4>2
    <3> QED
      BY <3>1, <3>2
  <2>2. CASE p # o
    <3>1. operation'[p] = operation[p]
      BY <1>1, <1>7, <2>2 DEF AndroidInv, ChainOK
    <3>2. operation[p].at # "none" <=> \E i \in 1 .. Len(pending) : pending[i] = p
      BY <1>7 DEF AndroidInv, ChainOK
    <3>3. ASSUME NEW i \in 1 .. Len(pending), pending[i] = p
          PROVE  \E k \in 1 .. Len(pending') : pending'[k] = p
      <4>1. i # 1
        BY <2>2, <3>3
      <4>2. i - 1 \in 1 .. Len(pending') /\ pending'[i - 1] = pending[i]
        BY <1>4, <4>1
      <4> QED
        BY <3>3, <4>2
    <3>4. ASSUME NEW i \in 1 .. Len(pending'), pending'[i] = p
          PROVE  \E k \in 1 .. Len(pending) : pending[k] = p
      <4>1. i + 1 \in 1 .. Len(pending) /\ pending[i + 1] = p
        BY <1>4, <3>4
      <4> QED
        BY <4>1
    <3> QED
      BY <3>1, <3>2, <3>3, <3>4
  <2> QED
    BY <2>1, <2>2
<1>8. \A p \in Operations : operation'[p].at # "running"
  BY <1>1, <1>2 DEF AndroidInv, ChainOK
<1>9. DOMAIN operation' = Operations /\ \A p \in Operations : DOMAIN operation'[p] = {"at", "owner", "link", "agent"}
  BY <1>1, <1>2 DEF AndroidInv, ChainOK
<1> QED
  BY <1>3, <1>4, <1>6, <1>7, <1>8, <1>9 DEF ChainOK

LEMMA EnqueueOK ==
    ASSUME AndroidInv, NEW o \in Operations, NEW c \in Owners, NEW agent \in BOOLEAN,
           EnqueueOperation(o, c, agent)
    PROVE  AndroidInv'
<1> DEFINE asked == [at |-> "queued", owner |-> c, link |-> host.automation, agent |-> agent]
<1>1. /\ operation[o].at = "none" /\ operation' = [operation EXCEPT ![o] = asked]
      /\ pending' = Append(pending, o) /\ UNCHANGED <<host, turn, videoVars>>
  BY DEF EnqueueOperation
<1>2. asked.at = "queued" /\ DOMAIN asked = {"at", "owner", "link", "agent"}
  OBVIOUS
<1> HIDE DEF asked
<1>3. ChainOK
  BY DEF AndroidInv
<1>4. /\ pending \in Seq(Operations) /\ Len(pending) \in Nat
      /\ pending' \in Seq(Operations) /\ Len(pending') = Len(pending) + 1
      /\ \A i \in 1 .. Len(pending) : pending'[i] = pending[i] /\ pending[i] # o
      /\ pending'[Len(pending) + 1] = o
  BY <1>1, <1>3 DEF ChainOK
<1>5. \A i, j \in 1 .. Len(pending') : pending'[i] = pending'[j] => i = j
  BY SMTT(60), <1>3, <1>4 DEF ChainOK
<1>6. ASSUME NEW p \in Operations
      PROVE  operation'[p].at # "none" <=> \E i \in 1 .. Len(pending') : pending'[i] = p
  <2>1. CASE p = o
    BY <1>1, <1>2, <1>3, <1>4, <2>1 DEF ChainOK
  <2>2. CASE p # o
    <3>1. operation'[p] = operation[p]
      BY <1>1, <1>3, <1>6, <2>2 DEF ChainOK
    <3>2. (\E i \in 1 .. Len(pending') : pending'[i] = p) <=> \E i \in 1 .. Len(pending) : pending[i] = p
      BY <1>4, <2>2
    <3> QED
      BY <1>3, <1>6, <3>1, <3>2 DEF ChainOK
  <2> QED
    BY <2>1, <2>2
<1>7. ASSUME NEW p \in Operations, operation'[p].at = "running"
      PROVE  pending' # <<>> /\ pending'[1] = p
  <2>1. operation[p].at = "running"
    BY <1>1, <1>2, <1>3, <1>7 DEF ChainOK
  <2>2. pending # <<>> /\ pending[1] = p
    BY <1>3, <1>7, <2>1 DEF ChainOK
  <2> QED
    BY <1>4, <2>2
<1>8. DOMAIN operation' = Operations /\ \A p \in Operations : DOMAIN operation'[p] = {"at", "owner", "link", "agent"}
  BY <1>1, <1>2, <1>3 DEF ChainOK
<1>9. ChainOK'
  BY <1>4, <1>5, <1>6, <1>7, <1>8 DEF ChainOK
<1> QED
  BY <1>1, <1>9 DEF AndroidInv, HostOK, ViewOK, videoVars

LEMMA OperationSteps ==
    ASSUME AndroidInv, NEW o \in Operations,
           BeginOperation(o) \/ EndOperation(o) \/ LoseAutomation(o)
    PROVE  AndroidInv'
<1>0. ChainOK /\ HostOK(host)
  BY DEF AndroidInv
<1>1. pending # <<>> /\ pending[1] = o
  BY <1>0 DEF ChainOK, BeginOperation, EndOperation, LoseAutomation
<1>2. CASE BeginOperation(o) /\ operation' = [operation EXCEPT ![o].at = "running"] /\ UNCHANGED <<host, pending>>
  <2>1. ChainOK'
    BY <1>0, <1>1, <1>2 DEF ChainOK, BeginOperation
  <2> QED
    BY <1>2, <2>1 DEF BeginOperation, AndroidInv, HostOK, ViewOK, videoVars
<1>3. CASE Settled(o, host) /\ UNCHANGED <<turn, videoVars>>
  <2>1. ChainOK' /\ HostOK(host')
    BY <1>0, <1>1, <1>3, SettledOK
  <2> QED
    BY <1>3, <2>1 DEF AndroidInv, HostOK, ViewOK, videoVars
<1>4. CASE Settled(o, Disconnected(host)) /\ stream' = VideoClosed(host) /\ UNCHANGED <<turn, view, viewer>>
  <2> DEFINE h == Disconnected(host)
  <2>1. HostOK(h) /\ Settled(o, h)
    BY <1>0, <1>4, DisconnectedOK
  <2> HIDE DEF h
  <2>2. ChainOK' /\ HostOK(host')
    BY <1>1, <2>1, SettledOK
  <2>3. DOMAIN stream' = Viewers
    BY <1>4 DEF VideoClosed
  <2>4. \A v \in Viewers : stream'[v] = stream[v] \/ (stream[v] = "live" /\ stream'[v] = "closing")
    BY <1>4 DEF VideoClosed
  <2>5. \A v \in Viewers : ViewOK(v)'
    BY <1>4, <2>4 DEF AndroidInv, ViewOK
  <2> QED
    BY <1>4, <2>2, <2>3, <2>5 DEF AndroidInv, HostOK
<1> QED
  BY <1>2, <1>3, <1>4 DEF BeginOperation, EndOperation, LoseAutomation

-----------------------------------------------------------------------------
\* Only the video changes, and what the device knows of it.
LEMMA VideoMoves ==
    ASSUME AndroidInv, UNCHANGED <<turn, operation, pending>>, HostOK(host'),
           DOMAIN view' = Viewers, DOMAIN stream' = Viewers, \A v \in Viewers : ViewOK(v)'
    PROVE  AndroidInv'
  BY DEF AndroidInv, HostOK, ChainOK

LEMMA VideoSteps ==
    ASSUME AndroidInv, NEW v \in Viewers,
           \/ \E c \in Owners : StartVideo(v, c)
           \/ PreviousClosed(v) \/ OpenVideo(v) \/ OldClosed(v) \/ StreamStarted(v)
           \/ StopVideo(v) \/ StreamClosed(v) \/ ForgetView(v)
    PROVE  AndroidInv'
<1>0. /\ HostOK(host) /\ DOMAIN view = Viewers /\ DOMAIN stream = Viewers
      /\ \A u \in Viewers : ViewOK(u)
  BY DEF AndroidInv
<1>n. /\ DOMAIN NoView = ViewFields /\ NoView.at = "none" /\ NoView.aborted = FALSE
  BY DEF NoView, ViewFields
<1>over. ASSUME VideoOver(v), stream[v] # "live", UNCHANGED <<host, turn, operation, pending, stream>>
         PROVE  AndroidInv'
  <2>1. /\ DOMAIN view' = Viewers /\ \A u \in Viewers \ {v} : view'[u] = view[u]
        /\ DOMAIN view'[v] = ViewFields /\ view'[v].aborted = TRUE /\ view'[v].at = "done"
    BY <1>0, <1>over DEF VideoOver, Aborted, ViewOK, ViewFields
  <2>2. \A u \in Viewers \ {v} : viewer = u => viewer' = u
    BY <1>over DEF VideoOver
  <2>3. \A u \in Viewers : ViewOK(u)'
    BY ZenonT(60), <1>0, <1>over, <2>1, <2>2 DEF ViewOK
  <2> QED
    BY <1>0, <1>over, <2>1, <2>3, VideoMoves DEF HostOK
<1>make. ASSUME NEW link, MakeStream(v, link), ~view[v].aborted, view[v].at # "none",
                UNCHANGED <<turn, operation, pending>>
         PROVE  AndroidInv'
  <2>1. /\ DOMAIN view' = Viewers /\ \A u \in Viewers \ {v} : view'[u] = view[u]
        /\ DOMAIN view'[v] = ViewFields /\ view'[v].aborted = view[v].aborted
        /\ view'[v].at = "starting"
    BY <1>0, <1>make DEF MakeStream, ViewOK, ViewFields
  <2>2. /\ DOMAIN stream' = Viewers /\ \A u \in Viewers \ {v} : stream'[u] = stream[u]
        /\ stream'[v] = "live" /\ viewer' = viewer
    BY <1>0, <1>make DEF MakeStream
  <2>3. \A u \in Viewers : ViewOK(u)'
    BY <1>0, <1>make, <2>1, <2>2 DEF ViewOK
  <2>4. HostOK(host')
    BY <1>0, <1>make DEF MakeStream, HostOK, HostFields
  <2> QED
    BY <1>make, <2>1, <2>2, <2>3, <2>4, VideoMoves
<1>1. ASSUME NEW c \in Owners, StartVideo(v, c) PROVE AndroidInv'
  <2>1. /\ viewer' = v /\ view[v] = NoView /\ stream[v] = "none"
        /\ stream' = StreamsClosed({viewer}) /\ UNCHANGED <<host, turn, operation, pending>>
    BY <1>1 DEF StartVideo
  <2>2. /\ DOMAIN stream' = Viewers
        /\ \A u \in Viewers : stream'[u] = IF u = viewer /\ stream[u] = "live" THEN "closing" ELSE stream[u]
    BY <2>1 DEF StreamsClosed
  <2> DEFINE waits == viewer # NoViewer /\ view[viewer].at = "open" /\ stream[viewer] # "closed"
             at == IF waits THEN "previous" ELSE "server"
             old == IF waits THEN viewer ELSE NoViewer
  <2>3. /\ at \in {"previous", "server"}
        /\ view' = [Aborted({viewer}) EXCEPT ![v] = [NoView EXCEPT !.at = at, !.owner = c, !.old = old]]
    BY <1>1 DEF StartVideo
  <2> HIDE DEF waits, at, old
  <2>4. /\ DOMAIN view' = Viewers
        /\ DOMAIN view'[v] = ViewFields /\ view'[v].at = at /\ view'[v].aborted = FALSE
    BY <1>n, <2>3 DEF Aborted, ViewFields
  <2>5. ASSUME NEW u \in Viewers \ {v}
        PROVE  view'[u] = IF u = viewer THEN [view[u] EXCEPT !.aborted = TRUE] ELSE view[u]
    BY <2>3, <2>5 DEF Aborted
  <2>6. ViewOK(v)'
    BY <2>1, <2>2, <2>4 DEF ViewOK
  <2>7. ASSUME NEW u \in Viewers \ {v} PROVE ViewOK(u)'
    <3>1. CASE u = viewer
      BY ZenonT(60), <1>0, <2>1, <2>2, <2>5, <2>7, <3>1 DEF ViewOK, ViewFields
    <3>2. CASE u # viewer
      BY <1>0, <2>1, <2>2, <2>5, <2>7, <3>2 DEF ViewOK
    <3> QED
      BY <3>1, <3>2
  <2> QED
    BY <1>0, <2>1, <2>2, <2>4, <2>6, <2>7, VideoMoves
<1>2. CASE PreviousClosed(v)
  <2>1. view[v].at = "previous" /\ UNCHANGED <<host, turn, operation, pending, viewer, stream>>
    BY <1>2 DEF PreviousClosed
  <2>2. /\ DOMAIN view' = Viewers /\ \A u \in Viewers \ {v} : view'[u] = view[u]
        /\ DOMAIN view'[v] = ViewFields /\ view'[v].aborted = view[v].aborted
        /\ view'[v].at = "server"
    BY <1>0, <1>2 DEF PreviousClosed, ViewOK, ViewFields
  <2>3. \A u \in Viewers : ViewOK(u)'
    BY <1>0, <2>1, <2>2 DEF ViewOK
  <2> QED
    BY <1>0, <2>1, <2>2, <2>3, VideoMoves
<1>3. CASE OpenVideo(v)
  <2>1. view[v].at = "server" /\ stream[v] = "none" /\ UNCHANGED <<turn, operation, pending>>
    BY <1>0, <1>3 DEF OpenVideo, ViewOK
  <2>2. CASE view[v].aborted \/ ~Connected(host, view[v].owner)
    BY <1>3, <1>over, <2>1, <2>2 DEF OpenVideo
  <2>3. CASE ~(view[v].aborted \/ ~Connected(host, view[v].owner)) /\ host.video = NoViewer
    BY <1>3, <1>make, <2>1, <2>3 DEF OpenVideo
  <2>4. CASE ~(view[v].aborted \/ ~Connected(host, view[v].owner)) /\ host.video # NoViewer
    <3>1. /\ view' = [view EXCEPT ![v].at = "old", ![v].link = host.target, ![v].old = host.video]
          /\ stream' = VideoClosed(host) /\ UNCHANGED <<host, viewer>>
      BY <1>3, <2>4 DEF OpenVideo
    <3>2. /\ DOMAIN view' = Viewers /\ \A u \in Viewers \ {v} : view'[u] = view[u]
          /\ DOMAIN view'[v] = ViewFields /\ view'[v].aborted = view[v].aborted
          /\ view'[v].at = "old"
      BY <1>0, <3>1 DEF ViewOK, ViewFields
    <3>3. /\ DOMAIN stream' = Viewers
          /\ \A u \in Viewers : stream'[u] = stream[u] \/ (stream[u] = "live" /\ stream'[u] = "closing")
      BY <3>1 DEF VideoClosed
    <3>4. \A u \in Viewers : ViewOK(u)'
      BY <1>0, <2>1, <3>1, <3>2, <3>3 DEF ViewOK
    <3> QED
      BY <1>0, <2>1, <3>1, <3>2, <3>3, <3>4, VideoMoves
  <2> QED
    BY <2>2, <2>3, <2>4
<1>4. CASE OldClosed(v)
  <2>1. view[v].at = "old" /\ stream[v] = "none" /\ UNCHANGED <<turn, operation, pending>>
    BY <1>0, <1>4 DEF OldClosed, ViewOK
  <2>2. CASE view[v].aborted \/ ~Connected(host, view[v].owner) \/ host.target # view[v].link
    BY <1>4, <1>over, <2>1, <2>2 DEF OldClosed
  <2>3. CASE ~(view[v].aborted \/ ~Connected(host, view[v].owner) \/ host.target # view[v].link)
    BY <1>4, <1>make, <2>1, <2>3 DEF OldClosed
  <2> QED
    BY <2>2, <2>3
<1>5. CASE StreamStarted(v)
  <2>1. CASE stream[v] = "live"
    <3>1. /\ view[v].at = "starting" /\ view' = [view EXCEPT ![v].at = "open"]
          /\ UNCHANGED <<host, turn, operation, pending, stream, viewer>>
      BY <1>5, <2>1 DEF StreamStarted
    <3>2. /\ DOMAIN view' = Viewers /\ \A u \in Viewers \ {v} : view'[u] = view[u]
          /\ DOMAIN view'[v] = ViewFields /\ view'[v].aborted = view[v].aborted
          /\ view'[v].at = "open"
      BY <1>0, <3>1 DEF ViewOK, ViewFields
    <3>3. \A u \in Viewers : ViewOK(u)'
      BY <1>0, <3>1, <3>2 DEF ViewOK
    <3> QED
      BY <1>0, <3>1, <3>2, <3>3, VideoMoves
  <2>2. CASE stream[v] # "live"
    BY <1>5, <1>over, <2>2 DEF StreamStarted
  <2> QED
    BY <2>1, <2>2
<1>6. CASE StopVideo(v)
  <2>1. /\ viewer = v /\ view' = Aborted({v}) /\ stream' = StreamsClosed({v})
        /\ UNCHANGED <<host, turn, operation, pending>>
    BY <1>6 DEF StopVideo
  <2>2. /\ DOMAIN view' = Viewers /\ \A u \in Viewers \ {v} : view'[u] = view[u]
        /\ DOMAIN view'[v] = ViewFields /\ view'[v].aborted = TRUE
        /\ view'[v].at = view[v].at
    BY <1>0, <2>1 DEF Aborted, ViewOK, ViewFields
  <2>3. /\ DOMAIN stream' = Viewers /\ \A u \in Viewers \ {v} : stream'[u] = stream[u]
        /\ stream'[v] = IF stream[v] = "live" THEN "closing" ELSE stream[v]
    BY <2>1 DEF StreamsClosed
  <2>4. \A u \in Viewers : ViewOK(u)'
    <3>1. ViewOK(v)'
      BY <1>0, <2>2, <2>3 DEF ViewOK
    <3>2. ASSUME NEW u \in Viewers \ {v} PROVE ViewOK(u)'
      <4>1. view[u].at = "none" \/ view[u].aborted
        BY <1>0, <2>1, <3>2 DEF ViewOK
      <4>2. stream[u] # "live"
        BY <1>0, <2>1, <3>2 DEF ViewOK
      <4> QED
        BY <1>0, <2>2, <2>3, <3>2, <4>1, <4>2 DEF ViewOK
    <3> QED
      BY <3>1, <3>2
  <2> QED
    BY <1>0, <2>1, <2>2, <2>3, <2>4, VideoMoves
<1>7. CASE StreamClosed(v)
  <2>1. /\ DOMAIN stream' = Viewers /\ stream[v] = "closing" /\ stream'[v] = "closed"
        /\ \A u \in Viewers \ {v} : stream'[u] = stream[u]
        /\ UNCHANGED <<host, turn, operation, pending, view, viewer>>
    BY <1>0, <1>7 DEF StreamClosed
  <2>2. \A u \in Viewers : ViewOK(u)'
    BY <1>0, <2>1 DEF ViewOK
  <2> QED
    BY <1>0, <2>1, <2>2, VideoMoves
<1>8. CASE ForgetView(v)
  <2>1. /\ DOMAIN view' = Viewers /\ view'[v] = NoView /\ \A u \in Viewers \ {v} : view'[u] = view[u]
        /\ DOMAIN stream' = Viewers /\ stream'[v] = "none"
        /\ \A u \in Viewers \ {v} : stream'[u] = stream[u]
        /\ UNCHANGED <<host, turn, operation, pending, viewer>>
    BY <1>0, <1>8 DEF ForgetView
  <2>2. \A u \in Viewers : ViewOK(u)'
    BY <1>0, <1>n, <2>1 DEF ViewOK
  <2> QED
    BY <1>0, <2>1, <2>2, VideoMoves
<1> QED
  BY <1>1, <1>2, <1>3, <1>4, <1>5, <1>6, <1>7, <1>8

-----------------------------------------------------------------------------
LEMMA AndroidKept == AndroidInv /\ [AndroidNext]_androidVars => AndroidInv'
<1> SUFFICES ASSUME AndroidInv, [AndroidNext]_androidVars PROVE AndroidInv'
  OBVIOUS
<1>1. CASE UNCHANGED androidVars
  BY <1>1 DEF androidVars, AndroidInv, HostOK, ChainOK, ViewOK
<1>2. CASE AndroidNext
  BY <1>2, HostSteps, LossSteps, TurnSteps, EnqueueOK, OperationSteps, VideoSteps DEF AndroidNext
<1> QED
  BY <1>1, <1>2

LEMMA AndroidInvSafe == AndroidInv => AndroidTypeOK /\ GraceAfterLastTurn /\ OneStream
<1> SUFFICES ASSUME AndroidInv PROVE AndroidTypeOK /\ GraceAfterLastTurn /\ OneStream
  OBVIOUS
<1>1. host.stopping \in {"no"} \cup ToSet(Stages)
  <2>1. DOMAIN Stages = {1, 2, 3, 4, 5, 6}
    BY DEF Stages
  <2>2. StageNames \subseteq ToSet(Stages)
    BY <2>1 DEF StageNames, ToSet, Stages
  <2> QED
    BY <2>2 DEF AndroidInv, HostOK
<1>2. \A o \in Operations : operation[o].at # "none" <=> o \in ToSet(pending)
  BY DEF AndroidInv, ChainOK, ToSet
<1>3. AndroidTypeOK
  BY <1>1, <1>2, AndroidConstants DEF AndroidInv, HostOK, AndroidTypeOK
<1> QED
  BY <1>3 DEF AndroidInv, HostOK, ViewOK, GraceAfterLastTurn, OneStream

-----------------------------------------------------------------------------
(* The phone: the MCP clients of a run *)

ClientStates == {"opening", "up", "closed", "stray"}

\* Only the mapped client is up, and a client is opened while none is mapped
\* and no other is opened.
PhoneMcpInv ==
    /\ mcpClients \in Seq(ClientStates)
    /\ mcpSession \in 0 .. Len(mcpClients)
    /\ mcpRun \in {"open", "closing", "closed"}
    /\ \A k \in 1 .. Len(mcpClients) : mcpClients[k] = "up" => mcpSession = k
    /\ \A k \in 1 .. Len(mcpClients) : mcpClients[k] = "opening" =>
          mcpSession = 0 /\ \A l \in 1 .. Len(mcpClients) : mcpClients[l] = "opening" => l = k
    /\ mcpRun = "closed" => mcpSession = 0 /\ \A k \in 1 .. Len(mcpClients) : mcpClients[k] # "opening"

LEMMA PhoneMcpStarts == MobileInit => PhoneMcpInv
  BY DEF MobileInit, PhoneMcpInv

LEMMA PhoneMcpKept == PhoneMcpInv /\ [PhoneMcpNext]_phoneMcpVars => PhoneMcpInv'
<1> SUFFICES ASSUME PhoneMcpInv, [PhoneMcpNext]_phoneMcpVars PROVE PhoneMcpInv'
  OBVIOUS
<1>0. /\ mcpClients \in Seq(ClientStates) /\ Len(mcpClients) \in Nat
      /\ DOMAIN mcpClients = 1 .. Len(mcpClients)
      /\ \A k \in 1 .. Len(mcpClients) : mcpClients[k] \in ClientStates
  BY DEF PhoneMcpInv
<1>1. CASE UNCHANGED <<mcpClients, mcpSession>> /\ mcpRun' \in {mcpRun, "closing"}
  BY <1>1 DEF PhoneMcpInv
<1>2. CASE ToolsClosed
  <2> DEFINE now == [k \in DOMAIN mcpClients |-> IF k = mcpSession THEN "closed" ELSE mcpClients[k]]
  <2>1. /\ mcpClients' = now /\ mcpSession' = 0 /\ mcpRun' = "closed"
        /\ \A k \in 1 .. Len(mcpClients) : mcpClients[k] # "opening"
    BY <1>0, <1>2 DEF ToolsClosed, CloseMapped, Opening
  <2>2. now \in [1 .. Len(mcpClients) -> ClientStates]
    BY <1>0 DEF ClientStates
  <2>3. now \in Seq(ClientStates) /\ Len(now) = Len(mcpClients)
    BY <1>0, <2>2
  <2>4. \A k \in 1 .. Len(mcpClients) : now[k] \in {"closed", mcpClients[k]} /\ now[k] # "up"
    BY <1>0 DEF PhoneMcpInv
  <2> HIDE DEF now
  <2> QED
    BY <2>1, <2>3, <2>4 DEF PhoneMcpInv
<1>3. ASSUME NEW c \in PhoneCalls, ServerFound(c) PROVE PhoneMcpInv'
  <2>1. CASE UNCHANGED mcpClients
    BY <1>1, <1>3, <2>1 DEF ServerFound
  <2>2. CASE mcpClients' = Append(mcpClients, "opening") /\ mcpSession = 0 /\ Opening = {}
    <3>1. UNCHANGED <<mcpSession, mcpRun>> /\ mcpRun = "open"
      BY <1>3 DEF ServerFound
    <3>2. /\ mcpClients' \in Seq(ClientStates) /\ Len(mcpClients') = Len(mcpClients) + 1
          /\ \A k \in 1 .. Len(mcpClients) : mcpClients'[k] = mcpClients[k]
          /\ mcpClients'[Len(mcpClients) + 1] = "opening"
      BY <1>0, <2>2 DEF ClientStates
    <3>3. \A k \in 1 .. Len(mcpClients) : mcpClients[k] # "opening"
      BY <1>0, <2>2 DEF Opening
    <3> QED
      BY <1>0, <2>2, <3>1, <3>2, <3>3 DEF PhoneMcpInv
  <2> QED
    BY <1>3, <2>1, <2>2 DEF ServerFound
<1>4. ASSUME NEW k \in DOMAIN mcpClients, ClientUp(k) PROVE PhoneMcpInv'
  <2>1. mcpClients' = [mcpClients EXCEPT ![k] = "up"] /\ mcpSession' = k /\ UNCHANGED mcpRun
    BY <1>4 DEF ClientUp
  <2>2. k \in 1 .. Len(mcpClients) /\ mcpClients[k] = "opening"
    BY <1>0, <1>4 DEF ClientUp, Opening
  <2>3. /\ mcpClients' \in Seq(ClientStates) /\ Len(mcpClients') = Len(mcpClients)
        /\ \A l \in 1 .. Len(mcpClients) : mcpClients'[l] = IF l = k THEN "up" ELSE mcpClients[l]
    BY <1>0, <2>1, <2>2 DEF ClientStates
  <2> QED
    BY <1>0, <2>1, <2>2, <2>3 DEF PhoneMcpInv
<1>5. ASSUME NEW k \in DOMAIN mcpClients, ClientFails(k) \/ ClientDrops(k) PROVE PhoneMcpInv'
  <2>1. /\ mcpClients' = [mcpClients EXCEPT ![k] = "closed"] /\ UNCHANGED mcpRun
        /\ mcpSession' = mcpSession \/ (mcpSession = k /\ mcpSession' = 0)
        /\ mcpSession = k => mcpClients[k] = "opening" \/ mcpSession' = 0
    BY <1>0, <1>5 DEF ClientFails, ClientDrops, Opening
  <2>2. k \in 1 .. Len(mcpClients)
    BY <1>0, <1>5
  <2>3. /\ mcpClients' \in Seq(ClientStates) /\ Len(mcpClients') = Len(mcpClients)
        /\ \A l \in 1 .. Len(mcpClients) : mcpClients'[l] = IF l = k THEN "closed" ELSE mcpClients[l]
    BY <1>0, <2>1, <2>2 DEF ClientStates
  <2> QED
    BY <1>0, <2>1, <2>2, <2>3 DEF PhoneMcpInv
<1>6. ASSUME NEW c \in PhoneCalls, CallFails(c) PROVE PhoneMcpInv'
  <2> DEFINE now == [k \in DOMAIN mcpClients |->
                        IF k = mcpCalls[c].client THEN "closed"
                        ELSE IF k = mcpSession THEN "stray" ELSE mcpClients[k]]
  <2>1. mcpClients' = now /\ mcpSession' = 0 /\ UNCHANGED mcpRun
    BY <1>6 DEF CallFails
  <2>2. now \in [1 .. Len(mcpClients) -> ClientStates]
    BY <1>0 DEF ClientStates
  <2>3. now \in Seq(ClientStates) /\ Len(now) = Len(mcpClients)
    BY <1>0, <2>2
  <2>4. \A k \in 1 .. Len(mcpClients) : now[k] # "up" /\ (now[k] = "opening" => mcpClients[k] = "opening")
    BY <1>0 DEF PhoneMcpInv
  <2> HIDE DEF now
  <2> QED
    BY <1>0, <2>1, <2>3, <2>4 DEF PhoneMcpInv
<1>7. CASE ToolsClose \/ \E c \in PhoneCalls : CallStarts(c) \/ CallReturns(c)
  <2>1. CASE ToolsClose
    BY <1>1, <2>1 DEF ToolsClose
  <2>2. CASE \E c \in PhoneCalls : CallStarts(c) \/ CallReturns(c)
    BY <1>1, <2>2 DEF CallStarts, CallReturns
  <2> QED
    BY <1>7, <2>1, <2>2
<1>8. CASE UNCHANGED phoneMcpVars
  BY <1>1, <1>8 DEF phoneMcpVars
<1> QED
  BY <1>2, <1>3, <1>4, <1>5, <1>6, <1>7, <1>8 DEF PhoneMcpNext

LEMMA PhoneMcpInvSafe == PhoneMcpInv => ToolsLeftClosed /\ mcpSession \in 0 .. Len(mcpClients)
<1> SUFFICES ASSUME PhoneMcpInv, mcpRun = "closed", NEW k \in DOMAIN mcpClients
             PROVE  mcpClients[k] \in {"closed", "stray"}
  BY DEF ToolsLeftClosed, PhoneMcpInv
<1>1. k \in 1 .. Len(mcpClients) /\ mcpClients[k] \in ClientStates
  BY DEF PhoneMcpInv
<1> QED
  BY <1>1 DEF PhoneMcpInv, ClientStates

-----------------------------------------------------------------------------
(* The phone: its chats *)

RunStates == {"none", "unsent", "requested", "running", "completed", "failed", "cancelled", "never"}
SendSteps == {"creating", "created", "asking", "requested", "reading", "read"}
SavedKinds == {"user", "assistant"}
ChatOrNew == PhoneChats \cup {New}
TurnOrNone == 0 .. MaxSends
Messages == [of : SavedKinds \cup {"optimistic", "placeholder"}, turn : PhoneTurns]
ScreenRecords ==
    [mount : 1 .. MaxScreens, active : ChatOrNew, messages : SUBSET Messages, loading : BOOLEAN,
     sending : BOOLEAN, run : TurnOrNone, last : TurnOrNone, crossed : BOOLEAN]
LoadRecords ==
    [mount : 1 .. MaxScreens, chat : PhoneChats, read : BOOLEAN, messages : SUBSET Messages]
SendRecords ==
    [turn : PhoneTurns, chat : ChatOrNew, mount : 1 .. MaxScreens, step : SendSteps,
     aborted : BOOLEAN, messages : SUBSET Messages]

ChatTyped ==
    /\ held \in [PhoneChats -> [state : {"none", "kept", "deleted"}, turns : Seq(PhoneTurns)]]
    /\ runs \in [PhoneTurns -> [state : RunStates, chat : ChatOrNew]]
    /\ screen \in ScreenRecords
    /\ fetching \subseteq LoadRecords
    /\ sending \subseteq SendRecords
    /\ cancels \subseteq [turn : PhoneTurns, missed : BOOLEAN]
    /\ stopped \subseteq PhoneTurns

TurnsIn(h, c) == {h[c].turns[i] : i \in DOMAIN h[c].turns}

\* The saved messages are of a chat, and all are saved messages.
Saves(h, messages, c) ==
    \A m \in messages : m.of \in SavedKinds => c \in PhoneChats /\ m.turn \in TurnsIn(h, c)
AllSaved(messages, t) ==
    /\ {User(t), Assistant(t)} \subseteq messages
    /\ \A m \in messages : m.of \in SavedKinds

\* A run is of a chat that exists or did, which has its turn once it runs.
RunOK(t) ==
    /\ runs[t].state \in {"requested", "running", "completed"} => runs[t].chat \in PhoneChats
    /\ runs[t].state \in {"running", "completed"} => t \in TurnsIn(held, runs[t].chat)

\* A send is of the screen it began on, or aborted.
SendOK(s) ==
    /\ s.mount <= screen.mount /\ (s.mount = screen.mount \/ s.aborted)
    /\ s.step # "creating" => s.chat \in PhoneChats
    /\ s.mount = screen.mount =>
          /\ screen.sending /\ screen.last = 0
          /\ screen.active = IF s.step \in {"creating", "created"} THEN New ELSE s.chat
          /\ s.step \in {"requested", "reading", "read"} => screen.run = s.turn
    /\ s.step \in {"creating", "created", "asking"} => runs[s.turn].state = "unsent"
    /\ s.step \in {"requested", "reading", "read"} =>
          runs[s.turn].state \notin {"none", "unsent"} /\ runs[s.turn].chat = s.chat
    /\ s.step \in {"reading", "read"} => runs[s.turn].state = "completed"
    /\ s.step = "read" => Saves(held, s.messages, s.chat) /\ AllSaved(s.messages, s.turn)

OneSend ==
    \A s, u \in sending :
       s.turn = u.turn \/ (s.mount = screen.mount /\ u.mount = screen.mount) => s = u

\* A load is of the chat of its screen, which shows that it loads.
LoadOK(x) ==
    /\ x.mount <= screen.mount
    /\ x.mount = screen.mount => x.chat = screen.active /\ screen.loading
    /\ x.read => Saves(held, x.messages, x.chat)

OneLoad == \A x, y \in fetching : x.mount = screen.mount /\ y.mount = screen.mount => x = y

ScreenOK ==
    /\ Saves(held, screen.messages, screen.active)
    /\ (screen.sending \/ screen.last # 0) /\ ~screen.crossed => ~screen.loading
    /\ screen.sending => screen.last = 0
    /\ screen.last # 0 /\ ~screen.crossed => AllSaved(screen.messages, screen.last)

StoppedOnes ==
    \A t \in stopped :
       /\ runs[t].state \notin {"none", "unsent"}
       /\ runs[t].state \in {"requested", "running"} => \E x \in cancels : x.turn = t

ChatInv ==
    /\ ChatTyped
    /\ \A t \in PhoneTurns : RunOK(t)
    /\ \A s \in sending : SendOK(s)
    /\ OneSend
    /\ \A x \in fetching : LoadOK(x)
    /\ OneLoad
    /\ ScreenOK
    /\ StoppedOnes

RemovalRecords ==
    [chat : PhoneChats, mount : 1 .. MaxScreens, active : ChatOrNew, known : SUBSET PhoneChats,
     step : {"asked", "deleted"}]

DrawerTyped ==
    /\ drawer \in [visible : BOOLEAN, shown : SUBSET PhoneChats, list : {"none", "asked", "read"},
                   listed : SUBSET PhoneChats, deleting : BOOLEAN]
    /\ removals \subseteq RemovalRecords
    /\ overlapped \in BOOLEAN

\* A chat that is listed or open exists, or its deletion has not been answered.
Standing(c) == Exists(c) \/ \E r \in removals : r.chat = c /\ r.step = "deleted"

RemovalOK(r) ==
    /\ r.mount = screen.mount
    /\ held[r.chat].state # "none"
    /\ r.step = "asked" => Exists(r.chat)
    /\ \A c \in r.known \ {r.chat} : Exists(c)
    /\ screen.active = r.active \/ (r.active = New /\ screen.active # r.chat)

OneAtATime ==
    /\ \A r, u \in removals : r = u
    /\ \A r \in removals : RemovalOK(r)
    /\ drawer.list # "none" => removals = {}
    /\ drawer.list = "read" => \A c \in drawer.listed : Exists(c)
    /\ \A c \in Rows : Standing(c)
    /\ screen.active # New => Standing(screen.active)
    /\ \A s \in sending : s.step = "created" =>
          Exists(s.chat) /\ \A r \in removals : r.chat # s.chat

DrawerInv == DrawerTyped /\ (~overlapped => OneAtATime)

MobileInv == ChatInv /\ DrawerInv /\ PhoneMcpInv

LEMMA ChatStarts == MobileInit => ChatInv
<1> SUFFICES ASSUME MobileInit PROVE ChatInv
  OBVIOUS
<1> DEFINE none == 0
           one == 1
<1>0. none \in TurnOrNone /\ one \in 1 .. MaxScreens
  BY MobileConstants DEF TurnOrNone
<1>1. screen = [mount |-> one, active |-> New, messages |-> {}, loading |-> New # New,
                sending |-> FALSE, run |-> none, last |-> none, crossed |-> FALSE]
  BY DEF MobileInit, Mounted
<1>2. screen.last = none /\ screen.messages = {} /\ screen.sending = FALSE
  BY <1>1
<1> HIDE DEF one
<1>3. screen \in ScreenRecords
  <2> HIDE DEF none
  <2> QED
    BY <1>0, <1>1 DEF ScreenRecords, ChatOrNew
<1>4. ChatTyped
  BY <1>3 DEF MobileInit, ChatTyped, RunStates, ChatOrNew
<1>5. \A t \in PhoneTurns : RunOK(t)
  BY DEF MobileInit, RunOK
<1>6. ScreenOK
  BY <1>2 DEF ScreenOK, Saves
<1>7. (\A s \in sending : SendOK(s)) /\ OneSend /\ (\A x \in fetching : LoadOK(x)) /\ OneLoad /\ StoppedOnes
  BY DEF MobileInit, OneSend, OneLoad, StoppedOnes
<1> QED
  BY <1>4, <1>5, <1>6, <1>7 DEF ChatInv

\* What the API returns of a chat is of the chat, and all of it is saved.
LEMMA SavedIs ==
    ASSUME ChatTyped, NEW c \in PhoneChats
    PROVE  /\ SavedOf(c) \subseteq Messages /\ Saves(held, SavedOf(c), c)
           /\ \A t \in TurnsIn(held, c) :
                 User(t) \in SavedOf(c) /\ (runs[t].state = "completed" => Assistant(t) \in SavedOf(c))
           /\ \A m \in SavedOf(c) : m.of \in SavedKinds
<1> DEFINE turns == TurnsIn(held, c)
           ended == {u \in PhoneTurns : runs[u].state \in {"completed", "cancelled"}}
<1>1. turns \subseteq PhoneTurns
  BY DEF ChatTyped, TurnsIn
<1>2. SavedOf(c) = {User(t) : t \in turns} \cup {Assistant(t) : t \in turns \cap ended}
  BY DEF SavedOf, TurnsIn
<1>3. \A t : /\ User(t).of = "user" /\ User(t).turn = t
             /\ Assistant(t).of = "assistant" /\ Assistant(t).turn = t
  BY DEF User, Assistant
<1>4. \A t \in PhoneTurns : User(t) \in Messages /\ Assistant(t) \in Messages
  BY DEF User, Assistant, Messages, SavedKinds
<1> HIDE DEF turns
<1>5. SavedOf(c) \subseteq Messages
  BY <1>1, <1>2, <1>4
<1>6. \A m \in SavedOf(c) : m.of \in SavedKinds /\ m.turn \in turns
  BY <1>2, <1>3 DEF SavedKinds
<1>7. \A t \in turns : User(t) \in SavedOf(c) /\ (runs[t].state = "completed" => Assistant(t) \in SavedOf(c))
  BY <1>1, <1>2
<1> QED
  BY <1>5, <1>6, <1>7 DEF Saves, turns

\* What was saved of a chat stays saved while the chats only get more turns.
LEMMA Grown ==
    ASSUME NEW h, NEW g, \A c \in PhoneChats : TurnsIn(h, c) \subseteq TurnsIn(g, c),
           NEW messages, NEW c, Saves(h, messages, c)
    PROVE  Saves(g, messages, c)
  BY DEF Saves

\* A send is replaced by its next step.
LEMMA SendStep ==
    ASSUME ChatInv, NEW s \in sending, NEW x \in SendRecords, x.turn = s.turn, x.mount = s.mount,
           sending' = (sending \ {s}) \cup {x}, screen'.mount = screen.mount
    PROVE  /\ sending' \subseteq SendRecords /\ OneSend'
           /\ \A u \in sending' : u # x =>
                 /\ u \in sending /\ u # s /\ u.turn # s.turn
                 /\ s.mount = screen.mount => u.mount # screen.mount
<1>1. /\ sending' \subseteq SendRecords
      /\ \A u \in sending' : u # x =>
            /\ u \in sending /\ u # s /\ u.turn # s.turn
            /\ s.mount = screen.mount => u.mount # screen.mount
  BY DEF ChatInv, ChatTyped, OneSend
<1>2. OneSend'
  BY <1>1 DEF ChatInv, OneSend
<1> QED
  BY <1>1, <1>2

LEMMA SendOnly ==
    ASSUME ChatInv, NEW s \in sending, NEW x \in SendRecords, x.turn = s.turn, x.mount = s.mount,
           sending' = (sending \ {s}) \cup {x}, SendOK(x),
           UNCHANGED <<held, runs, screen, fetching, cancels, stopped>>
    PROVE  ChatInv'
<1>1. /\ sending' \subseteq SendRecords /\ OneSend'
      /\ \A u \in sending' : u # x => u \in sending
  BY SendStep
<1>2. \A u \in sending' : SendOK(u)'
  <2> SUFFICES ASSUME NEW u \in sending' PROVE SendOK(u)'
    OBVIOUS
  <2>1. SendOK(u)
    BY <1>1 DEF ChatInv
  <2> QED
    BY <2>1 DEF SendOK
<1> QED
  BY <1>1, <1>2 DEF ChatInv, ChatTyped, RunOK, LoadOK, OneLoad, ScreenOK, StoppedOnes

\* Only a run changes, that has no send at an earlier step.
LEMMA RunMoves ==
    ASSUME ChatInv, NEW t \in PhoneTurns, runs[t].state \in {"requested", "running"},
           NEW state \in {"completed", "failed", "cancelled", "never"},
           state = "completed" => runs[t].state = "running",
           runs' = [runs EXCEPT ![t].state = state],
           UNCHANGED <<held, screen, fetching, sending, stopped>>,
           cancels' \subseteq [turn : PhoneTurns, missed : BOOLEAN],
           \A x \in cancels : x.turn # t => x \in cancels'
    PROVE  ChatInv'
<1>1. /\ runs' \in [PhoneTurns -> [state : RunStates, chat : ChatOrNew]]
      /\ \A u \in PhoneTurns : runs'[u].chat = runs[u].chat
      /\ \A u \in PhoneTurns : runs'[u].state = IF u = t THEN state ELSE runs[u].state
  BY DEF ChatInv, ChatTyped, RunStates
<1>2. ChatTyped'
  BY <1>1 DEF ChatInv, ChatTyped
<1>3. \A u \in PhoneTurns : RunOK(u)'
  BY <1>1 DEF ChatInv, RunOK
<1>4. \A s \in sending' : SendOK(s)'
  <2> SUFFICES ASSUME NEW s \in sending PROVE SendOK(s)'
    OBVIOUS
  <2>1. SendOK(s) /\ s.turn \in PhoneTurns
    BY DEF ChatInv, ChatTyped, SendRecords
  <2> QED
    BY <1>1, <2>1 DEF SendOK
<1>5. StoppedOnes'
  BY <1>1 DEF ChatInv, ChatTyped, StoppedOnes
<1> QED
  BY <1>2, <1>3, <1>4, <1>5 DEF ChatInv, OneSend, LoadOK, OneLoad, ScreenOK
\* The screen of another chat, or of none, takes the place of the one there is.
LEMMA ScreenReplaced ==
    ASSUME ChatInv, NEW c \in ChatOrNew, Replace(c), UNCHANGED held
    PROVE  ChatInv'
<1> DEFINE next == screen.mount + 1
           none == 0
           load == [mount |-> next, chat |-> c, read |-> FALSE, messages |-> {}]
<1>1. /\ screen.mount \in 1 .. MaxScreens /\ next \in 1 .. MaxScreens /\ none \in TurnOrNone
      /\ screen.mount < next
  BY MobileConstants DEF ChatInv, ChatTyped, ScreenRecords, Replace, TurnOrNone
<1>2. screen' = [mount |-> next, active |-> c, messages |-> {}, loading |-> c # New,
                 sending |-> FALSE, run |-> none, last |-> none, crossed |-> FALSE]
  BY DEF Replace, Mounted
<1>3. /\ sending' = {[s EXCEPT !.aborted = TRUE] : s \in sending}
      /\ fetching' = fetching \cup (IF c = New THEN {} ELSE {load})
      /\ UNCHANGED <<runs, cancels, stopped>>
  BY DEF Replace
<1>4. screen'.last = 0
  BY <1>2
<1> HIDE DEF next, none
<1>5. screen' \in ScreenRecords
  BY <1>1, <1>2 DEF ScreenRecords
<1>6. \A u \in sending' : \E s \in sending :
          /\ u \in SendRecords /\ u.aborted /\ u.turn = s.turn /\ u.mount = s.mount
          /\ u.chat = s.chat /\ u.step = s.step /\ u.messages = s.messages
          /\ u = [s EXCEPT !.aborted = TRUE]
  <2>1. ASSUME NEW s \in sending
        PROVE  LET u == [s EXCEPT !.aborted = TRUE] IN
                  /\ u \in SendRecords /\ u.aborted /\ u.turn = s.turn /\ u.mount = s.mount
                  /\ u.chat = s.chat /\ u.step = s.step /\ u.messages = s.messages
    <3>1. s \in SendRecords
      BY DEF ChatInv, ChatTyped
    <3> QED
      BY <3>1 DEF SendRecords
  <2> SUFFICES ASSUME NEW u \in sending'
               PROVE  \E s \in sending :
                         /\ u \in SendRecords /\ u.aborted /\ u.turn = s.turn /\ u.mount = s.mount
                         /\ u.chat = s.chat /\ u.step = s.step /\ u.messages = s.messages
                         /\ u = [s EXCEPT !.aborted = TRUE]
    OBVIOUS
  <2>2. PICK s \in sending : u = [s EXCEPT !.aborted = TRUE]
    BY <1>3
  <2> QED
    BY <2>1, <2>2
<1>7. c # New => load \in LoadRecords /\ load.mount = next /\ load.chat = c /\ ~load.read
  BY <1>1 DEF LoadRecords, ChatOrNew
<1>8. \A x \in fetching : x.mount <= screen.mount /\ x.mount \in 1 .. MaxScreens
  BY DEF ChatInv, ChatTyped, LoadRecords, LoadOK
<1>9. \A x \in fetching' : x \in fetching \/ (x = load /\ c # New)
  BY <1>3
<1> HIDE DEF load
<1>10. ChatTyped'
  BY <1>3, <1>5, <1>6, <1>7, <1>9 DEF ChatInv, ChatTyped
<1>11. \A t \in PhoneTurns : RunOK(t)'
  BY <1>3 DEF ChatInv, RunOK
<1>12. \A u \in sending' : SendOK(u)'
  <2> SUFFICES ASSUME NEW u \in sending' PROVE SendOK(u)'
    OBVIOUS
  <2>1. PICK s \in sending :
          /\ u \in SendRecords /\ u.aborted /\ u.turn = s.turn /\ u.mount = s.mount
          /\ u.chat = s.chat /\ u.step = s.step /\ u.messages = s.messages
    BY <1>6
  <2>2. SendOK(s) /\ s.mount \in 1 .. MaxScreens
    BY DEF ChatInv, ChatTyped, SendRecords
  <2>3. u.mount < screen'.mount /\ screen'.mount = next
    BY <1>1, <1>2, <2>1, <2>2 DEF SendOK
  <2>4. u.mount <= screen'.mount /\ u.mount # screen'.mount
    BY <1>1, <2>1, <2>2, <2>3
  <2> QED
    BY <1>3, <2>1, <2>2, <2>4 DEF SendOK
<1>13. OneSend'
  <2>1. \A s \in sending : s.mount \in 1 .. MaxScreens /\ s.mount <= screen.mount
    BY DEF ChatInv, ChatTyped, SendRecords, SendOK
  <2>2. \A u \in sending' : u.mount # screen'.mount
    BY <1>1, <1>2, <1>6, <2>1
  <2>3. ASSUME NEW u \in sending', NEW v \in sending', u.turn = v.turn PROVE u = v
    <3>1. PICK s \in sending : u.turn = s.turn /\ u = [s EXCEPT !.aborted = TRUE]
      BY <1>6
    <3>2. PICK w \in sending : v.turn = w.turn /\ v = [w EXCEPT !.aborted = TRUE]
      BY <1>6
    <3>3. s = w
      BY <2>3, <3>1, <3>2 DEF ChatInv, OneSend
    <3> QED
      BY <3>1, <3>2, <3>3
  <2> QED
    BY <2>2, <2>3 DEF OneSend
<1>14. \A x \in fetching' : LoadOK(x)'
  <2>1. \A x \in fetching : x.mount < next /\ x.mount # next
    BY <1>1, <1>8
  <2>2. screen'.mount = next /\ screen'.active = c /\ (screen'.loading <=> c # New)
    BY <1>2
  <2>3. next <= next
    BY <1>1
  <2>4. ASSUME NEW x \in fetching PROVE LoadOK(x)'
    BY <1>1, <1>8, <2>1, <2>2 DEF ChatInv, LoadOK
  <2>5. ASSUME NEW x \in fetching', x = load, c # New PROVE LoadOK(x)'
    BY <1>7, <2>2, <2>3, <2>5 DEF LoadOK
  <2> QED
    BY <1>9, <2>4, <2>5
<1>15. OneLoad'
  <2>1. \A x \in fetching : x.mount # next
    BY <1>1, <1>8
  <2> QED
    BY <1>2, <1>9, <2>1 DEF OneLoad
<1>16. ScreenOK' /\ StoppedOnes'
  BY <1>2, <1>3, <1>4 DEF ScreenOK, Saves, ChatInv, StoppedOnes
<1> QED
  BY <1>10, <1>11, <1>12, <1>13, <1>14, <1>15, <1>16 DEF ChatInv

\* A load ends, and the screen of its chat loads no more.
LEMMA LoadEnds ==
    ASSUME ChatInv, NEW x \in fetching, LoadAnswered(x) \/ LoadFails(x)
    PROVE  ChatInv'
<1>1. fetching' = fetching \ {x} /\ UNCHANGED <<held, runs, sending, cancels, stopped>>
  BY DEF LoadAnswered, LoadFails
<1>2. LoadOK(x) /\ x \in LoadRecords /\ screen \in ScreenRecords
  BY DEF ChatInv, ChatTyped
<1>3. CASE x.mount # screen.mount
  <2>1. screen' = screen
    BY <1>3 DEF LoadAnswered, LoadFails
  <2> QED
    BY <1>1, <2>1 DEF ChatInv, ChatTyped, RunOK, SendOK, OneSend, LoadOK, OneLoad, ScreenOK, StoppedOnes
<1>4. CASE x.mount = screen.mount
  <2>1. \/ screen' = [screen EXCEPT !.messages = x.messages, !.loading = FALSE] /\ x.read
        \/ screen' = [screen EXCEPT !.loading = FALSE]
    BY <1>4 DEF LoadAnswered, LoadFails
  <2>2. /\ screen' \in ScreenRecords /\ ~screen'.loading
        /\ screen'.mount = screen.mount /\ screen'.active = screen.active
        /\ screen'.sending = screen.sending /\ screen'.run = screen.run
        /\ screen'.last = screen.last /\ screen'.crossed = screen.crossed
        /\ screen'.messages = screen.messages \/ (screen'.messages = x.messages /\ x.read)
    BY <1>2, <2>1 DEF ScreenRecords, LoadRecords
  <2>3. \A y \in fetching' : y \in fetching /\ y.mount # screen.mount
    BY <1>1, <1>4 DEF ChatInv, OneLoad
  <2>4. ~(screen.last # 0 /\ ~screen.crossed)
    BY <1>2, <1>4 DEF ChatInv, ScreenOK, LoadOK
  <2>5. Saves(held, screen'.messages, screen.active)
    BY <1>2, <1>4, <2>2 DEF ChatInv, ScreenOK, LoadOK
  <2>6. ScreenOK'
    BY <1>1, <2>2, <2>4, <2>5 DEF ChatInv, ScreenOK
  <2>7. \A s \in sending' : SendOK(s)'
    BY <1>1, <2>2 DEF ChatInv, SendOK
  <2>8. ChatTyped' /\ \A t \in PhoneTurns : RunOK(t)'
    BY <1>1, <2>2 DEF ChatInv, ChatTyped, RunOK
  <2>9. OneSend' /\ StoppedOnes'
    BY <1>1, <2>2 DEF ChatInv, OneSend, StoppedOnes
  <2>10. (\A y \in fetching' : LoadOK(y)') /\ OneLoad'
    BY <1>1, <2>2, <2>3 DEF ChatInv, LoadOK, OneLoad
  <2> QED
    BY <2>6, <2>7, <2>8, <2>9, <2>10 DEF ChatInv
<1> QED
  BY <1>3, <1>4

LEMMA LoadReads ==
    ASSUME ChatInv, NEW x \in fetching, LoadRead(x)
    PROVE  ChatInv'
<1> DEFINE y == [x EXCEPT !.read = TRUE, !.messages = SavedOf(x.chat)]
<1>1. fetching' = (fetching \ {x}) \cup {y} /\ UNCHANGED <<held, runs, screen, sending, cancels, stopped>>
  BY DEF LoadRead
<1>2. LoadOK(x) /\ x \in LoadRecords /\ ChatTyped
  BY DEF ChatInv, ChatTyped
<1>3. x.chat \in PhoneChats
  BY <1>2 DEF LoadRecords
<1>4. SavedOf(x.chat) \subseteq Messages /\ Saves(held, SavedOf(x.chat), x.chat)
  BY <1>2, <1>3, SavedIs
<1>5. y \in LoadRecords /\ y.mount = x.mount /\ y.chat = x.chat /\ y.messages = SavedOf(x.chat)
  BY <1>2, <1>4 DEF LoadRecords
<1> HIDE DEF y
<1>6. \A z \in fetching' : LoadOK(z)'
  BY <1>1, <1>2, <1>4, <1>5 DEF ChatInv, LoadOK
<1>7. OneLoad'
  BY <1>1, <1>5 DEF ChatInv, OneLoad
<1> QED
  BY <1>1, <1>5, <1>6, <1>7 DEF ChatInv, ChatTyped, RunOK, SendOK, OneSend, ScreenOK, StoppedOnes
\* A message is sent from the screen, that sends no other.
LEMMA MessageSent ==
    ASSUME ChatInv, NEW t \in PhoneTurns, Send(t)
    PROVE  ChatInv'
<1> DEFINE none == 0
           x == [turn |-> t, chat |-> screen.active, mount |-> screen.mount,
                 step |-> IF screen.active = New THEN "creating" ELSE "asking",
                 aborted |-> FALSE, messages |-> {}]
<1>0. none \in TurnOrNone
  BY MobileConstants DEF TurnOrNone
<1>1. /\ ~screen.sending /\ runs[t].state = "none"
      /\ sending' = sending \cup {x}
      /\ runs' = [runs EXCEPT ![t].state = "unsent"]
      /\ UNCHANGED <<held, fetching, cancels, stopped>>
  BY DEF Send
<1>2. screen' = [screen EXCEPT !.sending = TRUE, !.last = none, !.crossed = @ \/ screen.loading,
                               !.messages = @ \cup {Optimistic(t), Placeholder(t)}]
  BY DEF Send
<1>3. /\ Optimistic(t) \in Messages /\ Placeholder(t) \in Messages
      /\ Optimistic(t).of \notin SavedKinds /\ Placeholder(t).of \notin SavedKinds
  BY DEF Messages, Optimistic, Placeholder, SavedKinds
<1>4. screen \in ScreenRecords
  BY DEF ChatInv, ChatTyped
<1>5. screen'.last = 0
  BY <1>2, <1>4 DEF ScreenRecords
<1> HIDE DEF none
<1>6. /\ screen'.mount = screen.mount /\ screen'.active = screen.active
      /\ screen'.loading = screen.loading /\ screen'.sending
      /\ screen'.messages = screen.messages \cup {Optimistic(t), Placeholder(t)}
      /\ ~screen'.crossed => ~screen.loading
  BY <1>2, <1>4 DEF ScreenRecords
<1>7. (screen.crossed \/ screen.loading) \in BOOLEAN
  BY <1>4 DEF ScreenRecords
<1>8. screen' \in ScreenRecords
  BY <1>0, <1>2, <1>3, <1>4, <1>7 DEF ScreenRecords
<1>9. /\ runs' \in [PhoneTurns -> [state : RunStates, chat : ChatOrNew]]
      /\ \A u \in PhoneTurns : u # t => runs'[u] = runs[u]
      /\ runs'[t].state = "unsent"
  BY <1>1 DEF ChatInv, ChatTyped, RunStates
<1>10. /\ x \in SendRecords /\ x.turn = t /\ x.chat = screen.active /\ x.mount = screen.mount
       /\ x.step = IF screen.active = New THEN "creating" ELSE "asking"
  BY <1>4 DEF SendRecords, ScreenRecords, SendSteps
<1>11. \A s \in sending : s.turn \in PhoneTurns /\ s.turn # t /\ s.mount # screen.mount
  BY <1>1 DEF ChatInv, ChatTyped, SendRecords, SendSteps, SendOK
<1> HIDE DEF x
<1>12. ChatTyped'
  BY <1>1, <1>8, <1>9, <1>10 DEF ChatInv, ChatTyped
<1>13. \A u \in PhoneTurns : RunOK(u)'
  BY <1>1, <1>9 DEF ChatInv, RunOK
<1>14. \A s \in sending' : SendOK(s)'
  <2>1. ASSUME NEW s \in sending PROVE SendOK(s)'
    BY <1>1, <1>6, <1>9, <1>11 DEF ChatInv, SendOK
  <2>2. ASSUME NEW s \in sending', s = x PROVE SendOK(s)'
    <3>1. /\ s.step \in {"creating", "asking"} /\ s.mount = screen'.mount /\ s.turn = t
          /\ s.step = "asking" => s.chat \in PhoneChats
          /\ screen'.active = IF s.step = "creating" THEN New ELSE s.chat
      BY <1>4, <1>6, <1>10, <2>2 DEF ScreenRecords, ChatOrNew
    <3>2. screen'.mount <= screen'.mount
      BY <1>8 DEF ScreenRecords
    <3> QED
      BY <1>5, <1>6, <1>9, <3>1, <3>2 DEF SendOK
  <2> QED
    BY <1>1, <2>1, <2>2
<1>15. OneSend'
  BY <1>1, <1>6, <1>10, <1>11 DEF ChatInv, OneSend
<1>16. (\A y \in fetching' : LoadOK(y)') /\ OneLoad'
  BY <1>1, <1>6 DEF ChatInv, LoadOK, OneLoad
<1>17. ScreenOK'
  BY <1>1, <1>3, <1>5, <1>6 DEF ChatInv, ScreenOK, Saves
<1>18. StoppedOnes'
  BY <1>1, <1>9 DEF ChatInv, ChatTyped, StoppedOnes
<1> QED
  BY <1>12, <1>13, <1>14, <1>15, <1>16, <1>17, <1>18 DEF ChatInv

\* A chat begins or goes: what is known of its turns stays.
LEMMA StateOnly ==
    ASSUME ChatTyped, NEW c \in PhoneChats, NEW state \in {"kept", "deleted"},
           held' = [held EXCEPT ![c].state = state]
    PROVE  /\ held' \in [PhoneChats -> [state : {"none", "kept", "deleted"}, turns : Seq(PhoneTurns)]]
           /\ \A d \in PhoneChats : TurnsIn(held', d) = TurnsIn(held, d)
           /\ \A d \in PhoneChats : held'[d].state = IF d = c THEN state ELSE held[d].state
<1>1. \A d \in PhoneChats : held'[d].turns = held[d].turns
  BY DEF ChatTyped
<1> QED
  BY <1>1 DEF ChatTyped, TurnsIn

\* The chats only get more turns, and nothing else changes.
LEMMA HeldGrows ==
    ASSUME ChatInv, \A c \in PhoneChats : TurnsIn(held, c) \subseteq TurnsIn(held', c),
           UNCHANGED <<screen, fetching>>
    PROVE  ScreenOK' /\ (\A x \in fetching' : LoadOK(x)') /\ OneLoad'
<1>1. ASSUME NEW messages, NEW c, Saves(held, messages, c) PROVE Saves(held', messages, c)
  BY <1>1 DEF Saves
<1>2. ScreenOK'
  BY <1>1 DEF ChatInv, ScreenOK
<1>3. \A x \in fetching' : LoadOK(x)'
  BY <1>1 DEF ChatInv, LoadOK
<1> QED
  BY <1>2, <1>3 DEF ChatInv, OneLoad

LEMMA ChatMade ==
    ASSUME ChatInv, NEW s \in sending, NEW c \in PhoneChats, ChatCreated(s, c)
    PROVE  ChatInv'
<1> DEFINE x == [s EXCEPT !.step = "created", !.chat = c]
<1>1. /\ s.step = "creating" /\ held' = [held EXCEPT ![c].state = "kept"]
      /\ sending' = (sending \ {s}) \cup {x}
      /\ UNCHANGED <<runs, screen, fetching, cancels, stopped>>
  BY DEF ChatCreated, Replaced
<1>2. s \in SendRecords /\ SendOK(s) /\ ChatTyped
  BY DEF ChatInv, ChatTyped
<1>3. /\ x \in SendRecords /\ x.turn = s.turn /\ x.mount = s.mount /\ x.step = "created"
      /\ x.chat = c /\ x.aborted = s.aborted
  BY <1>2 DEF SendRecords, SendSteps, ChatOrNew
<1> HIDE DEF x
<1>4. /\ held' \in [PhoneChats -> [state : {"none", "kept", "deleted"}, turns : Seq(PhoneTurns)]]
      /\ \A d \in PhoneChats : TurnsIn(held', d) = TurnsIn(held, d)
  BY <1>1, <1>2, StateOnly
<1>5. /\ sending' \subseteq SendRecords /\ OneSend'
      /\ \A u \in sending' : u # x => u \in sending
  BY <1>1, <1>3, SendStep
<1>6. ScreenOK' /\ (\A y \in fetching' : LoadOK(y)') /\ OneLoad'
  BY <1>1, <1>4, HeldGrows
<1>7. \A u \in sending' : SendOK(u)'
  <2>1. ASSUME NEW u \in sending PROVE SendOK(u)'
    <3>1. ASSUME NEW messages, NEW d, Saves(held, messages, d) PROVE Saves(held', messages, d)
      BY <1>4, <3>1 DEF Saves
    <3> QED
      BY <1>1, <3>1 DEF ChatInv, SendOK
  <2>2. ASSUME NEW u \in sending', u = x PROVE SendOK(u)'
    BY <1>1, <1>2, <1>3, <2>2 DEF SendOK
  <2> QED
    BY <1>5, <2>1, <2>2
<1>8. \A t \in PhoneTurns : RunOK(t)'
  BY <1>1, <1>4 DEF ChatInv, RunOK
<1> QED
  BY <1>1, <1>4, <1>5, <1>6, <1>7, <1>8 DEF ChatInv, ChatTyped, StoppedOnes
LEMMA CreationAnswered ==
    ASSUME ChatInv, NEW s \in sending, CreateAnswered(s)
    PROVE  ChatInv'
<1> DEFINE x == [s EXCEPT !.step = "asking"]
<1>1. /\ s.step = "created" /\ ~s.aborted
      /\ sending' = (sending \ {s}) \cup {x}
      /\ screen' = [screen EXCEPT !.active = s.chat]
      /\ UNCHANGED <<held, runs, fetching, cancels, stopped>>
  BY DEF CreateAnswered, Replaced
<1>2. s \in SendRecords /\ SendOK(s) /\ screen \in ScreenRecords
  BY DEF ChatInv, ChatTyped
<1>3. /\ x \in SendRecords /\ x.turn = s.turn /\ x.mount = s.mount /\ x.step = "asking"
      /\ x.chat = s.chat /\ ~x.aborted
  BY <1>1, <1>2 DEF SendRecords, SendSteps
<1> HIDE DEF x
<1>4. /\ s.chat \in PhoneChats /\ s.mount = screen.mount /\ screen.active = New
      /\ screen.sending /\ screen.last = 0 /\ runs[s.turn].state = "unsent"
  BY <1>1, <1>2 DEF SendOK
<1>5. /\ screen' \in ScreenRecords /\ screen'.active = s.chat
      /\ screen'.mount = screen.mount /\ screen'.messages = screen.messages
      /\ screen'.loading = screen.loading /\ screen'.sending = screen.sending
      /\ screen'.run = screen.run /\ screen'.last = screen.last /\ screen'.crossed = screen.crossed
  BY <1>1, <1>2, <1>4 DEF ScreenRecords, ChatOrNew
<1>6. /\ sending' \subseteq SendRecords /\ OneSend'
      /\ \A u \in sending' : u # x => u \in sending /\ u.mount # screen.mount
  BY <1>1, <1>3, <1>4, <1>5, SendStep
<1>7. \A u \in sending' : SendOK(u)'
  <2>1. ASSUME NEW u \in sending, u.mount # screen.mount PROVE SendOK(u)'
    BY <1>1, <1>5, <2>1 DEF ChatInv, SendOK
  <2>2. ASSUME NEW u \in sending', u = x PROVE SendOK(u)'
    BY <1>1, <1>2, <1>3, <1>4, <1>5, <2>2 DEF SendOK
  <2> QED
    BY <1>6, <2>1, <2>2
<1>8. \A y \in fetching : y.mount # screen.mount
  BY <1>4, MobileConstants DEF ChatInv, ChatTyped, LoadRecords, LoadOK
<1>9. (\A y \in fetching' : LoadOK(y)') /\ OneLoad'
  BY <1>1, <1>5, <1>8 DEF ChatInv, LoadOK, OneLoad
<1>10. \A m \in screen.messages : m.of \notin SavedKinds
  BY <1>4, MobileConstants DEF ChatInv, ScreenOK, Saves
<1>11. ScreenOK'
  BY <1>1, <1>4, <1>5, <1>10 DEF ChatInv, ScreenOK, Saves
<1>12. ChatTyped' /\ (\A t \in PhoneTurns : RunOK(t)') /\ StoppedOnes'
  BY <1>1, <1>5, <1>6 DEF ChatInv, ChatTyped, RunOK, StoppedOnes
<1> QED
  BY <1>6, <1>7, <1>9, <1>11, <1>12 DEF ChatInv

LEMMA StreamAsked ==
    ASSUME ChatInv, NEW s \in sending, StreamRequested(s)
    PROVE  ChatInv'
<1> DEFINE x == [s EXCEPT !.step = "requested"]
<1>1. /\ s.step = "asking" /\ ~s.aborted
      /\ sending' = (sending \ {s}) \cup {x}
      /\ screen' = [screen EXCEPT !.run = s.turn]
      /\ runs' = [runs EXCEPT ![s.turn] = [state |-> "requested", chat |-> s.chat]]
      /\ UNCHANGED <<held, fetching, cancels, stopped>>
  BY DEF StreamRequested, Requested, Replaced
<1>2. s \in SendRecords /\ SendOK(s) /\ screen \in ScreenRecords
  BY DEF ChatInv, ChatTyped
<1>3. /\ x \in SendRecords /\ x.turn = s.turn /\ x.mount = s.mount /\ x.step = "requested"
      /\ x.chat = s.chat /\ ~x.aborted
  BY <1>1, <1>2 DEF SendRecords, SendSteps
<1> HIDE DEF x
<1>4. /\ s.chat \in PhoneChats /\ s.mount = screen.mount /\ screen.active = s.chat
      /\ screen.sending /\ screen.last = 0 /\ runs[s.turn].state = "unsent"
      /\ s.turn \in PhoneTurns /\ s.turn \in TurnOrNone
  BY <1>1, <1>2, MobileConstants DEF SendOK, SendRecords, PhoneTurns, TurnOrNone
<1>5. /\ screen' \in ScreenRecords /\ screen'.active = screen.active
      /\ screen'.mount = screen.mount /\ screen'.messages = screen.messages
      /\ screen'.loading = screen.loading /\ screen'.sending = screen.sending
      /\ screen'.run = s.turn /\ screen'.last = screen.last /\ screen'.crossed = screen.crossed
  BY <1>1, <1>2, <1>4 DEF ScreenRecords
<1>6. /\ runs' \in [PhoneTurns -> [state : RunStates, chat : ChatOrNew]]
      /\ \A t \in PhoneTurns : t # s.turn => runs'[t] = runs[t]
      /\ runs'[s.turn].state = "requested" /\ runs'[s.turn].chat = s.chat
  BY <1>1, <1>4 DEF ChatInv, ChatTyped, RunStates, ChatOrNew
<1>7. /\ sending' \subseteq SendRecords /\ OneSend'
      /\ \A u \in sending' : u # x => u \in sending /\ u.mount # screen.mount /\ u.turn # s.turn
  BY <1>1, <1>3, <1>4, <1>5, SendStep
<1>8. \A u \in sending' : SendOK(u)'
  <2>1. ASSUME NEW u \in sending, u.mount # screen.mount, u.turn # s.turn PROVE SendOK(u)'
    <3>1. u.turn \in PhoneTurns /\ SendOK(u)
      BY DEF ChatInv, ChatTyped, SendRecords
    <3> QED
      BY <1>1, <1>5, <1>6, <2>1, <3>1 DEF SendOK
  <2>2. ASSUME NEW u \in sending', u = x PROVE SendOK(u)'
    BY <1>1, <1>2, <1>3, <1>4, <1>5, <1>6, <2>2 DEF SendOK
  <2> QED
    BY <1>7, <2>1, <2>2
<1>9. (\A y \in fetching' : LoadOK(y)') /\ OneLoad'
  BY <1>1, <1>5 DEF ChatInv, LoadOK, OneLoad
<1>10. ScreenOK'
  BY <1>1, <1>4, <1>5 DEF ChatInv, ScreenOK
<1>11. \A t \in PhoneTurns : RunOK(t)'
  BY <1>1, <1>4, <1>6 DEF ChatInv, RunOK
<1>12. StoppedOnes'
  BY <1>1, <1>4, <1>6 DEF ChatInv, ChatTyped, StoppedOnes
<1>13. ChatTyped'
  BY <1>1, <1>5, <1>6, <1>7 DEF ChatInv, ChatTyped
<1> QED
  BY <1>7, <1>8, <1>9, <1>10, <1>11, <1>12, <1>13 DEF ChatInv

LEMMA RunBegins ==
    ASSUME ChatInv, NEW t \in PhoneTurns, RunStarts(t)
    PROVE  ChatInv'
<1> DEFINE c == runs[t].chat
           longer == Append(held[c].turns, t)
<1>1. /\ runs[t].state = "requested"
      /\ runs' = [runs EXCEPT ![t].state = "running"]
      /\ held' = [held EXCEPT ![c].turns = longer]
      /\ UNCHANGED <<screen, fetching, sending, cancels, stopped>>
  BY DEF RunStarts
<1>2. c \in PhoneChats
  BY <1>1 DEF ChatInv, RunOK
<1>3. held \in [PhoneChats -> [state : {"none", "kept", "deleted"}, turns : Seq(PhoneTurns)]]
  BY DEF ChatInv, ChatTyped
<1>4. /\ longer \in Seq(PhoneTurns)
      /\ \A i \in DOMAIN held[c].turns : i \in DOMAIN longer /\ longer[i] = held[c].turns[i]
      /\ \E i \in DOMAIN longer : longer[i] = t
  <2>1. held[c].turns \in Seq(PhoneTurns)
    BY <1>2, <1>3
  <2>2. ASSUME NEW turns \in Seq(PhoneTurns)
        PROVE  /\ Append(turns, t) \in Seq(PhoneTurns)
               /\ \A i \in DOMAIN turns : i \in DOMAIN Append(turns, t) /\ Append(turns, t)[i] = turns[i]
               /\ \E i \in DOMAIN Append(turns, t) : Append(turns, t)[i] = t
    <3>1. /\ Append(turns, t) \in Seq(PhoneTurns) /\ Len(Append(turns, t)) = Len(turns) + 1
          /\ \A i \in 1 .. Len(turns) : Append(turns, t)[i] = turns[i]
          /\ Append(turns, t)[Len(turns) + 1] = t
      BY AppendProperties
    <3>2. /\ DOMAIN turns = 1 .. Len(turns) /\ Len(turns) \in Nat
          /\ DOMAIN Append(turns, t) = 1 .. (Len(turns) + 1)
      BY <3>1
    <3> QED
      BY <3>1, <3>2
  <2> QED
    BY <2>1, <2>2
<1>5. /\ runs' \in [PhoneTurns -> [state : RunStates, chat : ChatOrNew]]
      /\ \A u \in PhoneTurns : runs'[u].chat = runs[u].chat
      /\ \A u \in PhoneTurns : runs'[u].state = IF u = t THEN "running" ELSE runs[u].state
  BY <1>1 DEF ChatInv, ChatTyped, RunStates
<1> HIDE DEF c, longer
<1>6. /\ held' \in [PhoneChats -> [state : {"none", "kept", "deleted"}, turns : Seq(PhoneTurns)]]
      /\ \A d \in PhoneChats : held'[d].turns = IF d = c THEN longer ELSE held[d].turns
  BY <1>1, <1>2, <1>3, <1>4
<1>7. \A d \in PhoneChats : TurnsIn(held, d) \subseteq TurnsIn(held', d)
  BY <1>4, <1>6 DEF TurnsIn
<1>8. t \in TurnsIn(held', c)
  BY <1>2, <1>4, <1>6 DEF TurnsIn
<1>9. ScreenOK' /\ (\A y \in fetching' : LoadOK(y)') /\ OneLoad'
  BY <1>1, <1>7, HeldGrows
<1>10. \A u \in sending' : SendOK(u)'
  <2> SUFFICES ASSUME NEW u \in sending PROVE SendOK(u)'
    BY <1>1
  <2>1. ASSUME NEW messages, NEW d, Saves(held, messages, d) PROVE Saves(held', messages, d)
    BY <1>7, <2>1 DEF Saves
  <2>2. SendOK(u) /\ u.turn \in PhoneTurns
    BY DEF ChatInv, ChatTyped, SendRecords
  <2>3. /\ runs'[u.turn].chat = runs[u.turn].chat
        /\ runs[u.turn].state \in {"unsent", "completed"} => runs'[u.turn].state = runs[u.turn].state
        /\ runs[u.turn].state \notin {"none", "unsent"} => runs'[u.turn].state \notin {"none", "unsent"}
    BY <1>1, <1>5, <2>2
  <2>4. Saves(held, u.messages, u.chat) => Saves(held', u.messages, u.chat)
    BY <2>1
  <2>5. UNCHANGED screen
    BY <1>1
  <2> QED
    BY <2>2, <2>3, <2>4, <2>5 DEF SendOK
<1>11. \A u \in PhoneTurns : RunOK(u)'
  <2> SUFFICES ASSUME NEW u \in PhoneTurns PROVE RunOK(u)'
    OBVIOUS
  <2>1. RunOK(u)
    BY DEF ChatInv
  <2>2. CASE u = t
    BY <1>2, <1>5, <1>8, <2>2 DEF RunOK, c
  <2>3. CASE u # t
    BY <1>5, <1>7, <2>1, <2>3 DEF RunOK
  <2> QED
    BY <2>2, <2>3
<1>12. StoppedOnes'
  BY <1>1, <1>5 DEF ChatInv, ChatTyped, StoppedOnes
<1> QED
  BY <1>1, <1>5, <1>6, <1>9, <1>10, <1>11, <1>12 DEF ChatInv, ChatTyped, OneSend
\* The stream ended well, and what was saved is read.
LEMMA StreamRead ==
    ASSUME ChatInv, NEW s \in sending, StreamEnds(s) \/ Reread(s)
    PROVE  ChatInv'
<1>1. s \in SendRecords /\ SendOK(s) /\ ChatTyped /\ UNCHANGED <<held, runs, screen, fetching, cancels, stopped>>
  BY DEF ChatInv, ChatTyped, StreamEnds, Reread
<1>2. CASE StreamEnds(s)
  <2> DEFINE x == [s EXCEPT !.step = "reading"]
  <2>1. sending' = (sending \ {s}) \cup {x} /\ s.step = "requested" /\ runs[s.turn].state = "completed"
    BY <1>2 DEF StreamEnds, Replaced
  <2>2. /\ x \in SendRecords /\ x.turn = s.turn /\ x.mount = s.mount /\ x.step = "reading"
        /\ x.chat = s.chat /\ x.aborted = s.aborted
    BY <1>1 DEF SendRecords, SendSteps
  <2> HIDE DEF x
  <2>3. SendOK(x)
    BY <1>1, <2>1, <2>2 DEF SendOK
  <2> QED
    BY <1>1, <2>1, <2>2, <2>3, SendOnly
<1>3. CASE Reread(s)
  <2> DEFINE x == [s EXCEPT !.step = "read", !.messages = SavedOf(s.chat)]
  <2>1. sending' = (sending \ {s}) \cup {x} /\ s.step = "reading"
    BY <1>3 DEF Reread, Replaced
  <2>2. s.chat \in PhoneChats /\ runs[s.turn].state = "completed" /\ runs[s.turn].chat = s.chat
    BY <1>1, <2>1 DEF SendOK
  <2>3. s.turn \in TurnsIn(held, s.chat)
    BY <1>1, <2>2 DEF ChatInv, RunOK, SendRecords
  <2>4. /\ SavedOf(s.chat) \subseteq Messages /\ Saves(held, SavedOf(s.chat), s.chat)
        /\ AllSaved(SavedOf(s.chat), s.turn)
    BY <1>1, <2>2, <2>3, SavedIs DEF AllSaved
  <2>5. /\ x \in SendRecords /\ x.turn = s.turn /\ x.mount = s.mount /\ x.step = "read"
        /\ x.chat = s.chat /\ x.aborted = s.aborted /\ x.messages = SavedOf(s.chat)
    BY <1>1, <2>4 DEF SendRecords, SendSteps
  <2> HIDE DEF x
  <2>6. SendOK(x)
    BY <1>1, <2>1, <2>2, <2>4, <2>5 DEF SendOK
  <2> QED
    BY <1>1, <2>1, <2>5, <2>6, SendOnly
<1> QED
  BY <1>2, <1>3

\* A send is over; the runs and the screen are what the step leaves of them.
LEMMA SendOver ==
    ASSUME ChatInv, NEW s \in sending, sending' = sending \ {s},
           UNCHANGED <<held, fetching, cancels, stopped>>,
           screen' \in ScreenRecords,
           runs' \in [PhoneTurns -> [state : RunStates, chat : ChatOrNew]],
           \A t \in PhoneTurns : t # s.turn => runs'[t] = runs[t],
           runs'[s.turn] = runs[s.turn]
              \/ (runs[s.turn].state = "unsent" /\ runs'[s.turn].state = "never"),
           screen' = screen \/ s.mount = screen.mount,
           screen'.mount = screen.mount, screen'.active = screen.active,
           screen'.loading = screen.loading, ScreenOK'
    PROVE  ChatInv'
<1>1. \A t \in PhoneTurns : RunOK(t)'
  BY DEF ChatInv, RunOK
<1>2. \A u \in sending' : SendOK(u)'
  <2> SUFFICES ASSUME NEW u \in sending' PROVE SendOK(u)'
    OBVIOUS
  <2>1. u \in sending /\ u.turn # s.turn /\ (s.mount = screen.mount => u.mount # screen.mount)
    BY DEF ChatInv, OneSend
  <2>2. SendOK(u) /\ u.turn \in PhoneTurns /\ runs'[u.turn] = runs[u.turn]
    BY <2>1 DEF ChatInv, ChatTyped, SendRecords
  <2>3. CASE screen' = screen
    BY <2>2, <2>3 DEF SendOK
  <2>4. CASE s.mount = screen.mount
    BY <2>1, <2>2, <2>4 DEF SendOK
  <2> QED
    BY <2>3, <2>4
<1>3. OneSend' /\ (\A y \in fetching' : LoadOK(y)') /\ OneLoad'
  BY DEF ChatInv, OneSend, LoadOK, OneLoad
<1>4. StoppedOnes'
  BY DEF ChatInv, ChatTyped, StoppedOnes
<1>5. ChatTyped'
  BY DEF ChatInv, ChatTyped
<1> QED
  BY <1>1, <1>2, <1>3, <1>4, <1>5 DEF ChatInv

LEMMA SendRead ==
    ASSUME ChatInv, NEW s \in sending, RereadAnswered(s)
    PROVE  ChatInv'
<1> DEFINE none == 0
<1>0. none \in TurnOrNone
  BY MobileConstants DEF TurnOrNone
<1>1. s.step = "read" /\ sending' = sending \ {s} /\ UNCHANGED <<held, runs, fetching, cancels, stopped>>
  BY DEF RereadAnswered
<1>2. s \in SendRecords /\ SendOK(s) /\ screen \in ScreenRecords /\ ScreenOK /\ ChatTyped
  BY DEF ChatInv, ChatTyped
<1>3. CASE s.mount # screen.mount
  <2>1. screen' = screen
    BY <1>3 DEF RereadAnswered
  <2>2. ScreenOK'
    BY <1>1, <1>2, <2>1 DEF ScreenOK
  <2> QED
    BY <1>1, <1>2, <2>1, <2>2, SendOver DEF ChatTyped
<1>4. CASE s.mount = screen.mount
  <2>1. screen' = [screen EXCEPT !.messages = s.messages, !.sending = FALSE, !.run = none, !.last = s.turn]
    BY <1>4 DEF RereadAnswered
  <2> HIDE DEF none
  <2>2. s.turn \in TurnOrNone
    BY <1>2 DEF SendRecords, PhoneTurns, TurnOrNone
  <2>3. /\ screen' \in ScreenRecords /\ screen'.mount = screen.mount /\ screen'.active = screen.active
        /\ screen'.loading = screen.loading /\ screen'.crossed = screen.crossed
        /\ screen'.messages = s.messages /\ ~screen'.sending /\ screen'.last = s.turn
    BY <1>0, <1>2, <2>1, <2>2 DEF ScreenRecords, SendRecords
  <2>4. /\ Saves(held, s.messages, s.chat) /\ AllSaved(s.messages, s.turn)
        /\ screen.active = s.chat /\ screen.sending
    BY <1>1, <1>2, <1>4 DEF SendOK
  <2>5. ScreenOK'
    BY <1>1, <1>2, <2>3, <2>4 DEF ScreenOK
  <2> QED
    BY <1>1, <1>2, <1>4, <2>3, <2>5, SendOver DEF ChatTyped
<1> QED
  BY <1>3, <1>4

LEMMA SendGivesUp ==
    ASSUME ChatInv, NEW s \in sending, SendFails(s)
    PROVE  ChatInv'
<1> DEFINE none == 0
<1>0. none \in TurnOrNone
  BY MobileConstants DEF TurnOrNone
<1>1. sending' = sending \ {s} /\ UNCHANGED <<held, fetching, cancels, stopped>>
  BY DEF SendFails
<1>2. s \in SendRecords /\ SendOK(s) /\ screen \in ScreenRecords /\ ScreenOK /\ ChatTyped /\ s.turn \in PhoneTurns
  BY DEF ChatInv, ChatTyped, SendRecords
<1>3. /\ runs' \in [PhoneTurns -> [state : RunStates, chat : ChatOrNew]]
      /\ \A t \in PhoneTurns : t # s.turn => runs'[t] = runs[t]
      /\ runs'[s.turn] = runs[s.turn]
            \/ (runs[s.turn].state = "unsent" /\ runs'[s.turn].state = "never")
  <2>1. \/ runs' = [runs EXCEPT ![s.turn].state = "never"] /\ runs[s.turn].state = "unsent"
        \/ runs' = runs
    BY DEF SendFails
  <2> QED
    BY <1>2, <2>1 DEF ChatTyped, RunStates
<1>4. CASE s.mount # screen.mount
  <2>1. screen' = screen
    BY <1>4 DEF SendFails
  <2>2. ScreenOK'
    BY <1>1, <1>2, <2>1 DEF ScreenOK
  <2> QED
    BY <1>1, <1>2, <1>3, <2>1, <2>2, SendOver
<1>5. CASE s.mount = screen.mount
  <2>1. PICK worded \in BOOLEAN :
          screen' = [screen EXCEPT !.sending = FALSE, !.run = none,
                       !.messages = IF s.aborted \/ worded THEN @ ELSE @ \ {Placeholder(s.turn)}]
    BY <1>5 DEF SendFails
  <2> DEFINE left == IF s.aborted \/ worded THEN screen.messages
                     ELSE screen.messages \ {Placeholder(s.turn)}
  <2>2. screen' = [screen EXCEPT !.sending = FALSE, !.run = none, !.messages = left]
    BY <1>2, <2>1 DEF ScreenRecords
  <2>3. left \subseteq screen.messages
    OBVIOUS
  <2> HIDE DEF none, left
  <2>4. /\ screen' \in ScreenRecords /\ screen'.mount = screen.mount /\ screen'.active = screen.active
        /\ screen'.loading = screen.loading /\ screen'.crossed = screen.crossed
        /\ screen'.messages = left /\ ~screen'.sending /\ screen'.last = screen.last
    BY <1>0, <1>2, <2>2, <2>3 DEF ScreenRecords
  <2>5. screen.last = 0
    BY <1>2, <1>5 DEF SendOK
  <2>6. ScreenOK'
    BY <1>1, <1>2, <2>3, <2>4, <2>5 DEF ScreenOK, Saves
  <2> QED
    BY <1>1, <1>2, <1>3, <1>5, <2>4, <2>6, SendOver
<1> QED
  BY <1>4, <1>5
LEMMA SendStopped ==
    ASSUME ChatInv, StopSend
    PROVE  ChatInv'
<1> DEFINE Halted(s) == IF s.mount = screen.mount
                      THEN [s EXCEPT !.aborted = s.step \notin {"reading", "read"}] ELSE s
           ended == {s.turn : s \in {x \in sending : /\ x.mount = screen.mount
                                                     /\ runs[x.turn].state \in {"requested", "running"}}}
           cancel == [turn |-> screen.run, missed |-> FALSE]
<1>1. /\ sending' = {Halted(s) : s \in sending} /\ stopped' = stopped \cup ended
      /\ cancels' = IF screen.run = 0 THEN cancels ELSE cancels \cup {cancel}
      /\ UNCHANGED <<held, runs, screen, fetching>>
  BY DEF StopSend
<1>2. \A s \in sending : s \in SendRecords /\ SendOK(s)
  BY DEF ChatInv, ChatTyped
<1>3. \A s \in sending :
         /\ Halted(s) \in SendRecords /\ Halted(s).turn = s.turn /\ Halted(s).mount = s.mount
         /\ Halted(s).chat = s.chat /\ Halted(s).step = s.step /\ Halted(s).messages = s.messages
         /\ s.mount # screen.mount => Halted(s).aborted = s.aborted
  BY <1>2 DEF SendRecords
<1>4. \A t \in ended : \E s \in sending :
         s.turn = t /\ s.mount = screen.mount /\ runs[t].state \in {"requested", "running"}
  OBVIOUS
<1> HIDE DEF Halted, ended
<1>5. \A u \in sending' : SendOK(u)'
  <2> SUFFICES ASSUME NEW u \in sending' PROVE SendOK(u)'
    OBVIOUS
  <2>1. PICK s \in sending : u = Halted(s)
    BY <1>1
  <2> QED
    BY <1>1, <1>2, <1>3, <2>1 DEF SendOK
<1>6. OneSend'
  <2> SUFFICES ASSUME NEW u \in sending', NEW v \in sending',
                      u.turn = v.turn \/ (u.mount = screen.mount /\ v.mount = screen.mount)
               PROVE  u = v
    BY <1>1 DEF OneSend
  <2>1. PICK s \in sending, w \in sending : u = Halted(s) /\ v = Halted(w)
    BY <1>1
  <2>2. s = w
    BY <1>3, <2>1 DEF ChatInv, OneSend
  <2> QED
    BY <2>1, <2>2
<1>7. \A t \in ended : t \in PhoneTurns /\ t # 0 /\ screen.run = t /\ runs[t].state \in {"requested", "running"}
  <2> SUFFICES ASSUME NEW t \in ended
               PROVE  t \in PhoneTurns /\ t # 0 /\ screen.run = t /\ runs[t].state \in {"requested", "running"}
    OBVIOUS
  <2>1. PICK s \in sending : s.turn = t /\ s.mount = screen.mount /\ runs[t].state \in {"requested", "running"}
    BY <1>4
  <2>2. s.step \in {"requested", "reading", "read"}
    BY <1>2, <2>1 DEF SendOK, SendRecords, SendSteps
  <2> QED
    BY <1>2, <2>1, <2>2 DEF SendOK, SendRecords, PhoneTurns
<1>8. screen.run = 0 \/ screen.run \in PhoneTurns
  BY MobileConstants DEF ChatInv, ChatTyped, ScreenRecords, TurnOrNone, PhoneTurns
<1>9. cancel.turn = screen.run /\ cancels \subseteq cancels'
      /\ cancels' \subseteq [turn : PhoneTurns, missed : BOOLEAN]
  <2>1. cancel.turn = screen.run /\ (screen.run # 0 => cancel \in [turn : PhoneTurns, missed : BOOLEAN])
    BY <1>8
  <2>2. cancels \subseteq [turn : PhoneTurns, missed : BOOLEAN]
    BY DEF ChatInv, ChatTyped
  <2> HIDE DEF cancel
  <2> QED
    BY <1>1, <2>1, <2>2
<1>10. screen.run # 0 => cancel \in cancels'
  BY <1>1
<1> HIDE DEF cancel
<1>11. StoppedOnes'
  <2> SUFFICES ASSUME NEW t \in stopped'
               PROVE  /\ runs[t].state \notin {"none", "unsent"}
                      /\ runs[t].state \in {"requested", "running"} => \E x \in cancels' : x.turn = t
    BY <1>1 DEF StoppedOnes
  <2>1. CASE t \in stopped
    BY <1>9, <2>1 DEF ChatInv, StoppedOnes
  <2>2. CASE t \in ended
    <3>1. screen.run = t /\ screen.run # 0 /\ runs[t].state \in {"requested", "running"}
      BY <1>7, <2>2
    <3> QED
      BY <1>9, <1>10, <3>1
  <2> QED
    BY <1>1, <2>1, <2>2
<1>12. ChatTyped'
  BY <1>1, <1>3, <1>7, <1>9 DEF ChatInv, ChatTyped
<1> QED
  BY <1>1, <1>5, <1>6, <1>11, <1>12 DEF ChatInv, RunOK, LoadOK, OneLoad, ScreenOK

\* The runs of a chat go with it.
LEMMA ChatGoes ==
    ASSUME ChatInv, DrawerTyped, NEW r \in removals, ChatDeleted(r)
    PROVE  ChatInv'
<1>1. /\ held' = [held EXCEPT ![r.chat].state = "deleted"]
      /\ runs' = [t \in PhoneTurns |-> IF runs[t].state = "running" /\ runs[t].chat = r.chat
                                       THEN [runs[t] EXCEPT !.state = "failed"] ELSE runs[t]]
      /\ UNCHANGED <<screen, fetching, sending, cancels, stopped>>
  BY DEF ChatDeleted
<1>2. r.chat \in PhoneChats /\ ChatTyped
  BY DEF DrawerTyped, RemovalRecords, ChatInv
<1>3. /\ held' \in [PhoneChats -> [state : {"none", "kept", "deleted"}, turns : Seq(PhoneTurns)]]
      /\ \A d \in PhoneChats : TurnsIn(held', d) = TurnsIn(held, d)
  BY <1>1, <1>2, StateOnly
<1>4. /\ runs' \in [PhoneTurns -> [state : RunStates, chat : ChatOrNew]]
      /\ \A t \in PhoneTurns : runs'[t].chat = runs[t].chat
      /\ \A t \in PhoneTurns : \/ runs'[t].state = runs[t].state
                               \/ runs[t].state = "running" /\ runs'[t].state = "failed"
  BY <1>1, <1>2 DEF ChatTyped, RunStates
<1>5. ScreenOK' /\ (\A y \in fetching' : LoadOK(y)') /\ OneLoad'
  BY <1>1, <1>3, HeldGrows
<1>6. \A u \in sending' : SendOK(u)'
  <2> SUFFICES ASSUME NEW u \in sending PROVE SendOK(u)'
    BY <1>1
  <2>1. ASSUME NEW messages, NEW d, Saves(held, messages, d) PROVE Saves(held', messages, d)
    BY <1>3, <2>1 DEF Saves
  <2>2. SendOK(u) /\ u.turn \in PhoneTurns
    BY DEF ChatInv, ChatTyped, SendRecords
  <2> QED
    BY <1>1, <1>4, <2>1, <2>2 DEF SendOK
<1>7. \A t \in PhoneTurns : RunOK(t)'
  <2> SUFFICES ASSUME NEW t \in PhoneTurns PROVE RunOK(t)'
    OBVIOUS
  <2>1. RunOK(t)
    BY DEF ChatInv
  <2> QED
    BY <1>3, <1>4, <2>1 DEF RunOK
<1>8. StoppedOnes'
  BY <1>1, <1>4 DEF ChatInv, ChatTyped, StoppedOnes
<1> QED
  BY <1>1, <1>3, <1>4, <1>5, <1>6, <1>7, <1>8 DEF ChatInv, ChatTyped, OneSend

\* A run ends by itself, or is cancelled.
LEMMA RunOver ==
    ASSUME ChatInv, NEW t \in PhoneTurns,
           RunNeverStarts(t) \/ \E o \in {"completed", "failed"} : RunEnds(t, o)
    PROVE  ChatInv'
<1>1. CASE RunNeverStarts(t)
  BY <1>1, RunMoves DEF RunNeverStarts, ChatInv, ChatTyped
<1>2. ASSUME NEW o \in {"completed", "failed"}, RunEnds(t, o) PROVE ChatInv'
  BY <1>2, RunMoves DEF RunEnds, ChatInv, ChatTyped
<1> QED
  BY <1>1, <1>2

LEMMA RunCancelled ==
    ASSUME ChatInv, NEW x \in cancels, Cancelled(x)
    PROVE  ChatInv'
<1> DEFINE missed == [x EXCEPT !.missed = TRUE]
<1>1. /\ cancels' = IF runs[x.turn].state = "requested" THEN (cancels \ {x}) \cup {missed} ELSE cancels \ {x}
      /\ runs' = IF runs[x.turn].state = "running" THEN [runs EXCEPT ![x.turn].state = "cancelled"] ELSE runs
      /\ UNCHANGED <<held, screen, fetching, sending, stopped>>
  BY DEF Cancelled
<1>2. x \in [turn : PhoneTurns, missed : BOOLEAN]
  BY DEF ChatInv, ChatTyped
<1>3. missed \in [turn : PhoneTurns, missed : BOOLEAN] /\ missed.turn = x.turn
  BY <1>2
<1> HIDE DEF missed
<1>4. /\ cancels' \subseteq [turn : PhoneTurns, missed : BOOLEAN]
      /\ \A y \in cancels : y.turn # x.turn => y \in cancels'
  BY <1>1, <1>3 DEF ChatInv, ChatTyped
<1>5. CASE runs[x.turn].state = "running"
  BY <1>1, <1>2, <1>4, <1>5, RunMoves
<1>6. CASE runs[x.turn].state # "running"
  <2>1. UNCHANGED <<runs, held, screen, fetching, sending, stopped>>
    BY <1>1, <1>6
  <2>2. ASSUME NEW t \in stopped, runs[t].state \in {"requested", "running"}
        PROVE  \E y \in cancels' : y.turn = t
    <3>1. PICK y \in cancels : y.turn = t
      BY <2>2 DEF ChatInv, StoppedOnes
    <3>2. CASE t = x.turn
      BY <1>1, <1>3, <1>6, <2>2, <3>2
    <3>3. CASE t # x.turn
      BY <1>4, <3>1, <3>3
    <3> QED
      BY <3>2, <3>3
  <2>3. StoppedOnes'
    BY <2>1, <2>2 DEF ChatInv, StoppedOnes
  <2> QED
    BY <1>4, <2>1, <2>3 DEF ChatInv, ChatTyped, RunOK, SendOK, OneSend, LoadOK, OneLoad, ScreenOK
<1> QED
  BY <1>5, <1>6

LEMMA ChatKept == ChatInv /\ [ChatNext]_chatVars => ChatInv'
<1> SUFFICES ASSUME ChatInv, [ChatNext]_chatVars PROVE ChatInv'
  OBVIOUS
<1>1. CASE UNCHANGED chatVars
  BY <1>1 DEF chatVars, ChatInv, ChatTyped, RunOK, SendOK, OneSend, LoadOK, OneLoad, ScreenOK, StoppedOnes
<1>2. CASE StopSend
  BY <1>2, SendStopped
<1>3. ASSUME NEW x \in fetching, LoadRead(x) \/ LoadAnswered(x) \/ LoadFails(x) PROVE ChatInv'
  BY <1>3, LoadReads, LoadEnds
<1>4. ASSUME NEW s \in sending,
             \/ CreateAnswered(s) \/ StreamRequested(s) \/ StreamEnds(s)
             \/ Reread(s) \/ RereadAnswered(s) \/ SendFails(s)
             \/ \E c \in PhoneChats : ChatCreated(s, c)
      PROVE  ChatInv'
  BY <1>4, CreationAnswered, StreamAsked, StreamRead, SendRead, SendGivesUp, ChatMade
<1>5. ASSUME NEW t \in PhoneTurns,
             \/ Send(t) \/ RunStarts(t) \/ RunNeverStarts(t)
             \/ \E o \in {"completed", "failed"} : RunEnds(t, o)
      PROVE  ChatInv'
  BY <1>5, MessageSent, RunBegins, RunOver
<1>6. ASSUME NEW x \in cancels, Cancelled(x) PROVE ChatInv'
  BY <1>6, RunCancelled
<1> QED
  BY <1>1, <1>2, <1>3, <1>4, <1>5, <1>6 DEF ChatNext
-----------------------------------------------------------------------------
(* The phone: its sidebar *)

LEMMA DrawerStarts == MobileInit => DrawerInv
<1> SUFFICES ASSUME MobileInit PROVE DrawerInv
  OBVIOUS
<1>1. /\ drawer = NoDrawer /\ removals = {} /\ overlapped = FALSE /\ sending = {}
      /\ screen.active = New
  BY DEF MobileInit, Mounted
<1> QED
  BY <1>1 DEF NoDrawer, DrawerInv, DrawerTyped, OneAtATime, Rows, Standing

\* What the sidebar can see of the steps of a screen: chats that exist stay, a
\* screen gets at most the chat its send created, and so does a send.
ChatSeen ==
    /\ \A c \in PhoneChats : /\ Exists(c) => Exists(c)'
                             /\ held[c].state # "none" => held'[c].state # "none"
    /\ screen'.mount = screen.mount
    /\ \/ screen'.active = screen.active
       \/ screen.active = New /\ \E s \in sending : s.step = "created" /\ screen'.active = s.chat
    /\ \A u \in sending' : u.step = "created" =>
          \/ \E s \in sending : s.step = "created" /\ s.chat = u.chat
          \/ u.chat \in PhoneChats /\ held[u.chat].state = "none" /\ held'[u.chat].state = "kept"

LEMMA ChatLooks == ChatInv /\ [ChatNext]_chatVars => ChatSeen
<1> SUFFICES ASSUME ChatInv, [ChatNext]_chatVars PROVE ChatSeen
  OBVIOUS
<1>0. /\ screen \in ScreenRecords /\ \A s \in sending : s \in SendRecords /\ SendOK(s)
      /\ held \in [PhoneChats -> [state : {"none", "kept", "deleted"}, turns : Seq(PhoneTurns)]]
  BY DEF ChatInv, ChatTyped
<1>1. ASSUME UNCHANGED held, screen'.mount = screen.mount, screen'.active = screen.active,
             \A u \in sending' : u.step = "created" => \E s \in sending : s.step = "created" /\ s.chat = u.chat
      PROVE  ChatSeen
  BY <1>1 DEF ChatSeen, Exists
<1>2. CASE UNCHANGED chatVars
  BY <1>1, <1>2 DEF chatVars
<1>3. CASE StopSend
  <2>1. ASSUME NEW u \in sending', u.step = "created"
        PROVE  \E s \in sending : s.step = "created" /\ s.chat = u.chat
    <3>1. PICK s \in sending :
             u = IF s.mount = screen.mount THEN [s EXCEPT !.aborted = s.step \notin {"reading", "read"}] ELSE s
      BY <1>3 DEF StopSend
    <3>2. s \in SendRecords
      BY <1>0
    <3>3. u.step = s.step /\ u.chat = s.chat
      BY <3>1, <3>2 DEF SendRecords
    <3> QED
      BY <2>1, <3>3
  <2>2. UNCHANGED held /\ screen'.mount = screen.mount /\ screen'.active = screen.active
    BY <1>3 DEF StopSend
  <2> QED
    BY <1>1, <2>1, <2>2
<1>4. ASSUME NEW x \in fetching, LoadRead(x) \/ LoadAnswered(x) \/ LoadFails(x) PROVE ChatSeen
  <2>1. UNCHANGED <<held, sending>>
    BY <1>4 DEF LoadRead, LoadAnswered, LoadFails
  <2>2. screen'.mount = screen.mount /\ screen'.active = screen.active
    BY <1>0, <1>4 DEF LoadRead, LoadAnswered, LoadFails, ScreenRecords
  <2> QED
    BY <1>1, <2>1, <2>2
<1>5. ASSUME NEW s \in sending, CreateAnswered(s) PROVE ChatSeen
  <2> DEFINE x == [s EXCEPT !.step = "asking"]
  <2>1. /\ s.step = "created" /\ ~s.aborted /\ sending' = (sending \ {s}) \cup {x}
        /\ screen' = [screen EXCEPT !.active = s.chat] /\ UNCHANGED held
    BY <1>5 DEF CreateAnswered, Replaced
  <2>2. x.step = "asking" /\ screen'.mount = screen.mount /\ screen'.active = s.chat
    BY <1>0, <2>1 DEF SendRecords, ScreenRecords
  <2>3. screen.active = New
    BY <1>0, <2>1 DEF SendOK
  <2> HIDE DEF x
  <2> QED
    BY <2>1, <2>2, <2>3 DEF ChatSeen, Exists
<1>6. ASSUME NEW s \in sending, NEW c \in PhoneChats, ChatCreated(s, c) PROVE ChatSeen
  <2> DEFINE x == [s EXCEPT !.step = "created", !.chat = c]
  <2>1. /\ held[c].state = "none" /\ held' = [held EXCEPT ![c].state = "kept"]
        /\ sending' = (sending \ {s}) \cup {x} /\ UNCHANGED screen
    BY <1>6 DEF ChatCreated, Replaced
  <2>2. x.chat = c
    BY <1>0 DEF SendRecords
  <2>3. held'[c].state = "kept" /\ \A d \in PhoneChats : d # c => held'[d] = held[d]
    BY <1>0, <2>1
  <2> HIDE DEF x
  <2> QED
    BY <2>1, <2>2, <2>3 DEF ChatSeen, Exists
<1>7. ASSUME NEW s \in sending, StreamRequested(s) \/ StreamEnds(s) \/ Reread(s) PROVE ChatSeen
  <2>1. PICK x \in {[s EXCEPT !.step = "requested"], [s EXCEPT !.step = "reading"],
                    [s EXCEPT !.step = "read", !.messages = SavedOf(s.chat)]} :
           sending' = (sending \ {s}) \cup {x}
    BY <1>7 DEF StreamRequested, Requested, StreamEnds, Reread, Replaced
  <2>2. x.step # "created"
    BY <1>0, <2>1 DEF SendRecords
  <2>3. UNCHANGED held /\ screen'.mount = screen.mount /\ screen'.active = screen.active
    BY <1>0, <1>7 DEF StreamRequested, Requested, StreamEnds, Reread, ScreenRecords
  <2> QED
    BY <1>1, <2>1, <2>2, <2>3
<1>8. ASSUME NEW s \in sending, RereadAnswered(s) \/ SendFails(s) PROVE ChatSeen
  <2>1. sending' = sending \ {s} /\ UNCHANGED held
    BY <1>8 DEF RereadAnswered, SendFails
  <2>2. screen'.mount = screen.mount /\ screen'.active = screen.active
    BY <1>0, <1>8 DEF RereadAnswered, SendFails, ScreenRecords
  <2> QED
    BY <1>1, <2>1, <2>2
<1>9. ASSUME NEW t \in PhoneTurns, Send(t) PROVE ChatSeen
  <2> DEFINE x == [turn |-> t, chat |-> screen.active, mount |-> screen.mount,
                   step |-> IF screen.active = New THEN "creating" ELSE "asking",
                   aborted |-> FALSE, messages |-> {}]
  <2>1. sending' = sending \cup {x} /\ UNCHANGED held
    BY <1>9 DEF Send
  <2>2. x.step # "created"
    OBVIOUS
  <2> HIDE DEF x
  <2>3. screen'.mount = screen.mount /\ screen'.active = screen.active
    BY <1>0, <1>9 DEF Send, ScreenRecords
  <2> QED
    BY <1>1, <2>1, <2>2, <2>3
<1>10. ASSUME NEW t \in PhoneTurns, RunStarts(t) PROVE ChatSeen
  <2>1. \A c \in PhoneChats : held'[c].state = held[c].state
    BY <1>0, <1>10 DEF RunStarts
  <2> QED
    BY <1>10, <2>1 DEF RunStarts, ChatSeen, Exists
<1>11. ASSUME NEW t \in PhoneTurns, RunNeverStarts(t) \/ \E o \in {"completed", "failed"} : RunEnds(t, o)
       PROVE  ChatSeen
  BY <1>1, <1>11 DEF RunNeverStarts, RunEnds
<1>12. ASSUME NEW x \in cancels, Cancelled(x) PROVE ChatSeen
  BY <1>1, <1>12 DEF Cancelled
<1> QED
  BY <1>2, <1>3, <1>4, <1>5, <1>6, <1>7, <1>8, <1>9, <1>10, <1>11, <1>12 DEF ChatNext

LEMMA DrawerStays == ChatInv /\ DrawerInv /\ ChatSeen /\ UNCHANGED drawerVars => DrawerInv'
<1> SUFFICES ASSUME ChatInv, DrawerInv, ChatSeen, UNCHANGED drawerVars PROVE DrawerInv'
  OBVIOUS
<1>0. UNCHANGED <<drawer, removals, overlapped>>
  BY DEF drawerVars
<1>1. DrawerTyped'
  BY <1>0 DEF DrawerInv, DrawerTyped
<1>2. ASSUME ~overlapped PROVE OneAtATime'
  <2>1. OneAtATime
    BY <1>2 DEF DrawerInv
  <2>2. /\ removals \subseteq RemovalRecords /\ Rows \subseteq PhoneChats /\ Rows' = Rows
        /\ drawer.listed \subseteq PhoneChats
    BY <1>0 DEF DrawerInv, DrawerTyped, Rows
  <2>3. \A c \in PhoneChats : Standing(c) => Standing(c)'
    BY <1>0 DEF Standing, ChatSeen
  <2>4. ASSUME NEW s \in sending, s.step = "created"
        PROVE  /\ s.chat \in PhoneChats /\ Exists(s.chat) /\ Exists(s.chat)'
               /\ \A r \in removals : r.chat # s.chat
    <3>1. s.chat \in PhoneChats
      BY <2>4 DEF ChatInv, SendOK
    <3> QED
      BY <2>1, <2>4, <3>1 DEF OneAtATime, ChatSeen
  <2>5. ASSUME NEW r \in removals PROVE RemovalOK(r)'
    <3>1. RemovalOK(r) /\ r.chat \in PhoneChats /\ r.known \subseteq PhoneChats
      BY <2>1, <2>2 DEF OneAtATime, RemovalRecords
    <3>2. /\ r.mount = screen'.mount /\ held'[r.chat].state # "none"
          /\ r.step = "asked" => Exists(r.chat)'
          /\ \A c \in r.known \ {r.chat} : Exists(c)'
      BY <3>1 DEF RemovalOK, ChatSeen
    <3>3. screen'.active = r.active \/ (r.active = New /\ screen'.active # r.chat)
      BY <2>4, <3>1 DEF RemovalOK, ChatSeen
    <3> QED
      BY <3>2, <3>3 DEF RemovalOK
  <2>6. ASSUME NEW u \in sending', u.step = "created"
        PROVE  Exists(u.chat)' /\ \A r \in removals : r.chat # u.chat
    <3>1. CASE \E s \in sending : s.step = "created" /\ s.chat = u.chat
      BY <2>4, <3>1
    <3>2. CASE u.chat \in PhoneChats /\ held[u.chat].state = "none" /\ held'[u.chat].state = "kept"
      BY <2>1, <3>2 DEF OneAtATime, RemovalOK, Exists
    <3> QED
      BY <2>6, <3>1, <3>2 DEF ChatSeen
  <2>7. (screen.active # New => Standing(screen.active))'
    <3>1. CASE screen'.active = screen.active
      <4>1. screen.active # New => screen.active \in PhoneChats
        BY DEF ChatInv, ChatTyped, ScreenRecords, ChatOrNew
      <4> QED
        BY <2>1, <2>3, <3>1, <4>1 DEF OneAtATime
    <3>2. CASE \E s \in sending : s.step = "created" /\ screen'.active = s.chat
      BY <2>4, <3>2 DEF Standing
    <3> QED
      BY <3>1, <3>2 DEF ChatSeen
  <2>8. drawer.list = "read" => \A c \in drawer.listed : Exists(c)'
    BY <2>1, <2>2 DEF OneAtATime, ChatSeen
  <2>9. \A c \in Rows' : Standing(c)'
    BY <2>1, <2>2, <2>3 DEF OneAtATime
  <2> QED
    BY <1>0, <2>1, <2>5, <2>6, <2>7, <2>8, <2>9 DEF OneAtATime
<1> QED
  BY <1>0, <1>1, <1>2 DEF DrawerInv

\* The sends of a replaced screen wait for the same chats.
LEMMA ReplacedSends ==
    ASSUME ChatTyped, NEW c, Replace(c)
    PROVE  \A u \in sending' : \E s \in sending : s.step = u.step /\ s.chat = u.chat
<1> SUFFICES ASSUME NEW u \in sending' PROVE \E s \in sending : s.step = u.step /\ s.chat = u.chat
  OBVIOUS
<1>1. PICK s \in sending : u = [s EXCEPT !.aborted = TRUE]
  BY DEF Replace
<1>2. s \in SendRecords
  BY DEF ChatTyped
<1>3. u.step = s.step /\ u.chat = s.chat
  BY <1>1, <1>2 DEF SendRecords
<1> QED
  BY <1>3

\* Another screen is shown of a chat that exists, or of none, with no deletion under way.
LEMMA DrawerReplaced ==
    ASSUME ChatTyped, DrawerTyped, NEW c \in ChatOrNew, Replace(c), UNCHANGED held,
           removals' = {}, overlapped' \in BOOLEAN,
           ~overlapped' => /\ \A s \in sending : s.step = "created" => Exists(s.chat)
                           /\ c # New => Exists(c)
    PROVE  DrawerInv'
<1>1. drawer' = NoDrawer /\ screen'.active = c
  BY DEF Replace, Mounted
<1>2. DrawerTyped'
  BY <1>1 DEF DrawerTyped, NoDrawer
<1>3. Rows' = {} /\ drawer'.list = "none"
  BY <1>1 DEF Rows, NoDrawer
<1>4. ASSUME ~overlapped' PROVE OneAtATime'
  <2>1. \A u \in sending' : u.step = "created" => Exists(u.chat)'
    BY <1>4, ReplacedSends DEF Exists
  <2>2. c # New => Standing(c)'
    BY <1>4 DEF Standing, Exists
  <2> QED
    BY <1>1, <1>3, <2>1, <2>2 DEF OneAtATime
<1> QED
  BY <1>2, <1>4 DEF DrawerInv

\* The sidebar opens, closes, or gets its list.
LEMMA DrawerShows ==
    ASSUME DrawerInv, DrawerOpens \/ DrawerCloses \/ ListRead \/ ChatsListed \/ ListFails
    PROVE  DrawerInv'
<1>1. /\ UNCHANGED <<held, runs, screen, fetching, sending, cancels, stopped, removals>>
      /\ overlapped' = overlapped \/ (overlapped' = (overlapped \/ removals # {}))
  BY DEF DrawerOpens, DrawerCloses, ListRead, ChatsListed, ListFails, chatVars
<1>2. drawer \in [visible : BOOLEAN, shown : SUBSET PhoneChats, list : {"none", "asked", "read"},
                  listed : SUBSET PhoneChats, deleting : BOOLEAN]
  BY DEF DrawerInv, DrawerTyped
<1>3. DrawerTyped'
  <2>1. \/ drawer' = [drawer EXCEPT !.visible = TRUE, !.list = "asked"]
        \/ drawer' = [drawer EXCEPT !.visible = FALSE, !.list = "none", !.listed = {}]
        \/ drawer' = [drawer EXCEPT !.list = "read", !.listed = {c \in PhoneChats : Exists(c)}]
        \/ drawer' = [drawer EXCEPT !.list = "none", !.listed = {}, !.shown = drawer.listed]
        \/ drawer' = [drawer EXCEPT !.list = "none", !.listed = {}, !.shown = {}]
    BY DEF DrawerOpens, DrawerCloses, ListRead, ChatsListed, ListFails
  <2>2. {c \in PhoneChats : Exists(c)} \subseteq PhoneChats
    OBVIOUS
  <2>3. drawer' \in [visible : BOOLEAN, shown : SUBSET PhoneChats, list : {"none", "asked", "read"},
                     listed : SUBSET PhoneChats, deleting : BOOLEAN]
    BY <1>2, <2>1, <2>2
  <2>4. overlapped' \in BOOLEAN
    BY <1>1 DEF DrawerInv, DrawerTyped
  <2> QED
    BY <1>1, <2>3, <2>4 DEF DrawerInv, DrawerTyped
<1>4. ASSUME ~overlapped' PROVE OneAtATime'
  <2>1. OneAtATime
    BY <1>1, <1>4 DEF DrawerInv
  <2>2. \A c : Standing(c)' <=> Standing(c)
    BY <1>1 DEF Standing, Exists
  <2>3. /\ \A r, u \in removals' : r = u
        /\ \A r \in removals' : RemovalOK(r)'
        /\ (screen.active # New => Standing(screen.active))'
        /\ \A s \in sending' : s.step = "created" =>
              Exists(s.chat)' /\ \A r \in removals' : r.chat # s.chat
    BY <1>1, <2>1, <2>2 DEF OneAtATime, RemovalOK, Exists
  <2>4. CASE DrawerOpens
    <3>1. removals = {} /\ drawer'.list = "asked"
      BY <1>2, <1>4, <2>4 DEF DrawerOpens
    <3> QED
      BY <1>1, <2>3, <3>1 DEF OneAtATime, Rows
  <2>5. CASE DrawerCloses
    <3>1. drawer'.list = "none" /\ ~drawer'.visible
      BY <1>2, <2>5 DEF DrawerCloses
    <3> QED
      BY <2>3, <3>1 DEF OneAtATime, Rows
  <2>6. CASE ListRead
    <3>1. drawer'.list = "read" /\ drawer'.listed = {c \in PhoneChats : Exists(c)} /\ removals = {}
      BY <1>2, <2>1, <2>6 DEF ListRead, OneAtATime
    <3>2. \A c \in drawer'.listed : Exists(c)'
      BY <1>1, <3>1 DEF Exists
    <3> QED
      BY <1>1, <2>3, <3>1, <3>2 DEF OneAtATime, Rows
  <2>7. CASE ChatsListed
    <3>1. /\ drawer'.list = "none" /\ drawer'.shown = drawer.listed
          /\ \A c \in drawer.listed : Exists(c)
      BY <1>2, <2>1, <2>7 DEF ChatsListed, OneAtATime
    <3>2. \A c \in Rows' : Standing(c)'
      BY <2>2, <3>1 DEF Rows, Standing
    <3> QED
      BY <2>3, <3>1, <3>2 DEF OneAtATime
  <2>8. CASE ListFails
    <3>1. drawer'.list = "none" /\ drawer'.shown = {}
      BY <1>2, <2>8 DEF ListFails
    <3> QED
      BY <2>3, <3>1 DEF OneAtATime, Rows
  <2> QED
    BY <2>4, <2>5, <2>6, <2>7, <2>8
<1> QED
  BY <1>3, <1>4 DEF DrawerInv
LEMMA ChatOpened ==
    ASSUME ChatInv, DrawerInv, NEW c \in ChatOrNew, OpenChat(c)
    PROVE  ChatInv' /\ DrawerInv'
<1>1. Replace(c) /\ UNCHANGED <<held, removals>> /\ overlapped' = (overlapped \/ removals # {}) /\ (c = New \/ c \in Rows)
  BY DEF OpenChat
<1>2. ChatInv'
  BY <1>1, ScreenReplaced
<1>3. CASE overlapped'
  <2>1. drawer' = NoDrawer
    BY <1>1 DEF Replace
  <2> QED
    BY <1>1, <1>2, <1>3, <2>1 DEF DrawerInv, DrawerTyped, NoDrawer
<1>4. CASE ~overlapped'
  <2>1. ~overlapped /\ removals = {} /\ OneAtATime
    BY <1>1, <1>4 DEF DrawerInv
  <2>2. c # New => Exists(c)
    BY <1>1, <2>1 DEF OneAtATime, Standing
  <2>3. \A s \in sending : s.step = "created" => Exists(s.chat)
    BY <2>1 DEF OneAtATime
  <2>4. overlapped' \in BOOLEAN
    BY <1>1, <1>4, <2>1 DEF DrawerInv, DrawerTyped
  <2>5. removals' = {} /\ ChatTyped /\ DrawerTyped
    BY <1>1, <2>1 DEF ChatInv, DrawerInv
  <2> QED
    BY <1>1, <1>2, <2>2, <2>3, <2>4, <2>5, DrawerReplaced
<1> QED
  BY <1>1, <1>3, <1>4 DEF DrawerInv, DrawerTyped

LEMMA DeletionAsked ==
    ASSUME ChatInv, DrawerInv, NEW c \in PhoneChats, Delete(c)
    PROVE  ChatInv' /\ DrawerInv'
<1> DEFINE r == [chat |-> c, mount |-> screen.mount, active |-> screen.active,
                 known |-> drawer.shown, step |-> "asked"]
<1>1. /\ c \in Rows /\ drawer' = [drawer EXCEPT !.deleting = TRUE] /\ removals' = removals \cup {r}
      /\ overlapped' = (overlapped \/ removals # {} \/ \E s \in sending : s.chat = c)
      /\ UNCHANGED <<held, runs, screen, fetching, sending, cancels, stopped>>
  BY DEF Delete, chatVars
<1>2. ChatInv'
  BY <1>1, ChatKept DEF chatVars
<1>3. drawer \in [visible : BOOLEAN, shown : SUBSET PhoneChats, list : {"none", "asked", "read"},
                  listed : SUBSET PhoneChats, deleting : BOOLEAN]
  BY DEF DrawerInv, DrawerTyped
<1>4. /\ r \in RemovalRecords /\ r.chat = c /\ r.mount = screen.mount /\ r.active = screen.active
      /\ r.known = drawer.shown /\ r.step = "asked"
  BY <1>3 DEF ChatInv, ChatTyped, ScreenRecords, RemovalRecords
<1> HIDE DEF r
<1>5. /\ drawer' \in [visible : BOOLEAN, shown : SUBSET PhoneChats, list : {"none", "asked", "read"},
                      listed : SUBSET PhoneChats, deleting : BOOLEAN]
      /\ drawer'.shown = drawer.shown /\ drawer'.list = drawer.list /\ drawer'.visible = drawer.visible
  BY <1>1, <1>3
<1>6. DrawerTyped'
  <2>1. overlapped' \in BOOLEAN
    BY <1>1
  <2> QED
    BY <1>1, <1>4, <1>5, <2>1 DEF DrawerInv, DrawerTyped
<1>7. ASSUME ~overlapped' PROVE OneAtATime'
  <2>1. ~overlapped /\ removals = {} /\ (\A s \in sending : s.chat # c) /\ OneAtATime
    BY <1>1, <1>7 DEF DrawerInv
  <2>2. Rows = drawer.shown /\ Rows' = Rows /\ drawer.list = "none"
    BY <1>1, <1>5 DEF Rows
  <2>3. \A d \in Rows : Exists(d)
    BY <2>1 DEF OneAtATime, Standing
  <2>4. removals' = {r}
    BY <1>1, <2>1
  <2>5. ASSUME NEW u \in removals' PROVE RemovalOK(u)'
    <3>1. u = r
      BY <2>4
    <3> QED
      BY <1>1, <1>4, <2>2, <2>3, <3>1 DEF RemovalOK, Exists
  <2>6. \A d : Exists(d) => Standing(d)'
    BY <1>1 DEF Standing, Exists
  <2>7. \A d : Standing(d) => Exists(d)
    BY <2>1 DEF Standing
  <2>8. (screen.active # New => Standing(screen.active))'
    BY <1>1, <2>1, <2>6, <2>7 DEF OneAtATime
  <2>9. \A s \in sending' : s.step = "created" => Exists(s.chat)' /\ \A u \in removals' : u.chat # s.chat
    BY <1>1, <1>4, <2>1, <2>4 DEF OneAtATime, Exists
  <2>10. /\ \A u, v \in removals' : u = v
         /\ drawer'.list # "none" => removals' = {}
         /\ drawer'.list = "read" => \A d \in drawer'.listed : Exists(d)'
    BY <1>5, <2>2, <2>4
  <2>11. \A d \in Rows' : Standing(d)'
    BY <2>2, <2>3, <2>6
  <2> QED
    BY <2>5, <2>8, <2>9, <2>10, <2>11 DEF OneAtATime
<1> QED
  BY <1>2, <1>6, <1>7 DEF DrawerInv

LEMMA DeletionDone ==
    ASSUME ChatInv, DrawerInv, NEW r \in removals, ChatDeleted(r)
    PROVE  ChatInv' /\ DrawerInv'
<1> DEFINE u == [r EXCEPT !.step = "deleted"]
<1>1. /\ r.step = "asked" /\ Exists(r.chat)
      /\ held' = [held EXCEPT ![r.chat].state = "deleted"]
      /\ removals' = (removals \ {r}) \cup {u}
      /\ UNCHANGED <<screen, fetching, sending, cancels, stopped, drawer, overlapped>>
  BY DEF ChatDeleted
<1>2. ChatInv' /\ ChatTyped
  BY ChatGoes DEF DrawerInv, ChatInv
<1>3. r \in RemovalRecords
  BY DEF DrawerInv, DrawerTyped
<1>4. /\ u \in RemovalRecords /\ u.chat = r.chat /\ u.mount = r.mount /\ u.active = r.active
      /\ u.known = r.known /\ u.step = "deleted"
  BY <1>3 DEF RemovalRecords
<1> HIDE DEF u
<1>5. DrawerTyped'
  BY <1>1, <1>4 DEF DrawerInv, DrawerTyped
<1>6. /\ r.chat \in PhoneChats /\ held'[r.chat].state = "deleted"
      /\ \A d \in PhoneChats : d # r.chat => held'[d] = held[d]
  BY <1>1, <1>2, <1>3 DEF ChatTyped, RemovalRecords
<1>7. ASSUME ~overlapped' PROVE OneAtATime'
  <2>1. OneAtATime /\ removals = {r}
    BY <1>1, <1>7 DEF DrawerInv, OneAtATime
  <2>2. removals' = {u}
    BY <1>1, <2>1
  <2>3. \A d \in PhoneChats : Exists(d) => Standing(d)'
    BY <1>4, <1>6, <2>2 DEF Standing, Exists
  <2>4. \A d \in PhoneChats : Standing(d) => Exists(d)
    BY <1>1, <2>1 DEF Standing
  <2>5. drawer.list = "none" /\ Rows \subseteq PhoneChats /\ Rows' = Rows
    BY <1>1, <2>1 DEF OneAtATime, DrawerInv, DrawerTyped, Rows
  <2>6. ASSUME NEW v \in removals' PROVE RemovalOK(v)'
    <3>1. v = u /\ RemovalOK(r) /\ r.known \subseteq PhoneChats
      BY <1>3, <2>1, <2>2 DEF OneAtATime, RemovalRecords
    <3> QED
      BY <1>1, <1>4, <1>6, <3>1 DEF RemovalOK, Exists
  <2>7. (screen.active # New => Standing(screen.active))'
    <3>1. screen.active # New => screen.active \in PhoneChats
      BY <1>2 DEF ChatTyped, ScreenRecords, ChatOrNew
    <3> QED
      BY <1>1, <2>1, <2>3, <2>4, <3>1 DEF OneAtATime
  <2>8. ASSUME NEW s \in sending', s.step = "created"
        PROVE  Exists(s.chat)' /\ \A v \in removals' : v.chat # s.chat
    <3>1. s \in sending /\ s.chat \in PhoneChats
      BY <1>1, <2>8 DEF ChatInv, SendOK
    <3>2. Exists(s.chat) /\ r.chat # s.chat
      BY <2>1, <2>8, <3>1 DEF OneAtATime
    <3> QED
      BY <1>4, <1>6, <2>2, <3>1, <3>2 DEF Exists
  <2>9. \A d \in Rows' : Standing(d)'
    BY <2>1, <2>3, <2>4, <2>5 DEF OneAtATime
  <2> QED
    BY <1>1, <2>2, <2>5, <2>6, <2>7, <2>8, <2>9 DEF OneAtATime
<1> QED
  BY <1>2, <1>5, <1>7 DEF DrawerInv

LEMMA DeletionOver ==
    ASSUME ChatInv, DrawerInv, NEW r \in removals, DeleteAnswered(r) \/ DeleteFails(r)
    PROVE  ChatInv' /\ DrawerInv'
<1> DEFINE remaining == r.known \ {r.chat}
<1>1. removals' = removals \ {r} /\ UNCHANGED overlapped
  BY DEF DeleteAnswered, DeleteFails
<1>2. r \in RemovalRecords /\ DrawerTyped /\ ChatTyped /\ overlapped' \in BOOLEAN
  BY <1>1 DEF DrawerInv, DrawerTyped, ChatInv
<1>3. removals' \subseteq RemovalRecords
  BY <1>1, <1>2 DEF DrawerTyped
<1>4. ASSUME ~overlapped
      PROVE  /\ OneAtATime /\ removals' = {} /\ RemovalOK(r)
             /\ \A d \in remaining : Exists(d)
             /\ \A d : Standing(d) /\ d # r.chat => Exists(d)
             /\ r.step = "asked" => \A d : Standing(d) => Exists(d)
             /\ \A s \in sending : s.step = "created" => Exists(s.chat)
  <2>1. OneAtATime /\ removals = {r} /\ RemovalOK(r)
    BY <1>4 DEF DrawerInv, OneAtATime
  <2> QED
    BY <1>1, <2>1 DEF OneAtATime, RemovalOK, Standing
<1>5. remaining \subseteq PhoneChats
  BY <1>2 DEF RemovalRecords
<1>6. CASE DeleteAnswered(r) /\ r.chat = r.active
  <2>1. PICK c \in IF remaining = {} THEN {New} ELSE remaining : Replace(c) /\ UNCHANGED held
    BY <1>6 DEF DeleteAnswered
  <2>2. c \in ChatOrNew /\ (c # New => c \in remaining)
    BY <1>5, <2>1 DEF ChatOrNew
  <2> HIDE DEF remaining
  <2>3. ChatInv'
    BY <2>1, <2>2, ScreenReplaced
  <2>4. DrawerTyped'
    BY <1>2, <1>3, <2>1 DEF Replace, DrawerTyped, NoDrawer
  <2>5. CASE overlapped
    BY <1>1, <2>3, <2>4, <2>5 DEF DrawerInv
  <2>6. CASE ~overlapped
    <3>1. /\ removals' = {} /\ (c # New => Exists(c))
          /\ \A s \in sending : s.step = "created" => Exists(s.chat)
      BY <1>4, <2>2, <2>6
    <3>2. DrawerInv'
      BY <1>2, <2>1, <2>2, <3>1, DrawerReplaced
    <3> QED
      BY <2>3, <3>2
  <2> QED
    BY <1>2, <2>5, <2>6 DEF DrawerTyped
<1>7. CASE (DeleteAnswered(r) /\ r.chat # r.active) \/ DeleteFails(r)
  <2>1. UNCHANGED <<held, runs, screen, fetching, sending, cancels, stopped>>
    BY <1>7 DEF DeleteAnswered, DeleteFails, chatVars
  <2>2. ChatInv'
    BY <2>1, ChatKept DEF chatVars
  <2>3. \/ drawer' = drawer /\ r.mount # screen.mount
        \/ drawer' = [drawer EXCEPT !.shown = remaining, !.deleting = FALSE] /\ DeleteAnswered(r) /\ r.chat # r.active
        \/ drawer' = [drawer EXCEPT !.deleting = FALSE] /\ DeleteFails(r)
    BY <1>7 DEF DeleteAnswered, DeleteFails
  <2>4. drawer \in [visible : BOOLEAN, shown : SUBSET PhoneChats, list : {"none", "asked", "read"},
                    listed : SUBSET PhoneChats, deleting : BOOLEAN]
    BY <1>2 DEF DrawerTyped
  <2> HIDE DEF remaining
  <2>5. /\ drawer' \in [visible : BOOLEAN, shown : SUBSET PhoneChats, list : {"none", "asked", "read"},
                        listed : SUBSET PhoneChats, deleting : BOOLEAN]
        /\ drawer'.list = drawer.list /\ drawer'.listed = drawer.listed
        /\ drawer'.visible = drawer.visible
        /\ \/ drawer'.shown = drawer.shown /\ (r.mount = screen.mount => r.step = "asked")
           \/ drawer'.shown = remaining /\ r.chat # r.active
    BY <1>5, <2>3, <2>4 DEF DeleteFails
  <2>6. DrawerTyped'
    BY <1>2, <1>3, <2>5 DEF DrawerTyped
  <2>7. ASSUME ~overlapped PROVE OneAtATime'
    <3>1. /\ OneAtATime /\ removals' = {} /\ RemovalOK(r)
          /\ \A d \in remaining : Exists(d)
          /\ \A d : Standing(d) /\ d # r.chat => Exists(d)
          /\ r.step = "asked" => \A d : Standing(d) => Exists(d)
          /\ \A s \in sending : s.step = "created" => Exists(s.chat)
      BY <1>4, <2>7
    <3>2. \A d : (Exists(d) <=> Exists(d)') /\ (Exists(d) => Standing(d)')
      BY <2>1 DEF Exists, Standing
    <3>3. \A d \in Rows' : Exists(d)
      <4>1. CASE drawer'.shown = drawer.shown /\ (r.mount = screen.mount => r.step = "asked")
        <5>1. Rows' = Rows /\ r.step = "asked"
          BY <2>5, <3>1, <4>1 DEF Rows, RemovalOK
        <5> QED
          BY <3>1, <5>1 DEF OneAtATime
      <4>2. CASE drawer'.shown = remaining
        BY <3>1, <4>2 DEF Rows
      <4> QED
        BY <2>5, <4>1, <4>2
    <3>4. screen.active # New => Exists(screen.active)
      <4>1. r.step = "asked" \/ screen.active # r.chat
        BY <2>5, <3>1 DEF RemovalOK
      <4> QED
        BY <3>1, <4>1 DEF OneAtATime
    <3>5. (screen.active # New => Standing(screen.active))'
      BY <2>1, <3>2, <3>4
    <3>6. \A s \in sending' : s.step = "created" => Exists(s.chat)'
      BY <2>1, <3>1, <3>2
    <3>7. drawer'.list = "read" => \A d \in drawer'.listed : Exists(d)'
      BY <2>5, <3>1, <3>2 DEF OneAtATime
    <3>8. \A d \in Rows' : Standing(d)'
      BY <3>2, <3>3
    <3> QED
      BY <3>1, <3>5, <3>6, <3>7, <3>8 DEF OneAtATime
  <2> QED
    BY <1>1, <2>2, <2>6, <2>7 DEF DrawerInv
<1> QED
  BY <1>6, <1>7

-----------------------------------------------------------------------------
(* The phone as a whole *)

LEMMA MobileStarts == MobileInit => MobileInv
  BY ChatStarts, DrawerStarts, PhoneMcpStarts DEF MobileInv

LEMMA MobileKept == MobileInv /\ [MobileNext]_mobileVars => MobileInv'
<1> SUFFICES ASSUME MobileInv, [MobileNext]_mobileVars PROVE MobileInv'
  OBVIOUS
<1>0. ChatInv /\ DrawerInv /\ PhoneMcpInv
  BY DEF MobileInv
<1>1. ASSUME [ChatNext]_chatVars, UNCHANGED drawerVars PROVE ChatInv' /\ DrawerInv'
  BY <1>0, <1>1, ChatKept, ChatLooks, DrawerStays
<1>2. ASSUME [PhoneMcpNext]_phoneMcpVars PROVE PhoneMcpInv'
  BY <1>0, <1>2, PhoneMcpKept
<1>3. CASE ChatNext /\ UNCHANGED <<drawerVars, phoneMcpVars>>
  BY <1>1, <1>2, <1>3 DEF MobileInv
<1>4. CASE DrawerNext /\ UNCHANGED phoneMcpVars
  <2>1. PhoneMcpInv'
    BY <1>2, <1>4
  <2>2. CASE DrawerOpens \/ DrawerCloses \/ ListRead \/ ChatsListed \/ ListFails
    <3>1. UNCHANGED chatVars
      BY <2>2 DEF DrawerOpens, DrawerCloses, ListRead, ChatsListed, ListFails
    <3> QED
      BY <1>0, <2>1, <2>2, <3>1, ChatKept, DrawerShows DEF MobileInv
  <2>3. ASSUME NEW c \in PhoneChats \cup {New}, OpenChat(c) PROVE MobileInv'
    BY <1>0, <2>1, <2>3, ChatOpened DEF MobileInv, ChatOrNew
  <2>4. ASSUME NEW c \in PhoneChats, Delete(c) PROVE MobileInv'
    BY <1>0, <2>1, <2>4, DeletionAsked DEF MobileInv
  <2>5. ASSUME NEW r \in removals, ChatDeleted(r) \/ DeleteAnswered(r) \/ DeleteFails(r) PROVE MobileInv'
    BY <1>0, <2>1, <2>5, DeletionDone, DeletionOver DEF MobileInv
  <2> QED
    BY <1>4, <2>2, <2>3, <2>4, <2>5 DEF DrawerNext
<1>5. CASE PhoneMcpNext /\ UNCHANGED <<chatVars, drawerVars>>
  BY <1>1, <1>2, <1>5 DEF MobileInv
<1>6. CASE UNCHANGED mobileVars
  <2>1. UNCHANGED chatVars /\ UNCHANGED drawerVars /\ UNCHANGED phoneMcpVars
    BY <1>6 DEF mobileVars, chatVars, drawerVars, phoneMcpVars
  <2> QED
    BY <1>1, <1>2, <2>1 DEF MobileInv
<1> QED
  BY <1>3, <1>4, <1>5, <1>6 DEF MobileNext

LEMMA MobileInvSafe == MobileInv => MobileTypeOK /\ MobileAgrees
<1> SUFFICES ASSUME MobileInv PROVE MobileTypeOK /\ MobileAgrees
  OBVIOUS
<1>0. ChatInv /\ ChatTyped /\ ScreenOK /\ StoppedOnes /\ DrawerInv /\ PhoneMcpInv
  BY DEF MobileInv, ChatInv
<1>1. MobileTypeOK
  <2>1. \A c \in PhoneChats : held[c].state \in {"none", "kept", "deleted"} /\ held[c].turns \in Seq(PhoneTurns)
    BY <1>0 DEF ChatTyped
  <2>2. \A t \in PhoneTurns : runs[t].state \in RunStates
    BY <1>0 DEF ChatTyped
  <2>3. screen.active \in PhoneChats \cup {New} /\ screen.mount \in 1..MaxScreens
    BY <1>0 DEF ChatTyped, ScreenRecords, ChatOrNew
  <2>4. \A s \in sending : s.turn \in PhoneTurns /\ s.chat \in PhoneChats \cup {New}
    BY <1>0 DEF ChatTyped, SendRecords, ChatOrNew
  <2>5. drawer.shown \subseteq PhoneChats
    BY <1>0 DEF DrawerInv, DrawerTyped
  <2>6. mcpSession \in 0..Len(mcpClients)
    BY <1>0, PhoneMcpInvSafe
  <2> QED
    BY <2>1, <2>2, <2>3, <2>4, <2>5, <2>6 DEF MobileTypeOK, RunStates
<1>2. MessagesOfTheChat
  BY <1>0 DEF MessagesOfTheChat, ScreenOK, Saves, SavedKinds, TurnsIn
<1>3. SentShown
  BY <1>0 DEF SentShown, ScreenOK, AllSaved, SavedKinds
<1>4. StoppedEnds
  BY <1>0 DEF StoppedEnds, StoppedOnes
<1>5. DeletedGone
  BY <1>0 DEF DeletedGone, DrawerInv, OneAtATime, Standing
<1>6. ToolsLeftClosed
  BY <1>0, PhoneMcpInvSafe
<1> QED
  BY <1>1, <1>2, <1>3, <1>4, <1>5, <1>6 DEF MobileAgrees

-----------------------------------------------------------------------------
(* The devices together *)

Phone == {"chats", "deletion", "mcp"}

\* One that is not in focus stays as it began.
DevicesInv ==
    /\ focus \in {"video", "operations"} => AndroidInv
    /\ focus = "automation" => AutomationInv
    /\ focus = "install" => InstallInv
    /\ focus \in Phone => MobileInv

LEMMA DevicesStart == Init => DevicesInv
  BY AndroidStarts, AutomationStarts, InstallStarts, MobileStarts DEF Init, DevicesInv

\* What is in focus takes a step of its own.
LEMMA InFocus ==
    ASSUME [Next]_devicesVars
    PROVE  /\ focus' = focus
           /\ focus \in {"video", "operations"} => [AndroidNext]_androidVars
           /\ [AutomationNext]_automationVars
           /\ [InstallNext]_installVars
           /\ [MobileNext]_mobileVars
<1>1. CASE UNCHANGED devicesVars
  BY <1>1 DEF devicesVars
<1>2. CASE Next
  <2>1. focus' = focus /\ (focus \in {"video", "operations"} => AndroidNext)
    BY <1>2 DEF Next
  <2>2. [AutomationNext]_automationVars
    BY <1>2 DEF Next
  <2>3. [InstallNext]_installVars
    BY <1>2 DEF Next
  <2>4. [MobileNext]_mobileVars
    BY <1>2 DEF Next, MobileNext
  <2> QED
    BY <2>1, <2>2, <2>3, <2>4
<1> QED
  BY <1>1, <1>2

LEMMA DevicesKept == DevicesInv /\ [Next]_devicesVars => DevicesInv'
<1> SUFFICES ASSUME DevicesInv, [Next]_devicesVars PROVE DevicesInv'
  OBVIOUS
<1>1. /\ focus' = focus
      /\ focus \in {"video", "operations"} => [AndroidNext]_androidVars
      /\ [AutomationNext]_automationVars
      /\ [InstallNext]_installVars
      /\ [MobileNext]_mobileVars
  BY InFocus
<1>2. focus \in {"video", "operations"} => AndroidInv'
  BY <1>1, AndroidKept DEF DevicesInv
<1>3. focus = "automation" => AutomationInv'
  BY <1>1, AutomationKept DEF DevicesInv
<1>4. focus = "install" => InstallInv'
  BY <1>1, InstallKept DEF DevicesInv
<1>5. focus \in Phone => MobileInv'
  BY <1>1, MobileKept DEF DevicesInv
<1> QED
  BY <1>1, <1>2, <1>3, <1>4, <1>5 DEF DevicesInv, Phone

LEMMA DevicesAlways == Spec => []DevicesInv
<1>1. Init => DevicesInv
  BY DevicesStart
<1>2. DevicesInv /\ [Next]_devicesVars => DevicesInv'
  BY DevicesKept
<1> QED
  BY <1>1, <1>2, PTL DEF Spec

\* THE DEVICE: it is released only after the last turn of its owner, and one stream
\* shows it (android-host.ts, android-presentation.ts): for any owners, operations
\* and viewers.
THEOREM DeviceKept == Spec => []DeviceSafe
<1>1. DevicesInv => DeviceSafe
  BY AndroidInvSafe DEF DevicesInv, DeviceSafe
<1> QED
  BY <1>1, DevicesAlways, PTL

\* THE SCREEN: an agent acts on what it has seen, or not at all, however the screen
\* changes between what it read and what it does (automation.ts, coordinates.ts):
\* for any scenes.
THEOREM ActsOnSeen == Spec => []AutomationSafe
<1>1. DevicesInv => AutomationSafe
  BY AutomationInvSafe DEF DevicesInv, AutomationSafe
<1> QED
  BY <1>1, DevicesAlways, PTL

\* THE INSTALLATION: what worked still does or lies complete beside its place, and
\* only a complete one is used, whatever fails, is cancelled or dies in whatever
\* order (installer.ts): for any number of components, jobs and crashes.
THEOREM InstallationStands == Spec => []InstallationSafe
<1>1. DevicesInv => InstallationSafe
  BY InstallInvSafe DEF DevicesInv, InstallationSafe
<1> QED
  BY <1>1, DevicesAlways, PTL

\* THE TOOLS OF THE USER: no step of an installation moves or replaces a tool the
\* user put there, even one that came while the job ran (installer.ts).
THEOREM ForeignToolsKept == Spec => ForeignKept
<1> DEFINE Kept == \A p \in Components : dir[p] = "foreign" => dir'[p] = "foreign"
<1>1. ASSUME DevicesInv, [Next]_devicesVars PROVE [Kept]_installVars
  <2>1. focus' = focus /\ [InstallNext]_installVars
    BY <1>1, InFocus
  <2>2. CASE focus = "install"
    BY <1>1, <2>1, <2>2, ForeignStays DEF DevicesInv
  <2>3. CASE focus # "install"
    BY <1>1, <2>3 DEF Next, devicesVars, installVars
  <2> QED
    BY <2>2, <2>3
<1> QED
  BY <1>1, DevicesAlways, PTL DEF Spec, ForeignKept

\* THE PHONE: a message is shown on the screen of its chat only, however late the
\* loads of earlier screens answer; what was sent is shown as it was saved; a turn
\* that was stopped ends; a deleted chat is forgotten; a run leaves no MCP client
\* open (ChatScreen.tsx, ChatSidebar.tsx, mobile-mcp.ts): for any chats, messages,
\* screens and calls.
THEOREM PhoneAgrees == Spec => []PhoneSafe
<1>1. DevicesInv => PhoneSafe
  BY MobileInvSafe DEF DevicesInv, PhoneSafe, Phone
<1> QED
  BY <1>1, DevicesAlways, PTL

=============================================================================
