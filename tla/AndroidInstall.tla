---------------------------- MODULE AndroidInstall ----------------------------
(***************************************************************************)
(* The installation of the Android tools by the desktop: the job that       *)
(* downloads, unpacks and publishes one component after the other beside    *)
(* what is there already, is cancelled, fails or dies with the application, *)
(* and activates what it installed (packages/android-use/src/install;       *)
(* desktop/electron/android: android-installation.ts, android-service.ts).  *)
(*                                                                         *)
(* What is on the disk survives a crash, the job does not.                 *)
(***************************************************************************)
EXTENDS Naturals

CONSTANTS
    Parts,       \* the number of components, which a job takes in order
    MaxJobs,     \* bound: the installations that are started
    MaxCrashes   \* bound: the times the application dies

ASSUME InstallConstants == Parts \in Nat \ {0} /\ MaxJobs \in Nat /\ MaxCrashes \in Nat

VARIABLES
    dir,       \* component -> what its directory holds
    aside,     \* component -> the directories moved aside and not removed
    archive,   \* component -> its downloaded archive
    leftover,  \* component -> a partial download was left behind
    job,       \* the job, or the outcome of the last one
    activated, \* the settings use the directory of the installation
    jobs, crashes,
    had        \* the components that have worked, of this job or an earlier one

installVars == <<dir, aside, archive, leftover, job, activated, jobs, crashes, had>>

Components == 1..Parts
\* A directory is not there, of the user, of an earlier version, or current, and
\* one of ours may miss files.
Dirs == {"none", "foreign", "broken", "old", "current"}
Works(d) == d \in {"old", "current"}
NoJob(phase) == [phase |-> phase, at |-> 0, reused |-> {}, aborted |-> FALSE, moved |-> "none"]
Runs == job.phase \notin {"idle", "completed", "error", "canceled"}

InstallInit ==
    /\ dir \in [Components -> {"none", "foreign", "broken", "old"}]
    /\ had = {p \in Components : Works(dir[p])}
    /\ aside = [p \in Components |-> {}]
    /\ archive = [p \in Components |-> "none"]
    /\ leftover = [p \in Components |-> FALSE]
    /\ job = NoJob("idle")
    /\ activated = FALSE
    /\ jobs = 0 /\ crashes = 0

-----------------------------------------------------------------------------
disk == <<dir, aside, archive, leftover>>
Counted == UNCHANGED <<jobs, crashes, had>>

\* start: a job is started by consent, and only one at a time.
Install ==
    /\ ~Runs /\ jobs < MaxJobs
    /\ jobs' = jobs + 1
    /\ job' = NoJob("checking")
    /\ UNCHANGED <<disk, activated, crashes, had>>

\* cancel: the job is aborted until it has nothing left but its activation.
CancelInstall ==
    /\ Runs /\ job.phase # "finishing" /\ ~job.aborted
    /\ job' = [job EXCEPT !.aborted = TRUE]
    /\ UNCHANGED <<disk, activated>> /\ Counted

Failed == job' = NoJob(IF job.aborted THEN "canceled" ELSE "error")

\* What is current is taken as it is; a directory that is not ours ends the job.
IsCurrent(p) == dir[p] = "current"
Check ==
    /\ job.phase = "checking"
    /\ IF job.aborted \/ \E p \in Components : dir[p] = "foreign" THEN Failed
       ELSE job' = [job EXCEPT !.phase = "next", !.at = 0, !.reused = {p \in Components : IsCurrent(p)}]
    /\ UNCHANGED <<disk, activated>> /\ Counted

\* The disk is full, the virtualization is missing, a file cannot be read or
\* removed: the job fails where it is; a rename it has begun is taken back.
StepFails ==
    /\ job.phase \in {"checking", "verifying", "extracting", "removing"}
    /\ Failed
    /\ UNCHANGED <<disk, activated>> /\ Counted

Left(p) == {q \in (p + 1)..Parts : q \notin job.reused}
NextPart ==
    /\ job.phase = "next"
    /\ IF job.aborted THEN Failed
       ELSE IF Left(job.at) = {} THEN job' = [job EXCEPT !.phase = "finishing"]
       ELSE \E q \in Left(job.at) :
               /\ \A r \in Left(job.at) : q <= r
               /\ job' = [job EXCEPT !.phase = "verifying", !.at = q]
    /\ UNCHANGED <<disk, activated>> /\ Counted

\* An archive of the right size and sum is not downloaded again.
Verify ==
    /\ job.phase = "verifying"
    /\ IF job.aborted THEN Failed
       ELSE job' = [job EXCEPT !.phase = IF archive[job.at] = "good" THEN "extracting" ELSE "downloading"]
    /\ UNCHANGED <<disk, activated>> /\ Counted

\* The download is written beside the archive, and renamed when its sum is right.
Download ==
    /\ job.phase = "downloading"
    /\ leftover' = [leftover EXCEPT ![job.at] = FALSE]
    /\ \/ /\ ~job.aborted
          /\ archive' = [archive EXCEPT ![job.at] = "good"]
          /\ job' = [job EXCEPT !.phase = "extracting"]
       \/ Failed /\ UNCHANGED archive
    /\ UNCHANGED <<dir, aside, activated>> /\ Counted

\* The archive is unpacked in a directory of its own, with a receipt; when files
\* are missing it is not published.
Extract ==
    /\ job.phase = "extracting"
    /\ IF job.aborted THEN Failed ELSE job' = [job EXCEPT !.phase = "staged"]
    /\ UNCHANGED <<disk, activated>> /\ Counted

\* Mutant: what is there is removed to make room.
MakeRoom ==
    /\ job.phase = "staged"
    /\ IF dir[job.at] = "foreign" THEN Failed /\ UNCHANGED dir
       ELSE job' = [job EXCEPT !.phase = "moved"] /\ dir' = [dir EXCEPT ![job.at] = "none"]
    /\ UNCHANGED <<aside, archive, leftover, activated>> /\ Counted

\* Mutant: what is there is moved aside without a look at its receipt.
MoveAsideAny ==
    /\ job.phase = "staged"
    /\ job' = [job EXCEPT !.phase = "moved", !.moved = dir[job.at]]
    /\ aside' = [aside EXCEPT ![job.at] = @ \cup ({dir[job.at]} \ {"none"})]
    /\ dir' = [dir EXCEPT ![job.at] = "none"]
    /\ UNCHANGED <<archive, leftover, activated>> /\ Counted

\* publishComponent: what is there is moved aside, when its receipt says it is ours.
MoveAside ==
    /\ job.phase = "staged"
    /\ IF dir[job.at] = "foreign" THEN Failed /\ UNCHANGED <<dir, aside>>
       ELSE /\ job' = [job EXCEPT !.phase = "moved", !.moved = dir[job.at]]
            /\ aside' = [aside EXCEPT ![job.at] = @ \cup ({dir[job.at]} \ {"none"})]
            /\ dir' = [dir EXCEPT ![job.at] = "none"]
    /\ UNCHANGED <<archive, leftover, activated>> /\ Counted

Publish ==
    /\ job.phase = "moved" /\ dir[job.at] = "none"
    /\ dir' = [dir EXCEPT ![job.at] = "current"]
    /\ had' = had \cup {job.at}
    /\ job' = [job EXCEPT !.phase = "removing"]
    /\ UNCHANGED <<aside, archive, leftover, activated, jobs, crashes>>

\* The new directory cannot be renamed: the old one is put back, unless its
\* place is taken.
PublishFails ==
    /\ job.phase = "moved"
    /\ IF dir[job.at] = "none" /\ job.moved # "none"
       THEN /\ dir' = [dir EXCEPT ![job.at] = job.moved]
            /\ aside' = [aside EXCEPT ![job.at] = @ \ {job.moved}]
       ELSE UNCHANGED <<dir, aside>>
    /\ Failed
    /\ UNCHANGED <<archive, leftover, activated>> /\ Counted

\* The old directory goes, then the archive.
RemoveOld ==
    /\ job.phase = "removing"
    /\ aside' = [aside EXCEPT ![job.at] = @ \ {job.moved}]
    /\ archive' = [archive EXCEPT ![job.at] = "none"]
    /\ job' = [job EXCEPT !.phase = "next", !.moved = "none"]
    /\ UNCHANGED <<dir, leftover, activated>> /\ Counted

\* The tools are checked where they were installed, and the settings use them.
Activate ==
    /\ job.phase = "finishing"
    /\ IF \A p \in Components : IsCurrent(p)
       THEN activated' = TRUE /\ job' = NoJob("completed")
       ELSE Failed /\ UNCHANGED activated
    /\ UNCHANGED disk /\ Counted

ActivateFails ==
    /\ job.phase = "finishing"
    /\ Failed
    /\ UNCHANGED <<disk, activated>> /\ Counted

\* The application dies, a download with it.
Crash ==
    /\ Runs /\ crashes < MaxCrashes
    /\ crashes' = crashes + 1
    /\ leftover' = IF job.phase = "downloading" THEN [leftover EXCEPT ![job.at] = TRUE] ELSE leftover
    /\ job' = NoJob("idle")
    /\ UNCHANGED <<dir, aside, archive, activated, jobs, had>>

\* The user puts a tool of his own where there is none.
UserPuts(p) ==
    /\ dir[p] = "none"
    /\ dir' = [dir EXCEPT ![p] = "foreign"]
    /\ UNCHANGED <<aside, archive, leftover, job, activated>> /\ Counted

InstallNext ==
    \/ \E p \in Components : UserPuts(p)
    \/ Install \/ CancelInstall \/ Check \/ StepFails \/ NextPart \/ Verify \/ Download \/ Extract
    \/ MoveAside \/ Publish \/ PublishFails \/ RemoveOld \/ Activate \/ ActivateFails \/ Crash

-----------------------------------------------------------------------------
\* The directories, archives and the job are of the kinds the source knows.
InstallTypeOK ==
    /\ dir \in [Components -> Dirs]
    /\ aside \in [Components -> SUBSET Dirs]
    /\ archive \in [Components -> {"none", "good"}]
    /\ job.at \in 0..Parts /\ job.reused \subseteq Components
    /\ had \subseteq Components

\* A tool the user put there is never moved or replaced, even one that came
\* while the job ran.
ForeignKept == [][\A p \in Components : dir[p] = "foreign" => dir'[p] = "foreign"]_installVars

\* A component that has worked still does, or lies complete beside its place:
\* whatever fails, is cancelled or dies, in whatever order.
WorkingKept ==
    \A p \in had : Works(dir[p]) \/ \E d \in aside[p] : Works(d)

\* The settings use the installation only when every component is current.
ActivatedComplete == activated => \A p \in Components : IsCurrent(p)

\* An installation keeps what worked, and activates only what is complete.
InstallSafe == WorkingKept /\ ActivatedComplete
=============================================================================
