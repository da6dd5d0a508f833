--------------------------------- MODULE Skills ---------------------------------
(***************************************************************************)
(* One skill of the account on one desktop: the archive the API keeps under   *)
(* the skill's name, the directory the main process unpacks it into, the       *)
(* uploads, downloads and removals of the settings page, and the agent that     *)
(* loads its instructions, downloading them first when they are missing.  The   *)
(* application may be quit or die between any two steps.                      *)
(*                                                                         *)
(* An archive is its version; its files are Manifest (SKILL.md) and others.    *)
(***************************************************************************)
EXTENDS Naturals, FiniteSets

CONSTANTS
    Tasks,         \* the uploads, downloads, removals and loads that may overlap
    Files,         \* the files of the skill's archives
    Manifest,      \* SKILL.md, whose presence says that the skill is installed
    MaxVersion     \* bound: how many archives are uploaded

ASSUME ManifestAssumption == Manifest \in Files
ASSUME MaxVersionAssumption == MaxVersion \in Nat \ {0}

VARIABLES
    package,       \* the version the API keeps; 0 when it has none
    uploaded,      \* how many versions there have been
    folder,        \* each file of the skill's directory: its version, 0 if absent
    task,          \* each task: kind, step, the digest listed and archive it has
    panel,         \* the settings page: the skill it lists and what is busy
    cut            \* history: the application ended while files were removed

skillVars == <<package, uploaded, folder, task, panel, cut>>

Versions == 0..MaxVersion
IdleTask == [kind |-> "none", step |-> "idle", digest |-> 0, archive |-> 0]
Emptied == [f \in Files |-> 0]
Unpacked(v) == [f \in Files |-> v]
Installed == folder[Manifest] # 0
ClosedPanel == [open |-> FALSE, shows |-> "nothing", installing |-> FALSE, busy |-> FALSE]

SkillsInit ==
    /\ package = 1 /\ uploaded = 1
    /\ folder \in {Emptied, Unpacked(1)}
    /\ task = [t \in Tasks |-> IdleTask]
    /\ panel = ClosedPanel /\ cut = FALSE

Goes(t, step) == task' = [task EXCEPT ![t].step = step]
Begin(t, kind, step) ==
    /\ task[t] = IdleTask
    /\ task' = [task EXCEPT ![t] = [IdleTask EXCEPT !.kind = kind, !.step = step]]

(***************************************************************************)
(* The settings page.                                                      *)
(***************************************************************************)
ListedAs == IF package = 0 THEN "nothing" ELSE IF Installed THEN "installed" ELSE "remote"

OpenPanel ==
    /\ ~panel.open
    /\ panel' = [ClosedPanel EXCEPT !.open = TRUE, !.shows = ListedAs]
    /\ UNCHANGED <<package, uploaded, folder, task, cut>>

LeavePanel ==
    /\ panel.open /\ ~panel.installing /\ ~panel.busy
    /\ panel' = ClosedPanel
    /\ UNCHANGED <<package, uploaded, folder, task, cut>>

\* The user picks an archive; it is read and checked before it is sent.
ClickUpload(t) ==
    /\ panel.open /\ ~panel.installing
    /\ Begin(t, "upload", "post")
    /\ panel' = [panel EXCEPT !.installing = TRUE]
    /\ UNCHANGED <<package, uploaded, folder, cut>>

ClickDownload(t) ==
    /\ panel.shows = "remote" /\ ~panel.busy
    /\ Begin(t, "download", "list")
    /\ panel' = [panel EXCEPT !.busy = TRUE]
    /\ UNCHANGED <<package, uploaded, folder, cut>>

ConfirmRemoval(t, kind) ==
    /\ panel.shows = "installed" \/ (panel.shows = "remote" /\ kind = "delete")
    /\ Begin(t, kind, IF kind = "delete" THEN "delete" ELSE "clear")
    /\ UNCHANGED <<package, uploaded, folder, panel, cut>>

\* The agent loads the skill in a turn.
LoadCapability(t) ==
    /\ Begin(t, "load", "find")
    /\ UNCHANGED <<package, uploaded, folder, panel, cut>>

(***************************************************************************)
(* The steps of a task.                                                    *)
(***************************************************************************)
\* The end of a task; the page lists again when it was one of its own.
Ends(t, shows) ==
    /\ task' = [task EXCEPT ![t] = IdleTask]
    /\ panel' = [panel EXCEPT !.shows = IF panel.open THEN shows ELSE @,
                              !.installing = @ /\ task[t].kind # "upload",
                              !.busy = @ /\ task[t].kind # "download"]

Fails(t) ==
    /\ task[t].step \in {"post", "list", "fetch", "stage", "find", "delete"}
    /\ Ends(t, panel.shows)
    /\ UNCHANGED <<package, uploaded, folder, cut>>

\* The API keeps the archive under the name, replacing the one it had.
ArchivePosted(t) ==
    /\ task[t].step = "post" /\ uploaded < MaxVersion
    /\ uploaded' = uploaded + 1 /\ package' = uploaded'
    /\ task' = [task EXCEPT ![t].archive = uploaded', ![t].step = "stage"]
    /\ UNCHANGED <<folder, panel, cut>>

\* The load of an installed skill reads its instructions; another downloads.
SkillFound(t) ==
    /\ task[t].step = "find" /\ package # 0
    /\ Goes(t, IF Installed THEN "read" ELSE "list")
    /\ UNCHANGED <<package, uploaded, folder, panel, cut>>

SkillListed(t) ==
    /\ task[t].step = "list" /\ package # 0
    /\ task' = [task EXCEPT ![t].digest = package, ![t].step = "fetch"]
    /\ UNCHANGED <<package, uploaded, folder, panel, cut>>

\* An archive with another digest than the one listed is refused.
ArchiveFetched(t) ==
    /\ task[t].step = "fetch" /\ package = task[t].digest
    /\ task' = [task EXCEPT ![t].archive = package, ![t].step = "stage"]
    /\ UNCHANGED <<package, uploaded, folder, panel, cut>>

\* The files are written to a directory of the task's own.
Staged(t) ==
    /\ task[t].step = "stage"
    /\ Goes(t, "clear")
    /\ UNCHANGED <<package, uploaded, folder, panel, cut>>

ArchiveDeleted(t) ==
    /\ task[t].step = "delete"
    /\ package' = 0
    /\ Goes(t, "clear")
    /\ UNCHANGED <<uploaded, folder, panel, cut>>

\* The recursive removal takes the files one by one, whoever put them there.
ClearFile(t, f) ==
    /\ task[t].step = "clear" /\ folder[f] # 0
    /\ folder' = [folder EXCEPT ![f] = 0]
    /\ UNCHANGED <<package, uploaded, task, panel, cut>>

Cleared(t) ==
    /\ task[t].step = "clear" /\ folder = Emptied
    /\ cut' = FALSE
    /\ IF task[t].kind \in {"remove", "delete"}
       THEN Ends(t, ListedAs)
       ELSE Goes(t, "rename") /\ UNCHANGED panel
    /\ UNCHANGED <<package, uploaded, folder>>

\* Mutant: the staged files are moved one by one over those that are there.
RenamedOver(t) ==
    /\ task[t].step = "rename"
    /\ \E f \in Files : folder' = [Unpacked(task[t].archive) EXCEPT ![f] = folder[f]]
    /\ Ends(t, panel.shows)
    /\ UNCHANGED <<package, uploaded, cut>>

\* The staged directory takes its name, unless a directory has it already.
Renamed(t) ==
    /\ task[t].step = "rename"
    /\ IF folder = Emptied
       THEN /\ folder' = Unpacked(task[t].archive)
            /\ IF task[t].kind = "load" THEN Goes(t, "read") /\ UNCHANGED panel
               ELSE Ends(t, IF package = 0 THEN "nothing" ELSE "installed")
       ELSE UNCHANGED folder /\ Ends(t, panel.shows)
    /\ UNCHANGED <<package, uploaded, cut>>

\* The instructions are read, or found missing.
InstructionsRead(t) ==
    /\ task[t].step = "read"
    /\ Ends(t, panel.shows)
    /\ UNCHANGED <<package, uploaded, folder, cut>>

\* The application ends; what it was doing is lost, the directory stays.
Quit ==
    /\ cut' = (folder # Emptied /\ (cut \/ \E t \in Tasks : task[t].step = "clear"))
    /\ task' = [t \in Tasks |-> IdleTask]
    /\ panel' = ClosedPanel
    /\ UNCHANGED <<package, uploaded, folder>>

\* Another desktop of the account uploads or deletes the skill.
ElsewhereChanged ==
    /\ \/ uploaded < MaxVersion /\ uploaded' = uploaded + 1 /\ package' = uploaded'
       \/ package # 0 /\ package' = 0 /\ UNCHANGED uploaded
    /\ UNCHANGED <<folder, task, panel, cut>>

SkillsNext ==
    \/ OpenPanel \/ LeavePanel \/ Quit \/ ElsewhereChanged
    \/ \E t \in Tasks :
          \/ ClickUpload(t) \/ ClickDownload(t) \/ LoadCapability(t)
          \/ \E kind \in {"remove", "delete"} : ConfirmRemoval(t, kind)
          \/ Fails(t) \/ ArchivePosted(t) \/ SkillFound(t) \/ SkillListed(t)
          \/ ArchiveFetched(t) \/ Staged(t) \/ ArchiveDeleted(t)
          \/ \E f \in Files : ClearFile(t, f)
          \/ Cleared(t) \/ Renamed(t) \/ InstructionsRead(t)

(***************************************************************************)
(* Properties.                                                             *)
(***************************************************************************)
\* The variables stay in their types.
SkillsTypeOK ==
    /\ package \in Versions /\ uploaded \in Versions
    /\ folder \in [Files -> Versions]
    /\ panel.shows \in {"nothing", "remote", "installed"}
    /\ \A t \in Tasks : task[t].digest \in Versions /\ task[t].archive \in Versions
    /\ cut \in BOOLEAN

\* However uploads, downloads, removals and an end of the application overlap,
\* the skill's directory never mixes the files of two archives; and when no task
\* runs it is a whole archive or nothing, unless the application ended in the
\* middle of a removal.
OneArchive ==
    /\ Cardinality({folder[f] : f \in Files} \ {0}) <= 1
    /\ (\A t \in Tasks : task[t] = IdleTask) /\ ~cut
           => folder = Emptied \/ folder = Unpacked(folder[Manifest])

=============================================================================
