-------------------------------- MODULE TeamPage --------------------------------
(***************************************************************************)
(* The multi-agent page: the collaborations of the account with their team     *)
(* templates, which of them or of their tasks is selected, the template being    *)
(* edited or the task being shown, and the answers of the API that change what   *)
(* is shown whenever they come: the list, a loaded task, a saved template, a     *)
(* created collaboration or task, the updates of the task the page runs.        *)
(*                                                                         *)
(* A template is known by the team it was first written for; an edit keeps     *)
(* that, whatever else it changes.  The collaboration a run consists of is      *)
(* the module Collaboration.                                                 *)
(***************************************************************************)
EXTENDS FiniteSets

CONSTANTS
    Teams,         \* the collaborations that may exist
    TeamTasks,     \* the tasks that may exist
    Nothing        \* stands for no team, no task

VARIABLES
    template,      \* the API: each collaboration's template, Nothing if there is none
    owner,         \* the API: each task's collaboration, Nothing if there is none
    copies,        \* the page's list: the template of each collaboration it shows
    selected,      \* the selected team and task, kept in the session storage
    shown,         \* the page: mounted, the template edited, the task shown
    asked,         \* the requests on their way
    ran,           \* the tasks the page is running
    crossed        \* history: an answer or a button changed only half of the page

teamVars == <<template, owner, copies, selected, shown, asked, ran, crossed>>

\* A request of each kind at a time: what it was asked with.
NoSaveOfTeam == [team |-> Nothing, content |-> Nothing, done |-> FALSE]
NoneAsked == [first |-> FALSE, again |-> FALSE, load |-> Nothing, create |-> FALSE,
              save |-> NoSaveOfTeam, task |-> Nothing, told |-> Nothing,
              remove |-> [target |-> Nothing, selected |-> FALSE]]
Away == [mounted |-> FALSE, team |-> Nothing, task |-> Nothing, dialog |-> FALSE]

TeamInit ==
    /\ \E existing \in SUBSET Teams :
           template = [x \in Teams |-> IF x \in existing THEN x ELSE Nothing]
    /\ owner = [k \in TeamTasks |-> Nothing]
    /\ copies = [x \in Teams |-> Nothing]
    /\ selected = [team |-> Nothing, task |-> Nothing]
    /\ shown = Away /\ asked = NoneAsked /\ ran = {} /\ crossed = FALSE

Stored == UNCHANGED <<template, owner>>

(***************************************************************************)
(* Opening the page and what the list brings.                              *)
(***************************************************************************)
Mount ==
    /\ ~shown.mounted
    /\ shown' = [Away EXCEPT !.mounted = TRUE]
    /\ asked' = [asked EXCEPT !.first = TRUE, !.load = selected.task]
    /\ UNCHANGED <<template, owner, copies, selected, ran, crossed>>

\* Answers of requests the page made before do not change it any more; what
\* they have done at the API stays.
Unmount ==
    /\ shown.mounted
    /\ shown' = Away /\ asked' = NoneAsked
    /\ copies' = [x \in Teams |-> Nothing]
    /\ ran' = {}
    /\ UNCHANGED <<template, owner, selected, crossed>>

\* The first list also opens the template of the team selected last.
FirstListed ==
    /\ asked.first
    /\ \/ /\ copies' = template
          /\ shown' = IF selected.task = Nothing /\ selected.team # Nothing
                         /\ copies'[selected.team] # Nothing
                      THEN [shown EXCEPT !.team = copies'[selected.team]] ELSE shown
       \/ UNCHANGED <<copies, shown>>
    /\ asked' = [asked EXCEPT !.first = FALSE]
    /\ Stored /\ UNCHANGED <<selected, ran, crossed>>

ListedAgain ==
    /\ asked.again
    /\ copies' \in {template, copies}
    /\ asked' = [asked EXCEPT !.again = FALSE]
    /\ Stored /\ UNCHANGED <<selected, shown, ran, crossed>>

(***************************************************************************)
(* Selecting.                                                              *)
(***************************************************************************)
\* Mutant: the template of the collaboration before stays in the editor.
SelectOnly(x, list) ==
    /\ selected' = [team |-> x, task |-> Nothing]
    /\ shown' = [shown EXCEPT !.task = Nothing]

Select(x, list) ==
    /\ selected' = [team |-> x, task |-> Nothing]
    /\ shown' = [shown EXCEPT !.task = Nothing, !.team = list[x], !.dialog = @]

SelectAgent(x) ==
    /\ shown.mounted /\ copies[x] # Nothing
    /\ Select(x, copies)
    /\ asked' = [asked EXCEPT !.load = Nothing]
    /\ Stored /\ UNCHANGED <<copies, ran, crossed>>

\* What was shown stays until the task is loaded; a load asked before for
\* another task is ignored.
SelectTask(k) ==
    /\ shown.mounted
    /\ owner[k] # Nothing /\ copies[owner[k]] # Nothing
    /\ k # selected.task
    /\ selected' = [selected EXCEPT !.task = k]
    /\ asked' = [asked EXCEPT !.load = k]
    /\ Stored /\ UNCHANGED <<copies, shown, ran, crossed>>

\* A task that is shown ends the editing of a template.
ApplySnapshot(k) == shown' = [shown EXCEPT !.task = k, !.team = Nothing]

TaskLoaded ==
    /\ asked.load # Nothing
    /\ \/ owner[asked.load] # Nothing /\ ApplySnapshot(asked.load)
       \/ UNCHANGED shown
    /\ asked' = [asked EXCEPT !.load = Nothing]
    /\ Stored /\ UNCHANGED <<copies, selected, ran, crossed>>

(***************************************************************************)
(* Creating, editing and saving a collaboration.                           *)
(***************************************************************************)
CreateCollaboration ==
    /\ shown.mounted /\ ~asked.create
    /\ asked' = [asked EXCEPT !.create = TRUE]
    /\ Stored /\ UNCHANGED <<copies, selected, shown, ran, crossed>>

\* The API plans the team with a model; the page opens it for editing.
Created(x) ==
    /\ asked.create /\ template[x] = Nothing
    /\ \A k \in TeamTasks : owner[k] # x
    /\ template' = [template EXCEPT ![x] = x]
    /\ copies' = [copies EXCEPT ![x] = x]
    /\ Select(x, copies')
    /\ asked' = [asked EXCEPT !.create = FALSE, !.load = Nothing]
    /\ UNCHANGED <<owner, ran, crossed>>

CreateFails ==
    /\ asked.create
    /\ asked' = [asked EXCEPT !.create = FALSE]
    /\ Stored /\ UNCHANGED <<copies, selected, shown, ran, crossed>>

\* The template shown, with its edits, is sent for the team selected.
SaveTeam ==
    /\ shown.team # Nothing /\ selected.team # Nothing /\ copies[selected.team] # Nothing
    /\ asked.save = NoSaveOfTeam
    /\ asked' = [asked EXCEPT !.save = [team |-> selected.team, content |-> shown.team,
                                        done |-> FALSE]]
    /\ Stored /\ UNCHANGED <<copies, selected, shown, ran, crossed>>

TeamPatched ==
    /\ asked.save # NoSaveOfTeam /\ ~asked.save.done
    /\ IF template[asked.save.team] # Nothing
       THEN /\ template' = [template EXCEPT ![asked.save.team] = asked.save.content]
            /\ asked' = [asked EXCEPT !.save.done = TRUE]
       ELSE asked' = [asked EXCEPT !.save = NoSaveOfTeam] /\ UNCHANGED template
    /\ UNCHANGED <<owner, copies, selected, shown, ran, crossed>>

\* The saved template is shown, whatever has been selected meanwhile.
TeamSaved ==
    /\ asked.save.done
    /\ copies' = [copies EXCEPT ![asked.save.team] =
                     IF @ = Nothing THEN @ ELSE asked.save.content]
    /\ shown' = [shown EXCEPT !.team = asked.save.content]
    /\ asked' = [asked EXCEPT !.save = NoSaveOfTeam]
    /\ crossed' = (crossed \/ selected.team # asked.save.team)
    /\ Stored /\ UNCHANGED <<selected, ran>>

(***************************************************************************)
(* Running.                                                                *)
(***************************************************************************)
\* The button of a collaboration in the sidebar selects it for the dialog,
\* and leaves the template of another where it is.
RunAgent(x) ==
    /\ shown.mounted /\ copies[x] # Nothing
    /\ selected' = [selected EXCEPT !.team = x]
    /\ shown' = [shown EXCEPT !.dialog = TRUE]
    /\ crossed' = (crossed \/ shown.team \notin {x, Nothing})
    /\ Stored /\ UNCHANGED <<copies, asked, ran>>

RunShown ==
    /\ shown.team # Nothing
    /\ shown' = [shown EXCEPT !.dialog = TRUE]
    /\ Stored /\ UNCHANGED <<copies, selected, asked, ran, crossed>>

CloseDialog ==
    /\ shown.dialog
    /\ shown' = [shown EXCEPT !.dialog = FALSE]
    /\ Stored /\ UNCHANGED <<copies, selected, asked, ran, crossed>>

StartRun ==
    /\ shown.dialog /\ selected.team # Nothing /\ asked.task = Nothing
    /\ asked' = [asked EXCEPT !.task = selected.team]
    /\ Stored /\ UNCHANGED <<copies, selected, shown, ran, crossed>>

\* The task is selected, shown and, when the models allow it, run.
TaskCreated(k) ==
    /\ asked.task # Nothing /\ template[asked.task] # Nothing
    /\ owner[k] = Nothing
    /\ owner' = [owner EXCEPT ![k] = asked.task]
    /\ selected' = [selected EXCEPT !.task = k]
    /\ shown' = [shown EXCEPT !.task = k, !.team = Nothing, !.dialog = FALSE]
    /\ asked' = [asked EXCEPT !.task = Nothing, !.load = k]
    /\ ran' \in {ran, ran \cup {k}}
    /\ UNCHANGED <<template, copies, crossed>>

RunRefused ==
    /\ asked.task # Nothing
    /\ asked' = [asked EXCEPT !.task = Nothing]
    /\ Stored /\ UNCHANGED <<copies, selected, shown, ran, crossed>>

RunAgain ==
    /\ shown.task # Nothing /\ shown.task \notin ran /\ owner[shown.task] # Nothing
    /\ ran' = ran \cup {shown.task}
    /\ Stored /\ UNCHANGED <<copies, selected, shown, asked, crossed>>

\* Every update of a running task shows it, whatever is selected.
RunUpdated(k) ==
    /\ k \in ran
    /\ ApplySnapshot(k)
    /\ Stored /\ UNCHANGED <<copies, selected, asked, ran, crossed>>

RunEnded(k) ==
    /\ k \in ran
    /\ ApplySnapshot(k)
    /\ ran' = ran \ {k}
    /\ asked' = [asked EXCEPT !.again = TRUE]
    /\ Stored /\ UNCHANGED <<copies, selected, crossed>>

\* A message to the group of the task that is shown, or a stop of its run.
TellTask ==
    /\ shown.task # Nothing /\ asked.told = Nothing
    /\ asked' = [asked EXCEPT !.told = shown.task]
    /\ Stored /\ UNCHANGED <<copies, selected, shown, ran, crossed>>

\* The answer shows the task as it is now, whatever is selected; a message to
\* a task that waits runs it again, a stop reloads the list.
TaskTold ==
    /\ asked.told # Nothing
    /\ \/ /\ owner[asked.told] # Nothing /\ ApplySnapshot(asked.told)
          /\ \/ ran' = ran \cup {asked.told} /\ asked' = [asked EXCEPT !.told = Nothing]
             \/ UNCHANGED ran /\ asked' = [asked EXCEPT !.told = Nothing, !.again = TRUE]
             \/ UNCHANGED ran /\ asked' = [asked EXCEPT !.told = Nothing]
       \/ asked' = [asked EXCEPT !.told = Nothing] /\ UNCHANGED <<shown, ran>>
    /\ Stored /\ UNCHANGED <<copies, selected, crossed>>

(***************************************************************************)
(* Deleting.                                                               *)
(***************************************************************************)
\* Neither a running task nor its collaboration offers its deletion.  A
\* selected task leaves the page at once, a collaboration when it is deleted.
ConfirmDeleteOf(x) ==
    /\ shown.mounted /\ asked.remove.target = Nothing
    /\ \/ x \in Teams /\ copies[x] # Nothing /\ (\A k \in ran : owner[k] # x)
       \/ x \in TeamTasks /\ owner[x] # Nothing /\ x \notin ran
    /\ LET leaves == x \in TeamTasks /\ selected.task = x
       IN  /\ selected' = [selected EXCEPT !.task = IF leaves THEN Nothing ELSE @]
           /\ shown' = [shown EXCEPT !.task = IF leaves THEN Nothing ELSE @]
           /\ asked' = [asked EXCEPT
                           !.remove = [target |-> x, selected |-> selected.team = x],
                           !.load = IF leaves THEN Nothing ELSE @]
    /\ Stored /\ UNCHANGED <<copies, ran, crossed>>

\* Deleting a collaboration deletes its tasks.
DeletedAtApi ==
    LET x == asked.remove.target
        cleared == asked.remove.selected
    IN  /\ x # Nothing
        /\ template' = [t \in Teams |-> IF t = x THEN Nothing ELSE template[t]]
        /\ owner' = [k \in TeamTasks |-> IF x \in {k, owner[k]} THEN Nothing ELSE owner[k]]
        /\ IF cleared
           THEN /\ selected' = [team |-> Nothing, task |-> Nothing]
                /\ shown' = [shown EXCEPT !.team = Nothing, !.task = Nothing]
           ELSE UNCHANGED <<selected, shown>>
        /\ asked' = [asked EXCEPT !.remove = NoneAsked.remove, !.again = TRUE,
                                  !.load = IF cleared THEN Nothing ELSE @]
        /\ UNCHANGED <<copies, ran, crossed>>

DeleteFails ==
    /\ asked.remove.target # Nothing
    /\ asked' = [asked EXCEPT !.remove = NoneAsked.remove]
    /\ Stored /\ UNCHANGED <<copies, selected, shown, ran, crossed>>

TeamNext ==
    \/ Mount \/ Unmount \/ FirstListed \/ ListedAgain \/ TaskLoaded
    \/ CreateCollaboration \/ CreateFails \/ SaveTeam \/ TeamPatched \/ TeamSaved
    \/ RunShown \/ CloseDialog \/ StartRun \/ RunRefused \/ RunAgain \/ TellTask \/ TaskTold
    \/ DeletedAtApi \/ DeleteFails
    \/ \E x \in Teams : SelectAgent(x) \/ Created(x) \/ RunAgent(x) \/ ConfirmDeleteOf(x)
    \/ \E k \in TeamTasks : SelectTask(k) \/ TaskCreated(k) \/ ConfirmDeleteOf(k)
                           \/ RunUpdated(k) \/ RunEnded(k)

(***************************************************************************)
(* Properties.                                                             *)
(***************************************************************************)
\* The variables stay in their types, and nothing is asked by a page that has
\* been left.
TeamTypeOK ==
    /\ template \in [Teams -> Teams \cup {Nothing}] /\ copies \in [Teams -> Teams \cup {Nothing}]
    /\ owner \in [TeamTasks -> Teams \cup {Nothing}]
    /\ selected \in [team : Teams \cup {Nothing}, task : TeamTasks \cup {Nothing}]
    /\ shown.mounted \/ (asked = NoneAsked /\ shown = Away)
    /\ ran \subseteq TeamTasks /\ crossed \in BOOLEAN

\* However the list, loads, updates of a running task, creations, deletions and
\* selections follow one another, the template in the editor is the one of the
\* selected collaboration, so that saving it cannot overwrite another's; except
\* after the run button of another collaboration, or an answer to a save that
\* came when another was selected.
EditsSelected ==
    ~crossed => /\ shown.team \in {selected.team, Nothing}
                /\ asked.save.content = asked.save.team

=============================================================================
