------------------------------ MODULE MCDesktop ------------------------------
(***************************************************************************)
(* TLC instance of components of the desktop that share no state: the      *)
(* workspace of a team, its collaboration, speech, the browser, the        *)
(* composer and the sidebar.  Their product says nothing more than each of *)
(* them, so a behaviour is one of a single component; focus names it, and  *)
(* what of the component it is about: being read to or dictating; where    *)
(* pages of the browser are shown, which tool acts on them, or what they   *)
(* download; the draft, the strip of the queue or the suggestions; the     *)
(* list of chats, the search over them or the one in a conversation.       *)
(***************************************************************************)
EXTENDS Workspace, Collaboration, Speech, Browser, Composer, Sidebar, TLC

CONSTANTS Focuses, host, guest, p1, p2, p3, t1, x1, x2, y1, y2

VARIABLE focus

desktopVars == <<workspaceVars, collaborationVars, speechVars, browserVars, composerVars,
                 sidebarVars, focus>>

\* One member patches twice and runs a terminal, the other patches.
MCWriter == (p1 :> host) @@ (p2 :> host) @@ (t1 :> host) @@ (p3 :> guest)

\* Both tool calls are of one conversation: calls of different ones never meet.
MCCallOf == [k \in {x1, x2} |-> host]

\* The requests of the page are drawn at random, the recordings are alike, and
\* so are tool calls and pages.  Only one component is in focus, so they may
\* share their model values.
Symmetry == Permutations({x1, x2}) \cup Permutations({y1, y2})

Init ==
    /\ focus \in Focuses
    /\ WorkspaceInit /\ CollaborationInit /\ SpeechInit /\ BrowserInit
    /\ ComposerInit /\ SidebarInit

\* bound: the user of a team does not stop it while a message of his is posted.
SendsOrStops == screen'.sending = {} \/ screen'.stopping = {}

Next ==
    /\ UNCHANGED focus
    /\ IF focus = "workspace" THEN WorkspaceNext ELSE UNCHANGED workspaceVars
    /\ IF focus = "collaboration" THEN CollaborationNext /\ SendsOrStops ELSE UNCHANGED collaborationVars
    /\ \/ focus = "reading" /\ SpeechNext /\ UNCHANGED <<recording, current, chat>>
       \/ focus = "voice" /\ SpeechNext /\ \A i \in Readings \ {1} : speech'[i] = "none"
       \/ focus \notin {"reading", "voice"} /\ UNCHANGED speechVars
    /\ \/ focus = "views" /\ BrowserNext /\ UNCHANGED <<toolVars, download>>
       \/ /\ focus = "tools" /\ BrowserNext /\ UNCHANGED <<detached, tracking, download>>
          /\ ~Live(session'[guest])
       \/ /\ focus = "downloads" /\ BrowserNext /\ UNCHANGED <<viewVars, dialog>>
          /\ \E k \in ToolCalls : \A i \in ToolCalls \ {k} : toolCall'[i].at = "idle"
          /\ \A k \in ToolCalls : ~toolCall'[k].aborted
       \/ focus \notin {"views", "tools", "downloads"} /\ UNCHANGED browserVars
    /\ \/ focus = "draft" /\ DraftNext /\ UNCHANGED <<strip, carousel>>
       \/ focus = "strip" /\ StripNext /\ UNCHANGED <<draftVars, carousel>>
       \/ focus = "suggestions" /\ CarouselNext /\ UNCHANGED <<draftVars, strip>>
       \/ focus \notin {"draft", "strip", "suggestions"} /\ UNCHANGED composerVars
    /\ \/ focus = "projects" /\ ProjectsNext /\ UNCHANGED <<finderVars, searchVars>>
       \/ focus = "finder" /\ FinderNext /\ UNCHANGED <<projectVars, searchVars>>
       \/ focus = "search" /\ SearchNext /\ UNCHANGED <<projectVars, finderVars>>
       \/ focus \notin {"projects", "finder", "search"} /\ UNCHANGED sidebarVars

Spec == Init /\ [][Next]_desktopVars

-----------------------------------------------------------------------------
(* The invariants of the components.  One that is not in focus stays as it  *)
(* began, so each is asked in the behaviours of its own; WorkspaceSafe also *)
(* holds of what the workspace began with.                                  *)

\* The conversation of a team neither splits nor stalls on the server, whatever
\* stale orchestrators post and the user sends or stops (commands.py, state.py).
CollaborationSafe == focus = "collaboration" => CollaborationTypeOK /\ FloorPasses

\* Answers are read in turn, no microphone stays open behind the user's back, and
\* no spoken sentence is lost or sent twice (desktop/src/features/speech).
SpeechSafe ==
    focus \in {"reading", "voice"} => SpeechTypeOK /\ ReadInTurn /\ MicrophoneReleased /\ SpokenKept

\* Pages are visible where their windows have them mounted, and the tools of a
\* conversation act one at a time (browser-host.ts).
BrowserSafe ==
    focus \in {"views", "tools", "downloads"} => BrowserTypeOK /\ ViewsFollow /\ ToolsInTurn

\* Nothing typed is lost or sent without its image, and the strip and the
\* suggestions are those of now (TaskComposer.tsx, PromptEditor.tsx).
ComposerSafe == focus \in {"draft", "strip", "suggestions"} => ComposerAgrees

\* The list of chats and what is found are of the newest question, whichever of two
\* answers comes last (ProjectList.tsx, useConversationSearch.ts).
SidebarSafe == focus \in {"projects", "finder", "search"} => SidebarAgrees

=============================================================================
