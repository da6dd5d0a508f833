------------------------------ MODULE MCDevices ------------------------------
(***************************************************************************)
(* TLC instance of the Android device and its tools, and of the phone: they *)
(* share no state, so a behaviour is one of a single component.  Its focus  *)
(* is the operations of turns on the device, the video of its panels, what  *)
(* an agent does on its screen, the installation of its tools; or, on the   *)
(* phone, the chats, their deletion, or the MCP clients of a run.           *)
(***************************************************************************)
EXTENDS Android, Automation, AndroidInstall, MobileChat, TLC

CONSTANTS Focuses, x1, x2, y1, y2

VARIABLE focus

devicesVars == <<androidVars, automationVars, installVars, mobileVars, focus>>

\* Only one component is in focus, and of the device its operations or its
\* viewers, so they may share model values; no two scenes of a screen are alike.
Symmetry == Permutations({x1, x2}) \cup Permutations({y1, y2})

\* What the components that are not in focus stand at.
Still ==
    /\ focus # "automation" => scene = "list"
    /\ focus # "install" => dir = [p \in Components |-> "none"]

Init ==
    /\ focus \in Focuses
    /\ AndroidInit /\ AutomationInit /\ InstallInit /\ MobileInit
    /\ Still

\* bound: chats are deleted in behaviours of one message, on up to MaxScreens
\* screens; the others have up to MaxSends messages on two screens.
PhoneBounds ==
    /\ focus = "chats" => removals' = {} /\ screen'.mount <= 2
    /\ focus = "deletion" => \A t \in PhoneTurns \ {1} : runs'[t].state = "none"

\* bound: an operation waits behind another only while no start is under way.
OneStartOrOperation == Len(pending') = 2 => \A c \in Owners : host'.start[c] = "none"

Next ==
    /\ UNCHANGED focus
    /\ \/ focus = "video" /\ AndroidNext /\ UNCHANGED <<operation, turn>>
          /\ ~host'.installing /\ ~host'.external
       \/ focus = "operations" /\ AndroidNext /\ UNCHANGED videoVars /\ OneStartOrOperation
       \/ focus \notin {"video", "operations"} /\ UNCHANGED androidVars
    /\ IF focus = "automation" THEN AutomationNext ELSE UNCHANGED automationVars
    /\ IF focus = "install" THEN InstallNext ELSE UNCHANGED installVars
    /\ \/ focus \in {"chats", "deletion"} /\ ChatNext /\ UNCHANGED <<drawerVars, phoneMcpVars>> /\ PhoneBounds
       \/ focus \in {"chats", "deletion"} /\ DrawerNext /\ UNCHANGED phoneMcpVars /\ PhoneBounds
       \/ focus = "mcp" /\ PhoneMcpNext /\ UNCHANGED <<chatVars, drawerVars>>
       \/ focus \notin {"chats", "deletion", "mcp"} /\ UNCHANGED mobileVars

Spec == Init /\ [][Next]_devicesVars

-----------------------------------------------------------------------------
(* The invariants of the components.  One that is not in focus stays as it  *)
(* began, so each is asked in the behaviours of its own.                    *)

\* The device is released only after the last turn of its owner, and one stream
\* shows it (android-host.ts, android-presentation.ts).
DeviceSafe == focus \in {"video", "operations"} => AndroidTypeOK /\ GraceAfterLastTurn /\ OneStream

\* An agent acts on what it has seen, or not at all (automation.ts, coordinates.ts).
AutomationSafe == focus = "automation" => AutomationTypeOK /\ ActsOnWhatWasSeen

\* What worked of an installation still does, and only a complete one is used,
\* whatever fails, is cancelled or dies in whatever order (installer.ts).
InstallationSafe == focus = "install" => InstallTypeOK /\ InstallSafe

\* The phone shows what was saved, stops what it is told to, forgets deleted chats
\* and closes its MCP clients (ChatScreen.tsx, ChatSidebar.tsx, mobile-mcp.ts).
PhoneSafe == focus \in {"chats", "deletion", "mcp"} => MobileTypeOK /\ MobileAgrees

=============================================================================
