------------------------------ MODULE MCPages ------------------------------
(***************************************************************************)
(* TLC instance of the pages of the desktop that share no state, and of    *)
(* what stands behind them: the chat page, the session of the account, the *)
(* settings of models, MCP servers, skills and voices, the page of a team, *)
(* and the steps of a turn.  A behaviour is one of a single component;     *)
(* focus names it.                                                         *)
(***************************************************************************)
EXTENDS ConversationView, Session, Models, Mcp, Skills, TeamPage, Voices, Timeline,
        ToolCatalog, TLC

CONSTANTS Focuses, x1, x2, k1, k2

VARIABLE focus

pagesVars == <<conversationVars, sessionVars, modelVars, mcpVars, skillVars, teamVars,
               voiceVars, timelineVars, catalogVars, focus>>

\* Only one component is in focus, so all of them may share the model values
\* x1 and x2: of the accounts, models, jobs, tasks and teams each has two.
Symmetry == Permutations({x1, x2}) \cup Permutations({k1, k2})

\* What the components that are not in focus stand at.
Still ==
    /\ focus # "session" => tokens = NoAccount /\ mobile
    /\ focus # "models" => configured = <<>>
    /\ focus # "mcp" => ~server.enabled
    /\ focus # "skills" => folder = Emptied
    /\ focus # "team" => template = [x \in Teams |-> Nothing]
    /\ focus # "voices" => account = [space |-> "s1", key |-> FALSE]
    /\ focus # "timeline" => watcher = "desktop"
    /\ focus # "tools" =>
          host = "desktop" /\ listed = [s \in Servers |-> [usable |-> FALSE, tools |-> {}]]

Init ==
    /\ focus \in Focuses
    /\ ConversationInit /\ SessionInit /\ ModelsInit /\ McpInit /\ SkillsInit
    /\ TeamInit /\ VoicesInit /\ TimelineInit /\ CatalogInit
    /\ Still

\* bound: a card is dragged while no chat page is open, a sample is recorded
\* while no list of voices is asked for; they meet only in a save, a creation.
\* The servers change while a thread has asked for two calls at most, and the
\* phone, which counts no failures, asks for three.
SettingsBounds ==
    /\ focus = "models" /\ chooser'.open => draft'.drag = NoDrag
    /\ focus = "voices" /\ recorder'.state # "idle" => ~voices'.request.on
    /\ focus = "tools" /\ listed' # listed => requested <= 2
    /\ focus = "tools" /\ host = "phone" => requested' <= 3

Next ==
    /\ UNCHANGED focus
    /\ \/ focus = "conversation" /\ ConversationNext
       \/ focus # "conversation" /\ UNCHANGED conversationVars
    /\ \/ focus = "session" /\ SessionNext
       \/ focus # "session" /\ UNCHANGED sessionVars
    /\ \/ focus = "models" /\ ModelsNext
       \/ focus # "models" /\ UNCHANGED modelVars
    /\ \/ focus = "mcp" /\ McpNext
       \/ focus # "mcp" /\ UNCHANGED mcpVars
    /\ \/ focus = "skills" /\ SkillsNext
       \/ focus # "skills" /\ UNCHANGED skillVars
    /\ \/ focus = "team" /\ TeamNext
       \/ focus # "team" /\ UNCHANGED teamVars
    /\ \/ focus = "voices" /\ VoicesNext
       \/ focus # "voices" /\ UNCHANGED voiceVars
    /\ \/ focus = "timeline" /\ TimelineNext
       \/ focus # "timeline" /\ UNCHANGED timelineVars
    /\ \/ focus = "tools" /\ CatalogNext
       \/ focus # "tools" /\ UNCHANGED catalogVars
    /\ SettingsBounds

Spec == Init /\ [][Next]_pagesVars

\* bound: a team page has at most two kinds of requests on their way, and a
\* behaviour is not followed past the exceptions EditsSelected names.
FewAsked ==
    ~crossed /\ Cardinality({kind \in DOMAIN NoneAsked : asked[kind] # NoneAsked[kind]}) <= 2

-----------------------------------------------------------------------------
(* The invariants of the components.  One that is not in focus stays as it  *)
(* began, so each is asked in the behaviours of its own.                    *)

\* A chat page at rest shows the turns of its thread, each message once and in
\* order, and knows whether one runs (useConversationController.ts).
ConversationSafe ==
    focus = "conversation" => ConversationTypeOK /\ TranscriptAgrees /\ SendingTracksTurn

\* At rest the pages show the user the tokens were issued to (AuthProvider.tsx).
SessionSafe == focus = "session" => SessionTypeOK /\ PagesShowTokensUser

\* A chat page offers the models as they were saved last; the settings of MCP
\* servers show the last test, and no dead client is kept; a skill's directory
\* never mixes two archives; a voice that is being deployed is watched, and a
\* sample is recorded by the one microphone that is open (ModelPicker.tsx,
\* mcp-manager.ts, skill-manager.ts, useCustomVoices.ts, VoiceRecorder.tsx).
SettingsSafe ==
    /\ focus = "models" => ModelsTypeOK /\ ChooserUpToDate
    /\ focus = "mcp" => McpTypeOK /\ MappedClientUp /\ PageShowsServer
    /\ focus = "skills" => SkillsTypeOK /\ OneArchive
    /\ focus = "voices" => VoicesTypeOK /\ VoicesWatched /\ SampleRecorded

\* The team page edits the template of the collaboration that is selected
\* (useCollaborationWorkspace.ts).
TeamPageSafe == focus = "team" => TeamTypeOK /\ EditsSelected

\* The steps a turn was watched with are those a reload shows (updateActivity.ts).
TimelineSafe == focus = "timeline" => TimelineTypeOK /\ TimelineAgrees

\* What a thread loaded it goes on offering, and a call is refused only after two
\* failures (capability-plugins.ts, desktop-tool-registry.ts).
ToolsSafe == focus = "tools" => CatalogTypeOK /\ CatalogAgrees

=============================================================================
