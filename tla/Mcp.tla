---------------------------------- MODULE Mcp ----------------------------------
(***************************************************************************)
(* One MCP server of the account on one desktop: the record the API keeps,   *)
(* the clients the main process connects and the session map that lends one   *)
(* of them to every tool call, and the settings page that edits, tests and    *)
(* deletes the server.  Tool calls of any conversation, tests from the page,   *)
(* the test after a save, and the page's edits interleave freely.             *)
(*                                                                         *)
(* A job is a tool call or a test; it connects at most one client, which has   *)
(* the job's name.  A configuration is its version.                          *)
(***************************************************************************)
EXTENDS Naturals, FiniteSets

CONSTANTS
    Jobs,          \* the tool calls and tests, and the clients they connect
    NoClient,      \* stands for no client
    MaxSaves       \* bound: how often the page saves the server

ASSUME MaxSavesAssumption == MaxSaves \in Nat

VARIABLES
    server,        \* what the API holds of the server
    session,       \* the client the session map holds for the server
    client,        \* each client: what has become of it
    job,           \* each job: its kind, where it stands, the client it uses
    edit,          \* the save or deletion under way from the page
    settings           \* the settings page: what it shows, reloads asked, its test

mcpVars == <<server, session, client, job, edit, settings>>

Clients == Jobs
NoServer == [there |-> FALSE, version |-> 0, enabled |-> FALSE, status |-> "unverified"]
IdleJob == [kind |-> "none", step |-> "idle", uses |-> NoClient]
NoEdit == [kind |-> "none", step |-> "idle", uses |-> NoClient, record |-> NoServer]

McpInit ==
    /\ server \in {[NoServer EXCEPT !.there = TRUE, !.enabled = e] : e \in BOOLEAN}
    /\ session = NoClient
    /\ client = [c \in Clients |-> "unborn"]
    /\ job = [j \in Jobs |-> IdleJob]
    /\ edit = NoEdit
    /\ settings = [open |-> FALSE, shown |-> NoServer, reloads |-> 0, busy |-> FALSE]

(***************************************************************************)
(* Clients.                                                                *)
(***************************************************************************)
\* Mutant: a client that goes down stays in the map.
Remember(c) == UNCHANGED session

\* onclose: the map forgets the client, unless it holds another by now.
Forget(c) == session' = IF session = c THEN NoClient ELSE session

\* close() of an open client goes on until its transport is down.
Closing(c) == IF c \in Clients /\ client[c] = "open" THEN [client EXCEPT ![c] = "closing"] ELSE client

\* What awaiting close() waits for.
Down(c) == c # NoClient => client[c] = "closed"

ClientClosed(c) ==
    /\ client[c] = "closing"
    /\ client' = [client EXCEPT ![c] = "closed"]
    /\ Forget(c)
    /\ UNCHANGED <<server, job, edit, settings>>

\* The server's process or stream ends by itself.
ClientDies(c) ==
    /\ client[c] = "open"
    /\ client' = [client EXCEPT ![c] = "closed"]
    /\ Forget(c)
    /\ UNCHANGED <<server, job, edit, settings>>

(***************************************************************************)
(* Tool calls and tests.                                                   *)
(***************************************************************************)
JobAt(j, step) == [job EXCEPT ![j].step = step]
Announce(p) == IF p.open THEN [p EXCEPT !.reloads = @ + 1] ELSE p

StartCall(j) ==
    /\ job[j] = IdleJob
    /\ server.there /\ server.enabled
    /\ job' = [job EXCEPT ![j] = [@ EXCEPT !.kind = "call", !.step = "pick"]]
    /\ UNCHANGED <<server, session, client, edit, settings>>

\* The server was listed; a call takes the mapped client or connects one.
Pick(j) ==
    /\ job[j].step = "pick"
    /\ job' = IF session # NoClient
              THEN [job EXCEPT ![j] = [@ EXCEPT !.step = "use", !.uses = session]]
              ELSE JobAt(j, "find")
    /\ UNCHANGED <<server, session, client, edit, settings>>

\* A test from the page: the button needs an enabled server and no other test.
StartTest(j) ==
    /\ settings.open /\ settings.shown.there /\ settings.shown.enabled /\ ~settings.busy
    /\ job[j] = IdleJob
    /\ job' = [job EXCEPT ![j] = [@ EXCEPT !.kind = "test", !.step = "find"]]
    /\ settings' = [settings EXCEPT !.busy = TRUE]
    /\ UNCHANGED <<server, session, client, edit>>

IsTest(j) == job[j].kind \in {"test", "background"}

\* What a failure to find or to reach the server leads to.
Failing(j) == JobAt(j, IF IsTest(j) THEN "failed" ELSE "done")

\* Asks the API for the enabled servers with their secrets, which may fail.
Find(j) ==
    /\ job[j].step = "find"
    /\ job' \in (IF server.there /\ server.enabled THEN {JobAt(j, "replace")} ELSE {})
                \cup {Failing(j)}
    /\ UNCHANGED <<server, session, client, edit, settings>>

\* connect() closes the mapped client first and waits for it.
Replace(j) ==
    /\ job[j].step = "replace"
    /\ client' = Closing(session)
    /\ job' = [job EXCEPT ![j] = [@ EXCEPT !.step = "connect", !.uses = session]]
    /\ UNCHANGED <<server, session, edit, settings>>

Connect(j) ==
    /\ job[j].step = "connect"
    /\ Down(job[j].uses)
    /\ client' = [client EXCEPT ![j] = "connecting"]
    /\ job' = [job EXCEPT ![j] = [@ EXCEPT !.step = "connecting", !.uses = NoClient]]
    /\ UNCHANGED <<server, session, edit, settings>>

Connected(j) ==
    /\ job[j].step = "connecting"
    /\ client' = [client EXCEPT ![j] = "open"]
    /\ session' = j
    /\ job' = [job EXCEPT ![j] = [@ EXCEPT !.step = IF IsTest(j) THEN "list" ELSE "use",
                                           !.uses = j]]
    /\ UNCHANGED <<server, edit, settings>>

ConnectFails(j) ==
    /\ job[j].step = "connecting"
    /\ client' = [client EXCEPT ![j] = "closed"]
    /\ job' = Failing(j)
    /\ UNCHANGED <<server, session, edit, settings>>

Called(j) ==
    /\ job[j].step = "use" /\ client[job[j].uses] = "open"
    /\ job' = JobAt(j, "done")
    /\ UNCHANGED <<server, session, client, edit, settings>>

\* A failed call drops whatever client is mapped and closes its own.
CallFails(j) ==
    /\ job[j].step = "use"
    /\ session' = NoClient
    /\ client' = Closing(job[j].uses)
    /\ job' = JobAt(j, "done")
    /\ UNCHANGED <<server, edit, settings>>

ToolsListed(j) ==
    /\ job[j].step = "list"
    /\ \E step \in (IF client[j] = "open" THEN {"listed"} ELSE {}) \cup {"failed"} :
           job' = JobAt(j, step)
    /\ UNCHANGED <<server, session, client, edit, settings>>

\* Mutant: the windows hear only of the tests their page asked for.
TestStoredQuietly(j) ==
    /\ job[j].step \in {"listed", "failed"}
    /\ server' \in {server} \cup
           (IF server.there
            THEN {[server EXCEPT !.status = IF job[j].step = "listed" THEN "connected" ELSE "failed"]}
            ELSE {})
    /\ settings' = IF job[j].kind = "test" THEN Announce([settings EXCEPT !.busy = FALSE])
                   ELSE settings
    /\ job' = JobAt(j, "done")
    /\ UNCHANGED <<session, client, edit>>

\* The outcome of a test is stored; the windows hear of it in any case.
TestStored(j) ==
    /\ job[j].step \in {"listed", "failed"}
    /\ server' \in {server} \cup
           (IF server.there
            THEN {[server EXCEPT !.status = IF job[j].step = "listed" THEN "connected" ELSE "failed"]}
            ELSE {})
    /\ settings' = Announce([settings EXCEPT !.busy = @ /\ job[j].kind = "background"])
    /\ job' = JobAt(j, "done")
    /\ UNCHANGED <<session, client, edit>>

(***************************************************************************)
(* The settings page.                                                      *)
(***************************************************************************)
OpenServers ==
    /\ ~settings.open
    /\ settings' = [open |-> TRUE, shown |-> NoServer, reloads |-> 1, busy |-> FALSE]
    /\ UNCHANGED <<server, session, client, job, edit>>

LeaveServers ==
    /\ settings.open /\ edit = NoEdit /\ ~settings.busy
    /\ settings' = [settings EXCEPT !.open = FALSE, !.shown = NoServer, !.reloads = 0]
    /\ UNCHANGED <<server, session, client, job, edit>>

\* Reloads answer in the order they were asked.
Reloaded ==
    /\ settings.reloads > 0
    /\ settings' = [settings EXCEPT !.reloads = @ - 1, !.shown = server]
    /\ UNCHANGED <<server, session, client, job, edit>>

ClickSaveServer(enabled) ==
    /\ settings.open /\ settings.shown.there
    /\ edit = NoEdit /\ server.version < MaxSaves
    /\ edit' = [NoEdit EXCEPT !.kind = "save", !.step = "put",
                              !.record = [settings.shown EXCEPT !.enabled = enabled]]
    /\ UNCHANGED <<server, session, client, job, settings>>

\* The API stores the fields and forgets what an earlier test said of them.
ServerPut ==
    /\ edit.kind = "save" /\ edit.step = "put"
    /\ LET saved == [there |-> TRUE, version |-> server.version + 1,
                     enabled |-> edit.record.enabled, status |-> "unverified"]
       IN  IF server.there
           THEN server' = saved /\ edit' = [edit EXCEPT !.step = "answered", !.record = saved]
           ELSE edit' = NoEdit /\ UNCHANGED server
    /\ UNCHANGED <<session, client, job, settings>>

\* The client of the old fields leaves the map and is closed.
ServerSaved ==
    /\ edit.kind = "save" /\ edit.step = "answered"
    /\ session' = NoClient
    /\ client' = Closing(session)
    /\ edit' = [edit EXCEPT !.step = "close", !.uses = session]
    /\ UNCHANGED <<server, job, settings>>

\* The windows hear of the save, and an enabled server is tested.
SaveReturns ==
    /\ edit.kind = "save" /\ edit.step = "close"
    /\ Down(edit.uses)
    /\ settings' = Announce([settings EXCEPT !.shown = edit.record])
    /\ IF edit.record.enabled
       THEN \E j \in Jobs : /\ job[j] = IdleJob
                            /\ job' = [job EXCEPT ![j] = [@ EXCEPT !.kind = "background",
                                                                   !.step = "find"]]
       ELSE UNCHANGED job
    /\ edit' = NoEdit
    /\ UNCHANGED <<server, session, client>>

\* A deletion closes the mapped client before the API hears of it.
ConfirmDelete ==
    /\ settings.open /\ settings.shown.there /\ edit = NoEdit
    /\ client' = Closing(session)
    /\ edit' = [NoEdit EXCEPT !.kind = "delete", !.step = "close", !.uses = session]
    /\ UNCHANGED <<server, session, job, settings>>

DeleteClosed ==
    /\ edit.kind = "delete" /\ edit.step = "close"
    /\ Down(edit.uses)
    /\ session' = NoClient
    /\ edit' = [edit EXCEPT !.step = "api"]
    /\ UNCHANGED <<server, client, job, settings>>

ServerDeleted ==
    /\ edit.kind = "delete" /\ edit.step = "api"
    /\ edit' = NoEdit
    /\ \/ /\ server' = [NoServer EXCEPT !.version = server.version]
          /\ settings' = Announce([settings EXCEPT !.shown = NoServer])
       \/ UNCHANGED <<server, settings>>
    /\ UNCHANGED <<session, client, job>>

McpNext ==
    \/ \E c \in Clients : ClientClosed(c) \/ ClientDies(c)
    \/ \E j \in Jobs : \/ StartCall(j) \/ Pick(j) \/ StartTest(j) \/ Find(j) \/ Replace(j)
                       \/ Connect(j) \/ Connected(j) \/ ConnectFails(j) \/ Called(j)
                       \/ CallFails(j) \/ ToolsListed(j) \/ TestStored(j)
    \/ OpenServers \/ LeaveServers \/ Reloaded
    \/ \E enabled \in BOOLEAN : ClickSaveServer(enabled)
    \/ ServerPut \/ ServerSaved \/ SaveReturns
    \/ ConfirmDelete \/ DeleteClosed \/ ServerDeleted

(***************************************************************************)
(* Properties.                                                             *)
(***************************************************************************)
\* The variables stay in their types, and a client belongs to a job that has
\* at least begun to connect.
McpTypeOK ==
    /\ server \in [there : BOOLEAN, version : 0..MaxSaves, enabled : BOOLEAN,
                   status : {"unverified", "connected", "failed"}]
    /\ session \in Clients \cup {NoClient}
    /\ client \in [Clients -> {"unborn", "connecting", "open", "closing", "closed"}]
    /\ \A j \in Jobs : client[j] # "unborn" => job[j].step \in {"connecting", "list", "listed",
                                                              "failed", "use", "done"}
    /\ edit.kind \in {"none", "save", "delete"} /\ settings.reloads \in Nat

\* The map never keeps a client that is down, so no later tool call is lent
\* one: whoever closes the client, and whether or not another has replaced it
\* by then, the one the map holds is open or still being closed.
MappedClientUp == session # NoClient => client[session] \in {"open", "closing"}

\* Once no job and no edit is under way and the reloads have answered, the
\* settings page shows the server as the API holds it, with the outcome of the
\* last test.
PageShowsServer ==
    settings.open /\ settings.reloads = 0 /\ edit = NoEdit
    /\ (\A j \in Jobs : job[j].step \in {"idle", "done"})
        => IF server.there THEN settings.shown = server ELSE ~settings.shown.there

=============================================================================
