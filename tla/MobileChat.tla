------------------------------ MODULE MobileChat ------------------------------
(***************************************************************************)
(* The phone: the screen of a chat, which creates the chat with its first   *)
(* message, streams a run, stops it and loads what was saved; the sidebar   *)
(* that lists, opens and deletes chats; and the MCP clients a run opens.    *)
(*                                                                         *)
(* A screen that is replaced is unmounted, which aborts its stream.  Turns  *)
(* are numbered as they are sent.  Timeline has what the stream shows,      *)
(* TurnClient how it is read.                                               *)
(***************************************************************************)
EXTENDS Naturals, Sequences, FiniteSets

CONSTANTS
    PhoneChats,      \* the chats of the account
    New,             \* the screen of a chat that does not exist yet
    MaxSends,        \* bound: the messages that are sent
    MaxScreens,      \* bound: the screens that are opened
    MaxDeletions,    \* bound: the deletions that are asked
    PhoneCalls       \* the MCP calls of a run, of one server

ASSUME MobileConstants ==
    New \notin PhoneChats /\ MaxSends \in Nat /\ MaxScreens \in Nat \ {0}

VARIABLES
    held,        \* chat -> whether it exists, and the turns the API has of it
    runs,        \* turn -> the chat and the state of its run at the API
    screen,      \* the chat screen that is mounted
    fetching,    \* its loads and those of the screens before it
    sending,     \* the sends that have not ended, at most one of the screen
    cancels,     \* the cancellations under way, and those the API had no run for
    stopped,     \* the turns that had been requested and not ended when stopped
    drawer,      \* the sidebar of the screen
    removals,    \* the deletions under way
    overlapped,  \* a deletion overlapped another screen, list or send
    mcpCalls,    \* the MCP calls of a run
    mcpClients,  \* the clients that were opened, in order, and what became of them
    mcpSession,  \* the client the server is mapped to, or 0
    mcpRun       \* whether the run still has its tools: open, closing or closed

chatVars == <<held, runs, screen, fetching, sending, cancels, stopped>>
drawerVars == <<drawer, removals, overlapped>>
phoneMcpVars == <<mcpCalls, mcpClients, mcpSession, mcpRun>>
mobileVars == <<held, runs, screen, fetching, sending, cancels, stopped, drawer, removals, overlapped,
                mcpCalls, mcpClients, mcpSession, mcpRun>>

PhoneTurns == 1..MaxSends
Exists(c) == held[c].state = "kept"
User(t) == [of |-> "user", turn |-> t]
Assistant(t) == [of |-> "assistant", turn |-> t]
Optimistic(t) == [of |-> "optimistic", turn |-> t]
Placeholder(t) == [of |-> "placeholder", turn |-> t]

\* What the API returns of a chat: the messages of the users, and the answers
\* of the runs that completed or were cancelled with a partial message.
SavedOf(c) ==
    {User(held[c].turns[i]) : i \in DOMAIN held[c].turns} \cup
    {Assistant(t) : t \in {held[c].turns[i] : i \in DOMAIN held[c].turns}
                          \cap {u \in PhoneTurns : runs[u].state \in {"completed", "cancelled"}}}

-----------------------------------------------------------------------------
\* The screen.

Mounted(mount, c) ==
    [mount |-> mount, active |-> c, messages |-> {}, loading |-> c # New, sending |-> FALSE,
     run |-> 0, last |-> 0, crossed |-> FALSE]
NoDrawer == [visible |-> FALSE, shown |-> {}, list |-> "none", listed |-> {}, deleting |-> FALSE]

MobileInit ==
    /\ held = [c \in PhoneChats |-> [state |-> "none", turns |-> <<>>]]
    /\ runs = [t \in PhoneTurns |-> [state |-> "none", chat |-> New]]
    /\ screen = Mounted(1, New)
    /\ fetching = {} /\ sending = {} /\ cancels = {} /\ stopped = {}
    /\ drawer = NoDrawer /\ removals = {} /\ overlapped = FALSE
    /\ mcpCalls = [c \in PhoneCalls |-> [step |-> "idle", client |-> 0]]
    /\ mcpClients = <<>> /\ mcpSession = 0 /\ mcpRun = "open"

\* The screen of c replaces the one there is, with its sidebar: what is open is
\* aborted, and the new screen loads its chat.
Replace(c) ==
    /\ screen.mount < MaxScreens
    /\ drawer' = NoDrawer
    /\ screen' = Mounted(screen.mount + 1, c)
    /\ sending' = {[s EXCEPT !.aborted = TRUE] : s \in sending}
    /\ fetching' = fetching \cup (IF c = New THEN {} ELSE
          {[mount |-> screen.mount + 1, chat |-> c, read |-> FALSE, messages |-> {}]})
    /\ UNCHANGED <<runs, cancels, stopped>>

LoadRead(x) ==
    /\ x \in fetching /\ ~x.read /\ Exists(x.chat)
    /\ fetching' = (fetching \ {x}) \cup {[x EXCEPT !.read = TRUE, !.messages = SavedOf(x.chat)]}
    /\ UNCHANGED <<held, runs, screen, sending, cancels, stopped>>

\* The answer replaces whatever the screen shows by then.
LoadAnswered(x) ==
    /\ x \in fetching /\ x.read
    /\ fetching' = fetching \ {x}
    /\ screen' = IF x.mount # screen.mount THEN screen
                 ELSE [screen EXCEPT !.messages = x.messages, !.loading = FALSE]
    /\ UNCHANGED <<held, runs, sending, cancels, stopped>>

LoadFails(x) ==
    /\ x \in fetching
    /\ fetching' = fetching \ {x}
    /\ screen' = IF x.mount # screen.mount THEN screen ELSE [screen EXCEPT !.loading = FALSE]
    /\ UNCHANGED <<held, runs, sending, cancels, stopped>>

\* The composer is there while the screen loads.
Send(t) ==
    /\ ~screen.sending /\ ~drawer.visible
    /\ runs[t].state = "none" /\ \A u \in 1..(t - 1) : runs[u].state # "none"
    /\ screen' = [screen EXCEPT !.sending = TRUE, !.last = 0, !.crossed = @ \/ screen.loading,
                                !.messages = @ \cup {Optimistic(t), Placeholder(t)}]
    /\ sending' = sending \cup {[turn |-> t, chat |-> screen.active, mount |-> screen.mount,
          step |-> IF screen.active = New THEN "creating" ELSE "asking",
          aborted |-> FALSE, messages |-> {}]}
    /\ runs' = [runs EXCEPT ![t].state = "unsent"]
    /\ UNCHANGED <<held, fetching, cancels, stopped>>

Replaced(s, x) == sending' = (sending \ {s}) \cup {x}

\* The chat is created; the screen keeps its place under the new id.
ChatCreated(s, c) ==
    /\ s \in sending /\ s.step = "creating" /\ held[c].state = "none"
    /\ held' = [held EXCEPT ![c].state = "kept"]
    /\ Replaced(s, [s EXCEPT !.step = "created", !.chat = c])
    /\ UNCHANGED <<runs, screen, fetching, cancels, stopped>>

CreateAnswered(s) ==
    /\ s \in sending /\ s.step = "created" /\ ~s.aborted
    /\ Replaced(s, [s EXCEPT !.step = "asking"])
    /\ screen' = [screen EXCEPT !.active = s.chat]
    /\ UNCHANGED <<held, runs, fetching, cancels, stopped>>

Requested(s) ==
    /\ s \in sending /\ s.step = "asking" /\ ~s.aborted
    /\ Replaced(s, [s EXCEPT !.step = "requested"])
    /\ runs' = [runs EXCEPT ![s.turn] = [state |-> "requested", chat |-> s.chat]]
    /\ UNCHANGED <<held, fetching, cancels, stopped>>

\* Mutant: the screen learns the id of the run from the stream only.
StreamRequestedUnknown(s) == Requested(s) /\ UNCHANGED screen

\* The request for the stream leaves with the id of the run, which the screen keeps.
StreamRequested(s) == Requested(s) /\ screen' = [screen EXCEPT !.run = s.turn]

\* The API starts the run, for a client that may have gone since, or never gets
\* to it; it answers an error when the chat is gone.
RunStarts(t) ==
    /\ runs[t].state = "requested" /\ Exists(runs[t].chat)
    /\ runs' = [runs EXCEPT ![t].state = "running"]
    /\ held' = [held EXCEPT ![runs[t].chat].turns = Append(@, t)]
    /\ UNCHANGED <<screen, fetching, sending, cancels, stopped>>

RunNeverStarts(t) ==
    /\ runs[t].state = "requested"
    /\ runs' = [runs EXCEPT ![t].state = "never"]
    /\ UNCHANGED <<held, screen, fetching, sending, cancels, stopped>>

RunEnds(t, outcome) ==
    /\ runs[t].state = "running"
    /\ runs' = [runs EXCEPT ![t].state = outcome]
    /\ UNCHANGED <<held, screen, fetching, sending, cancels, stopped>>

\* The stream ended well: the screen loads what was saved.
StreamEnds(s) ==
    /\ s \in sending /\ s.step = "requested" /\ ~s.aborted /\ runs[s.turn].state = "completed"
    /\ Replaced(s, [s EXCEPT !.step = "reading"])
    /\ UNCHANGED <<held, runs, screen, fetching, cancels, stopped>>

Reread(s) ==
    /\ s \in sending /\ s.step = "reading" /\ Exists(s.chat)
    /\ Replaced(s, [s EXCEPT !.step = "read", !.messages = SavedOf(s.chat)])
    /\ UNCHANGED <<held, runs, screen, fetching, cancels, stopped>>

RereadAnswered(s) ==
    /\ s \in sending /\ s.step = "read"
    /\ sending' = sending \ {s}
    /\ screen' = IF s.mount # screen.mount THEN screen
                 ELSE [screen EXCEPT !.messages = s.messages, !.sending = FALSE, !.run = 0,
                                     !.last = s.turn]
    /\ UNCHANGED <<held, runs, fetching, cancels, stopped>>

\* The send fails: by a request, by the run, or because it was aborted.  A
\* placeholder without a word goes, unless the stream was aborted.
SendFails(s) ==
    /\ s \in sending /\ s.step # "read"
    /\ sending' = sending \ {s}
    /\ runs' = IF runs[s.turn].state = "unsent" THEN [runs EXCEPT ![s.turn].state = "never"] ELSE runs
    /\ \E worded \in IF runs[s.turn].state \in {"unsent", "requested", "never"} THEN {FALSE} ELSE BOOLEAN :
          screen' = IF s.mount # screen.mount THEN screen
                    ELSE [screen EXCEPT !.sending = FALSE, !.run = 0,
                            !.messages = IF s.aborted \/ worded THEN @ ELSE @ \ {Placeholder(s.turn)}]
    /\ UNCHANGED <<held, fetching, cancels, stopped>>

\* Stop aborts what the send waits for, except its last load, and cancels the
\* run the screen knows.
StopSend ==
    /\ screen.sending /\ ~drawer.visible
    /\ \A s \in sending : s.mount = screen.mount => ~s.aborted
    /\ sending' = {IF s.mount = screen.mount THEN [s EXCEPT !.aborted = s.step \notin {"reading", "read"}]
                   ELSE s : s \in sending}
    /\ cancels' = IF screen.run = 0 THEN cancels
                  ELSE cancels \cup {[turn |-> screen.run, missed |-> FALSE]}
    /\ stopped' = stopped \cup {s.turn : s \in {x \in sending : /\ x.mount = screen.mount
                                    /\ runs[x.turn].state \in {"requested", "running"}}}
    /\ UNCHANGED <<held, runs, screen, fetching>>

\* The API cancels the run that runs; it answers 404 for one that has not been
\* started yet.  The screen looks at neither answer.
Cancelled(x) ==
    /\ x \in cancels /\ ~x.missed
    /\ runs' = IF runs[x.turn].state = "running"
               THEN [runs EXCEPT ![x.turn].state = "cancelled"] ELSE runs
    /\ cancels' = IF runs[x.turn].state = "requested"
                  THEN (cancels \ {x}) \cup {[x EXCEPT !.missed = TRUE]} ELSE cancels \ {x}
    /\ UNCHANGED <<held, screen, fetching, sending, stopped>>

ChatNext ==
    \/ StopSend
    \/ \E x \in fetching : LoadRead(x) \/ LoadAnswered(x) \/ LoadFails(x)
    \/ \E s \in sending :
          \/ CreateAnswered(s) \/ StreamRequested(s) \/ StreamEnds(s)
          \/ Reread(s) \/ RereadAnswered(s) \/ SendFails(s)
          \/ \E c \in PhoneChats : ChatCreated(s, c)
    \/ \E t \in PhoneTurns :
          \/ Send(t) \/ RunStarts(t) \/ RunNeverStarts(t)
          \/ \E o \in {"completed", "failed"} : RunEnds(t, o)
    \/ \E x \in cancels : Cancelled(x)

-----------------------------------------------------------------------------
\* The sidebar.

\* The list is asked for whenever the sidebar opens, and shown when it comes.
DrawerOpens ==
    /\ ~drawer.visible
    /\ drawer' = [drawer EXCEPT !.visible = TRUE, !.list = "asked"]
    /\ overlapped' = (overlapped \/ removals # {})
    /\ UNCHANGED <<chatVars, removals>>

DrawerCloses ==
    /\ drawer.visible
    /\ drawer' = [drawer EXCEPT !.visible = FALSE, !.list = "none", !.listed = {}]
    /\ UNCHANGED <<chatVars, removals, overlapped>>

ListRead ==
    /\ drawer.list = "asked"
    /\ drawer' = [drawer EXCEPT !.list = "read", !.listed = {c \in PhoneChats : Exists(c)}]
    /\ UNCHANGED <<chatVars, removals, overlapped>>

ChatsListed ==
    /\ drawer.list = "read"
    /\ drawer' = [drawer EXCEPT !.list = "none", !.listed = {}, !.shown = drawer.listed]
    /\ UNCHANGED <<chatVars, removals, overlapped>>

ListFails ==
    /\ drawer.list # "none"
    /\ drawer' = [drawer EXCEPT !.list = "none", !.listed = {}, !.shown = {}]
    /\ UNCHANGED <<chatVars, removals, overlapped>>

Rows == IF drawer.visible /\ drawer.list = "none" THEN drawer.shown ELSE {}

OpenChat(c) ==
    /\ drawer.visible
    /\ c = New \/ c \in Rows
    /\ Replace(c)
    /\ overlapped' = (overlapped \/ removals # {})
    /\ UNCHANGED <<held, removals>>

\* The handler keeps the list and the chat of the render it was asked in.
Deletions == Cardinality({c \in PhoneChats : held[c].state = "deleted"}) + Cardinality(removals)
Delete(c) ==
    /\ c \in Rows /\ ~drawer.deleting /\ Deletions < MaxDeletions
    /\ drawer' = [drawer EXCEPT !.deleting = TRUE]
    /\ removals' = removals \cup {[chat |-> c, mount |-> screen.mount, active |-> screen.active,
                                   known |-> drawer.shown, step |-> "asked"]}
    /\ overlapped' = (overlapped \/ removals # {} \/ \E s \in sending : s.chat = c)
    /\ UNCHANGED chatVars

\* The runs of a chat go with it.
ChatDeleted(r) ==
    /\ r \in removals /\ r.step = "asked" /\ Exists(r.chat)
    /\ held' = [held EXCEPT ![r.chat].state = "deleted"]
    /\ runs' = [t \in PhoneTurns |-> IF runs[t].state = "running" /\ runs[t].chat = r.chat
                                     THEN [runs[t] EXCEPT !.state = "failed"] ELSE runs[t]]
    /\ removals' = (removals \ {r}) \cup {[r EXCEPT !.step = "deleted"]}
    /\ UNCHANGED <<screen, fetching, sending, cancels, stopped, drawer, overlapped>>

\* The row goes, and a chat that was open gives way to another one.
DeleteAnswered(r) ==
    /\ r \in removals /\ r.step = "deleted"
    /\ removals' = removals \ {r}
    /\ LET remaining == r.known \ {r.chat} IN
          IF r.chat = r.active
          THEN \E c \in IF remaining = {} THEN {New} ELSE remaining : Replace(c) /\ UNCHANGED held
          ELSE /\ drawer' = IF r.mount # screen.mount THEN drawer
                            ELSE [drawer EXCEPT !.shown = remaining, !.deleting = FALSE]
               /\ UNCHANGED chatVars
    /\ UNCHANGED overlapped

DeleteFails(r) ==
    /\ r \in removals /\ r.step = "asked"
    /\ removals' = removals \ {r}
    /\ drawer' = IF r.mount # screen.mount THEN drawer ELSE [drawer EXCEPT !.deleting = FALSE]
    /\ UNCHANGED <<chatVars, overlapped>>

DrawerNext ==
    \/ DrawerOpens \/ DrawerCloses \/ ListRead \/ ChatsListed \/ ListFails
    \/ \E c \in PhoneChats \cup {New} : OpenChat(c) \/ (c # New /\ Delete(c))
    \/ \E r \in removals : ChatDeleted(r) \/ DeleteAnswered(r) \/ DeleteFails(r)

-----------------------------------------------------------------------------
\* The MCP clients of a run.  The calls of one batch run side by side; the run
\* closes its tools when its loop ends, which with calls left is an abort.

Opening == {k \in DOMAIN mcpClients : mcpClients[k] = "opening"}
Called(c, step, k) == mcpCalls' = [mcpCalls EXCEPT ![c] = [step |-> step, client |-> k]]

CallStarts(c) ==
    /\ mcpRun = "open" /\ mcpCalls[c].step = "idle"
    /\ Called(c, "looking", 0)
    /\ UNCHANGED <<mcpClients, mcpSession, mcpRun>>

\* The call takes the mapped client, else waits for the one being opened, else opens one.
ServerFound(c) ==
    /\ mcpRun = "open" /\ mcpCalls[c].step = "looking"
    /\ IF mcpSession # 0
       THEN Called(c, "calling", mcpSession) /\ UNCHANGED mcpClients
       ELSE IF Opening # {}
       THEN Called(c, "opening", CHOOSE k \in Opening : TRUE) /\ UNCHANGED mcpClients
       ELSE /\ Called(c, "opening", Len(mcpClients) + 1)
            /\ mcpClients' = Append(mcpClients, "opening")
    /\ UNCHANGED <<mcpSession, mcpRun>>

CallsOf(k) == {c \in PhoneCalls : mcpCalls[c].step = "opening" /\ mcpCalls[c].client = k}
ClientUp(k) ==
    /\ k \in Opening
    /\ mcpClients' = [mcpClients EXCEPT ![k] = "up"]
    /\ mcpSession' = k
    /\ mcpCalls' = [c \in PhoneCalls |-> IF c \in CallsOf(k) THEN [mcpCalls[c] EXCEPT !.step = "calling"]
                                         ELSE mcpCalls[c]]
    /\ UNCHANGED mcpRun

ClientFails(k) ==
    /\ k \in Opening
    /\ mcpClients' = [mcpClients EXCEPT ![k] = "closed"]
    /\ mcpCalls' = [c \in PhoneCalls |-> IF c \in CallsOf(k) THEN [step |-> "failed", client |-> k]
                                         ELSE mcpCalls[c]]
    /\ UNCHANGED <<mcpSession, mcpRun>>

\* The server drops a client, which only removes its own mapping.
ClientDrops(k) ==
    /\ k \in DOMAIN mcpClients /\ mcpClients[k] \in {"up", "stray"}
    /\ mcpClients' = [mcpClients EXCEPT ![k] = "closed"]
    /\ mcpSession' = IF mcpSession = k THEN 0 ELSE mcpSession
    /\ UNCHANGED <<mcpCalls, mcpRun>>

CallReturns(c) ==
    /\ mcpCalls[c].step = "calling" /\ mcpClients[mcpCalls[c].client] # "closed"
    /\ Called(c, "done", mcpCalls[c].client)
    /\ UNCHANGED <<mcpClients, mcpSession, mcpRun>>

\* A call that fails closes its client, and removes the mapping, whichever client it is of:
\* one of a later client strays, for no one closes it.
CallFails(c) ==
    /\ mcpCalls[c].step = "calling"
    /\ mcpClients' = [k \in DOMAIN mcpClients |->
          IF k = mcpCalls[c].client THEN "closed"
          ELSE IF k = mcpSession THEN "stray" ELSE mcpClients[k]]
    /\ mcpSession' = 0
    /\ Called(c, "failed", mcpCalls[c].client)
    /\ UNCHANGED mcpRun

\* The calls that wait for a request give up with the run.
ToolsClose ==
    /\ mcpRun = "open"
    /\ mcpRun' = "closing"
    /\ mcpCalls' = [c \in PhoneCalls |-> IF mcpCalls[c].step = "looking" THEN [mcpCalls[c] EXCEPT !.step = "failed"]
                                         ELSE mcpCalls[c]]
    /\ UNCHANGED <<mcpClients, mcpSession>>

CloseMapped ==
    /\ mcpRun = "closing" /\ mcpRun' = "closed"
    /\ mcpClients' = [k \in DOMAIN mcpClients |-> IF k = mcpSession THEN "closed" ELSE mcpClients[k]]
    /\ mcpSession' = 0
    /\ UNCHANGED mcpCalls

\* Mutant: what is mapped is closed, and a client still being opened is left.
ToolsClosedAtOnce == CloseMapped

\* What is being opened is waited for, then what is mapped is closed.
ToolsClosed == Opening = {} /\ CloseMapped

PhoneMcpNext ==
    \/ ToolsClose \/ ToolsClosed
    \/ \E c \in PhoneCalls : CallStarts(c) \/ ServerFound(c) \/ CallReturns(c) \/ CallFails(c)
    \/ \E k \in DOMAIN mcpClients : ClientUp(k) \/ ClientFails(k) \/ ClientDrops(k)

MobileNext ==
    \/ ChatNext /\ UNCHANGED <<drawerVars, phoneMcpVars>>
    \/ DrawerNext /\ UNCHANGED phoneMcpVars
    \/ PhoneMcpNext /\ UNCHANGED <<chatVars, drawerVars>>

-----------------------------------------------------------------------------
\* The screens, sends, runs, sidebar and clients of the phone are of the kinds
\* the source declares for them.
MobileTypeOK ==
    /\ \A c \in PhoneChats : /\ held[c].state \in {"none", "kept", "deleted"}
                             /\ held[c].turns \in Seq(PhoneTurns)
    /\ \A t \in PhoneTurns : runs[t].state \in {"none", "unsent", "requested", "running",
                                               "completed", "failed", "cancelled", "never"}
    /\ screen.active \in PhoneChats \cup {New} /\ screen.mount \in 1..MaxScreens
    /\ \A s \in sending : s.turn \in PhoneTurns /\ s.chat \in PhoneChats \cup {New}
    /\ drawer.shown \subseteq PhoneChats /\ mcpSession \in 0..Len(mcpClients)

\* A saved message is shown on the screen of its chat only, however late the
\* loads of the screens before it answer.
MessagesOfTheChat ==
    \A m \in screen.messages : m.of \in {"user", "assistant"} =>
        /\ screen.active \in PhoneChats
        /\ \E i \in DOMAIN held[screen.active].turns : held[screen.active].turns[i] = m.turn

\* When a send has ended well, what the screen made up has given way to what was
\* saved of the turn, unless it was sent while the chat loaded.
SentShown ==
    screen.last # 0 /\ ~screen.crossed =>
        /\ {User(screen.last), Assistant(screen.last)} \subseteq screen.messages
        /\ \A m \in screen.messages : m.of \in {"user", "assistant"}

\* A turn that had been requested when it was stopped does not go on, unless its
\* cancellation is under way or came before the API had its run.
StoppedEnds ==
    \A t \in stopped : runs[t].state \in {"requested", "running"} => \E x \in cancels : x.turn = t

\* Once deletions are over, the sidebar has no row of a deleted chat and no such
\* chat is open, unless a deletion overlapped another screen, list or send.
DeletedGone ==
    removals = {} /\ ~overlapped =>
        /\ \A c \in Rows : Exists(c)
        /\ screen.active # New => Exists(screen.active)

\* A run that has closed its tools leaves no client open, but one whose mapping
\* the failure of another client's call removed.
ToolsLeftClosed ==
    mcpRun = "closed" => \A k \in DOMAIN mcpClients : mcpClients[k] \in {"closed", "stray"}

\* The phone shows the messages of the chat that is open and what was saved of a
\* turn, stops what it is told to, forgets deleted chats and closes its clients.
MobileAgrees ==
    MessagesOfTheChat /\ SentShown /\ StoppedEnds /\ DeletedGone /\ ToolsLeftClosed
=============================================================================
