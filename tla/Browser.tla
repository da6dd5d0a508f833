-------------------------------- MODULE Browser --------------------------------
(***************************************************************************)
(* The built-in browser of the desktop: pages of conversations, the tools  *)
(* that act on them, the windows that show them and their downloads        *)
(* (packages/browser-use/src: browser-host.ts, page-session.ts,            *)
(* navigation.ts, page-tools.ts, browser-downloads.ts;                     *)
(* desktop/electron/browser: detached-browser-window.ts).                  *)
(*                                                                         *)
(* What a page holds is left out; a tool call is the queue it waits in, the *)
(* page it acts on and the dialog that stops it.                           *)
(***************************************************************************)
EXTENDS Naturals, FiniteSets, Sequences, SequencesExt, Functions

CONSTANTS
    Conversations, \* conversations with a browser session
    Pages,         \* pages that may be created
    ToolCalls,     \* calls of browser tools
    CallOf,        \* the conversation of a call
    Downloads,     \* downloads that pages start
    NoPage, NoConversation

ASSUME BrowserConstants ==
    /\ CallOf \in [ToolCalls -> Conversations]
    /\ NoPage \notin Pages
    /\ NoConversation \notin Conversations
    /\ IsFiniteSet(Conversations) /\ IsFiniteSet(ToolCalls)

VARIABLES
    session,   \* BrowserSession of a conversation, numbered
    page,      \* the conversation a page belongs to
    dialog,    \* the pages that show a dialog
    panel,     \* activeId, bounds and mounted of the main window
    detached,  \* DetachedView of a conversation
    visible,   \* the views that are set visible
    toolQueue, \* pending: the calls of a conversation, first running
    toolCall,  \* where a call is, in which session, on which page
    download,  \* DownloadItem: the page's conversation, whether it is under way
               \* and whether BrowserDownloads has a record of it
    tracking   \* whether BrowserDownloads listens for will-download

toolVars     == <<toolQueue, toolCall>>
downloadVars == <<download, tracking>>
viewVars     == <<panel, detached, visible>>
pageVars     == <<page, dialog>>
browserVars  == <<session, pageVars, viewVars, toolVars, downloadVars>>

NoDownload == [owner |-> NoConversation, active |-> FALSE, listed |-> FALSE]
NoSession == [number |-> 0, tabs |-> <<>>, selected |-> NoPage, opened |-> FALSE]
Docked    == [window |-> FALSE, bounds |-> FALSE, mounted |-> NoPage]
Live(s)   == s.number > 0

BrowserInit ==
    /\ session = [c \in Conversations |-> NoSession]
    /\ page = [p \in Pages |-> NoConversation]
    /\ dialog = {}
    /\ panel = [id |-> NoConversation, bounds |-> FALSE, mounted |-> NoPage]
    /\ detached = [c \in Conversations |-> Docked]
    /\ visible = {}
    /\ toolQueue = [c \in Conversations |-> <<>>]
    /\ toolCall = [k \in ToolCalls |-> [at |-> "idle", session |-> 0, page |-> NoPage, aborted |-> FALSE]]
    /\ download = [d \in Downloads |-> NoDownload]
    /\ tracking = TRUE

-----------------------------------------------------------------------------
(* Views.  w is what a handler leaves of panel, detached and visible. *)

Windows == [panel |-> panel, detached |-> detached, visible |-> visible]

\* The page a window presents: of an open session, once the window has bounds.
Presents(s, bounds) == IF s.opened /\ bounds THEN s.selected ELSE NoPage
MainPage(ss, w) ==
    LET c == w.panel.id
    IN  IF c = NoConversation \/ (c \in Conversations /\ w.detached[c].window) THEN NoPage
        ELSE Presents(ss[c], w.panel.bounds)

\* syncView: a view that is no longer mounted is hidden, the next one shown.
SyncView(ss, w) ==
    LET next(c) == IF w.detached[c].window THEN Presents(ss[c], w.detached[c].bounds) ELSE NoPage
        swapped == {c \in Conversations : w.detached[c].window /\ w.detached[c].mounted # next(c)}
        main    == MainPage(ss, w)
        beside  == (w.visible \ {w.detached[c].mounted : c \in swapped}) \cup {next(c) : c \in swapped}
    IN  /\ detached' = [c \in Conversations |->
               IF c \in swapped THEN [w.detached[c] EXCEPT !.mounted = next(c)] ELSE w.detached[c]]
        /\ panel' = [w.panel EXCEPT !.mounted = main]
        /\ visible' = (IF w.panel.mounted = main THEN beside
                       ELSE (beside \ {w.panel.mounted}) \cup {main}) \ {NoPage}

\* detachView of the pages gone.
Unmount(w, gone) ==
    [panel |-> [w.panel EXCEPT !.mounted = IF @ \in gone THEN NoPage ELSE @],
     detached |-> [c \in Conversations |->
         [w.detached[c] EXCEPT !.mounted = IF @ \in gone THEN NoPage ELSE @]],
     visible |-> w.visible \ gone]

\* session(): a conversation without a session gets a new one.
Numbers == {session[c].number : c \in Conversations} \cup {toolCall[k].session : k \in ToolCalls}
Session(c) ==
    IF Live(session[c]) THEN session[c]
    ELSE [NoSession EXCEPT !.number =
              CHOOSE n \in 1 .. Cardinality(Conversations) + Cardinality(ToolCalls) : n \notin Numbers]

-----------------------------------------------------------------------------
(* Pages *)

\* createTab: the new page is selected and opens the panel.
WithTab(s, p) == [s EXCEPT !.tabs = Append(@, p), !.selected = p, !.opened = TRUE]
CreateTab(c, p) ==
    /\ page[p] = NoConversation
    /\ page' = [page EXCEPT ![p] = c]
    /\ UNCHANGED dialog
    /\ session' = [session EXCEPT ![c] = WithTab(Session(c), p)]
    /\ SyncView(session', Windows)

\* Mutant: the tab that is gone stays selected.
WithoutTabOnly(s, p) == [s EXCEPT !.tabs = RemoveFirst(s.tabs, p)]

\* removeTab: the first tab that is left is selected.
WithoutTab(s, p) ==
    LET left == RemoveFirst(s.tabs, p)
    IN  [s EXCEPT !.tabs = left,
                  !.selected = IF @ # p THEN @ ELSE IF left = <<>> THEN NoPage ELSE left[1]]
RemoveTab(c, p) ==
    /\ session' = [session EXCEPT ![c] = WithoutTab(@, p)]
    /\ page' = [page EXCEPT ![p] = NoConversation]
    /\ dialog' = dialog \ {p}
    /\ SyncView(session', Unmount(Windows, {p}))

Select(c, p) ==
    /\ session' = [session EXCEPT ![c].selected = p]
    /\ SyncView(session', Windows)

\* The downloads of the conversations that are closed: those on record are cancelled.
Released(closed) == [d \in Downloads |->
    IF download[d].owner \in closed /\ download[d].listed THEN NoDownload ELSE download[d]]

\* The pages and sessions of the conversations that are closed.
Dropped(closed) ==
    /\ session' = [c \in Conversations |-> IF c \in closed THEN NoSession ELSE session[c]]
    /\ page' = [p \in Pages |-> IF page[p] \in closed THEN NoConversation ELSE page[p]]
    /\ dialog' = {p \in dialog : page[p] \notin closed}
    /\ download' = Released(closed)
    /\ UNCHANGED toolVars

\* Mutant: the views of a closed session are left mounted.
CloseSessionMounted(closed) == Dropped(closed) /\ UNCHANGED viewVars

\* closeSession: its downloads are cancelled, its pages and its window closed.
CloseSession(closed) ==
    LET w == Unmount(Windows, {p \in Pages : page[p] \in closed})
    IN  /\ Dropped(closed)
        /\ SyncView(session', [w EXCEPT !.detached = [c \in Conversations |->
               IF c \in closed THEN Docked ELSE @[c]]])

\* The conversation is deleted.
ConversationDeleted(c) == CloseSession({c}) /\ UNCHANGED tracking

\* The account signs out: close.  The host stays, its listener does not.
SignOut ==
    /\ CloseSession({c \in Conversations : Live(session[c])})
    /\ tracking' = FALSE

\* The page itself: it opens a popup, closes, finishes loading, asks.
Popup(p, q) ==
    /\ page[p] # NoConversation
    /\ CreateTab(page[p], q)
    /\ UNCHANGED <<toolVars, downloadVars>>

PageDestroyed(p) ==
    /\ page[p] # NoConversation
    /\ RemoveTab(page[p], p)
    /\ UNCHANGED <<toolVars, downloadVars>>

DialogOpens(p) ==
    /\ page[p] # NoConversation
    /\ dialog' = dialog \cup {p}
    /\ UNCHANGED <<session, page, viewVars, toolVars, downloadVars>>

-----------------------------------------------------------------------------
(* The user *)

UserUnchanged == UNCHANGED <<pageVars, toolVars, downloadVars>>

SetOpened(c, opened) ==
    /\ session' = [session EXCEPT ![c] = [Session(c) EXCEPT !.opened = opened]]
    /\ SyncView(session', Windows)
    /\ UserUnchanged

\* The panel of a conversation is measured, hidden by a dialog or unmounted.
Layout(c, bounds) ==
    /\ SyncView(session, [Windows EXCEPT !.panel = [@ EXCEPT !.id = c, !.bounds = bounds]])
    /\ UNCHANGED session /\ UserUnchanged

LayoutDetached(c, bounds) ==
    /\ detached[c].window
    /\ SyncView(session, [Windows EXCEPT !.detached[c].bounds = bounds])
    /\ UNCHANGED session /\ UserUnchanged

\* setDetachedWindow moves every view of the conversation, hidden.
Move(c, window) ==
    LET s     == Session(c)
        moved == ToSet(s.tabs)
        w     == [panel |-> [panel EXCEPT !.mounted = IF @ \in moved THEN NoPage ELSE @],
                  detached |-> [detached EXCEPT ![c] = [Docked EXCEPT !.window = window]],
                  visible |-> visible \ moved]
    IN  /\ detached[c].window # window
        /\ session' = [session EXCEPT ![c] = s]
        /\ SyncView(session', w)
        /\ UserUnchanged

\* The buttons of the panel are inert while a tool operates.
Operating(c) == \E k \in ToolCalls :
    CallOf[k] = c /\ toolCall[k].at \in {"overlay", "page"} /\ toolCall[k].session = session[c].number
UserSelects(c, p) ==
    /\ ~Operating(c)
    /\ Contains(session[c].tabs, p)
    /\ Select(c, p)
    /\ UserUnchanged
UserOpens(c, p) ==
    /\ ~Operating(c)
    /\ CreateTab(c, p)
    /\ UNCHANGED <<toolVars, downloadVars>>

-----------------------------------------------------------------------------
(* Tools: execute queues a call behind the conversation's pending ones. *)

At(k, at) == toolCall' = [toolCall EXCEPT ![k].at = at]
First(k)  == toolQueue[CallOf[k]] # <<>> /\ toolQueue[CallOf[k]][1] = k

CallTool(k) ==
    LET c == CallOf[k]
    IN  /\ toolCall[k].at = "idle"
        /\ session' = [session EXCEPT ![c] = Session(c)]
        /\ toolCall' = [toolCall EXCEPT ![k] = [@ EXCEPT !.at = "queued", !.session = Session(c).number]]
        /\ toolQueue' = [toolQueue EXCEPT ![c] = Append(@, k)]
        /\ UNCHANGED <<pageVars, viewVars, downloadVars>>

\* The turn is interrupted: its signal stops the pages and refuses the dialogs.
AbortCall(k) ==
    LET c == CallOf[k]
    IN  /\ toolCall[k].at \in {"queued", "overlay", "page"}
        /\ ~toolCall[k].aborted
        /\ toolCall' = [toolCall EXCEPT ![k].aborted = TRUE]
        /\ dialog' = IF toolCall[k].at # "queued" /\ toolCall[k].session = session[c].number
                     THEN dialog \ {p \in Pages : page[p] = c} ELSE dialog
        /\ UNCHANGED <<session, page, viewVars, toolQueue, downloadVars>>

\* The finally of a call: the next one may run.
Leave(k) ==
    /\ toolCall' = [toolCall EXCEPT ![k] = [@ EXCEPT !.at = "done", !.page = NoPage]]
    /\ toolQueue' = [toolQueue EXCEPT ![CallOf[k]] = Tail(@)]

Unaffected == UNCHANGED <<session, pageVars, viewVars, downloadVars>>

\* Mutant: a call begins when its session is another one than it was queued for.
BeginAnyway(k) ==
    /\ toolCall[k].at = "queued"
    /\ First(k) \/ session[CallOf[k]].number # toolCall[k].session
    /\ At(k, "overlay") /\ UNCHANGED toolQueue
    /\ Unaffected

BeginCall(k) ==
    /\ toolCall[k].at = "queued" /\ First(k)
    /\ IF toolCall[k].aborted \/ session[CallOf[k]].number # toolCall[k].session
       THEN Leave(k)
       ELSE At(k, "overlay") /\ UNCHANGED toolQueue
    /\ Unaffected

\* browser_download cancel: only one on record is found.
CancelDownload(k, d) ==
    /\ download[d].listed /\ download[d].owner = CallOf[k]
    /\ download' = [download EXCEPT ![d].active = FALSE]

\* Network, console, dialogs and downloads are answered at once, and so is
\* every other tool while the page shows a dialog.
AnsweredAtOnce(k, p) ==
    /\ Leave(k)
    /\ \/ UNCHANGED <<dialog, download>>
       \/ p \in dialog /\ dialog' = dialog \ {p} /\ UNCHANGED download
       \/ \E d \in Downloads : CancelDownload(k, d) /\ UNCHANGED dialog

\* The tool selects its page and opens the panel before it acts.
ActOnPage(k, p) ==
    LET c == CallOf[k]
    IN  /\ Contains(session[c].tabs, p)
        /\ session' = [session EXCEPT ![c] = [@ EXCEPT !.selected = p, !.opened = TRUE]]
        /\ SyncView(session', Windows)
        /\ UNCHANGED <<page, tracking>>
        /\ \/ AnsweredAtOnce(k, p)
           \/ /\ p \notin dialog
              /\ toolCall' = [toolCall EXCEPT ![k] = [@ EXCEPT !.at = "page", !.page = p]]
              /\ UNCHANGED <<toolQueue, dialog, download>>

ToolOpens(k, p) ==
    /\ CreateTab(CallOf[k], p)
    /\ toolCall' = [toolCall EXCEPT ![k] = [@ EXCEPT !.at = "page", !.page = p]]
    /\ UNCHANGED <<toolQueue, downloadVars>>

ToolCloses(k, p) ==
    /\ Contains(session[CallOf[k]].tabs, p)
    /\ RemoveTab(CallOf[k], p)
    /\ Leave(k)
    /\ UNCHANGED downloadVars

\* Once the overlay is ready the tool runs, or fails: the call was stopped, the
\* overlay did not load, the page is not there.
OverlayReady(k) ==
    /\ toolCall[k].at = "overlay"
    /\ \/ Leave(k) /\ Unaffected
       \/ /\ ~toolCall[k].aborted
          /\ \E p \in Pages : ActOnPage(k, p) \/ ToolOpens(k, p) \/ ToolCloses(k, p)

\* The page has settled, shows a dialog or is gone, the call was stopped, or
\* half a minute is over: the boundary of run ends every wait.
EndCall(k) ==
    /\ toolCall[k].at = "page"
    /\ Leave(k)
    /\ SyncView(session, Windows)
    /\ UNCHANGED <<session, pageVars, downloadVars>>

-----------------------------------------------------------------------------
(* Downloads *)

DownloadUnchanged == UNCHANGED <<session, pageVars, viewVars, toolVars, tracking>>

StartDownload(d, p) ==
    /\ page[p] # NoConversation
    /\ download[d] = NoDownload
    /\ download' = [download EXCEPT ![d] = [owner |-> page[p], active |-> TRUE, listed |-> tracking]]
    /\ DownloadUnchanged

DownloadDone(d) ==
    /\ download[d].active
    /\ download' = [download EXCEPT ![d] = IF @.listed THEN [@ EXCEPT !.active = FALSE] ELSE NoDownload]
    /\ DownloadUnchanged

\* dismiss-download removes the record of a download in any state.
DismissDownload(d) ==
    /\ download[d].listed
    /\ download' = [download EXCEPT ![d] = IF @.active THEN [@ EXCEPT !.listed = FALSE] ELSE NoDownload]
    /\ DownloadUnchanged

-----------------------------------------------------------------------------
BrowserNext ==
    \/ \E c \in Conversations :
          \/ ConversationDeleted(c)
          \/ \E b \in BOOLEAN : SetOpened(c, b) \/ Layout(c, b) \/ LayoutDetached(c, b) \/ Move(c, b)
          \/ \E p \in Pages : UserSelects(c, p) \/ UserOpens(c, p)
    \/ Layout(NoConversation, FALSE)
    \/ SignOut
    \/ \E p, q \in Pages : Popup(p, q)
    \/ \E p \in Pages : PageDestroyed(p) \/ DialogOpens(p)
    \/ \E k \in ToolCalls : CallTool(k) \/ AbortCall(k) \/ BeginCall(k) \/ OverlayReady(k) \/ EndCall(k)
    \/ \E d \in Downloads :
          \/ DownloadDone(d) \/ DismissDownload(d)
          \/ \E p \in Pages : StartDownload(d, p)

-----------------------------------------------------------------------------
\* The sessions, pages and calls are what the code can hold.
BrowserTypeOK ==
    /\ \A c \in Conversations :
          /\ IsInjective(session[c].tabs)
          /\ \A p \in ToSet(session[c].tabs) : page[p] = c
          /\ session[c].selected # NoPage => Contains(session[c].tabs, session[c].selected)
    /\ dialog \subseteq {p \in Pages : page[p] # NoConversation}
    /\ \A k \in ToolCalls : toolCall[k].at \in {"idle", "queued", "overlay", "page", "done"}
    /\ \A d \in Downloads : download[d].listed => Live(session[download[d].owner])

\* The pages whose native views are mounted in a window.
Mounted == {panel.mounted} \cup {detached[c].mounted : c \in Conversations}

\* Whatever windows open and close, pages come and go and tools select, a
\* native view is visible exactly where its window has it mounted, it is the
\* selected page of an open session, and no window shows the page of another
\* conversation than its own.
ViewsFollow ==
    /\ visible = Mounted \ {NoPage}
    /\ panel.mounted = MainPage(session, Windows)
    /\ \A c \in Conversations : detached[c].mounted =
           IF detached[c].window THEN Presents(session[c], detached[c].bounds) ELSE NoPage

\* Tools of a conversation act one at a time, in the order of their calls,
\* also after their session was closed and another one opened.
ToolsInTurn == \A k \in ToolCalls : toolCall[k].at \in {"overlay", "page"} => First(k)

=============================================================================
