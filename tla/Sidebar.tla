------------------------------- MODULE Sidebar --------------------------------
(***************************************************************************)
(* The sidebar of the desktop and the search in a conversation: the list of *)
(* projects and chats with what is created and deleted in it and the chat   *)
(* that is selected; the search over all chats; and the search within one,  *)
(* which shows the page of history around a match and loads more of it at   *)
(* both ends.                                                               *)
(*                                                                         *)
(* One project stands for all.  The API answers what it holds when it       *)
(* handles a request; answers arrive later and in any order.  A query is a  *)
(* number, 0 the empty one.  History is a row of messages that does not     *)
(* change, a page is three of them.                                         *)
(***************************************************************************)
EXTENDS Integers, FiniteSetsExt

CONSTANTS
    Chats,           \* the chats of the project
    NoChat,          \* no chat is selected
    MaxRefreshes,    \* bound: how often the list is asked for
    MaxQueries,      \* bound: the changes of a query
    LastMessage      \* the messages of the conversation are 1..LastMessage

ASSUME LastMessageAssumption == LastMessage \in Nat

VARIABLES
    chats,       \* the chats the API holds
    list,        \* the list in the sidebar
    lists,       \* the requests for the list
    edits,       \* chats being created and deleted
    finder,      \* the search over all chats
    finds,       \* its timers and requests
    search,      \* the search in the conversation
    searches,    \* its timers and requests
    pageLoads    \* the pages of history that are being loaded

projectVars == <<chats, list, lists, edits>>
finderVars == <<finder, finds>>
searchVars == <<search, searches, pageLoads>>
sidebarVars == <<chats, list, lists, edits, finder, finds, search, searches, pageLoads>>

-----------------------------------------------------------------------------
\* The list of chats.

SidebarInit ==
    /\ chats = {}
    /\ list = [held |-> {}, effect |-> 1, failed |-> FALSE, selected |-> NoChat,
               crossed |-> FALSE]
    /\ lists = {[effect |-> 1, read |-> FALSE, held |-> {}]}
    /\ edits = {}
    /\ finder = [query |-> 0, request |-> 0, results |-> 0, searching |-> FALSE, asked |-> 0]
    /\ finds = {}
    /\ search = [query |-> 0, at |-> 0, version |-> 0, asked |-> 0, result |-> 0, view |-> {},
                 around |-> 0, loading |-> FALSE, failed |-> FALSE, paging |-> FALSE]
    /\ searches = {} /\ pageLoads = {}

\* A turn ended, a chat was branched, or the user retries: the list is asked for
\* again, and the answer to the request before is ignored.
Refresh ==
    /\ list.effect < MaxRefreshes
    /\ list' = [list EXCEPT !.effect = @ + 1]
    /\ lists' = lists \cup {[effect |-> list.effect + 1, read |-> FALSE, held |-> {}]}
    /\ UNCHANGED <<chats, edits>>

ListRead(r) ==
    /\ r \in lists /\ ~r.read
    /\ lists' = (lists \ {r})
          \cup {[effect |-> r.effect, read |-> TRUE, held |-> chats]}
    /\ UNCHANGED <<chats, list, edits>>

\* Mutant: the answer to every request is shown.
ListShown(r) ==
    /\ r \in lists /\ r.read
    /\ lists' = lists \ {r}
    /\ list' = [list EXCEPT !.held = r.held, !.failed = FALSE]
    /\ UNCHANGED <<chats, edits>>

ListAnswered(r) ==
    /\ r \in lists /\ r.read
    /\ lists' = lists \ {r}
    /\ list' = IF r.effect # list.effect THEN list
               ELSE [list EXCEPT !.held = r.held, !.failed = FALSE]
    /\ UNCHANGED <<chats, edits>>

ListFails(r) ==
    /\ r \in lists
    /\ lists' = lists \ {r}
    /\ list' = IF r.effect # list.effect THEN list ELSE [list EXCEPT !.failed = TRUE]
    /\ UNCHANGED <<chats, edits>>

\* A chat is created or, once confirmed, deleted.  The page has the selection of
\* the moment the request was made when its answer comes.
AskEdit(kind, c) ==
    /\ \A x \in edits : x.chat # c
    /\ IF kind = "create" THEN c \notin chats ELSE c \in list.held
    /\ edits' = edits \cup {[kind |-> kind, chat |-> c, done |-> FALSE, selected |-> list.selected]}
    /\ UNCHANGED <<chats, list, lists>>

EditDone(x) ==
    /\ x \in edits /\ ~x.done
    /\ chats' = IF x.kind = "create" THEN chats \cup {x.chat} ELSE chats \ {x.chat}
    /\ edits' = (edits \ {x}) \cup {[x EXCEPT !.done = TRUE]}
    /\ UNCHANGED <<list, lists>>

EditAnswered(x) ==
    /\ x \in edits /\ x.done
    /\ edits' = edits \ {x}
    /\ list' = [list EXCEPT
                  !.held = IF x.kind = "create" THEN @ \cup {x.chat} ELSE @ \ {x.chat},
                  !.selected = IF x.kind = "create" THEN x.chat
                               ELSE IF x.selected = x.chat THEN NoChat ELSE @,
                  !.crossed = @ \/ \E r \in lists : r.effect = list.effect /\ r.read]
    /\ UNCHANGED <<chats, lists>>

SelectChat(c) ==
    /\ c \in list.held /\ list' = [list EXCEPT !.selected = c]
    /\ UNCHANGED <<chats, lists, edits>>

ProjectsNext ==
    \/ Refresh
    \/ \E r \in lists : ListRead(r) \/ ListAnswered(r) \/ ListFails(r)
    \/ \E c \in Chats : AskEdit("create", c) \/ AskEdit("delete", c) \/ SelectChat(c)
    \/ \E x \in edits : EditDone(x) \/ EditAnswered(x)

-----------------------------------------------------------------------------
\* The search over all chats.

\* The effect of the page: a number for the request, and a timer if there is a query.
FinderEffect(f, q, others) ==
    /\ finder' = [f EXCEPT !.query = q, !.request = @ + 1]
    /\ finds' = {x \in others : x.at # "timer"}
          \cup (IF q = 0 THEN {} ELSE {[at |-> "timer", query |-> q, request |-> f.request + 1]})

ChangeSearchQuery(q) ==
    /\ q # finder.query /\ finder.asked < MaxQueries
    /\ FinderEffect([finder EXCEPT !.request = @ + 1, !.results = 0, !.searching = q # 0,
                             !.asked = @ + 1], q, finds)

\* The list was refreshed: the same query is searched again.
SearchRefreshed ==
    /\ finder.asked < MaxQueries
    /\ FinderEffect([finder EXCEPT !.asked = @ + 1], finder.query, finds)

SearchStarts(x) ==
    /\ x \in finds /\ x.at = "timer"
    /\ finds' = (finds \ {x}) \cup {[x EXCEPT !.at = "asked"]}
    /\ UNCHANGED finder

\* Mutant: an answer is shown whatever was typed since.
SearchShown(x, found) ==
    /\ x \in finds /\ x.at = "asked"
    /\ finds' = finds \ {x}
    /\ finder' = [finder EXCEPT !.results = IF found THEN x.query ELSE 0, !.searching = FALSE]

\* The results of a query are the number of it, none are 0.
SearchAnswered(x, found) ==
    /\ x \in finds /\ x.at = "asked"
    /\ finds' = finds \ {x}
    /\ finder' = IF finder.request # x.request THEN finder
                 ELSE [finder EXCEPT !.results = IF found THEN x.query ELSE 0, !.searching = FALSE]

FinderNext ==
    \/ SearchRefreshed \/ \E q \in 0..2 : ChangeSearchQuery(q)
    \/ \E x \in finds : SearchStarts(x) \/ \E found \in BOOLEAN : SearchAnswered(x, found)

-----------------------------------------------------------------------------
\* The search within a conversation.

\* The effect of a new request; the timer of the one before is cleared.
SearchEffect(s) ==
    /\ search' = [s EXCEPT !.version = @ + 1, !.paging = FALSE]
    /\ searches' = {x \in searches : x.at # "timer"}
          \cup (IF s.query = 0 THEN {}
                ELSE {[at |-> "timer", query |-> s.query, match |-> 0, version |-> s.version + 1]})
    /\ UNCHANGED pageLoads

Begin(query) ==
    [search EXCEPT !.query = query, !.version = @ + 1, !.asked = @ + 1, !.result = 0,
                   !.failed = FALSE, !.loading = query # 0]

\* The query is changed or closed, the search retried, or moved to another match.
\* A new place from the sidebar renders the same, and drops the view if there is none.
BeginSearch(query) ==
    /\ search.asked < MaxQueries
    /\ \/ query # search.query
       \/ search.failed
       \/ ~search.loading /\ search.result # 0
    /\ SearchEffect(Begin(query))

ReturnLatest ==
    /\ search.view # {} /\ search.asked < MaxQueries
    /\ SearchEffect([Begin(0) EXCEPT !.view = {}, !.around = 0])

MessagesAsked(x) ==
    /\ x \in searches /\ x.at = "timer"
    /\ searches' = (searches \ {x}) \cup {[x EXCEPT !.at = "asked"]}
    /\ UNCHANGED <<search, pageLoads>>

\* The match, or that there is none; the page around it is asked for.
Matched(x, m) ==
    /\ x \in searches /\ x.at = "asked"
    /\ IF search.version # x.version
       THEN searches' = searches \ {x} /\ UNCHANGED search
       ELSE IF m = 0
       THEN /\ searches' = searches \ {x}
            /\ search' = [search EXCEPT !.result = -1, !.loading = FALSE]
       ELSE /\ searches' = (searches \ {x}) \cup {[x EXCEPT !.at = "page", !.match = m]}
            /\ search' = [search EXCEPT !.result = m]
    /\ UNCHANGED pageLoads

PageOf(m) == {k \in 1..LastMessage : k \in {m - 1, m, m + 1}}

PageArrives(x) ==
    /\ x \in searches /\ x.at = "page"
    /\ searches' = searches \ {x}
    /\ search' = IF search.version # x.version THEN search
                 ELSE [search EXCEPT !.view = PageOf(x.match), !.around = x.match, !.loading = FALSE]
    /\ UNCHANGED pageLoads

SearchFails(x) ==
    /\ x \in searches /\ x.at # "timer"
    /\ searches' = searches \ {x}
    /\ search' = IF search.version # x.version THEN search
                 ELSE [search EXCEPT !.failed = TRUE, !.loading = FALSE]
    /\ UNCHANGED pageLoads

\* The next message before the view or after it stands for a page of them.
LoadPage(step) ==
    LET next == IF step = -1 THEN Min(search.view) - 1 ELSE Max(search.view) + 1
    IN  /\ search.view # {} /\ next \in 1..LastMessage
        /\ ~search.loading /\ ~search.paging
        /\ search' = [search EXCEPT !.paging = TRUE, !.loading = TRUE, !.failed = FALSE]
        /\ pageLoads' = pageLoads \cup {[message |-> next, version |-> search.version]}
        /\ UNCHANGED searches

PageLoaded(x) ==
    /\ x \in pageLoads
    /\ pageLoads' = pageLoads \ {x}
    /\ search' = IF search.version # x.version THEN search
                 ELSE [search EXCEPT !.view = @ \cup {x.message}, !.paging = FALSE, !.loading = FALSE]
    /\ UNCHANGED searches

PageFails(x) ==
    /\ x \in pageLoads
    /\ pageLoads' = pageLoads \ {x}
    /\ search' = IF search.version # x.version THEN search
                 ELSE [search EXCEPT !.failed = TRUE, !.paging = FALSE, !.loading = FALSE]
    /\ UNCHANGED searches

SearchNext ==
    \/ ReturnLatest \/ \E q \in 0..2 : BeginSearch(q)
    \/ \E x \in searches : MessagesAsked(x) \/ PageArrives(x) \/ SearchFails(x)
                           \/ \E m \in 0..LastMessage : Matched(x, m)
    \/ \E step \in {-1, 1} : LoadPage(step)
    \/ \E x \in pageLoads : PageLoaded(x) \/ PageFails(x)

-----------------------------------------------------------------------------
\* The list in the sidebar is what the API held when it last read it, with what was
\* created and deleted since, whichever of two refreshes answers last
\* (ProjectList.tsx): once nothing is on its way it has every chat there is, unless a
\* list that was read before a change arrived after it.
ListAgrees ==
    (lists = {} /\ edits = {} /\ ~list.failed /\ ~list.crossed) => list.held = chats

\* What is found belongs to what is typed (ProjectList.tsx, useConversationSearch.ts):
\* results over all chats are of the query there is now, and a search shown as running is
\* one; the match in a conversation is of its request, and its view is one unbroken
\* row of messages around a match, whatever was asked and loaded before.
SearchAgrees ==
    /\ finder.results \in {0, finder.query}
    /\ finder.searching => \E x \in finds : x.request = finder.request
    /\ search.loading <=>
          \/ \E x \in searches : x.version = search.version
          \/ \E x \in pageLoads : x.version = search.version
    /\ search.view # {} =>
          /\ search.around \in search.view
          /\ search.view = Min(search.view)..Max(search.view)

\* The list of chats and both searches (ProjectList.tsx, useConversationSearch.ts).
SidebarAgrees == ListAgrees /\ SearchAgrees

=============================================================================
