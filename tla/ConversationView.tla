--------------------------- MODULE ConversationView ---------------------------
(***************************************************************************)
(* The page of an ordinary chat: it subscribes to the events of a thread,   *)
(* loads the saved history and the snapshot of the running turn, replays    *)
(* and batches the events once per frame, and merges the saved messages of  *)
(* every ended turn in place of its placeholder.  The runtime host and the  *)
(* API are seen as the page sees them: a log of events per turn and the      *)
(* list of saved messages.                                                  *)
(*                                                                         *)
(* Events and the answers of the main process reach the page in order and   *)
(* wait there for the next frame, which stands for the time they are under  *)
(* way.  Resending an edited message and the content of messages are left   *)
(* out.                                                                    *)
(***************************************************************************)
EXTENDS Naturals, Sequences, SequencesExt, FiniteSets

CONSTANT MaxThreadTurns    \* bound: the turns of the thread

Ids == 1..MaxThreadTurns
Message == [of : {"user", "optimistic", "stream", "answer"}, turn : Ids]
           \cup [of : {"older"}, turn : {0}]
User(t) == [of |-> "user", turn |-> t]
Optimistic(t) == [of |-> "optimistic", turn |-> t]
Stream(t) == [of |-> "stream", turn |-> t]
Answer(t) == [of |-> "answer", turn |-> t]
Older == [of |-> "older", turn |-> 0]

VARIABLES
    log,      \* turn -> the kinds of its journalled events; the index is the sequence
    saved,    \* the messages the API holds, in order, without the older page
    page      \* the state of the page

threadVars == <<log, saved>>
conversationVars == <<log, saved, page>>

Endings == {"completed", "failed", "interrupted"}
Over(t) == Len(log[t]) > 0 /\ Last(log[t]) \in Endings
Running == {t \in Ids : log[t] # <<>> /\ ~Over(t)}
Unstarted == {t \in Ids : log[t] = <<>>}
Holds(s, x) == \E i \in DOMAIN s : s[i] = x
Without(s, x) == SelectSeq(s, LAMBDA y : y # x)

\* The snapshot of the thread's last turn is replayed only while it runs.
Snapshot == IF Running = {} THEN <<>>
            ELSE LET t == CHOOSE t \in Running : TRUE
                 IN  [k \in 1..Len(log[t]) |-> <<t, k>>]

\* The load of the page: its snapshot is answered by the main process at once,
\* its history by the API later.
Loading(p) == [p EXCEPT !.phase = "loading", !.snapshot = Snapshot, !.history = <<>>,
                        !.pending = <<>>, !.queued = <<>>, !.handled = {},
                        !.observed = {}, !.greeted = {}, !.ended = {}, !.fetches = {},
                        !.unfetched = {}, !.reply = 0, !.asking = FALSE,
                        !.paging = IF @ = "asked" THEN "stale" ELSE @]

Opened == Loading([phase |-> "loading", snapshot |-> <<>>, history |-> <<>>, pending |-> <<>>,
                   queued |-> <<>>, handled |-> {}, messages |-> <<>>, shown |-> FALSE,
                   active |-> 0, sending |-> FALSE, observed |-> {}, greeted |-> {},
                   ended |-> {}, fetches |-> {}, unfetched |-> {}, reply |-> 0, stopping |-> 0,
                   asking |-> FALSE, suggested |-> FALSE, paging |-> "no", older |-> TRUE])

ConversationInit ==
    /\ log = [t \in Ids |-> <<>>]
    /\ saved = <<>>
    /\ page = Opened

(***************************************************************************)
(* The thread.                                                             *)
(***************************************************************************)
Enqueued(p, e) ==
    IF e \in p.handled THEN p
    ELSE [p EXCEPT !.handled = @ \cup {e}, !.queued = Append(@, e)]

\* append: the event is journalled and published to the pages.
Publish(t, kind, p) ==
    /\ log' = [log EXCEPT ![t] = Append(@, kind)]
    /\ LET e == <<t, Len(log[t]) + 1>>
       IN  page' = CASE p.phase = "loading" -> [p EXCEPT !.pending = Append(@, e)]
                     [] p.phase = "loaded" -> Enqueued(p, e)
                     [] OTHER -> p

NextTurn(t) == Running = {} /\ t \in Unstarted /\ \A u \in Unstarted : t <= u

\* A queued message is dispatched, or another window of the thread sends one.
HostStarts(t) ==
    /\ NextTurn(t)
    /\ Publish(t, "started", page)
    /\ UNCHANGED saved

\* The API accepts the message of the turn and saves it.
MessageSaved(t) ==
    /\ t \in Running /\ ~Holds(saved, User(t))
    /\ saved' = Append(saved, User(t))
    /\ UNCHANGED <<log, page>>

RunStarted(t) ==
    /\ t \in Running /\ Holds(saved, User(t)) /\ Len(log[t]) = 1
    /\ Publish(t, "user", page)
    /\ UNCHANGED saved

\* The answer is saved before the turn completes; the partial answer of an
\* interrupted turn may be saved after it.
AnswerSaved(t) ==
    /\ Holds(log[t], "user") /\ ~Holds(saved, Answer(t))
    /\ Over(t) => Last(log[t]) = "interrupted" /\ t + 1 \notin Running
    /\ \A u \in Ids : u > t => ~Holds(saved, User(u))
    /\ saved' = Append(saved, Answer(t))
    /\ UNCHANGED <<log, page>>

EndTurnOf(t, kind) ==
    /\ t \in Running
    /\ kind = "completed" => Holds(saved, Answer(t))
    /\ kind = "interrupted" => page.stopping = t \/ page.phase = "closed"
    /\ Publish(t, kind, page)
    /\ UNCHANGED saved

Thread == \E t \in Ids :
    \/ HostStarts(t) \/ MessageSaved(t) \/ RunStarted(t) \/ AnswerSaved(t)
    \/ \E kind \in Endings : EndTurnOf(t, kind)

(***************************************************************************)
(* Loading and leaving the page.                                           *)
(***************************************************************************)
LeavePage ==
    /\ page.phase # "closed"
    /\ page' = [Opened EXCEPT !.phase = "closed", !.snapshot = <<>>]
    /\ UNCHANGED threadVars

EnterPage ==
    /\ page.phase = "closed"
    /\ page' = Opened
    /\ UNCHANGED threadVars

\* A retry, or a change of the language, subscribes and loads again; what is
\* shown stays until the load is answered.
Reload ==
    /\ page.phase \in {"loaded", "failed"} /\ page.stopping = 0
    /\ page.phase = "failed" => ~page.shown
    /\ page' = Loading(page)
    /\ UNCHANGED threadVars

HistoryRead ==
    /\ page.phase = "loading" /\ page.history = <<>>
    /\ page' = [page EXCEPT !.history = <<saved>>]
    /\ UNCHANGED threadVars

\* A send is answered by the main process at once, so before a load is.
Loaded ==
    /\ page.phase = "loading" /\ page.history # <<>> /\ page.reply = 0
    /\ LET replay == page.snapshot \o SortSeq(page.pending, LAMBDA e, f : e[2] < f[2])
           fresh == [page EXCEPT
                !.phase = "loaded", !.history = <<>>, !.snapshot = <<>>, !.pending = <<>>,
                !.messages = page.history[1], !.shown = TRUE, !.older = TRUE,
                !.active = IF page.snapshot = <<>> THEN 0 ELSE page.snapshot[1][1],
                !.sending = page.snapshot # <<>>, !.suggested = FALSE]
       IN  page' = FoldLeft(Enqueued, fresh, replay)
    /\ UNCHANGED threadVars

LoadFails ==
    /\ page.phase = "loading"
    /\ page' = [page EXCEPT !.phase = "failed", !.history = <<>>, !.snapshot = <<>>,
                            !.pending = <<>>]
    /\ UNCHANGED threadVars

(***************************************************************************)
(* A frame: the queued events change the state, then the messages, and the *)
(* ended turns are asked for.                                              *)
(***************************************************************************)
Kind(e) == log[e[1]][e[2]]

\* projectRuntimeMessages, for one event.
Project(ms, e) ==
    LET t == e[1] IN
    CASE Kind(e) = "user" ->
            IF Holds(ms, User(t)) THEN ms
            ELSE IF Holds(ms, Optimistic(t))
            THEN [i \in DOMAIN ms |-> IF ms[i] = Optimistic(t) THEN User(t) ELSE ms[i]]
            ELSE IF Holds(ms, Stream(t))
            THEN FlattenSeq([i \in DOMAIN ms |->
                    IF ms[i] = Stream(t) THEN <<User(t), ms[i]>> ELSE <<ms[i]>>])
            ELSE Append(ms, User(t))
      [] Kind(e) = "started" -> IF Holds(ms, Stream(t)) THEN ms ELSE Append(ms, Stream(t))
      [] OTHER -> ms

Observe(p, e) ==
    LET t == e[1] IN
    CASE Kind(e) = "started" ->
            [p EXCEPT !.observed = @ \cup {t}, !.ended = @ \ {t}, !.active = t,
                      !.sending = TRUE, !.suggested = FALSE, !.asking = FALSE]
      [] Kind(e) = "user" -> IF t \in p.observed THEN [p EXCEPT !.greeted = @ \cup {t}] ELSE p
      [] OTHER -> IF t \in p.observed THEN [p EXCEPT !.ended = @ \cup {t}] ELSE p

\* Mutant: the end of any turn ends the one that is shown as running.
ConcludeAny(p, e) ==
    IF Kind(e) \notin Endings THEN p
    ELSE [p EXCEPT !.active = 0, !.sending = FALSE, !.fetches = @ \cup {e[1]}]

\* An ended turn is asked for, and suggestions after a completed one.
Conclude(p, e) ==
    IF Kind(e) \notin Endings THEN p
    ELSE LET t == e[1]
             idle == [p EXCEPT !.active = IF @ = t THEN 0 ELSE @,
                               !.sending = @ /\ p.active # t,
                               !.fetches = @ \cup {t}]
         IN  IF Kind(e) = "completed" THEN [idle EXCEPT !.asking = TRUE] ELSE idle

Frame ==
    /\ page.phase = "loaded" /\ page.queued # <<>>
    /\ LET observed == FoldLeft(Observe, page, page.queued)
           projected == [observed EXCEPT !.messages = FoldLeft(Project, @, page.queued)]
       IN  page' = [FoldLeft(Conclude, projected, page.queued) EXCEPT !.queued = <<>>]
    /\ UNCHANGED threadVars

\* Mutant: what the page already shows of the turn is added again.
MergedAgain(ms, got, t) ==
    IF Holds(ms, Stream(t)) /\ Holds(got, Answer(t))
    THEN FlattenSeq([i \in DOMAIN ms |-> IF ms[i] = Stream(t) THEN got ELSE <<ms[i]>>])
    ELSE ms \o got

\* mergeTurnMessages
Merged(ms, got, t) ==
    LET additions == SelectSeq(got, LAMBDA m : ~Holds(ms, m))
    IN  IF Holds(ms, Stream(t)) /\ Holds(got, Answer(t))
        THEN FlattenSeq([i \in DOMAIN ms |->
                IF ms[i] = Stream(t) THEN additions ELSE <<ms[i]>>])
        ELSE ms \o additions

TurnFetched(t) ==
    /\ page.phase = "loaded" /\ t \in page.fetches
    /\ LET got == SelectSeq(saved, LAMBDA m : m.turn = t)
       IN  page' = [page EXCEPT !.fetches = @ \ {t},
                                !.messages = Merged(@, got, t),
                                !.sending = @ /\ page.active \notin {0, t}]
    /\ UNCHANGED threadVars

TurnNotFetched(t) ==
    /\ page.phase = "loaded" /\ t \in page.fetches
    /\ page' = [page EXCEPT !.fetches = @ \ {t}, !.unfetched = @ \cup {t},
                            !.sending = @ /\ page.active # 0]
    /\ UNCHANGED threadVars

Suggested ==
    /\ page.phase = "loaded" /\ page.asking
    /\ page' = [page EXCEPT !.asking = FALSE, !.suggested = @ \/ page.active = 0]
    /\ UNCHANGED threadVars

(***************************************************************************)
(* The user, who acts on what a frame has shown.  A message sent while a    *)
(* turn runs goes to the queue and changes nothing here; it starts a turn   *)
(* of the host later.                                                      *)
(***************************************************************************)
SendMessageOf(t) ==
    /\ page.shown /\ page.queued = <<>> /\ page.reply = 0
    /\ NextTurn(t)
    /\ Publish(t, "started", [page EXCEPT !.reply = t])
    /\ UNCHANGED saved

SendAnswered ==
    /\ page.reply # 0
    /\ LET t == page.reply
           rest == Without(page.messages, Stream(t))
           named == IF t \in page.greeted THEN rest ELSE Append(rest, Optimistic(t))
       IN  page' = IF t \in page.ended THEN [page EXCEPT !.reply = 0]
                   ELSE [page EXCEPT !.reply = 0, !.active = t, !.sending = TRUE,
                                     !.messages = Append(named, Stream(t))]
    /\ UNCHANGED threadVars

ClickStopTurn ==
    /\ page.phase = "loaded" /\ page.active # 0 /\ page.stopping = 0
    /\ page' = [page EXCEPT !.stopping = page.active]
    /\ UNCHANGED threadVars

StopAnswered ==
    /\ page.stopping # 0 /\ Over(page.stopping)
    /\ LET own == page.active = page.stopping
       IN  page' = [page EXCEPT !.stopping = 0, !.active = IF own THEN 0 ELSE @,
                                !.sending = @ /\ ~own]
    /\ UNCHANGED threadVars

LoadOlder ==
    /\ page.shown /\ page.phase # "closed" /\ page.older /\ page.paging = "no"
    /\ page' = [page EXCEPT !.paging = "asked"]
    /\ UNCHANGED threadVars

OlderAnswered ==
    /\ page.paging # "no"
    /\ page' = IF page.paging = "stale" THEN [page EXCEPT !.paging = "no"]
               ELSE [page EXCEPT !.paging = "no", !.older = FALSE,
                        !.messages = IF Holds(@, Older) THEN @ ELSE <<Older>> \o @]
    /\ UNCHANGED threadVars

ConversationNext ==
    \/ Thread
    \/ LeavePage \/ EnterPage \/ Reload \/ HistoryRead \/ Loaded \/ LoadFails \/ Frame
    \/ \E t \in Ids : TurnFetched(t) \/ TurnNotFetched(t) \/ SendMessageOf(t)
    \/ Suggested \/ SendAnswered \/ ClickStopTurn \/ StopAnswered \/ LoadOlder \/ OlderAnswered

(***************************************************************************)
(* Properties.                                                             *)
(***************************************************************************)
\* The log, what is saved and what the page holds are messages and phases of the code.
ConversationTypeOK ==
    /\ DOMAIN log = Ids
    /\ \A i \in DOMAIN saved : saved[i] \in Message
    /\ \A i \in DOMAIN page.messages : page.messages[i] \in Message
    /\ page.active \in {0} \cup Ids /\ page.sending \in BOOLEAN
    /\ page.phase \in {"closed", "loading", "loaded", "failed"}

\* Nothing is under way between the thread and the page.
PageSettled == /\ page.phase = "loaded" /\ page.queued = <<>> /\ page.fetches = {}
           /\ page.reply = 0 /\ page.stopping = 0

Positions(m) == {i \in DOMAIN page.messages : page.messages[i] = m}

\* What is shown of a turn whose run began, the placeholder aside.
Begun(m) == m.of # "stream" /\ (m.of # "older" => Holds(log[m.turn], "user"))

\* Whatever order events, loads, sends and fetches were answered in, and
\* however often the page was left or loaded again: once nothing is under way,
\* the message of every turn whose run began is shown once, before its answer,
\* the answer of a completed turn stands once in place of its placeholder, and
\* turns are shown in their order.
TranscriptAgrees ==
    PageSettled =>
        /\ \A i, j \in DOMAIN page.messages :
              /\ page.messages[i] = page.messages[j] => i = j
              /\ i < j /\ Begun(page.messages[i]) /\ Begun(page.messages[j]) =>
                    page.messages[i].turn <= page.messages[j].turn
        /\ \A t \in Ids : Holds(log[t], "user") =>
              /\ Positions(User(t)) # {} /\ Positions(Optimistic(t)) = {}
              /\ t \in Running => Positions(Stream(t)) # {}
              /\ Over(t) /\ Last(log[t]) = "completed" /\ t \notin page.unfetched =>
                    Positions(Answer(t)) # {} /\ Positions(Stream(t)) = {}
              /\ Over(t) /\ t \notin page.unfetched =>
                    Positions(Answer(t)) = {} \/ Positions(Stream(t)) = {}
              /\ \A i \in Positions(User(t)) :
                    \A j \in Positions(Answer(t)) \cup Positions(Stream(t)) : i < j

\* Once nothing is under way, the page shows a turn as running exactly when
\* one is, and suggestions only when none is: a late answer about an older
\* turn never ends the newer one, and no end is overlooked.
SendingTracksTurn ==
    PageSettled =>
        /\ page.sending <=> Running # {}
        /\ Running = (IF page.active = 0 THEN {} ELSE {page.active})
        /\ page.suggested => Running = {}

=============================================================================
