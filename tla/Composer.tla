------------------------------- MODULE Composer -------------------------------
(***************************************************************************)
(* The composer at the foot of a chat: the draft with its attachments, the  *)
(* sends that are under way, and what is taken back from the queue of       *)
(* follow-ups; the strip that shows that queue; and the suggestions shown   *)
(* in the empty editor.  What becomes of a message once it is accepted is   *)
(* in ConversationView and Followups.                                       *)
(*                                                                         *)
(* The draft is a sequence of words, each typed once; the editor keeps a    *)
(* document of its own, which falls behind the draft while an input method  *)
(* composes a word.  Erasing, dictation and what the voice composer sends   *)
(* (Speech) and the limit of twenty attachments are left out.               *)
(***************************************************************************)
EXTENDS Naturals, Sequences, FiniteSets

CONSTANTS
    MaxTyped,         \* bound: the words that are typed
    MaxSubmits,       \* bound: the messages that are sent
    Images,           \* the images that are pasted
    MaxMounts,        \* bound: how often the text composer is mounted
    MaxQueueChanges,  \* bound: the changes of the queue behind the strip
    MaxLists          \* bound: the lists of suggestions

VARIABLES
    draft,        \* the composer and the page around it
    sends,        \* the sends whose answers are awaited
    pastes,       \* the images being saved, each with the mount it was pasted in
    queued,       \* accepted messages the user may take back
    heard,        \* the words the run has been given
    returning,    \* messages taken back whose answers are under way
    strip,        \* the strip of the queue, and what is on its way to it
    carousel      \* the suggestions of the empty editor

draftVars == <<draft, sends, pastes, queued, heard, returning>>
composerVars == <<draft, sends, pastes, queued, heard, returning, strip, carousel>>

Words(s) == {s[i] : i \in DOMAIN s}

\* Mutant: the draft is cleared whatever was typed meanwhile.
ClearedAnyway(content, sent) == <<>>

\* The same draft with its answer taken: words typed meanwhile stay, and those
\* that were sent stay with them.
Answered(content, sent) == IF content = sent THEN <<>> ELSE content

\* Mutant: the first image that is saved ends the wait for all.
PastesDone(count) == 0

PasteDone(count) == count - 1

-----------------------------------------------------------------------------
ComposerInit ==
    /\ draft = [content |-> <<>>, typed |-> 0, submits |-> 0, files |-> {}, mode |-> "text", mount |-> 1,
                submitting |-> FALSE, pasting |-> 0, restored |-> {}, editing |-> FALSE,
                resends |-> 0, document |-> <<>>, composing |-> FALSE, withdrawn |-> {},
                lost |-> {}]
    /\ sends = {} /\ pastes = {} /\ queued = {} /\ heard = {} /\ returning = {}
    /\ strip = [queue |-> 0, shown |-> 0, updated |-> FALSE, events |-> <<>>,
                asked |-> "no", answer |-> 0]
    /\ carousel = [list |-> 1, empty |-> TRUE, effect |-> 1, active |-> <<1, 1>>,
                   typed |-> <<1, 1>>, timers |-> {[effect |-> 1, then |-> "erase", of |-> <<1, 1>>]}]

Writable == draft.mode = "text" /\ ~draft.editing

\* The editor tells its document, which replaces the draft: what only the draft had
\* is lost.
Written(d, document) ==
    [d EXCEPT !.document = document, !.content = document,
              !.lost = @ \cup (Words(d.content) \ Words(document))]

\* The page changes the draft.  The editor follows, but not while it composes, and
\* does not make up for it afterwards.
Shown(d, content) ==
    [d EXCEPT !.content = content,
              !.document = IF d.composing \/ d.content = content THEN @ ELSE content]

\* A word is typed; a composed one reaches the document while the draft waits.  A
\* click ends the composition before it does anything else, and Enter waits for it.
Type ==
    /\ Writable /\ ~draft.composing /\ draft.typed < MaxTyped
    /\ draft' = Written([draft EXCEPT !.typed = @ + 1], Append(draft.document, draft.typed + 1))
    /\ UNCHANGED <<sends, pastes, queued, heard, returning>>

ComposeStarts ==
    /\ Writable /\ ~draft.composing /\ draft.typed < MaxTyped
    /\ draft' = [draft EXCEPT !.composing = TRUE]
    /\ UNCHANGED <<sends, pastes, queued, heard, returning>>

\* With a word, or given up.
ComposeEnds(word) ==
    /\ draft.composing
    /\ draft' = IF word
                THEN Written([draft EXCEPT !.composing = FALSE, !.typed = @ + 1],
                             Append(draft.document, draft.typed + 1))
                ELSE [draft EXCEPT !.composing = FALSE]
    /\ UNCHANGED <<sends, pastes, queued, heard, returning>>

PasteImage(p) ==
    /\ Writable /\ p \notin draft.files /\ \A x \in pastes : x.image # p
    /\ \A s \in sends \cup queued : p \notin s.files
    /\ pastes' = pastes \cup {[image |-> p, mount |-> draft.mount]}
    /\ draft' = [draft EXCEPT !.pasting = @ + 1]
    /\ UNCHANGED <<sends, queued, heard, returning>>

\* The image is saved, or cannot be.  A count that was unmounted is gone.
PasteSaved(x, saved) ==
    /\ x \in pastes
    /\ pastes' = pastes \ {x}
    /\ draft' = [draft EXCEPT !.files = IF saved THEN @ \cup {x.image} ELSE @,
                              !.pasting = IF x.mount = draft.mount /\ draft.mode = "text"
                                          THEN PasteDone(@) ELSE @]
    /\ UNCHANGED <<sends, queued, heard, returning>>

RemoveAttachment(p) ==
    /\ p \in draft.files /\ draft.mode = "text"
    /\ draft' = [draft EXCEPT !.files = @ \ {p}]
    /\ UNCHANGED <<sends, pastes, queued, heard, returning>>

Submit ==
    /\ Writable /\ ~draft.composing /\ ~draft.submitting /\ draft.pasting = 0
    /\ draft.submits < MaxSubmits
    /\ draft.content # <<>> \/ draft.files # {}
    /\ sends' = sends \cup {[content |-> draft.content, files |-> draft.files, mount |-> draft.mount,
                             unsaved |-> {x \in pastes : x.mount = draft.mount}]}
    /\ draft' = [draft EXCEPT !.submitting = TRUE, !.submits = @ + 1]
    /\ UNCHANGED <<pastes, queued, heard, returning>>

\* The send is accepted or not.  The attachments there are by now are cleared
\* with it, those that came after it included.
SendAnswered(s, accepted) ==
    /\ s \in sends
    /\ sends' = sends \ {s}
    /\ queued' = IF accepted THEN queued \cup {[content |-> s.content, files |-> s.files]} ELSE queued
    /\ draft' = [Shown(draft, IF accepted THEN Answered(draft.content, s.content) ELSE draft.content)
                 EXCEPT !.files = IF accepted THEN {} ELSE @,
                        !.submitting = @ /\ ~(s.mount = draft.mount /\ draft.mode = "text")]
    /\ UNCHANGED <<pastes, heard, returning>>

\* The run takes a message of the queue: nobody can take it back any more.
Taken(m) ==
    /\ m \in queued
    /\ queued' = queued \ {m} /\ heard' = heard \cup Words(m.content)
    /\ UNCHANGED <<draft, sends, pastes, returning>>

Withdraw(m) ==
    /\ m \in queued /\ ~draft.composing
    /\ queued' = queued \ {m} /\ returning' = returning \cup {m}
    /\ draft' = [draft EXCEPT !.withdrawn = @ \cup Words(m.content)]
    /\ UNCHANGED <<sends, pastes, heard>>

\* The withdrawn message arrives and waits for the next render in the one place
\* there is for it; its attachments join the others.
Withdrawn(m) ==
    /\ m \in returning
    /\ returning' = returning \ {m}
    /\ draft' = [draft EXCEPT !.restored = {m.content}, !.files = @ \cup m.files,
                              !.lost = @ \cup UNION {Words(c) : c \in draft.restored}]
    /\ UNCHANGED <<sends, pastes, queued, heard>>

Render ==
    /\ draft.restored # {}
    /\ draft' = [Shown(draft, draft.content \o CHOOSE c \in draft.restored : TRUE)
                 EXCEPT !.restored = {}]
    /\ UNCHANGED <<sends, pastes, queued, heard, returning>>

\* Automatic reading is switched: the voice composer takes the place of the text
\* composer, or a new text composer that of the voice composer.
ToggleAutoPlay ==
    /\ ~draft.composing
    /\ draft.mode = "voice" => draft.mount < MaxMounts
    /\ draft' = [draft EXCEPT !.mode = IF @ = "text" THEN "voice" ELSE "text",
                              !.mount = IF draft.mode = "voice" THEN @ + 1 ELSE @,
                              !.document = draft.content, !.submitting = FALSE, !.pasting = 0]
    /\ UNCHANGED <<sends, pastes, queued, heard, returning>>

\* The last message of the user is edited in its place, with the composer
\* disabled; the button that sends it again does not wait for an answer.  No run
\* is in progress then; a message may be on its way to start one.
\* bound: two sends of an edited message
EditStarts ==
    /\ ~draft.editing /\ ~draft.composing /\ draft.submits > 0
    /\ draft' = [draft EXCEPT !.editing = TRUE]
    /\ UNCHANGED <<sends, pastes, queued, heard, returning>>

EditCancelled ==
    /\ draft.editing
    /\ draft' = [draft EXCEPT !.editing = FALSE]
    /\ UNCHANGED <<sends, pastes, queued, heard, returning>>

Resend ==
    /\ draft.editing /\ draft.resends < 2
    /\ draft' = [draft EXCEPT !.resends = @ + 1]
    /\ UNCHANGED <<sends, pastes, queued, heard, returning>>

Resent(accepted) ==
    /\ draft.resends > 0
    /\ draft' = [draft EXCEPT !.resends = @ - 1, !.editing = @ /\ ~accepted]
    /\ UNCHANGED <<sends, pastes, queued, heard, returning>>

DraftNext ==
    \/ Type \/ ComposeStarts \/ Submit \/ Render \/ ToggleAutoPlay \/ EditStarts \/ EditCancelled \/ Resend
    \/ \E ok \in BOOLEAN : Resent(ok) \/ ComposeEnds(ok)
    \/ \E p \in Images : PasteImage(p) \/ RemoveAttachment(p)
    \/ \E x \in pastes, ok \in BOOLEAN : PasteSaved(x, ok)
    \/ \E s \in sends, ok \in BOOLEAN : SendAnswered(s, ok)
    \/ \E m \in queued : Taken(m) \/ Withdraw(m)
    \/ \E m \in returning : Withdrawn(m)

-----------------------------------------------------------------------------
\* The strip.  The queue is the number of its changes; the answer to the page's
\* question and the events of the queue may arrive in either order.

QueueChanges ==
    /\ strip.queue < MaxQueueChanges
    /\ strip' = [strip EXCEPT !.queue = @ + 1, !.events = Append(@, strip.queue + 1)]

Followups ==
    /\ strip.asked = "no"
    /\ strip' = [strip EXCEPT !.asked = "asked"]

FollowupsRead ==
    /\ strip.asked = "asked"
    /\ strip' = [strip EXCEPT !.asked = "read", !.answer = strip.queue]

QueueEvent ==
    /\ strip.events # <<>>
    /\ strip' = [strip EXCEPT !.shown = Head(strip.events), !.updated = TRUE, !.events = Tail(@)]

\* Mutant: the answer is shown whatever came before it.
FollowupsShown ==
    /\ strip.asked = "read"
    /\ strip' = [strip EXCEPT !.asked = "done", !.shown = strip.answer]

FollowupsAnswered ==
    /\ strip.asked = "read"
    /\ strip' = [strip EXCEPT !.asked = "done", !.shown = IF strip.updated THEN @ ELSE strip.answer]

FollowupsFailed ==
    /\ strip.asked = "asked"
    /\ strip' = [strip EXCEPT !.asked = "failed"]

StripNext ==
    QueueChanges \/ Followups \/ FollowupsRead \/ QueueEvent \/ FollowupsAnswered \/ FollowupsFailed

-----------------------------------------------------------------------------
\* The suggestions.  A suggestion is <<list, place>>; lists of two alternate with
\* the empty one.  Typing and erasing a suggestion are one timer each.

Suggestions(list) == IF list % 2 = 1 THEN 2 ELSE 0
NextOf(x) == <<x[1], (x[2] % 2) + 1>>

\* Mutant: the timers of the effect before run on.
EffectKeepingTimers(c) ==
    LET e == c.effect + 1
    IN  IF Suggestions(c.list) = 0 \/ ~c.empty
        THEN [c EXCEPT !.effect = e, !.active = <<>>]
        ELSE [c EXCEPT !.effect = e, !.active = <<c.list, 1>>, !.typed = <<c.list, 1>>,
                       !.timers = @ \cup {[effect |-> e, then |-> "erase", of |-> <<c.list, 1>>]}]

\* The effect of the editor runs again when the suggestions change or the text
\* becomes empty or not; the timers of the one before are cancelled.
EditorEffect(c) ==
    LET e == c.effect + 1
    IN  IF Suggestions(c.list) = 0 \/ ~c.empty
        THEN [c EXCEPT !.effect = e, !.active = <<>>, !.timers = {}]
        ELSE [c EXCEPT !.effect = e, !.active = <<c.list, 1>>, !.typed = <<c.list, 1>>,
                       !.timers = {[effect |-> e, then |-> "erase", of |-> <<c.list, 1>>]}]

EffectAgain(c) == EditorEffect([c EXCEPT !.effect = c.effect % 3])

SuggestionsArrive ==
    /\ carousel.list < MaxLists
    /\ carousel' = EffectAgain([carousel EXCEPT !.list = @ + 1])

TextChanges ==
    carousel' = EffectAgain([carousel EXCEPT !.empty = ~@])

\* A suggestion that was typed is erased; then the next one is typed.
TimerFires(x) ==
    /\ x \in carousel.timers
    /\ carousel' =
        IF x.then = "erase"
        THEN [carousel EXCEPT !.active = <<>>,
                              !.timers = (@ \ {x}) \cup {[x EXCEPT !.then = "type", !.of = NextOf(x.of)]}]
        ELSE [carousel EXCEPT !.active = x.of, !.typed = x.of,
                              !.timers = (@ \ {x}) \cup {[x EXCEPT !.then = "erase"]}]

\* Tab takes the suggestion into the empty editor, which changes its text.
TabApplies ==
    /\ carousel.empty /\ carousel.active # <<>>
    /\ carousel' = EffectAgain([carousel EXCEPT !.empty = FALSE])

CarouselNext ==
    SuggestionsArrive \/ TextChanges \/ TabApplies \/ \E x \in carousel.timers : TimerFires(x)

-----------------------------------------------------------------------------
\* The draft loses nothing (TaskComposer.tsx, ConversationChat.tsx): what the user
\* typed is in the editor, in the queue, on its way back from it, or was given to
\* the run, while sends fail or succeed, more is typed meanwhile and the composer is
\* replaced; and a message is not sent while an image pasted before it in the same
\* composer is still being saved.  What can be lost was withdrawn: two messages that
\* arrive before a render, or one that arrives while a word is composed.
DraftKept ==
    /\ 1..draft.typed \subseteq
          Words(draft.content) \cup heard \cup draft.lost
          \cup (UNION {Words(m.content) : m \in queued \cup returning})
          \cup UNION {Words(c) : c \in draft.restored}
    /\ draft.lost \subseteq draft.withdrawn
    /\ \A s \in sends : s.unsaved = {}

\* The strip shows the queue as it is once nothing is on its way to it, whichever
\* of an event and the page's own question came first (useFollowupQueue.ts); a
\* question that failed leaves it as it was until the next change.
StripAgrees ==
    (strip.events = <<>> /\ strip.asked = "done") => strip.shown = strip.queue

\* The suggestion that Tab would apply is of the suggestions there are now, and the
\* one being typed out; there is none while the editor has text (PromptEditor.tsx).
SuggestionShown ==
    carousel.active # <<>> =>
        /\ carousel.empty /\ carousel.active[1] = carousel.list
        /\ carousel.typed = carousel.active

\* The draft, the strip of the queue and the suggestions of one composer (TaskComposer.tsx).
ComposerAgrees == DraftKept /\ StripAgrees /\ SuggestionShown

=============================================================================
