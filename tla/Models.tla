-------------------------------- MODULE Models --------------------------------
(***************************************************************************)
(* The model configurations of an account: the settings page edits a draft   *)
(* of the list (adding, filling in, removing, dragging) and saves it whole;  *)
(* every chat page lists the models, is told of every save of this desktop,  *)
(* and remembers the model chosen in it.  A phone of the same account saves   *)
(* its own list.                                                            *)
(*                                                                         *)
(* A configuration is its identifier; filled says that its fields would pass *)
(* the validation.  The user waits for one save before the next.             *)
(***************************************************************************)
EXTENDS Naturals, Sequences, SequencesExt, FiniteSets

CONSTANTS
    ModelIds,      \* the identifiers of configurations
    NoModel        \* stands for no identifier

ASSUME ModelsAssumption == IsFiniteSet(ModelIds) /\ NoModel \notin ModelIds

VARIABLES
    configured,    \* the list the API holds
    draft,         \* the settings page: its list and what is being dragged
    saving,        \* the save under way: its phase and list
    chooser,       \* the model list of a chat page
    remembered,    \* the model the session storage names for the chat
    elsewhere      \* history: the list of the page missed a change by design

modelVars == <<configured, draft, saving, chooser, remembered, elsewhere>>

Lists == {s \in UNION {[1..n -> ModelIds] : n \in 0..Cardinality(ModelIds)} : IsInjective(s)}
NoSave == [phase |-> "off", list |-> <<>>]
NoChooser == [open |-> FALSE, asked |-> "no", answer |-> <<>>, changed |-> FALSE,
              models |-> <<>>, selected |-> NoModel]
Filled(list) == [i \in DOMAIN list |-> [id |-> list[i], filled |-> TRUE]]
IdsOf(list) == [i \in DOMAIN list |-> list[i].id]
Listed(list) == {list[i].id : i \in DOMAIN list}
NoDrag == [dragged |-> NoModel, target |-> NoModel]
DraftOf(list) == [list |-> Filled(list), drag |-> NoDrag]

ModelsInit ==
    /\ configured \in Lists
    /\ draft = DraftOf(configured)
    /\ saving = NoSave /\ chooser = NoChooser
    /\ remembered = NoModel /\ elsewhere = FALSE

(***************************************************************************)
(* The settings page.                                                      *)
(***************************************************************************)
OnlyDraft == UNCHANGED <<configured, saving, chooser, remembered, elsewhere>>

OpenSettings ==
    /\ saving = NoSave
    /\ draft' = DraftOf(configured)
    /\ OnlyDraft

AddModel(m) ==
    /\ m \notin Listed(draft.list)
    /\ draft' = [draft EXCEPT !.list = Append(@, [id |-> m, filled |-> FALSE])]
    /\ OnlyDraft

FillIn(m) ==
    /\ \E i \in DOMAIN draft.list : draft.list[i] = [id |-> m, filled |-> FALSE]
    /\ draft' = [draft EXCEPT !.list =
                    [i \in DOMAIN @ |-> IF @[i].id = m THEN [@[i] EXCEPT !.filled = TRUE] ELSE @[i]]]
    /\ OnlyDraft

Position(list, m) == CHOOSE i \in DOMAIN list : list[i].id = m

\* The card with the identifier is filtered out: there is only one.
RemoveModel(m) ==
    /\ m \in Listed(draft.list)
    /\ draft' = [draft EXCEPT !.list = RemoveAt(@, Position(@, m))]
    /\ OnlyDraft

StartDrag(m) ==
    /\ m \in Listed(draft.list)
    /\ draft' = [draft EXCEPT !.drag = [dragged |-> m, target |-> m]]
    /\ OnlyDraft

\* Dragging over a card marks it, unless the cards have changed meanwhile.
PreviewDrop(m) ==
    /\ draft.drag.dragged \notin {NoModel, m}
    /\ {m, draft.drag.dragged} \subseteq Listed(draft.list)
    /\ draft' = [draft EXCEPT !.drag.target = m]
    /\ OnlyDraft

\* Mutant: the dragged card also stays where it was.
MovedCopied(list, m, n) ==
    IF m = n \/ ~({m, n} \subseteq Listed(list)) THEN list
    ELSE InsertAt(list, Position(list, n), list[Position(list, m)])

\* The dragged card takes the place of the target, the ones between move up.
Moved(list, m, n) ==
    IF m = n \/ ~({m, n} \subseteq Listed(list)) THEN list
    ELSE InsertAt(RemoveAt(list, Position(list, m)), Position(list, n),
                  list[Position(list, m)])

DropModel ==
    /\ draft.drag.dragged # NoModel
    /\ draft' = [list |-> Moved(draft.list, draft.drag.dragged, draft.drag.target),
                 drag |-> NoDrag]
    /\ OnlyDraft

EndDrag ==
    /\ draft.drag # NoDrag
    /\ draft' = [draft EXCEPT !.drag = NoDrag]
    /\ OnlyDraft

ClickSave ==
    /\ saving = NoSave
    /\ \A i \in DOMAIN draft.list : draft.list[i].filled
    /\ saving' = [phase |-> "put", list |-> IdsOf(draft.list)]
    /\ UNCHANGED <<configured, draft, chooser, remembered, elsewhere>>

ModelsPut ==
    /\ saving.phase = "put"
    /\ configured' = saving.list
    /\ saving' = [saving EXCEPT !.phase = "get"]
    /\ UNCHANGED <<draft, chooser, remembered, elsewhere>>

ModelsRead ==
    /\ saving.phase = "get"
    /\ saving' = [phase |-> "publish", list |-> configured]
    /\ UNCHANGED <<configured, draft, chooser, remembered, elsewhere>>

\* What the page loses when a save fails: nothing before it is stored; after
\* it the other pages are not told.
SaveFails ==
    /\ saving.phase \in {"put", "get"}
    /\ saving' = NoSave
    /\ elsewhere' = (elsewhere \/ saving.phase = "get")
    /\ UNCHANGED <<configured, draft, chooser, remembered>>

(***************************************************************************)
(* The chat page.                                                          *)
(***************************************************************************)
\* The remembered model is kept while it is listed, or else the first is taken.
Choice(list) ==
    IF remembered \in Range(list) THEN remembered
    ELSE IF list = <<>> THEN NoModel ELSE list[1]

Offer(page, list) ==
    /\ chooser' = [page EXCEPT !.models = list, !.selected = Choice(list)]
    /\ remembered' = Choice(list)

\* The fresh list goes to the settings page and to every window.
SavePublished ==
    /\ saving.phase = "publish"
    /\ saving' = NoSave
    /\ draft' = [draft EXCEPT !.list = Filled(saving.list)]
    /\ IF chooser.open THEN Offer([chooser EXCEPT !.changed = TRUE], saving.list)
       ELSE UNCHANGED <<chooser, remembered>>
    /\ UNCHANGED <<configured, elsewhere>>

OpenChooser ==
    /\ ~chooser.open
    /\ chooser' = [NoChooser EXCEPT !.open = TRUE, !.asked = "asked", !.selected = remembered]
    /\ elsewhere' = (elsewhere /\ saving # NoSave)
    /\ UNCHANGED <<configured, draft, saving, remembered>>

CloseChooser ==
    /\ chooser.open
    /\ chooser' = NoChooser
    /\ UNCHANGED <<configured, draft, saving, remembered, elsewhere>>

ModelsListed ==
    /\ chooser.asked = "asked"
    /\ chooser' = [chooser EXCEPT !.asked = "answered", !.answer = configured]
    /\ UNCHANGED <<configured, draft, saving, remembered, elsewhere>>

\* Mutant: an answer replaces a list that is newer.
ListArrivesLate ==
    /\ chooser.asked = "answered"
    /\ Offer([chooser EXCEPT !.asked = "no", !.answer = <<>>], chooser.answer)
    /\ UNCHANGED <<configured, draft, saving, elsewhere>>

\* An answer that comes after a change of the list is older than it.
ListArrives ==
    /\ chooser.asked = "answered"
    /\ LET page == [chooser EXCEPT !.asked = "no", !.answer = <<>>]
       IN  IF chooser.changed THEN chooser' = page /\ UNCHANGED remembered
           ELSE Offer(page, chooser.answer)
    /\ UNCHANGED <<configured, draft, saving, elsewhere>>

ListFails ==
    /\ chooser.asked = "asked"
    /\ chooser' = [chooser EXCEPT !.asked = "no"]
    /\ elsewhere' = TRUE
    /\ UNCHANGED <<configured, draft, saving, remembered>>

ChooseModel(m) ==
    /\ chooser.open /\ m \in Range(chooser.models)
    /\ chooser' = [chooser EXCEPT !.selected = m]
    /\ remembered' = m
    /\ UNCHANGED <<configured, draft, saving, elsewhere>>

\* The phone saves its list whole; no window of the desktop hears of it.
PhoneSaves(list) ==
    /\ configured' = list /\ list # configured
    /\ elsewhere' = TRUE
    /\ UNCHANGED <<draft, saving, chooser, remembered>>

ModelsNext ==
    \/ OpenSettings \/ DropModel \/ EndDrag \/ ClickSave
    \/ \E m \in ModelIds : AddModel(m) \/ FillIn(m) \/ RemoveModel(m) \/ StartDrag(m)
                           \/ PreviewDrop(m) \/ ChooseModel(m)
    \/ ModelsPut \/ ModelsRead \/ SaveFails \/ SavePublished
    \/ OpenChooser \/ CloseChooser \/ ModelsListed \/ ListArrives \/ ListFails
    \/ \E list \in Lists : PhoneSaves(list)

(***************************************************************************)
(* Properties.                                                             *)
(***************************************************************************)
\* Every list is one that can be configured, and a save is at a step of the code.
ModelsTypeOK ==
    /\ configured \in Lists
    /\ IdsOf(draft.list) \in Lists
    /\ saving.phase \in {"off", "put", "get", "publish"} /\ saving.list \in Lists
    /\ chooser.models \in Lists
    /\ remembered \in ModelIds \cup {NoModel}
    /\ elsewhere \in BOOLEAN

\* However the page's own question and the announcement of a save cross: once
\* neither is under way, an open chat page offers the saved list in its order,
\* its chosen model is one of them, and the one remembered for it.
ChooserUpToDate ==
    chooser.open /\ chooser.asked = "no" /\ saving = NoSave /\ ~elsewhere =>
        /\ chooser.models = configured
        /\ chooser.selected = remembered
        /\ chooser.selected = NoModel <=> configured = <<>>
        /\ configured # <<>> => chooser.selected \in Range(configured)

=============================================================================
