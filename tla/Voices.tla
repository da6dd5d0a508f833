--------------------------------- MODULE Voices ---------------------------------
(***************************************************************************)
(* The speech settings: the form with the provider's workspace and key, the    *)
(* list of the workspace's cloned voices, which is polled while the provider     *)
(* still deploys one, and the dialog that records a sample with the microphone    *)
(* and creates a voice from it.                                              *)
(*                                                                         *)
(* A sample is measured in units of ten seconds.  The voices' statuses are     *)
(* whatever the provider reports.                                            *)
(***************************************************************************)
EXTENDS Naturals, Sequences, SequencesExt, FiniteSets

CONSTANTS
    VoiceIds,      \* the voices that may be created
    Spaces,        \* the provider's workspaces
    Languages,     \* the languages of a sample
    MaxVoices      \* bound: how many voices are created

VARIABLES
    account,       \* the API: the workspace stored, and whether a key is
    cloned,        \* the API: each voice's workspace and status
    form,          \* the settings form and the save under way
    voices,        \* the list: its snapshot, its request, its timer
    dialog,        \* the dialog that creates a voice
    recorder,      \* the recorder in it
    microphones,   \* how many microphone streams are open
    asking         \* permission requests of recorders that are gone

voiceVars == <<account, cloned, form, voices, dialog, recorder, microphones, asking>>

Absent == "absent"
Statuses == {"DEPLOYING", "OK", "UNDEPLOYED"}
NotSaving == [space |-> Absent, done |-> FALSE]
NoListing == [on |-> FALSE, refresh |-> FALSE, read |-> FALSE, answer |-> <<>>]
NoVoices(space) == [of |-> space, listed |-> <<>>, failed |-> FALSE, loading |-> FALSE,
                    timer |-> FALSE, refresh |-> FALSE, request |-> NoListing]
NoDialog == [open |-> FALSE, language |-> Absent, sample |-> Absent, busy |-> FALSE,
             space |-> Absent, created |-> Absent]
NoTake == [state |-> "idle", units |-> 0]

VoicesInit ==
    /\ account \in [space : Spaces, key : BOOLEAN]
    /\ cloned = [v \in VoiceIds |-> [space |-> Absent, status |-> Absent]]
    /\ form = [shown |-> FALSE, space |-> account.space, saved |-> account.space,
               key |-> account.key, typed |-> FALSE, save |-> NotSaving]
    /\ voices = NoVoices(account.space)
    /\ dialog = NoDialog /\ recorder = NoTake
    /\ microphones = 0 /\ asking = 0

(***************************************************************************)
(* The list of voices.                                                     *)
(***************************************************************************)
Configured(f) == f.shown /\ f.key /\ f.space = f.saved
Displayed(vs, f) == IF Configured(f) /\ vs.of = f.saved THEN vs.listed ELSE <<>>
Deploying(vs, f) ==
    \E i \in DOMAIN Displayed(vs, f) : Displayed(vs, f)[i].status = "DEPLOYING"

\* Mutant: the poll is left as it was when the snapshot changes.
ArmOnce(vs, f) == vs

\* The poll is armed anew whenever the snapshot or the settings change.
Arm(vs, f) ==
    [vs EXCEPT !.timer = Configured(f) /\ ~(vs.of = f.saved /\ vs.failed) /\ Deploying(vs, f)]

\* A request takes the place of the one before, whose answer is then ignored.
Ask(vs, refresh) ==
    [vs EXCEPT !.refresh = refresh,
               !.request = [NoListing EXCEPT !.on = TRUE, !.refresh = refresh]]

\* What a change of the form does to the list.
Follow(f) ==
    /\ form' = f
    /\ voices' =
         IF Configured(f) = Configured(form) /\ f.saved = form.saved THEN voices
         ELSE Arm(IF Configured(f) THEN Ask(voices, voices.refresh)
                  ELSE [voices EXCEPT !.request = NoListing], f)

\* The API lists the voices of the stored workspace; a refresh asks the
\* provider for those it still deploys.
VoicesRead ==
    /\ voices.request.on /\ ~voices.request.read
    /\ \E reported \in [VoiceIds -> Statuses] :
         /\ \A v \in VoiceIds :
               ~(voices.request.refresh /\ cloned[v].space = account.space
                 /\ cloned[v].status = "DEPLOYING") => reported[v] = "OK"
         /\ cloned' = [v \in VoiceIds |->
               IF voices.request.refresh /\ cloned[v].space = account.space
                  /\ cloned[v].status = "DEPLOYING"
               THEN [cloned[v] EXCEPT !.status = reported[v]] ELSE cloned[v]]
    /\ LET own == {v \in VoiceIds : cloned[v].space = account.space}
       IN  voices' = [voices EXCEPT !.request.read = TRUE,
               !.request.answer = SetToSeq({[id |-> v, status |-> cloned'[v].status] : v \in own})]
    /\ UNCHANGED <<account, form, dialog, recorder, microphones, asking>>

Answered(vs) == [vs EXCEPT !.loading = FALSE, !.request = NoListing]

VoicesListed ==
    /\ voices.request.read
    /\ voices' = Arm(Answered([voices EXCEPT !.of = form.saved, !.failed = FALSE,
                                             !.listed = voices.request.answer]), form)
    /\ UNCHANGED <<account, cloned, form, dialog, recorder, microphones, asking>>

\* A failure keeps what was listed and stops the poll.
VoicesFail ==
    /\ voices.request.on
    /\ voices' = Arm(Answered([voices EXCEPT !.of = form.saved, !.failed = TRUE,
                                 !.listed = IF voices.of = form.saved THEN @ ELSE <<>>]), form)
    /\ UNCHANGED <<account, cloned, form, dialog, recorder, microphones, asking>>

PollVoices ==
    /\ voices.timer
    /\ voices' = Ask([voices EXCEPT !.timer = FALSE], TRUE)
    /\ UNCHANGED <<account, cloned, form, dialog, recorder, microphones, asking>>

ClickRefresh ==
    /\ ~voices.loading /\ form.shown /\ ~dialog.open
    /\ (voices.of = form.saved /\ voices.failed) \/ Deploying(voices, form)
    /\ voices' = IF Configured(form) THEN Ask([voices EXCEPT !.loading = TRUE], TRUE)
                 ELSE [voices EXCEPT !.loading = TRUE, !.refresh = TRUE]
    /\ UNCHANGED <<account, cloned, form, dialog, recorder, microphones, asking>>

(***************************************************************************)
(* The form.                                                               *)
(***************************************************************************)
\* The page opens once the settings are read.
OpenForm ==
    /\ ~form.shown
    /\ LET f == [form EXCEPT !.shown = TRUE, !.space = account.space, !.saved = account.space,
                             !.key = account.key, !.typed = FALSE]
       IN  /\ form' = f
           /\ voices' = IF Configured(f) THEN Ask(NoVoices(account.space), FALSE)
                        ELSE NoVoices(account.space)
    /\ UNCHANGED <<account, cloned, dialog, recorder, microphones, asking>>

LeaveForm ==
    /\ form.shown /\ form.save = NotSaving /\ ~dialog.open
    /\ Follow([form EXCEPT !.shown = FALSE])
    /\ UNCHANGED <<account, cloned, dialog, recorder, microphones, asking>>

EditSpace(s) ==
    /\ form.shown /\ ~dialog.open /\ s # form.space
    /\ Follow([form EXCEPT !.space = s])
    /\ UNCHANGED <<account, cloned, dialog, recorder, microphones, asking>>

TypeKey ==
    /\ form.shown /\ ~dialog.open /\ ~form.typed
    /\ Follow([form EXCEPT !.typed = TRUE])
    /\ UNCHANGED <<account, cloned, dialog, recorder, microphones, asking>>

SaveSettings ==
    /\ form.shown /\ ~dialog.open /\ form.save = NotSaving
    /\ form.key \/ form.typed
    /\ form' = [form EXCEPT !.save.space = form.space]
    /\ UNCHANGED <<account, cloned, voices, dialog, recorder, microphones, asking>>

SettingsPut ==
    /\ form.save.space # Absent /\ ~form.save.done
    /\ account' = [space |-> form.save.space, key |-> TRUE]
    /\ form' = [form EXCEPT !.save.done = TRUE]
    /\ UNCHANGED <<cloned, voices, dialog, recorder, microphones, asking>>

SettingsSaved ==
    /\ form.save.done
    /\ Follow([form EXCEPT !.saved = form.save.space, !.key = TRUE, !.typed = FALSE,
                           !.save = NotSaving])
    /\ UNCHANGED <<account, cloned, dialog, recorder, microphones, asking>>

SaveRefused ==
    /\ form.save.space # Absent /\ ~form.save.done
    /\ form' = [form EXCEPT !.save = NotSaving]
    /\ UNCHANGED <<account, cloned, voices, dialog, recorder, microphones, asking>>

(***************************************************************************)
(* The recorder.                                                           *)
(***************************************************************************)
\* A sample counts once it lasts ten seconds.
Sampled(take) == IF take.units >= 1 THEN dialog.language ELSE Absent

StartTake ==
    /\ dialog.open /\ ~dialog.busy /\ recorder.state = "idle"
    /\ recorder' = [state |-> "asking", units |-> 0]
    /\ dialog' = [dialog EXCEPT !.sample = Absent]
    /\ UNCHANGED <<account, cloned, form, voices, microphones, asking>>

MicrophoneGranted ==
    /\ recorder.state = "asking"
    /\ microphones' = microphones + 1
    /\ recorder' = [recorder EXCEPT !.state = "loading"]
    /\ UNCHANGED <<account, cloned, form, voices, dialog, asking>>

TakeStarted ==
    /\ recorder.state = "loading"
    /\ recorder' = [recorder EXCEPT !.state = "recording"]
    /\ UNCHANGED <<account, cloned, form, voices, dialog, microphones, asking>>

\* Refused permission, or no worklet: whatever was opened is released.
TakeFails ==
    /\ recorder.state \in {"asking", "loading"}
    /\ microphones' = microphones - (IF recorder.state = "loading" THEN 1 ELSE 0)
    /\ recorder' = NoTake
    /\ UNCHANGED <<account, cloned, form, voices, dialog, asking>>

StopTake ==
    /\ recorder.state = "recording"
    /\ recorder' = [recorder EXCEPT !.state = "finishing"]
    /\ UNCHANGED <<account, cloned, form, voices, dialog, microphones, asking>>

\* Frames count up to thirty seconds; the last one, or the one that was
\* flushed, ends the recording.
SampleFrame(units, final) ==
    /\ recorder.state \in {"recording", "finishing"}
    /\ final => recorder.state = "finishing"
    /\ LET take == [recorder EXCEPT !.units = IF @ + units > 3 THEN 3 ELSE @ + units]
       IN  IF final \/ take.units = 3
           THEN /\ recorder' = [take EXCEPT !.state = "idle"]
                /\ microphones' = microphones - 1
                /\ dialog' = [dialog EXCEPT !.sample = Sampled(take)]
           ELSE recorder' = take /\ UNCHANGED <<microphones, dialog>>
    /\ UNCHANGED <<account, cloned, form, voices, asking>>

\* Mutant: the recorder that leaves keeps its microphone.
UnmountedOpen ==
    /\ recorder' = NoTake
    /\ UNCHANGED <<microphones, asking>>

\* The recorder leaves the page: it releases what it has opened, and a
\* permission that is granted later is given back at once.
Unmounted ==
    /\ microphones' = microphones
           - (IF recorder.state \in {"loading", "recording", "finishing"} THEN 1 ELSE 0)
    /\ asking' = asking + (IF recorder.state = "asking" THEN 1 ELSE 0)
    /\ recorder' = NoTake

GrantedLate ==
    /\ asking > 0
    /\ asking' = asking - 1
    /\ UNCHANGED <<account, cloned, form, voices, dialog, recorder, microphones>>

(***************************************************************************)
(* The dialog.                                                             *)
(***************************************************************************)
OpenDialog ==
    /\ Configured(form) /\ ~form.typed /\ ~dialog.open /\ asking = 0
    /\ \E language \in Languages :
           dialog' = [NoDialog EXCEPT !.open = TRUE, !.language = language]
    /\ UNCHANGED <<account, cloned, form, voices, recorder, microphones, asking>>

\* Another language is another text to read: a recorder of its own.
ChangeLanguage(language) ==
    /\ dialog.open /\ ~dialog.busy /\ language # dialog.language /\ asking = 0
    /\ dialog' = [dialog EXCEPT !.language = language, !.sample = Absent]
    /\ Unmounted
    /\ UNCHANGED <<account, cloned, form, voices>>

CancelCloning ==
    /\ dialog.open /\ ~dialog.busy
    /\ dialog' = NoDialog
    /\ Unmounted
    /\ UNCHANGED <<account, cloned, form, voices>>

SubmitVoice ==
    /\ dialog.open /\ ~dialog.busy /\ dialog.sample # Absent
    /\ Cardinality({v \in VoiceIds : cloned[v].space # Absent}) < MaxVoices
    /\ dialog' = [dialog EXCEPT !.busy = TRUE, !.space = form.saved]
    /\ UNCHANGED <<account, cloned, form, voices, recorder, microphones, asking>>

VoiceCloned(v) ==
    /\ dialog.busy /\ dialog.created = Absent /\ cloned[v].space = Absent
    /\ cloned' = [cloned EXCEPT ![v] = [space |-> account.space, status |-> "DEPLOYING"]]
    /\ dialog' = [dialog EXCEPT !.created = v]
    /\ UNCHANGED <<account, form, voices, recorder, microphones, asking>>

\* The created voice joins the list of the workspace it was submitted for, and
\* the dialog closes.
VoiceCreated ==
    /\ dialog.created # Absent
    /\ voices' = Arm([voices EXCEPT !.of = dialog.space, !.failed = FALSE,
                         !.listed = Append(IF voices.of = dialog.space THEN @ ELSE <<>>,
                                           [id |-> dialog.created, status |-> "DEPLOYING"])], form)
    /\ dialog' = NoDialog
    /\ Unmounted
    /\ UNCHANGED <<account, cloned, form>>

CloneFails ==
    /\ dialog.busy /\ dialog.created = Absent
    /\ dialog' = [dialog EXCEPT !.busy = FALSE, !.space = Absent]
    /\ UNCHANGED <<account, cloned, form, voices, recorder, microphones, asking>>

VoicesNext ==
    \/ VoicesRead \/ VoicesListed \/ VoicesFail \/ PollVoices \/ ClickRefresh
    \/ OpenForm \/ LeaveForm \/ TypeKey \/ SaveSettings \/ SettingsPut \/ SettingsSaved
    \/ SaveRefused \/ \E s \in Spaces : EditSpace(s)
    \/ StartTake \/ MicrophoneGranted \/ TakeStarted \/ TakeFails \/ StopTake \/ GrantedLate
    \/ \E units \in 0..1, final \in BOOLEAN : SampleFrame(units, final)
    \/ OpenDialog \/ CancelCloning \/ SubmitVoice \/ VoiceCreated \/ CloneFails
    \/ \E language \in Languages : ChangeLanguage(language)
    \/ \E v \in VoiceIds : VoiceCloned(v)

(***************************************************************************)
(* Properties.                                                             *)
(***************************************************************************)
\* The variables stay in their types.
VoicesTypeOK ==
    /\ account \in [space : Spaces, key : BOOLEAN]
    /\ form.space \in Spaces /\ form.saved \in Spaces
    /\ voices.request.on \in BOOLEAN /\ voices.timer \in BOOLEAN
    /\ recorder \in [state : {"idle", "asking", "loading", "recording", "finishing"}, units : 0..3]
    /\ microphones \in Nat /\ asking \in Nat

\* While the list shows a voice that is being deployed the poll is armed, or a
\* request is on its way, or the failure offers a retry: through edits, saves,
\* answers that are ignored and voices that join, none waits unobserved.
VoicesWatched ==
    Deploying(voices, form) => voices.timer \/ voices.request.on \/ voices.failed

\* However recording, changing the language, closing and late permissions
\* interleave, the only microphone open is that of the recorder on the page, and
\* a sample that can be submitted was read in the language of the dialog.
SampleRecorded ==
    /\ microphones = IF recorder.state \in {"loading", "recording", "finishing"} THEN 1 ELSE 0
    /\ dialog.sample \in {Absent, dialog.language}
    /\ dialog.sample # Absent => recorder.state = "idle"

=============================================================================
