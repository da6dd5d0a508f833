--------------------------------- MODULE Speech ---------------------------------
(***************************************************************************)
(* Speech of the desktop: the recognition and synthesis tasks of a window   *)
(* (desktop/electron/speech: speech-service.ts, dashscope-session.ts), the  *)
(* recording that feeds the one, the playback that is fed by the other, and *)
(* the chat mode that sends what was said (desktop/src/features/speech).    *)
(*                                                                         *)
(* Readings are numbered in the order their tasks are made, sentences in    *)
(* the order they are spoken.  Samples, texts and volumes are left out: a   *)
(* sentence is heard in part or to its end.  Calls of the page reach the    *)
(* main process in their order at once; events go through a channel.        *)
(***************************************************************************)
EXTENDS Naturals, FiniteSets, Sequences, SequencesExt

CONSTANTS
    Recordings,   \* recordings of the page
    NoRecording,
    MaxReadings,  \* bound on the readings anything refers to at a time
    MaxEvents,    \* bound on the events on their way to the page, and on the
                  \* sounds scheduled
    MaxSentences  \* bound on the sentences of a chat

ASSUME SpeechConstants ==
    /\ NoRecording \notin Recordings
    /\ Recordings \cap (1 .. MaxReadings) = {}
    /\ MaxReadings \in Nat /\ MaxEvents \in Nat /\ MaxSentences \in Nat

Readings == 1 .. MaxReadings

VARIABLES
    speech,    \* SpeechService.tasks and their sessions
    channel,   \* events on their way to the page
    recording, \* the recordings: where toggle waits, cancelled, microphone open
    current,   \* recording.current
    playback,  \* SpeechPlayback: the readings it listens to, those whose text
               \* is complete, the sounds scheduled, interrupted and inputActive
    chat       \* useVoiceChat

speechVars == <<speech, channel, recording, current, playback, chat>>

SilentChat == [on |-> FALSE, heard |-> 0, partial |-> FALSE, draft |-> <<>>, final |-> FALSE,
               timer |-> FALSE, sending |-> "no", content |-> <<>>, sent |-> <<>>]
NoTake     == [at |-> "none", cancelled |-> FALSE, open |-> FALSE]

SpeechInit ==
    /\ speech = [i \in Recordings \cup Readings |-> "none"]
    /\ channel = <<>>
    /\ recording = [r \in Recordings |-> NoTake]
    /\ current = NoRecording
    /\ playback = [tasks |-> {}, complete |-> {}, sources |-> <<>>,
                   interrupted |-> FALSE, inputActive |-> FALSE]
    /\ chat = SilentChat

-----------------------------------------------------------------------------
(* Tasks of the main process *)

windowVars == <<recording, current, playback, chat>>

Emit(i, kind) == channel' = Append(channel, [task |-> i, kind |-> kind])
Room          == Len(channel) < MaxEvents

\* The task leaves the map: done is resolved, the next synthesis may start.
Removed(i) == speech' = [speech EXCEPT ![i] = "ended"]

\* Mutant: a synthesis does not wait.
AnyTurn(i) == TRUE

\* A synthesis waits until the ones before it have flushed their audio.
Turn(i) == i \in Readings => \A j \in Readings : j < i => speech[j] \in {"none", "ended"}

PreviousDone(i) ==
    /\ speech[i] = "waiting" /\ Turn(i)
    /\ speech' = [speech EXCEPT ![i] = "connection"]
    /\ UNCHANGED <<channel, windowVars>>

ConnectionGiven(i) ==
    /\ speech[i] = "connection"
    /\ speech' = [speech EXCEPT ![i] = "connecting"]
    /\ UNCHANGED <<channel, windowVars>>

TaskStarted(i) ==
    /\ speech[i] = "connecting"
    /\ speech' = [speech EXCEPT ![i] = "started"]
    /\ UNCHANGED <<channel, windowVars>>

\* The connection is refused, times out, closes, or the provider fails; start
\* rejects, or an error is emitted: the page gets either as a failure.
TaskFails(i) ==
    /\ speech[i] \in {"connection", "connecting", "started", "finishing"} /\ Room
    /\ Removed(i) /\ Emit(i, "error")
    /\ UNCHANGED windowVars

Audio(i) ==
    /\ i \in Readings /\ speech[i] \in {"started", "finishing"}
    /\ Len(channel) + Len(playback.sources) < MaxEvents
    /\ Emit(i, "audio")
    /\ UNCHANGED <<speech, windowVars>>

TaskFinished(i) ==
    /\ speech[i] = "finishing" /\ Room
    /\ Removed(i) /\ Emit(i, "finished")
    /\ UNCHANGED windowVars

\* SpeechService.stop of a mode.
StoppedTasks(ids) == [i \in DOMAIN speech |-> IF i \in ids /\ speech[i] # "none" THEN "ended" ELSE speech[i]]

-----------------------------------------------------------------------------
(* Playback *)

\* SpeechPlayback.stop: a new generation listens to nothing of the old one.
Silent(p) == [p EXCEPT !.tasks = {}, !.complete = {}, !.sources = <<>>]
StopPlayback == speech' = StoppedTasks(Readings)

\* Bound: an identifier is used again once nothing refers to it or a later one.
Used == {i \in Readings : speech[i] \notin {"none", "ended"} \/ i \in playback.tasks
                          \/ Contains(playback.sources, i) \/ \E e \in ToSet(channel) : e.task = i}
Fresh(i) == (\A j \in Used : j < i) /\ (i = 1 \/ i - 1 \in Used)

\* task(): inert while the user speaks.
NewTask(p, complete) ==
    /\ ~p.interrupted
    /\ \E i \in Readings :
          /\ Fresh(i)
          /\ speech' = [speech EXCEPT ![i] = "waiting"]
          /\ playback' = [p EXCEPT !.tasks = @ \cup {i},
                                   !.complete = IF complete THEN @ \cup {i} ELSE @]
    /\ UNCHANGED <<channel, recording, current, chat>>

\* An item of the turn reaches the end of a sentence, or is complete.
Speak(complete) == NewTask(playback, complete)

ItemCompleted(i) ==
    /\ i \in playback.tasks \ playback.complete
    /\ playback' = [playback EXCEPT !.complete = @ \cup {i}]
    /\ UNCHANGED <<speech, channel, recording, current, chat>>

\* A message is read aloud: what was read before it was stopped by StopReading,
\* then the settings and the sound were waited for.
ReadAloud == NewTask([playback EXCEPT !.interrupted = @ /\ playback.inputActive], TRUE)

\* What was asked for once the task is ready.
FinishReading(i) ==
    /\ i \in playback.complete \cap playback.tasks /\ speech[i] = "started"
    /\ speech' = [speech EXCEPT ![i] = "finishing"]
    /\ UNCHANGED <<channel, windowVars>>

TurnStarted ==
    /\ StopPlayback
    /\ playback' = [Silent(playback) EXCEPT !.interrupted = @ /\ playback.inputActive]
    /\ UNCHANGED <<channel, recording, current, chat>>

\* The turn fails or is interrupted, the reader presses stop, the page leaves.
StopReading ==
    /\ StopPlayback
    /\ playback' = Silent(playback)
    /\ UNCHANGED <<channel, recording, current, chat>>

SourceEnded ==
    /\ playback.sources # <<>>
    /\ playback' = [playback EXCEPT !.sources = Tail(@)]
    /\ UNCHANGED <<speech, channel, recording, current, chat>>

-----------------------------------------------------------------------------
(* Recording *)

TakeAt(r, at) == recording' = [recording EXCEPT ![r].at = at]

\* cancelRecording of the current one: its microphone is released.
Cancelled == [r \in Recordings |-> IF r = current
                 THEN [recording[r] EXCEPT !.cancelled = TRUE, !.open = FALSE] ELSE recording[r]]
Dispose ==
    /\ recording' = Cancelled
    /\ current' = NoRecording

\* toggle: a recording that starts is dropped, one that runs is finished.
ToggleOn(r) ==
    /\ current = NoRecording
    /\ recording[r] = NoTake /\ speech[r] = "none"
    /\ recording' = [recording EXCEPT ![r].at = "settings"]
    /\ current' = r
Record(r) ==
    /\ ~chat.on
    /\ ToggleOn(r)
    /\ UNCHANGED <<speech, channel, playback, chat>>

Starting(r) == recording[r].at \in {"settings", "microphone", "worklet", "task"}

CancelRecording ==
    /\ current # NoRecording /\ ~chat.on
    /\ Dispose
    /\ speech' = StoppedTasks(Recordings)
    /\ UNCHANGED <<channel, playback, chat>>

FinishRecording ==
    /\ current # NoRecording /\ ~chat.on /\ recording[current].at = "recording"
    /\ TakeAt(current, "flushing")
    /\ UNCHANGED <<speech, channel, current, playback, chat>>

\* The last frame of the worklet: finish the task, release the microphone.
Flushed(r) ==
    /\ recording[r].at = "flushing" /\ ~recording[r].cancelled
    /\ recording' = [recording EXCEPT ![r].at = "finishing", ![r].open = FALSE]
    /\ speech' = [speech EXCEPT ![r] = IF @ = "started" THEN "finishing" ELSE @]
    /\ UNCHANGED <<channel, current, playback, chat>>

\* The settings are there: playback stops, the microphone is asked for.
SettingsRead(r) ==
    /\ recording[r].at = "settings"
    /\ TakeAt(r, "microphone")
    /\ StopPlayback /\ playback' = Silent(playback)
    /\ UNCHANGED <<channel, current, chat>>

\* Mutant: a recording cancelled meanwhile keeps the microphone.
MicrophoneKept(r) ==
    /\ recording[r].at = "microphone"
    /\ recording' = [recording EXCEPT ![r].open = TRUE,
                         ![r].at = IF recording[r].cancelled THEN "over" ELSE "worklet"]
    /\ UNCHANGED <<speech, channel, current, playback, chat>>

MicrophoneOpened(r) ==
    /\ recording[r].at = "microphone"
    /\ IF recording[r].cancelled THEN TakeAt(r, "over")
       ELSE recording' = [recording EXCEPT ![r].open = TRUE, ![r].at = "worklet"]
    /\ UNCHANGED <<speech, channel, current, playback, chat>>

WorkletLoaded(r) ==
    /\ recording[r].at = "worklet"
    /\ IF recording[r].cancelled THEN TakeAt(r, "over") /\ UNCHANGED speech
       ELSE TakeAt(r, "task") /\ speech' = [speech EXCEPT ![r] = "connection"]
    /\ UNCHANGED <<channel, current, playback, chat>>

\* start returns, or rejects since the recording was cancelled.
RecordingStarted(r) ==
    /\ recording[r].at = "task" /\ speech[r] \in {"started", "ended"}
    /\ IF recording[r].cancelled THEN TakeAt(r, "over")
       ELSE speech[r] = "started" /\ TakeAt(r, "recording")
    /\ UNCHANGED <<speech, channel, current, playback, chat>>

\* The settings, the microphone or the worklet fail before there is a task.
RecordingFails(r) ==
    /\ recording[r].at \in {"settings", "microphone", "worklet"}
    /\ IF recording[r].cancelled THEN TakeAt(r, "over") /\ UNCHANGED <<current, speech>>
       ELSE /\ recording' = [Cancelled EXCEPT ![r].at = "over"]
            /\ current' = NoRecording
            /\ speech' = StoppedTasks(Recordings)
    /\ chat' = IF recording[r].cancelled THEN chat ELSE [chat EXCEPT !.timer = FALSE]
    /\ UNCHANGED <<channel, playback>>

\* Bound: an identifier is used again once nothing refers to it.
ForgetRecording(r) ==
    /\ recording[r].at \in {"over", "recording", "flushing", "finishing"} /\ recording[r].cancelled
    /\ speech[r] \in {"none", "ended"} /\ \A e \in ToSet(channel) : e.task # r
    /\ recording' = [recording EXCEPT ![r] = NoTake]
    /\ speech' = [speech EXCEPT ![r] = "none"]
    /\ UNCHANGED <<channel, current, playback, chat>>

-----------------------------------------------------------------------------
(* Events at the page: those of an old generation or of a cancelled         *)
(* recording are ignored.                                                   *)

ReadingEvent(e) ==
    /\ UNCHANGED <<recording, current, chat>>
    /\ IF e.task \notin playback.tasks THEN UNCHANGED <<speech, playback>>
       ELSE CASE e.kind = "audio" -> /\ playback' = [playback EXCEPT !.sources = Append(@, e.task)]
                                     /\ UNCHANGED speech
              [] e.kind = "finished" -> /\ playback' = [playback EXCEPT !.tasks = @ \ {e.task}]
                                        /\ UNCHANGED speech
              [] OTHER -> StopPlayback /\ playback' = Silent(playback)

RecordingEvent(e) ==
    /\ UNCHANGED playback
    /\ IF recording[e.task].cancelled THEN UNCHANGED <<speech, recording, current, chat>>
       ELSE Dispose /\ speech' = StoppedTasks(Recordings) /\ chat' = [chat EXCEPT !.timer = FALSE]

EventArrives ==
    /\ channel # <<>>
    /\ channel' = Tail(channel)
    /\ LET e == channel[1] IN IF e.task \in Recordings THEN RecordingEvent(e) ELSE ReadingEvent(e)

-----------------------------------------------------------------------------
(* Chat mode: what was said is sent after a pause *)

Listening == current # NoRecording /\ recording[current].at = "recording"
chatUnchanged == UNCHANGED <<speech, channel, recording, current>>

\* schedule, when the transcript is final and nothing is being sent.
Scheduled(c) == [c EXCEPT !.timer = c.on /\ current # NoRecording /\ c.final
                                   /\ c.draft # <<>> /\ c.sending = "no"]

OpenChat(r) ==
    /\ ~chat.on
    /\ ToggleOn(r)
    /\ chat' = [SilentChat EXCEPT !.on = TRUE]
    /\ UNCHANGED <<speech, channel, playback>>

\* The mode is left: the recording is cancelled and the reading stops.  What a
\* send under way comes to is no longer looked at.
CloseChat ==
    /\ chat.on
    /\ Dispose
    /\ speech' = [i \in DOMAIN speech |-> IF i \in Recordings /\ current = NoRecording THEN speech[i]
                                      ELSE IF speech[i] # "none" THEN "ended" ELSE speech[i]]
    /\ playback' = [Silent(playback) EXCEPT !.inputActive = FALSE]
    /\ chat' = SilentChat
    /\ UNCHANGED channel

InPart(c) == [c EXCEPT !.partial = TRUE, !.draft = IF c.partial THEN @ ELSE Append(@, c.heard + 1)]

\* A sentence is heard in part, too briefly to be taken for speech.
HeardBriefly ==
    /\ chat.on /\ Listening /\ ~playback.inputActive
    /\ chat.heard < MaxSentences
    /\ chat' = InPart(chat)
    /\ UNCHANGED playback /\ chatUnchanged

\* Mutant: the pause goes on while the next sentence is spoken.
HeardInPartQuietly ==
    /\ chat.on /\ Listening
    /\ chat.heard < MaxSentences
    /\ chat' = InPart(chat)
    /\ StopPlayback
    /\ playback' = [Silent(playback) EXCEPT !.interrupted = TRUE, !.inputActive = TRUE]
    /\ UNCHANGED <<channel, recording, current>>

\* A sentence is heard in part: the reading stops and the pause starts anew.
HeardInPart ==
    /\ chat.on /\ Listening
    /\ chat.heard < MaxSentences
    /\ chat' = Scheduled([InPart(chat) EXCEPT !.final = FALSE])
    /\ StopPlayback
    /\ playback' = [Silent(playback) EXCEPT !.interrupted = TRUE, !.inputActive = TRUE]
    /\ UNCHANGED <<channel, recording, current>>

\* It is heard to its end: speech, however brief.
Heard ==
    /\ chat.on /\ Listening /\ chat.partial
    /\ chat' = Scheduled([chat EXCEPT !.final = TRUE, !.partial = FALSE, !.heard = @ + 1])
    /\ StopPlayback
    /\ playback' = [Silent(playback) EXCEPT !.interrupted = TRUE, !.inputActive = TRUE]
    /\ UNCHANGED <<channel, recording, current>>

\* send: takeText, then stop the running turn, then submit.
Send ==
    /\ chat.on /\ chat.timer
    /\ chat' = [chat EXCEPT !.timer = FALSE, !.content = chat.draft, !.draft = <<>>, !.final = FALSE,
                            !.partial = FALSE, !.sending = "stopping"]
    /\ playback' = [playback EXCEPT !.inputActive = FALSE]
    /\ chatUnchanged

SendStopped ==
    /\ chat.sending = "stopping"
    /\ chat' = [chat EXCEPT !.sending = "submitting"]
    /\ UNCHANGED playback /\ chatUnchanged

\* What was said meanwhile is sent next.
Submitted ==
    /\ chat.sending = "submitting"
    /\ chat' = Scheduled([chat EXCEPT !.sending = "no", !.content = <<>>,
                                      !.sent = @ \o chat.content])
    /\ UNCHANGED playback /\ chatUnchanged

\* Stopping or submitting fails: the text comes back and the recording ends.
SendFails ==
    /\ chat.sending # "no"
    /\ Dispose
    /\ speech' = IF current = NoRecording THEN speech ELSE StoppedTasks(Recordings)
    /\ chat' = [chat EXCEPT !.sending = "no", !.content = <<>>,
                            !.draft = chat.content \o chat.draft, !.final = TRUE]
    /\ UNCHANGED <<channel, playback>>

-----------------------------------------------------------------------------
SpeechNext ==
    \/ \E i \in Recordings \cup Readings :
          PreviousDone(i) \/ ConnectionGiven(i) \/ TaskStarted(i) \/ TaskFails(i) \/ Audio(i) \/ TaskFinished(i)
    \/ \E complete \in BOOLEAN : Speak(complete)
    \/ \E i \in Readings : ItemCompleted(i) \/ FinishReading(i)
    \/ ReadAloud \/ TurnStarted \/ StopReading \/ SourceEnded \/ EventArrives
    \/ \E r \in Recordings :
          \/ Record(r) \/ Flushed(r) \/ SettingsRead(r) \/ MicrophoneOpened(r) \/ WorkletLoaded(r)
          \/ RecordingStarted(r) \/ RecordingFails(r) \/ ForgetRecording(r) \/ OpenChat(r)
    \/ CancelRecording \/ FinishRecording
    \/ CloseChat \/ HeardBriefly \/ HeardInPart \/ Heard \/ Send \/ SendStopped \/ Submitted \/ SendFails

-----------------------------------------------------------------------------
\* The states of tasks are those of the code, and the recording is not a cancelled one.
SpeechTypeOK ==
    /\ \A i \in DOMAIN speech : speech[i] \in
          {"none", "waiting", "connection", "connecting", "started", "finishing", "ended"}
    /\ current # NoRecording => ~recording[current].cancelled

\* The answers are read one after the other in the order they were written,
\* whatever order their connections are made, fail, flush or are stopped in,
\* and no sound of a reading that was stopped is played.
ReadInTurn ==
    /\ \A a, b \in DOMAIN playback.sources : a < b => playback.sources[a] <= playback.sources[b]
    /\ \A a \in DOMAIN playback.sources : \A i \in playback.tasks :
          Contains(playback.sources, i) => playback.sources[a] <= i

\* No microphone stays open without the recording the user sees, however long
\* the permission, the worklet or the recognition take to answer.
MicrophoneReleased == \A r \in Recordings : recording[r].open => current = r

\* While the chat is open, every sentence is in the draft, on its way or sent,
\* once and in the order of speaking; and none is sent before it was heard to
\* its end.
SpokenKept ==
    chat.on =>
        /\ chat.sent \o chat.content \o chat.draft
               = [n \in 1 .. chat.heard + (IF chat.partial THEN 1 ELSE 0) |-> n]
        /\ \A n \in ToSet(chat.sent) \cup ToSet(chat.content) : n <= chat.heard
=============================================================================
