----------------------------- MODULE Microphone -----------------------------
(***************************************************************************)
(* The capture stream: AudioRecordingManager of managers/audio.rs over the *)
(* AudioRecorder of audio_toolkit/audio/recorder.rs.                       *)
(*                                                                         *)
(* Callers, each on a thread of its own:                                   *)
(*   Dict      the coordinator and the pipeline, which start and stop a    *)
(*             recording in turn                                           *)
(*   Cancel    cancel_current_operation                                    *)
(*   Main      the synchronous Tauri commands of the settings page         *)
(*   Profile   update_acoustic_profile, on a blocking worker               *)
(*   Linger    the "mic-stream-linger" worker                              *)
(*   Failers   the threads the recorder's error callback spawns            *)
(*                                                                         *)
(* A call is the sequence of steps it has left to do (todo).  A step is a  *)
(* critical section of the `state`, `recorder` or `mode` mutex, or one     *)
(* access to an atomic; only the sections that can be observed half done   *)
(* hold their mutex in a variable.  Output muting and ducking, which these *)
(* calls also trigger, share no state with the stream and are left out.    *)
(***************************************************************************)
EXTENDS Integers, Sequences

CONSTANTS
    Dict, Cancel, Main, Profile, Linger,
    Failers,         \* threads for handle_stream_failure
    Free, NoClose,   \* an unheld mutex, no pending close
    Commands,        \* the settings commands the user gives
    StartModes,      \* the microphone modes the program may start in
    OpenFails,       \* whether opening the device may fail
    MaxEpoch,        \* bound on stream_epoch: recordings started
    MaxCalls,        \* bound on the cancels and settings commands
    MaxFailures      \* bound on the device failures

Threads  == {Dict, Cancel, Main, Profile, Linger} \cup Failers
Modes    == {"AlwaysOn", "OnDemand"}
CommandNames == {"mode", "device", "enhancement", "profile", "preview"}

\* The recorder slot: None, Some without a worker, Some with a worker whose
\* device delivers (Live) or has gone (Dead).
Slots    == {"None", "Closed", "Live", "Dead"}
Working  == {"Live", "Dead"}

Steps == {"Ensure", "Open", "Publish", "Begin", "Check", "Take", "Halt",
          "Clear", "Later", "Settle", "IfOnDemand", "CloseIf", "IfIdle",
          "IfAlwaysOn", "StopStream", "Switch", "Store", "Refresh", "Drop",
          "Undo", "Unlock"}

ASSUME ConstantsAssumption ==
    /\ Commands \subseteq CommandNames
    /\ StartModes \subseteq Modes
    /\ OpenFails \in BOOLEAN
    /\ NoClose \notin Nat
    /\ Free \notin Threads
    /\ Dict \notin {Cancel, Main, Profile, Linger} \cup Failers
    /\ Profile \notin {Cancel, Main, Linger} \cup Failers
    /\ Linger \notin {Cancel, Main} \cup Failers
    /\ {MaxEpoch, MaxCalls, MaxFailures} \subseteq Nat

VARIABLES
    state,           \* RecordingState: "Idle" or "Recording"
    mode,            \* MicrophoneMode
    alwaysOn,        \* settings.always_on_microphone
    recorder,        \* the recorder slot
    capturing,       \* the worker's `recording` flag
    leaked,          \* a worker whose AudioRecorder was dropped unclosed
    isOpen, isRecording, streamFailed, epoch,
    pending,         \* StreamLinger's pending close: its epoch, or NoClose
    closing,         \* the epoch the linger worker took
    target,          \* new_mode of update_mode
    stage,           \* the coordinator's view: "Idle" or "Recording"
    stateLock, recLock, modeLock,
    todo,            \* the steps each thread has left
    calls, failures  \* cancels and commands given, device failures so far

flags  == <<isOpen, isRecording, streamFailed>>
slot   == <<recorder, capturing, leaked>>
locks  == <<stateLock, recLock, modeLock>>
timers == <<epoch, pending, closing>>
modes  == <<mode, alwaysOn, target>>
counts == <<calls, failures>>
vars   == <<state, stage, flags, slot, locks, timers, modes, todo, counts>>

TypeOK ==
    /\ state \in {"Idle", "Recording"} /\ stage \in {"Idle", "Recording"}
    /\ mode \in Modes /\ alwaysOn \in BOOLEAN /\ target \in Modes
    /\ recorder \in Slots
    /\ {capturing, leaked, isOpen, isRecording, streamFailed} \subseteq BOOLEAN
    /\ epoch \in 0..MaxEpoch
    /\ pending \in Nat \cup {NoClose} /\ closing \in Nat
    /\ {stateLock, recLock, modeLock} \subseteq Threads \cup {Free}
    /\ todo \in [Threads -> Seq(Steps)]
    /\ calls \in 0..MaxCalls /\ failures \in 0..MaxFailures

Init ==
    /\ mode \in StartModes /\ alwaysOn = (mode = "AlwaysOn") /\ target = mode
    /\ \/ mode = "OnDemand" /\ recorder = "None"
       \/ mode = "AlwaysOn" /\ recorder = "Live"
       \/ mode = "AlwaysOn" /\ OpenFails /\ recorder \in {"None", "Closed"}
    /\ isOpen = (recorder = "Live")
    /\ state = "Idle" /\ stage = "Idle"
    /\ capturing = FALSE /\ leaked = FALSE
    /\ isRecording = FALSE /\ streamFailed = FALSE
    /\ epoch = 0 /\ pending = NoClose /\ closing = 0
    /\ stateLock = Free /\ recLock = Free /\ modeLock = Free
    /\ todo = [t \in Threads |-> <<>>]
    /\ calls = 0 /\ failures = 0

-----------------------------------------------------------------------------
(* Threads and their steps *)

Idle(t)  == todo[t] = <<>>
At(t, s) == ~Idle(t) /\ Head(todo[t]) = s

\* The thread's rest becomes r \o the steps after this one.
Then(t, r) == todo' = [todo EXCEPT ![t] = r \o Tail(@)]
Done(t)    == Then(t, <<>>)
Return(t)  == todo' = [todo EXCEPT ![t] = <<>>]
Call(t, s) == Idle(t) /\ todo' = [todo EXCEPT ![t] = s]

\* Err(..)?: a failed start goes on to the coordinator's check, a failed
\* profile change undoes itself, anything else returns.
Fail(t) ==
    todo' = [todo EXCEPT ![t] = IF t = Dict    THEN <<"Check">> ELSE
                                IF t = Profile THEN <<"Undo", "Unlock">>
                                               ELSE <<>>]

-----------------------------------------------------------------------------
(* The stream *)

\* start_microphone_stream up to rec.open: under the recorder mutex, reuse
\* an open stream, close a failed one, create the recorder, open the device.
Open(t) ==
    /\ At(t, "Open") /\ recLock = Free
    /\ IF isOpen /\ ~streamFailed
       THEN Done(t) /\ UNCHANGED <<flags, slot, recLock>>
       ELSE /\ isOpen' = FALSE
            /\ \/ /\ recLock' = t /\ Then(t, <<"Publish">>)
                  /\ recorder' = "Live"
               \/ /\ OpenFails /\ Fail(t)
                  /\ recorder' \in IF recorder = "None" THEN {"None", "Closed"}
                                                        ELSE {"Closed"}
                  /\ UNCHANGED recLock
            /\ capturing' = FALSE
            /\ UNCHANGED <<isRecording, streamFailed, leaked>>
    /\ UNCHANGED <<state, stage, stateLock, modeLock, timers, modes, counts>>

\* Mutant: a start publishes its stream under the state mutex, taken last.
PublishUnderState(t) ==
    /\ At(t, "Publish") /\ stateLock = Free /\ Done(t)
    /\ isOpen' = TRUE /\ streamFailed' = FALSE /\ recLock' = Free
    /\ UNCHANGED <<state, stage, isRecording, slot, stateLock, modeLock,
                   timers, modes, counts>>

\* The end of start_microphone_stream.
Publish(t) ==
    /\ At(t, "Publish") /\ Done(t)
    /\ isOpen' = TRUE /\ streamFailed' = FALSE /\ recLock' = Free
    /\ UNCHANGED <<state, stage, isRecording, slot, stateLock, modeLock,
                   timers, modes, counts>>

\* stop_microphone_stream.
StopStream(t) ==
    /\ At(t, "StopStream") /\ recLock = Free /\ Done(t)
    /\ IF ~isOpen
       THEN UNCHANGED <<flags, slot>>
       ELSE /\ isOpen' = FALSE /\ capturing' = FALSE
            /\ recorder' = IF recorder = "None" THEN "None" ELSE "Closed"
            /\ isRecording' = (isRecording /\ recorder = "None")
            /\ UNCHANGED <<streamFailed, leaked>>
    /\ UNCHANGED <<state, stage, locks, timers, modes, counts>>

\* *recorder = None.  Dropping an AudioRecorder closes the command channel
\* and detaches the worker; the worker goes on while its stream delivers.
DropSlot ==
    /\ recorder' = "None" /\ capturing' = FALSE
    /\ leaked' = (leaked \/ recorder = "Live")

Drop(t) ==
    /\ At(t, "Drop") /\ recLock = Free /\ Done(t) /\ DropSlot
    /\ UNCHANGED <<state, stage, flags, locks, timers, modes, counts>>

-----------------------------------------------------------------------------
(* Recording *)

\* Mutant: the start keeps the epoch of the recording before it.
StartWithoutEpoch ==
    /\ stage = "Idle" /\ epoch < MaxEpoch
    /\ Call(Dict, <<"Ensure", "Begin", "Check">>)
    /\ UNCHANGED <<state, stage, flags, slot, locks, timers, modes, counts>>

\* The coordinator starts a recording: try_start_recording bumps the epoch.
StartRecording ==
    /\ stage = "Idle" /\ epoch < MaxEpoch
    /\ Call(Dict, <<"Ensure", "Begin", "Check">>)
    /\ epoch' = epoch + 1
    /\ UNCHANGED <<state, stage, flags, slot, locks, pending, closing, modes,
                   counts>>

\* ... opens the stream when the mode or a failure asks for it ...
Ensure ==
    /\ At(Dict, "Ensure") /\ modeLock = Free
    /\ Then(Dict, IF mode = "OnDemand" \/ streamFailed THEN <<"Open">> ELSE <<>>)
    /\ UNCHANGED <<state, stage, flags, slot, locks, timers, modes, counts>>

\* ... and under the state mutex starts the recorder.  rec.start() is Ok
\* without a worker too: only the command channel is then missing.
Begin ==
    /\ At(Dict, "Begin") /\ stateLock = Free /\ recLock = Free
    /\ IF state = "Idle" /\ recorder # "None"
       THEN /\ state' = "Recording" /\ isRecording' = TRUE
            /\ capturing' = (recorder \in Working) /\ Done(Dict)
       ELSE Fail(Dict) /\ UNCHANGED <<state, isRecording, capturing>>
    /\ UNCHANGED <<stage, isOpen, streamFailed, recorder, leaked, locks,
                   timers, modes, counts>>

\* start() of the coordinator reads is_recording().
Check ==
    /\ At(Dict, "Check") /\ Done(Dict)
    /\ stage' = IF isRecording THEN "Recording" ELSE "Idle"
    /\ UNCHANGED <<state, flags, slot, locks, timers, modes, counts>>

\* Mutant: the close is scheduled while the recording still counts as one.
StopStepsLateClear == <<"Take", "Halt", "Later", "Clear", "Settle">>

\* stop_recording and cancel_recording share their steps.
StopSteps == <<"Take", "Halt", "Clear", "Later", "Settle">>

StopRecording ==
    /\ stage = "Recording" /\ Call(Dict, StopSteps)
    /\ UNCHANGED <<state, stage, flags, slot, locks, timers, modes, counts>>

CancelRecording ==
    /\ calls < MaxCalls /\ calls' = calls + 1 /\ Call(Cancel, StopSteps)
    /\ UNCHANGED <<state, stage, flags, slot, locks, timers, modes, failures>>

Take(t) ==
    /\ At(t, "Take") /\ stateLock = Free /\ state' = "Idle"
    /\ IF state = "Recording" THEN Done(t)
                              ELSE todo' = [todo EXCEPT ![t] = <<"Settle">>]
    /\ UNCHANGED <<stage, flags, slot, locks, timers, modes, counts>>

\* rec.stop(): the worker hands over its samples.
Halt(t) ==
    /\ At(t, "Halt") /\ recLock = Free /\ Done(t) /\ capturing' = FALSE
    /\ UNCHANGED <<state, stage, flags, recorder, leaked, locks, timers, modes,
                   counts>>

Clear(t) ==
    /\ At(t, "Clear") /\ Done(t) /\ isRecording' = FALSE
    /\ UNCHANGED <<state, stage, isOpen, streamFailed, slot, locks, timers,
                   modes, counts>>

\* schedule_on_demand_stream_close for the epoch of this moment.
Later(t) ==
    /\ At(t, "Later") /\ modeLock = Free /\ Done(t)
    /\ pending' = IF mode = "OnDemand" THEN epoch ELSE pending
    /\ UNCHANGED <<state, stage, flags, slot, locks, epoch, closing, modes,
                   counts>>

\* The pipeline's ProcessingFinished, or the cancel's message: the
\* coordinator returns to Idle between two of its own handlers.
Settle(t) ==
    /\ At(t, "Settle") /\ (t = Cancel => Idle(Dict))
    /\ Done(t) /\ stage' = "Idle"
    /\ UNCHANGED <<state, flags, slot, locks, timers, modes, counts>>

-----------------------------------------------------------------------------
(* run_stream_linger_worker and stop_microphone_stream_if_epoch *)

\* ON_DEMAND_STREAM_LINGER is ten seconds.  Timing assumption: the start that
\* gave the epoch its value does not outlast it.
Starting == \E s \in {"Ensure", "Open", "Publish", "Begin"} : At(Dict, s)
\* Mutant: the worker wakes up and does not look whether a close is queued.
LingerOverAlways == pending = epoch => ~Starting

LingerOver == pending # NoClose /\ (pending = epoch => ~Starting)

LingerExpires ==
    /\ LingerOver /\ Call(Linger, <<"IfOnDemand", "CloseIf">>)
    /\ closing' = pending /\ pending' = NoClose
    /\ UNCHANGED <<state, stage, flags, slot, locks, epoch, modes, counts>>

IfOnDemand ==
    /\ At(Linger, "IfOnDemand") /\ modeLock = Free
    /\ IF mode = "OnDemand" THEN Done(Linger) ELSE Return(Linger)
    /\ UNCHANGED <<state, stage, flags, slot, locks, timers, modes, counts>>

\* Mutant: the close ignores the epoch.
MayCloseAnyEpoch == ~isRecording /\ isOpen

MayClose == epoch = closing /\ ~isRecording /\ isOpen

CloseIf ==
    /\ At(Linger, "CloseIf") /\ recLock = Free /\ Done(Linger)
    /\ IF MayClose
       THEN /\ isOpen' = FALSE /\ capturing' = FALSE
            /\ recorder' = IF recorder = "None" THEN "None" ELSE "Closed"
       ELSE UNCHANGED <<isOpen, recorder, capturing>>
    /\ UNCHANGED <<state, stage, isRecording, streamFailed, leaked, locks,
                   timers, modes, counts>>

-----------------------------------------------------------------------------
(* A device failure and handle_stream_failure *)

\* The worker reports the stream's first error and spawns the handler.
DeviceFails(f) ==
    /\ failures < MaxFailures /\ failures' = failures + 1
    /\ \/ recorder = "Live" /\ recorder' = "Dead" /\ UNCHANGED leaked
       \/ leaked /\ leaked' = FALSE /\ UNCHANGED recorder
    /\ streamFailed' = TRUE
    /\ Call(f, <<"IfIdle", "StopStream", "IfAlwaysOn">>)
    /\ UNCHANGED <<state, stage, isOpen, isRecording, capturing, locks, timers,
                   modes, calls>>

IfIdle(f) ==
    /\ At(f, "IfIdle")
    /\ IF isRecording THEN Return(f) ELSE Done(f)
    /\ UNCHANGED <<state, stage, flags, slot, locks, timers, modes, counts>>

IfAlwaysOn(f) ==
    /\ At(f, "IfAlwaysOn") /\ modeLock = Free
    /\ Then(f, IF mode = "AlwaysOn" THEN <<"Open">> ELSE <<>>)
    /\ UNCHANGED <<state, stage, flags, slot, locks, timers, modes, counts>>

-----------------------------------------------------------------------------
(* The settings commands *)

Gives(c) == c \in Commands /\ calls < MaxCalls /\ calls' = calls + 1

\* update_microphone_mode: the setting first, then update_mode.
SetMode(m) ==
    /\ Gives("mode") /\ Call(Main, <<"Switch", "Store">>)
    /\ alwaysOn' = (m = "AlwaysOn") /\ target' = m
    /\ UNCHANGED <<state, stage, flags, slot, locks, timers, mode, failures>>

\* The match of update_mode.  mode_guard is dropped only in the arms that
\* open or close the stream; in the others it is still held at the store.
Switch ==
    /\ At(Main, "Switch") /\ modeLock = Free
    /\ \/ /\ mode = "AlwaysOn" /\ target = "OnDemand" /\ ~isRecording
          /\ Then(Main, <<"StopStream">>) /\ UNCHANGED modeLock
       \/ /\ mode = "OnDemand" /\ target = "AlwaysOn"
          /\ Then(Main, <<"Open">>) /\ UNCHANGED modeLock
       \/ /\ mode = target \/ (mode = "AlwaysOn" /\ isRecording)
          /\ Done(Main) /\ modeLock' = Main
    /\ UNCHANGED <<state, stage, flags, slot, stateLock, recLock, timers, modes,
                   counts>>

Store ==
    /\ At(Main, "Store") /\ modeLock = Free /\ Done(Main)
    /\ mode' = target
    /\ UNCHANGED <<state, stage, flags, slot, locks, timers, alwaysOn, target,
                   counts>>

\* set_selected_microphone: update_selected_device.
SelectDevice ==
    /\ Gives("device")
    /\ Call(Main, IF isOpen THEN <<"StopStream", "Open">> ELSE <<"Drop">>)
    /\ UNCHANGED <<state, stage, flags, slot, locks, timers, modes, failures>>

\* change_audio_enhancement_*: refused while recording.
SetEnhancement ==
    /\ Gives("enhancement") /\ ~isRecording /\ Call(Main, <<"Refresh">>)
    /\ UNCHANGED <<state, stage, flags, slot, locks, timers, modes, failures>>

\* Mutant: the state mutex is released after the check.
SetProfileUnlocked ==
    /\ Gives("profile") /\ stateLock = Free /\ state = "Idle" /\ ~isRecording
    /\ Call(Profile, <<"Refresh", "Unlock">>)
    /\ UNCHANGED <<state, stage, flags, slot, locks, timers, modes, failures>>

\* update_acoustic_profile: state.try_lock(), held to the end.
SetProfile ==
    /\ Gives("profile") /\ stateLock = Free /\ state = "Idle" /\ ~isRecording
    /\ Call(Profile, <<"Refresh", "Unlock">>) /\ stateLock' = Profile
    /\ UNCHANGED <<state, stage, flags, slot, recLock, modeLock, timers, modes,
                   failures>>

\* update_audio_enhancement reads is_open once.
Refresh(t) ==
    /\ At(t, "Refresh")
    /\ Then(t, IF isOpen THEN <<"StopStream", "Drop", "Open">> ELSE <<"Drop">>)
    /\ UNCHANGED <<state, stage, flags, slot, locks, timers, modes, counts>>

\* The profile's error path drops the recorder and asks for a rebuild.
Undo ==
    /\ At(Profile, "Undo") /\ recLock = Free /\ Done(Profile) /\ DropSlot
    /\ streamFailed' = TRUE
    /\ UNCHANGED <<state, stage, isOpen, isRecording, locks, timers, modes,
                   counts>>

Unlock ==
    /\ At(Profile, "Unlock") /\ Done(Profile) /\ stateLock' = Free
    /\ UNCHANGED <<state, stage, flags, slot, recLock, modeLock, timers, modes,
                   counts>>

StartPreview ==
    /\ Gives("preview") /\ Call(Main, <<"Open">>)
    /\ UNCHANGED <<state, stage, flags, slot, locks, timers, modes, failures>>

StopPreview ==
    /\ Gives("preview") /\ ~alwaysOn /\ ~isRecording
    /\ Call(Main, <<"StopStream">>)
    /\ UNCHANGED <<state, stage, flags, slot, locks, timers, modes, failures>>

-----------------------------------------------------------------------------

Step(t) ==
    \/ Open(t) \/ Publish(t) \/ StopStream(t) \/ Drop(t) \/ Refresh(t)
    \/ Take(t) \/ Halt(t) \/ Clear(t) \/ Later(t) \/ Settle(t)
    \/ t = Dict /\ (Ensure \/ Begin \/ Check)
    \/ t = Linger /\ (LingerExpires \/ IfOnDemand \/ CloseIf)
    \/ t \in Failers /\ (IfIdle(t) \/ IfAlwaysOn(t))
    \/ t = Main /\ (Switch \/ Store)
    \/ t = Profile /\ (Undo \/ Unlock)

User ==
    \/ StartRecording \/ StopRecording \/ CancelRecording
    \/ \E m \in Modes : SetMode(m)
    \/ SelectDevice \/ SetEnhancement \/ SetProfile
    \/ StartPreview \/ StopPreview

Next ==
    \/ \E t \in Threads : Step(t)
    \/ User
    \/ \E f \in Failers : DeviceFails(f)

Spec == Init /\ [][Next]_vars

\* Every thread runs on; the user and the devices owe nothing.
FairSpec == Spec /\ \A t \in Threads : WF_vars(Step(t))

-----------------------------------------------------------------------------
(* Properties *)

\* While the manager says a recording is active, it is: the flag is up and a
\* worker is capturing.  recorder.rs builds its resamplers before it reports
\* success so that no recording is left "active" with no audio captured.
Recorded == state = "Recording" => isRecording /\ capturing

\* The acoustic profile is changed outside any recording: none runs when the
\* change begins and none begins before it ends, however many steps it takes.
ProfileAlone == ~Idle(Profile) => state = "Idle" /\ ~isRecording

\* The deferred close never takes the stream a start has just opened.
LingerSpares ==
    [][CloseIf /\ isOpen /\ ~isOpen' => ~isRecording /\ ~At(Dict, "Begin")]_vars

\* Once the user is done, the on-demand microphone is closed unless another
\* dictation starts.
MicrophoneClears ==
    []<>(~alwaysOn /\ stage = "Idle" /\ Idle(Dict) => ~isOpen)

\* The start and stop paths come back whichever mutexes they queue for: they
\* "cannot deadlock on inverted lock ordering" (try_start_recording).
DictationReturns == ~Idle(Dict) ~> Idle(Dict)

\* So does every call (start, stop, cancel, commands, failure handling, the
\* linger worker), unless update_mode has locked the mode mutex for good.
CallsReturn == \A t \in Threads : ~Idle(t) ~> (Idle(t) \/ modeLock # Free)

-----------------------------------------------------------------------------
(* Expectations the code does not meet; the README gives the constants.    *)

\* A stream failure leaves a recording in flight intact, so that stopping it
\* salvages the audio (handle_stream_failure).
FailureSpares ==
    [][\A f \in Failers : StopStream(f) => isRecording' = isRecording]_vars

\* A stream that died is rebuilt on the next open: it stays flagged while it
\* sits in the slot, once its failure has been handled.
DeadIsKnown ==
    recLock = Free /\ recorder = "Dead" /\ (\A f \in Failers : Idle(f))
        => streamFailed

\* is_open tells whether the recorder has a worker: otherwise the next start
\* finds the stream already active and no recorder to start.
OpenMeansWorking == recLock = Free => (isOpen <=> recorder \in Working)
=============================================================================
