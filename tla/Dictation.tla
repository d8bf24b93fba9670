----------------------------- MODULE Dictation -----------------------------
(***************************************************************************)
(* The dictation life cycle: from the hotkey to the paste.                 *)
(*                                                                         *)
(*   hotkeys, signals --(mpsc)--> coordinator thread --> recorder          *)
(*   cancel callers   ----------------^   |                                *)
(*                                        +--> one async pipeline per run  *)
(*                                             --> paste on the main thread*)
(*                                                                         *)
(* transcription_coordinator.rs owns `stage`; actions/mod.rs starts and    *)
(* stops a dictation and runs its pipeline; utils.rs cancels from whatever *)
(* thread calls it.  Each action is one step between two points where      *)
(* another thread can be observed: a lock, an atomic, a channel operation. *)
(*                                                                         *)
(* The recorder is what the coordinator sees of it: the binding under the  *)
(* `state` mutex and the `is_recording` flag (module Microphone has the    *)
(* stream itself).                                                         *)
(***************************************************************************)
EXTENDS Integers, Sequences, FiniteSets

CONSTANTS
    Bindings,        \* the transcribe bindings
    Rewriting,       \* those whose mode is DictationMode::RewriteSelection
    Probing,         \* those that probe the selection at start
    Inputs,          \* the key events: [binding, pressed, ptt]
    Cancellers,      \* callers of cancel_current_operation, each calls once
    MaxInputs,       \* bound on the key events sent
    MaxRuns,         \* bound on processing_generation
    Panics           \* whether the pipeline task may panic

Gens   == 1..MaxRuns
RunIds == Nat

ASSUME ConstantsAssumption ==
    /\ Rewriting \subseteq Probing
    /\ Probing \subseteq Bindings
    /\ {"Idle", "Processing", "None"} \cap Bindings = {}
    /\ Inputs \subseteq [binding : Bindings, pressed : BOOLEAN, ptt : BOOLEAN]
    /\ MaxInputs \in Nat
    /\ MaxRuns \in Nat
    /\ Panics \in BOOLEAN

VARIABLES
    chan,            \* the coordinator's mpsc channel
    inputs,          \* key events sent so far
    stage,           \* Stage: "Idle", "Processing" or the recording binding
    lastPress,       \* last_press.is_some()
    cpc,             \* where the coordinator thread is
    cbinding,        \* the binding its handler works for
    crun,            \* dictation_run_id of its start()
    cintent,         \* the intent its stop() took
    recState,        \* RecordingState: the active binding or "None"
    isRecording,     \* AudioRecordingManager::is_recording
    intents,         \* ACTIVE_DICTATION_INTENTS
    nextRun,         \* NEXT_DICTATION_RUN_ID
    probes,          \* selection probes in flight
    ui,              \* tray icon and recording overlay
    generation,      \* processing_generation
    cancelled,       \* canceled_processing_generation
    run,             \* the pipeline of each generation
    kpc,             \* where each canceller is
    kactive,         \* its recording_was_active
    kgen             \* the generation it loaded

coordVars  == <<stage, lastPress, cpc, cbinding, crun, cintent>>
recVars    == <<recState, isRecording>>
intentVars == <<intents, nextRun, probes>>
genVars    == <<generation, cancelled, run>>
kVars      == <<kpc, kactive, kgen>>
vars == <<chan, inputs, coordVars, recVars, intentVars, ui, genVars, kVars>>

---------------------------------------------------------------------------
(* Data                                                                    *)

InputCmd  == [kind : {"input"}, input : Inputs]
CancelCmd == [kind : {"cancel"}, active : BOOLEAN]
Finished  == [kind |-> "finished"]
Command   == InputCmd \cup CancelCmd \cup {Finished}

\* An ActiveDictationIntent. `sel` is the run whose probe supplied the
\* selected text, 0 while there is none.
NoIntent == [run |-> 0, rewrite |-> FALSE, sel |-> 0, pending |-> FALSE]
Intent   == [run : RunIds, rewrite : BOOLEAN,
             sel : RunIds, pending : BOOLEAN]

\* The DictationIntent a stop takes away. `resolved` remembers that an entry
\* with a finished probe was found.
NoTaken == [run |-> 0, rewrite |-> FALSE, sel |-> 0, resolved |-> FALSE]
Taken   == [run : RunIds, rewrite : BOOLEAN,
            sel : RunIds, resolved : BOOLEAN]

\* Pipeline program counters: before the capture, holding the audio, on the
\* main thread, and how it ended.
LivePC == {"stop", "drain", "captured", "transcribe", "ready",
           "scheduled", "pasting"}
DonePC == {"empty", "discarded", "silent", "saved", "pasted", "crashed"}
Run    == [pc : LivePC \cup DonePC \cup {"none"}, binding : Bindings \cup {"None"},
           intent : Taken]
NoRun  == [pc |-> "none", binding |-> "None", intent |-> NoTaken]

CoordPC  == {"recv", "open", "begin", "started", "failed", "check", "stopping"}
CancelPC == {"off", "cancel", "discard", "clear", "hide", "load", "store",
             "notify", "done"}

TypeOK ==
    /\ chan \in Seq(Command)
    /\ inputs \in 0..MaxInputs
    /\ stage \in Bindings \cup {"Idle", "Processing"}
    /\ lastPress \in BOOLEAN
    /\ cpc \in CoordPC
    /\ cbinding \in Bindings \cup {"None"}
    /\ crun \in RunIds
    /\ cintent \in Taken
    /\ recState \in Bindings \cup {"None"}
    /\ isRecording \in BOOLEAN
    /\ intents \in [Bindings -> Intent]
    /\ nextRun \in RunIds
    /\ probes \subseteq (Probing \X RunIds)
    /\ ui \in {"Idle", "Recording", "Transcribing"}
    /\ generation \in 0..MaxRuns
    /\ cancelled \in 0..MaxRuns
    /\ run \in [Gens -> Run]
    /\ kpc \in [Cancellers -> CancelPC]
    /\ kactive \in [Cancellers -> BOOLEAN]
    /\ kgen \in [Cancellers -> 0..MaxRuns]

Init ==
    /\ chan = <<>>
    /\ inputs = 0
    /\ stage = "Idle"
    /\ lastPress = FALSE
    /\ cpc = "recv"
    /\ cbinding = "None"
    /\ crun = 0
    /\ cintent = NoTaken
    /\ recState = "None"
    /\ isRecording = FALSE
    /\ intents = [b \in Bindings |-> NoIntent]
    /\ nextRun = 1
    /\ probes = {}
    /\ ui = "Idle"
    /\ generation = 0
    /\ cancelled = 0
    /\ run = [g \in Gens |-> NoRun]
    /\ kpc = [c \in Cancellers |-> "off"]
    /\ kactive = [c \in Cancellers |-> FALSE]
    /\ kgen = [c \in Cancellers |-> 0]

---------------------------------------------------------------------------
(* Senders: hotkey callbacks, signals, command line                        *)

SendInput ==
    /\ inputs < MaxInputs
    /\ \E i \in Inputs : chan' = Append(chan, [kind |-> "input", input |-> i])
    /\ inputs' = inputs + 1
    /\ UNCHANGED <<coordVars, recVars, intentVars, ui, genVars, kVars>>

---------------------------------------------------------------------------
(* The coordinator thread: one command at a time                           *)

Starts(i) == stage = "Idle" /\ i.pressed
\* Mutant: any transcribe key stops the recording.
AnyKeyStops(i) == stage \in Bindings /\ i.pressed = ~i.ptt

Stops(i)  == stage = i.binding /\ i.pressed = ~i.ptt

Receive(i) ==
    /\ cpc = "recv"
    /\ chan # <<>>
    /\ Head(chan) = [kind |-> "input", input |-> i]
    /\ chan' = Tail(chan)
    /\ lastPress' = (lastPress \/ i.pressed)

\* A press within DEBOUNCE of the previous one, or one the stage has no use
\* for ("Ignoring press: pipeline busy").
IgnoreInput(i) ==
    /\ Receive(i)
    /\ \/ i.pressed /\ lastPress
       \/ ~Starts(i) /\ ~Stops(i)
    /\ UNCHANGED <<inputs, stage, cpc, cbinding, crun, cintent, recVars,
                   intentVars, ui, genVars, kVars>>

\* TranscribeAction::start up to try_start_recording: show the recording UI
\* and register the intent of this run.
StartAction(i) ==
    /\ Receive(i)
    /\ Starts(i)
    /\ intents' = [intents EXCEPT ![i.binding] =
                     [run |-> nextRun, rewrite |-> i.binding \in Rewriting,
                      sel |-> 0, pending |-> i.binding \in Probing]]
    /\ crun' = nextRun
    /\ nextRun' = nextRun + 1
    /\ ui' = "Recording"
    /\ cbinding' = i.binding
    /\ cpc' = "open"
    /\ UNCHANGED <<inputs, stage, cintent, recVars, probes, genVars, kVars>>

\* start() of a rewrite binding returns at once while post-processing is off;
\* the coordinator still looks at the recorder afterwards.
StartRewriteDisabled(i) ==
    /\ Receive(i)
    /\ Starts(i)
    /\ i.binding \in Rewriting
    /\ cbinding' = i.binding
    /\ cpc' = "check"
    /\ UNCHANGED <<inputs, stage, crun, cintent, recVars, intentVars, ui,
                   genVars, kVars>>

\* try_start_recording opens the stream before it takes the state lock.
OpenStream ==
    /\ cpc = "open"
    /\ cpc' \in {"begin", "failed"}
    /\ UNCHANGED <<chan, inputs, stage, lastPress, cbinding, crun, cintent,
                   recVars, intentVars, ui, genVars, kVars>>

\* Its second half, under the state lock: "Already recording", or the
\* recorder starts, or it does not.
BeginRecording ==
    /\ cpc = "begin"
    /\ \/ /\ recState = "None"
          /\ recState' = cbinding
          /\ isRecording' = TRUE
          /\ cpc' = "started"
       \/ /\ cpc' = "failed"
          /\ UNCHANGED recVars
    /\ UNCHANGED <<chan, inputs, stage, lastPress, cbinding, crun, cintent,
                   intentVars, ui, genVars, kVars>>

StartSucceeded ==
    /\ cpc = "started"
    /\ probes' = IF cbinding \in Probing THEN probes \cup {<<cbinding, crun>>}
                                        ELSE probes
    /\ cpc' = "check"
    /\ UNCHANGED <<chan, inputs, stage, lastPress, cbinding, crun, cintent,
                   recVars, intents, nextRun, ui, genVars, kVars>>

\* Mutant: the overlay stays after a failed start.
StartFailedKeepsUi ==
    /\ cpc = "failed"
    /\ intents' = IF intents[cbinding].run = crun
                  THEN [intents EXCEPT ![cbinding] = NoIntent] ELSE intents
    /\ cpc' = "check"
    /\ UNCHANGED <<chan, inputs, stage, lastPress, cbinding, crun, cintent,
                   recVars, nextRun, probes, ui, genVars, kVars>>

\* clear_active_dictation_intent, and back to the idle UI.
StartFailed ==
    /\ cpc = "failed"
    /\ intents' = IF intents[cbinding].run = crun
                  THEN [intents EXCEPT ![cbinding] = NoIntent] ELSE intents
    /\ ui' = "Idle"
    /\ cpc' = "check"
    /\ UNCHANGED <<chan, inputs, stage, lastPress, cbinding, crun, cintent,
                   recVars, nextRun, probes, genVars, kVars>>

\* start() in the coordinator: the stage follows is_recording().
CheckRecording ==
    /\ cpc = "check"
    /\ stage' = IF isRecording THEN cbinding ELSE stage
    /\ cpc' = "recv"
    /\ UNCHANGED <<chan, inputs, lastPress, cbinding, crun, cintent, recVars,
                   intentVars, ui, genVars, kVars>>

\* Mutant: an unfinished probe counts as "no selection".
TakeIntentFailsOpen(b) ==
    LET e == intents[b] IN
    [run |-> e.run, rewrite |-> e.rewrite, sel |-> e.sel, resolved |-> ~e.pending]

\* take_active_dictation_intent: an unfinished probe fails closed, and a
\* missing entry means the binding's own mode.
TakeIntent(b) ==
    LET e == intents[b] IN
    IF e = NoIntent
    THEN [run |-> 0, rewrite |-> b \in Rewriting, sel |-> 0, resolved |-> FALSE]
    ELSE [run |-> e.run, rewrite |-> e.rewrite \/ e.pending, sel |-> e.sel,
          resolved |-> ~e.pending]

\* TranscribeAction::stop up to begin_processing_run.
StopAction(i) ==
    /\ Receive(i)
    /\ Stops(i)
    /\ generation < MaxRuns                        \* bound
    /\ cintent' = TakeIntent(i.binding)
    /\ intents' = [intents EXCEPT ![i.binding] = NoIntent]
    /\ ui' = "Transcribing"
    /\ cbinding' = i.binding
    /\ cpc' = "stopping"
    /\ UNCHANGED <<inputs, stage, crun, recVars, nextRun, probes, genVars, kVars>>

\* The rest of it: take a generation, spawn the pipeline, and Processing.
SpawnPipeline ==
    /\ cpc = "stopping"
    /\ generation' = generation + 1
    /\ run' = [run EXCEPT ![generation + 1] =
                 [pc |-> "stop", binding |-> cbinding, intent |-> cintent]]
    /\ stage' = "Processing"
    /\ cintent' = NoTaken
    /\ cpc' = "recv"
    /\ UNCHANGED <<chan, inputs, lastPress, cbinding, crun, recVars, intentVars,
                   ui, cancelled, kVars>>

\* Mutant: a cancel frees the stage while the pipeline still runs.
CancelFreesStage(active) == "Idle"

\* Mutant: only a cancel that saw the recording counts.
CancelNeedsRecording(active) ==
    IF stage # "Processing" /\ active THEN "Idle" ELSE stage

\* Command::Cancel: ignored while Processing, else back to Idle.
AfterCancel(active) ==
    IF stage # "Processing" /\ (active \/ stage # "Idle") THEN "Idle" ELSE stage

ReceiveCancel ==
    /\ cpc = "recv"
    /\ chan # <<>>
    /\ Head(chan) \in CancelCmd
    /\ chan' = Tail(chan)
    /\ stage' = AfterCancel(Head(chan).active)
    /\ UNCHANGED <<inputs, lastPress, cpc, cbinding, crun, cintent, recVars,
                   intentVars, ui, genVars, kVars>>

ReceiveFinished ==
    /\ cpc = "recv"
    /\ chan # <<>>
    /\ Head(chan) = Finished
    /\ chan' = Tail(chan)
    /\ stage' = "Idle"
    /\ UNCHANGED <<inputs, lastPress, cpc, cbinding, crun, cintent, recVars,
                   intentVars, ui, genVars, kVars>>

Coordinator ==
    \/ \E i \in Inputs : \/ IgnoreInput(i) \/ StartAction(i)
                         \/ StartRewriteDisabled(i) \/ StopAction(i)
    \/ OpenStream \/ BeginRecording \/ StartSucceeded \/ StartFailed
    \/ CheckRecording \/ SpawnPipeline \/ ReceiveCancel \/ ReceiveFinished

---------------------------------------------------------------------------
(* The selection probe thread                                              *)

\* Mutant: any probe may answer the pending run.
AcceptsAnyRun(p) == intents[p[1]].pending

\* finish_selection_probe_with_guard: only the run that asked, and only once.
Accepts(p) == intents[p[1]].run = p[2] /\ intents[p[1]].pending

\* A selection turns the run into a rewrite of it; none leaves it as it is.
Answers(p) ==
    {[intents[p[1]] EXCEPT !.pending = FALSE],
     [run |-> intents[p[1]].run, rewrite |-> TRUE, sel |-> p[2],
      pending |-> FALSE]}

ProbeAnswers(p) ==
    /\ p \in probes
    /\ probes' = probes \ {p}
    /\ \E answer \in Answers(p) :
         intents' = IF Accepts(p) THEN [intents EXCEPT ![p[1]] = answer]
                                  ELSE intents
    /\ UNCHANGED <<chan, inputs, coordVars, recVars, nextRun, ui, genVars, kVars>>

\* The selection could not be read: the run stays unresolved.
ProbeFails(p) ==
    /\ p \in probes
    /\ probes' = probes \ {p}
    /\ UNCHANGED <<chan, inputs, coordVars, recVars, intents, nextRun, ui,
                   genVars, kVars>>

Probe == \E p \in probes : ProbeAnswers(p) \/ ProbeFails(p)

---------------------------------------------------------------------------
(* The async pipeline of generation g                                      *)

\* Mutant: the newest run escapes the cancel.
IsCancelledStrictly(g) == cancelled > g

IsCancelled(g) == cancelled >= g

Goto(g, pc) == run' = [run EXCEPT ![g].pc = pc]

\* Every way out drops the FinishGuard.
Finish(g, outcome) == Goto(g, outcome) /\ chan' = Append(chan, Finished)

pipeRest == <<inputs, coordVars, intentVars, generation, cancelled, kVars>>

\* stop_recording: under the state lock the recorder goes Idle ...
StopRecording(g) ==
    /\ run[g].pc = "stop"
    /\ \/ /\ recState = run[g].binding
          /\ recState' = "None"
          /\ Goto(g, "drain")
          /\ UNCHANGED <<chan, ui>>
       \/ /\ recState # run[g].binding
          /\ Finish(g, "empty")
          /\ ui' = "Idle"
          /\ UNCHANGED recState
    /\ UNCHANGED <<isRecording, pipeRest>>

\* ... and outside it the samples are drained and is_recording cleared.
DrainRecorder(g) ==
    /\ run[g].pc = "drain"
    /\ isRecording' = FALSE
    /\ Goto(g, "captured")
    /\ UNCHANGED <<chan, recState, ui, pipeRest>>

\* The dictation_run_cancelled checks up to "before paste setup".
DiscardCancelled(g) ==
    /\ run[g].pc \in {"captured", "transcribe", "ready"}
    /\ IsCancelled(g)
    /\ Finish(g, "discarded")
    /\ UNCHANGED <<recVars, ui, pipeRest>>

BeginTranscription(g) ==
    /\ run[g].pc = "captured"
    /\ ~IsCancelled(g)
    /\ Goto(g, "transcribe")
    /\ UNCHANGED <<chan, recVars, ui, pipeRest>>

\* Err keeps the audio in History unless cancelled; no speech ends the run;
\* text goes on through post-processing.
TranscriptionFailed(g) ==
    /\ run[g].pc = "transcribe"
    /\ Finish(g, IF IsCancelled(g) THEN "discarded" ELSE "saved")
    /\ ui' = "Idle"
    /\ UNCHANGED <<recVars, pipeRest>>

NothingSaid(g) ==
    /\ run[g].pc = "transcribe"
    /\ Finish(g, "silent")
    /\ ui' = "Idle"
    /\ UNCHANGED <<recVars, pipeRest>>

TextReady(g) ==
    /\ run[g].pc = "transcribe"
    /\ ~IsCancelled(g)
    /\ Goto(g, "ready")
    /\ UNCHANGED <<chan, recVars, ui, pipeRest>>

\* text_to_paste is None (rewrite failed, preview cancelled, output blocked):
\* only History gets the text.
PasteSkipped(g) ==
    /\ run[g].pc = "ready"
    /\ Finish(g, "saved")
    /\ ui' = "Idle"
    /\ UNCHANGED <<recVars, pipeRest>>

\* Mutant: the guard stays in the task and drops when the paste is queued.
SchedulePasteDropsGuard(g) ==
    /\ run[g].pc = "ready"
    /\ ~IsCancelled(g)
    /\ Finish(g, "scheduled")
    /\ UNCHANGED <<recVars, ui, pipeRest>>

\* run_on_main_thread moves the guard into the paste closure.
SchedulePaste(g) ==
    /\ run[g].pc = "ready"
    /\ ~IsCancelled(g)
    /\ Goto(g, "scheduled")
    /\ UNCHANGED <<chan, recVars, ui, pipeRest>>

\* It could not be queued: the closure is dropped, and the guard with it.
PasteNotQueued(g) ==
    /\ run[g].pc = "ready"
    /\ ~IsCancelled(g)
    /\ Finish(g, "crashed")
    /\ ui' = "Idle"
    /\ UNCHANGED <<recVars, pipeRest>>

\* The task panicked: only the guard runs.
PipelinePanics(g) ==
    /\ Panics
    /\ run[g].pc \in {"stop", "captured", "transcribe", "ready"}
    /\ Finish(g, "crashed")
    /\ UNCHANGED <<recVars, ui, pipeRest>>

Pipeline(g) ==
    \/ StopRecording(g) \/ DrainRecorder(g) \/ DiscardCancelled(g)
    \/ BeginTranscription(g) \/ TranscriptionFailed(g) \/ NothingSaid(g)
    \/ TextReady(g) \/ PasteSkipped(g) \/ SchedulePaste(g) \/ PasteNotQueued(g)
    \/ PipelinePanics(g)

---------------------------------------------------------------------------
(* The main thread                                                         *)

\* Mutant: the closure returns without its guard.
MainThreadForgetsGuard(g) ==
    /\ run[g].pc = "scheduled"
    /\ IsCancelled(g)
    /\ Goto(g, "discarded")
    /\ UNCHANGED <<chan, recVars, ui, pipeRest>>

MainThreadDrops(g) ==
    /\ run[g].pc = "scheduled"
    /\ IsCancelled(g)
    /\ Finish(g, "discarded")
    /\ UNCHANGED <<recVars, ui, pipeRest>>

MainThreadPastes(g) ==
    /\ run[g].pc = "scheduled"
    /\ ~IsCancelled(g)
    /\ Goto(g, "pasting")
    /\ UNCHANGED <<chan, recVars, ui, pipeRest>>

\* The paste ends.  A rewrite without a selection guard, or whose selection
\* changed, is not pasted; the text is in History either way.
PasteEnds(g) ==
    /\ run[g].pc = "pasting"
    /\ \/ /\ run[g].intent.rewrite => run[g].intent.sel # 0
          /\ Finish(g, "pasted")
       \/ Finish(g, "saved")
    /\ ui' = "Idle"
    /\ UNCHANGED <<recVars, pipeRest>>

MainThread(g) == MainThreadDrops(g) \/ MainThreadPastes(g) \/ PasteEnds(g)

---------------------------------------------------------------------------
(* cancel_current_operation, on the caller's thread                        *)

kRest == <<inputs, coordVars, nextRun, probes, generation, run>>

KGoto(c, pc) == kpc' = [kpc EXCEPT ![c] = pc]

\* recording_was_active is read first.
CancelBegins(c) ==
    /\ kpc[c] = "off"
    /\ kactive' = [kactive EXCEPT ![c] = isRecording]
    /\ KGoto(c, "cancel")
    /\ UNCHANGED <<chan, recVars, intents, ui, cancelled, kgen, kRest>>

\* cancel_recording: under the state lock ...
CancelRecording(c) ==
    /\ kpc[c] = "cancel"
    /\ recState' = "None"
    /\ KGoto(c, IF recState = "None" THEN "clear" ELSE "discard")
    /\ UNCHANGED <<chan, isRecording, intents, ui, cancelled, kactive, kgen, kRest>>

\* ... and outside it.
DiscardRecording(c) ==
    /\ kpc[c] = "discard"
    /\ isRecording' = FALSE
    /\ KGoto(c, "clear")
    /\ UNCHANGED <<chan, recState, intents, ui, cancelled, kactive, kgen, kRest>>

\* clear_all_active_dictation_intents; stopping speech and OCR follows.
ClearIntents(c) ==
    /\ kpc[c] = "clear"
    /\ intents' = [b \in Bindings |-> NoIntent]
    /\ KGoto(c, "hide")
    /\ UNCHANGED <<chan, recVars, ui, cancelled, kactive, kgen, kRest>>

HideUi(c) ==
    /\ kpc[c] = "hide"
    /\ ui' = "Idle"
    /\ KGoto(c, "load")
    /\ UNCHANGED <<chan, recVars, intents, cancelled, kactive, kgen, kRest>>

\* cancel_active_processing: a load, then a store.
LoadGeneration(c) ==
    /\ kpc[c] = "load"
    /\ kgen' = [kgen EXCEPT ![c] = generation]
    /\ KGoto(c, "store")
    /\ UNCHANGED <<chan, recVars, intents, ui, cancelled, kactive, kRest>>

StoreCancelled(c) ==
    /\ kpc[c] = "store"
    /\ cancelled' = kgen[c]
    /\ KGoto(c, "notify")
    /\ UNCHANGED <<chan, recVars, intents, ui, kactive, kgen, kRest>>

\* After maybe_unload_immediately, which may wait for the engine.
NotifyCancel(c) ==
    /\ kpc[c] = "notify"
    /\ chan' = Append(chan, [kind |-> "cancel", active |-> kactive[c]])
    /\ KGoto(c, "done")
    /\ UNCHANGED <<recVars, intents, ui, cancelled, kactive, kgen, kRest>>

Cancel(c) ==
    \/ CancelBegins(c) \/ CancelRecording(c) \/ DiscardRecording(c)
    \/ ClearIntents(c) \/ HideUi(c) \/ LoadGeneration(c) \/ StoreCancelled(c)
    \/ NotifyCancel(c)

---------------------------------------------------------------------------

Next ==
    \/ SendInput
    \/ Coordinator
    \/ Probe
    \/ \E g \in Gens : Pipeline(g) \/ MainThread(g)
    \/ \E c \in Cancellers : Cancel(c)

Spec == Init /\ [][Next]_vars

\* The program's own threads keep running; nobody has to press a key, to
\* cancel, or to answer a probe.
Fairness ==
    /\ WF_vars(Coordinator)
    /\ \A g \in Gens : WF_vars(Pipeline(g)) /\ WF_vars(MainThread(g))
    /\ \A c \in Cancellers : WF_vars(kpc[c] # "off" /\ Cancel(c))

FairSpec == Spec /\ Fairness

---------------------------------------------------------------------------
(* Properties                                                              *)

Live           == {g \in Gens : run[g].pc \in LivePC}
FinishedIn(s)  == {i \in DOMAIN s : s[i] = Finished}
QueuedFinished == FinishedIn(chan)
CancelPending  ==
    \/ \E c \in Cancellers : kpc[c] \notin {"off", "done"}
    \/ \E i \in DOMAIN chan : chan[i] \in CancelCmd
AtRest == cpc = "recv" /\ chan = <<>> /\ ~CancelPending /\ Live = {}

\* The stage is Processing exactly while one pipeline is running or its one
\* ProcessingFinished is on its way: never two pipelines, never a guard that
\* frees the stage for somebody else's run, never a stage nobody will free
\* (FinishGuard, actions/mod.rs; Stage, transcription_coordinator.rs).
OnePipeline ==
    /\ stage # "Processing" => Live = {} /\ QueuedFinished = {}
    /\ stage = "Processing" => Live # {} \/ QueuedFinished # {}
    /\ Live = {} \/ QueuedFinished = {}
    /\ \A g, h \in Live : g = h
    /\ \A i, j \in QueuedFinished : i = j

\* From the moment a paste is queued for the main thread until it has ended,
\* no recording runs and the coordinator starts none, whatever keys and
\* cancels arrive: "preventing a new dictation from racing the in-flight
\* paste" (actions/mod.rs).
PasteUndisturbed ==
    \A g \in Gens : run[g].pc \in {"scheduled", "pasting"} =>
        /\ recState = "None" /\ ~isRecording
        /\ cpc = "recv"

\* Once cancels have drained, a coordinator that believes it is recording
\* has a recorder that records: the next press ends it with audio.
StageTracksRecorder ==
    cpc = "recv" /\ stage \in Bindings /\ ~CancelPending => isRecording

\* At rest, the recorder is on only for the binding the stage names, so that
\* a key can end it (the coordinator is "to eliminate race conditions").
RecorderTracksStage ==
    AtRest /\ isRecording => stage = recState

\* The same as long as nobody has cancelled.
Untouched == \A c \in Cancellers : kpc[c] = "off"
RecorderTracksKeys == Untouched => RecorderTracksStage

\* At rest with the recorder off, tray and overlay are back to idle, however
\* the run ended; a cancel that comes early may leave them.
UiRests == Untouched /\ AtRest /\ ~isRecording => ui = "Idle"

\* A binding that probes the selection is pasted as ordinary dictation only
\* if its probe finished and found none; unfinished probes fail closed
\* (take_active_dictation_intent, actions/mod.rs), unless a cancel has taken
\* the intent away.
FailClosed ==
    Untouched => \A g \in Gens : run[g].pc = "pasted" /\ run[g].binding \in Probing =>
        run[g].intent.rewrite \/ run[g].intent.resolved

\* A rewrite that reaches the document replaces the selection its own run
\* captured, never one a late probe of an earlier run reports.
RewriteOwnsSelection ==
    \A g \in Gens : run[g].pc = "pasted" /\ run[g].intent.rewrite =>
        run[g].intent.sel = run[g].intent.run /\ run[g].intent.sel # 0

\* Once a cancel has marked the runs it saw, none of them begins to paste.
CancelHonoured ==
    [][\A c \in Cancellers, g \in Gens :
          /\ kpc[c] \in {"notify", "done"}
          /\ g <= kgen[c]
          /\ run[g].pc # "pasting"
          => run'[g].pc # "pasting"]_vars

\* The pipeline always gives the stage back.
BusyEnds == stage = "Processing" ~> stage # "Processing"

\* The promise of DictationSession, seen through the stage, the pipelines
\* that can still paste, and those that did.
Session == INSTANCE DictationSession WITH
    phase <- stage, used <- generation, open <- Live,
    delivered <- {g \in Gens : run[g].pc = "pasted"}

\* Every step of the threads is a step of one session or invisible to it: no
\* run is delivered twice, or after its session closed, or beside another.
SessionSpec == Session!Spec
=============================================================================
