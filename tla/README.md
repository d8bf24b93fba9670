# Vox Jot in TLA+

Vox Jot is a desktop dictation program: hold or press a key, speak, and the
text appears where the cursor is.  This directory models the concurrent core of
its Rust process (`src/src-tauri/src`, about 107 000 lines, of which most are
catalogues, text processing and commands), checks it with TLC and proves part
of it with TLAPS.  Paths below are relative to `src/src-tauri/src` unless they
begin with `src/`.

    Hotkeys, signals, HTTP            settings page, tray, HTTP, watch folders
            |                                        |
      [ Dictation ] --- start/stop/cancel --> [ Microphone ]   capture stream
            |    \                                   |
            |     \                             [ Recorder ]     its worker
            |      \
            |       +-- load, transcribe --> [ ModelLifecycle ] engine
            |                                        ^
            |  overlay window                        | files of the models
            v                                        |
      [ SpeechOutput ] <-- the window is shared   [ Downloads ]

      [ OcrRequests ]   [ StoryRenders ]   [ Meetings ]    on their own

Every box is a module.  What connects them: `Dictation` has of the microphone
only the binding and the flag its threads look at, and of the overlay only what
it asks for; `Microphone` has of the worker only whether it records, and
`Recorder` has the manager's calls in any order; `Microphone`, `ModelLifecycle`
and `SpeechOutput` have of a dictation only the order of its calls.  The paste ends in the clipboard, which
is not modelled.

## Inventory

### Modelled

| Component | State it keeps | Operations | What is hard |
|---|---|---|---|
| Dictation coordinator and pipeline (`transcription_coordinator.rs`, `actions/mod.rs`, `utils.rs`) | `Stage`, last press, the mpsc channel, `ACTIVE_DICTATION_INTENTS`, the processing generation and the cancelled one | key input, start, stop, the async pipeline, the main-thread paste, cancel from any thread, selection probes | five kinds of thread around one stage; cancels that overtake their own message; a paste that is queued, not done |
| Microphone stream (`managers/audio.rs`, `audio_toolkit/audio/recorder.rs`, `commands/audio.rs`) | recorder slot, `is_open`, `is_recording`, `stream_failed`, `stream_epoch`, mode, the linger worker's pending close | start, stop, cancel, mode, device, enhancement, profile and preview commands, device failure, deferred close | three mutexes and four atomics read one at a time |
| Capture worker (`audio_toolkit/audio/recorder.rs`, `audio_toolkit/vad/smoothed.rs`, `audio_toolkit/audio/resampler.rs`) | the channels of samples, commands and errors; `recording`, the half frame, `processed_samples`; `SmoothedVad`'s frame buffer and counters; `VadFallbackAudio` | receive, cut into frames, judge, keep or rescue; start, stop with its drain, snapshot, shutdown; stream errors | what of one recording is still in some buffer when the next begins; counters that meet at their limits; a stream that stalls or is torn down |
| Speech engine (`managers/transcription.rs`, `commands/models.rs`) | engine slot, `current_model_id`, lifecycle and transcribe locks, `is_loading` and the pending model, the partial session, `pending_engine_teardowns` | load, background load, transcribe, preview, unload, teardown, shutdown | memory for one engine only; a realtime preview holds the engine for a whole recording |
| OCR runtime (`ocr_runtime.rs`) | `intent_sequence`, `cancelled_through_intent`, epoch, active request with its metadata, `latest_started_request_id`, kill target, parked child and its catalog id, transition gate, `idle_cv` | arrive, coalesce, supersede, reuse or spawn, wait, finalize, cancel, shut down | a request draws its number before it queues, and its answer is read with no lock held: whoever returns must find out whether it is still the one |
| Speech output and overlay (`tts.rs`, `overlay.rs`) | `TtsPlaybackTracker`, stop flags, `audio_playback_gate`; `OVERLAY_OWNER`, `ACTIVE_SPEECH_OVERLAY_REQUEST`, `OVERLAY_DISPLAY_GENERATION`, fade-out threads | speak, play a cached file, stop, the main thread's shows and hides, a recording that takes the window | synthesis, playback, main thread and fade-out each act on what they read earlier |
| Story renders (`commands/story_studio.rs`) | `STORY_RENDER_QUEUE`: jobs with status and flag, `worker_running`; the library items | enqueue, cancel, the worker's take, progress, store, settle, remove, reset | a worker that ends while a job is appended; progress that overtakes a cancel |
| Meeting capture (`meeting_capture/mod.rs`, `meeting_capture/storage.rs`) | on disk `session.json`, two track files with header and data, transcripts; in memory the active run, the jobs, each command's copy of the session | start, append, checkpoint, stop, finish, rename; edit, transcribe, summarize, cancel, delete; crash and `recover` | hours between load and save; a crash between any two of the steps |
| Model downloads (`managers/model.rs`) | `.partial`, final file or directory, `.extracting`; cancel flags, `is_downloading`, `extracting_models` | download, resume, restart, verify, rename or unpack, normalize, cancel, delete, list, the end of the program | a partial file outlives everything that was known about it; a listing, a cancel or a delete reads flags and marks before it sweeps and writes |

### Not modelled

The map covers a small share of the lines.  Most of the rest does not interleave:
catalogues of models and voices, text processing, prompts, settings records,
command wrappers, HTTP handlers, signal processing.  Translating it would give
long modules of data without a step two threads could order differently, and the
unit tests reach it well.

| Component | State and operations | Why not |
|---|---|---|
| Output effects (`managers/audio.rs` 461-519, `audio_toolkit/ducking.rs`) | `did_mute`, the state to restore, the volume snapshot; `apply_mute` delayed past the start sound, `remove_mute`, duck and restore on threads of their own | the property worth having, that the output is in the end as the user left it, does not hold of the code (see the list of hazards below), and no comment promises it for overlapping recordings; what would be left holds by construction |
| Text insertion (`clipboard.rs`, `input.rs`) | the borrowed clipboard, `CLIPBOARD_RESTORE_GENERATION`; write, key stroke, restore 150 ms later | the clipboard belongs to other programs as well; a second paste inside the 150 ms takes the first text for the user's (`clipboard.rs` 244) |
| Settings store (`settings.rs`) | one cached record, one store; read, change, write all, by some 170 callers | an overlapping change is lost at once; the code promises nothing else |
| Hugging Face snapshots, artifact downloads (`artifact_download.rs`, `managers/model.rs`) | a tree of files per model, staging directory, cancel by job | the protocol of `Downloads` once per file; the snapshot's own rename is one more step of it |
| Shortcut registration (`shortcut/`) | registered keys; the cancel key only while recording | registering with the system is I/O; the order of its two tasks is a hazard below |
| Conversation (`managers/convo.rs`) | sessions by id behind one mutex | one critical section per command |
| Sidecar processes (`sidecar.rs`, `local_llm.rs`) | the child under a lifecycle mutex, cached health | start, probe and restart of external processes, one at a time |
| History, correction learning | SQLite rows, one monitored span | sequential; the database orders them |
| Watch folders (`managers/watch_folders.rs`) | in-flight set, a semaphore | the file system |
| Screen context, speech analysis, refinement, HTTP API and MCP, the signal processing of a frame, external volumes, shell, Python runtimes, web front end | see the notes in `PROJECT.json` | callers of the parts above, pure data transformation, or separate processes |

## Modules

| Module | What it is |
|---|---|
| `Dictation` | the coordinator thread, pipelines, the main thread, cancel callers, probes |
| `DictationSession` | the abstract promise: one session at a time, each run delivered at most once |
| `DictationProofs` | its theorems, and that `Dictation` implements `DictationSession` |
| `Microphone` | the capture stream and everybody who opens and closes it |
| `Recorder` | the worker behind the stream, and what a recording hands over |
| `MicrophoneProofs` | theorems of both |
| `ModelLifecycle` | the engine slot and everybody who fills and empties it |
| `ModelProofs` | its theorems |
| `OcrRequests` | the requests to the OCR child, cancels and shutdown |
| `LatestWins` | the abstract promise to those who ask: one seat, never back to an older request, nothing for the dismissed |
| `OcrProofs` | its theorems, and that `OcrRequests` implements `LatestWins` |
| `SpeechOutput`, `SpeechProofs` | speech requests, their overlay and the recording's; theorems |
| `StoryRenders` | the queue of story renders and its worker |
| `Meetings`, `MeetingProofs` | recorded meetings, their jobs, crash and recovery; theorems |
| `Downloads`, `DownloadProofs` | the download of one model, with cancels, listings and the end of the program; theorems |
| `MC...` | the instances for TLC; one `.cfg` per run |
| `ServicesProofs` | theorems about `MCServices` and `StoryRenders` |

A comment that begins with "Mutant" stands over a definition no action uses: a
plausible error (a dropped guard, a missing reset, a swapped order) that one
property is there to catch.  `PROJECT.json` pairs them, and maps every other
definition to its lines of source.

### Dictation

`chan` is the coordinator's channel, `stage` its `Stage`, `cpc` the place of its
thread in a handler.  `run[g]` is the pipeline of generation `g`, from the spawn
in `TranscribeAction::stop` to the drop of its `FinishGuard`; that drop is the
`Append(chan, Finished)` in `Finish`.  The main-thread closure is a place of the
same pipeline because the guard moves into it.  Each cancel caller has a place
in `cancel_current_operation` (`kpc`), what it read first (`kactive`) and the
generation it loaded (`kgen`): the load and the store of `cancel_active_processing`
are two steps, as in the code.  The debounce is a choice of `IgnoreInput`: any
press after the first may be ignored.  What is transcribed is not in the model;
whose selection a rewrite replaces is (`intent.sel`, the run whose probe
supplied it).  Opening the device may fail at every attempt.  The recorder is
the binding under its mutex and `is_recording`.

### Microphone

A call is the sequence of steps it still has to do (`todo`).  A step is a
critical section or one access to an atomic, so a caller that reads `is_open`
and then locks the recorder is two steps.  Mutexes that are held over several
steps are variables.  `Dict` runs starts and stops in turn, as the coordinator
and the pipeline do; `stage` is what the coordinator believes.  The recorder
slot distinguishes a recorder without a worker, one that delivers and one whose
device has died; `leaked` is a worker whose recorder was dropped.  The ten
seconds of `ON_DEMAND_STREAM_LINGER` are one timing assumption, in `LingerOver`:
a start does not take longer than the close it is racing.  A close queued for an
older epoch may fire at any time.

### Recorder

Samples are numbered as the streams deliver them, so the channel is the interval
between `taken` and `captured`, the half frame is `carried`, and a frame is its first
sample.  Of the sound of a frame the model has its `kind`: what the detector and the
energy gate of the rescue buffer answer, samples that are not finite, a detector that
fails.  One pass of the loop of `run_consumer` is several steps: a chunk or the
timeout, each frame, the news of a failure, each command; a stop drains, pads the
last frame and answers.  `device = "gone"` is a backend that drops its callbacks with the
failing stream.  `heard` is not in the code: it is what `SpeechHandedOver` compares the
result with, by `Faithful`, which says what a voice detector with onset, hangover
and prefill is for without its counters.  Left out: the constant delay of resampler
and noise filter, gain, levels, and a recorder without a detector, which the manager
never builds.

### ModelLifecycle

Each thread has a place (`pc`) and the model it is about (`want`).  The lifecycle
and transcribe locks are variables, sections of the other mutexes are steps.
`held` is an engine in the hands of a thread: taken out for inference, or under
construction.  A teardown is an engine on its way out on a detached thread; a
load waits for it without a limit.  The waits for the end of somebody
else's load and for the final answer of a realtime session end after two minutes
in the code and at any time in the model, which has no clock.  `engine_epoch` is left out: it
moves only under the lifecycle lock, and the thread that compares it holds that
lock from its load to the comparison.  `Http`, `Setter` and `Tray` are one
caller each for all the commands that end in `transcribe`, `load_model` or
`unload_model`.

### OcrRequests

A request is named by its intent, a child by the request that spawned it.  The
section of `request_inner` under the transition gate is four steps (`Enter`,
`Supersede`, `Prepare`, `Publish`), because the arrival of another request
(`fetch_add` on `intent_sequence`) needs no lock and is seen between them.
`asleep` is a wait on `idle_cv`, which also ends spuriously.  The wait for the
child's line ends with the answer, with anything else (`FinalizeFailure`: another
request's line, a malformed one, a timeout, the end of the output), or finds that
the seat was taken away (`FinalizeStale`).  Killing a child is one step: it has
gone when `kill_child` returns.

### SpeechOutput

`place[r]` is where a request's threads are.  `emit_playback_status` is two
steps, the question whether the ticket is active (`Check`) and the post to the
main thread (`Announce`); so is the end of a request, which first leaves the
tracker and then posts (`closing`).  `main` is the queue of closures of the main
thread, shared with the recording's overlay.  A fade-out thread is the
generation it compares (`fades`).

### StoryRenders

A worker is the job whose command spawned it.  Producing the voices and the
timeline are one step each, with progress written between them under the
queue's lock.  `Judge` and `Settle` are two steps: `story_render_worker` looks at
the flag before it locks the queue to mark the job.

### Meetings

`copy[c]` is a command's copy of `session.json`, `record` the capture's, `restored`
the recovery's; each is saved whole.  A track is its file's name, its length, the
length in its header and what is synced; a crash may lose what is not synced and
everything in memory.  `claim_job` is two steps, since it looks at the active run
and locks the jobs one after the other.  `recover` visits the meetings one by one
and may itself be cut off.  Starting and commands are refused until it is done.

### Downloads

A file is the sequence of blocks in it; names refer to files, so that a call
that has one open goes on writing to it after it was renamed.  The server may
ignore the range, refuse it, break off, or end early without a length.  An
archive's directory has its name (`Raw`) before `normalize_extracted_model_layout`
gives its files theirs, which may fail; one model of the catalogue needs it.

A listing, a cancel, a delete and a call that finds the model there all end in
`update_download_status`, which takes three steps, in the threads `Updaters` and
in the call's own: it reads the cancel flags (`UpdateReads`), locks the models and
reads `extracting_models` (`UpdateLocks`), and sweeps and writes (`UpdateWrites`).
A cancel sets the flag, if there is one, and shows the model as idle before that,
and may be repeated.  A call leaves in two steps as well: `is_downloading` under
the lock of the models (`Leave`), then flag and mark (`Return`).  So an update may
meet the end of a call, or the beginning of an unpacking, between its reading and
its writing.  The code has no defence there, and then does write `is_downloading` for
a call that is over, or removes the directory under the unpacking.  The history variable
`crossed` becomes true in exactly these situations; it guards no action, and the
two properties use it to say that nothing else has these effects.

`Overlap` and `DeleteBeside` allow a second call or a delete while one is under
way; the commands do, the front end does not.  The block of `download_model` that cleans up after a
failed rename of the unpacked directory (2562-2580) is not reached: the `?`
inside returns first, and `Place` fails as the code does.

### MCServices

Four components that share no state, in one instance: the initial state chooses
in `focus` which of them takes steps, so that their state spaces add up rather than
multiply.  It instantiates the modules with the theorems, which is how
`ServicesProofs` can cite them.

### MCCapture

`Microphone` with `Recorder` beside it, in the same manner: the manager's side of a
capture and the worker's.  Each has the effects of the other as its own steps, so
the two are not stepped together.

## Runs

| Run | States | What it shows |
|---|---|---|
| `dictation_cancel` | 1.14 M | two bindings (one adaptive, one rewrite), four key events, two runs, a cancel anywhere: one pipeline, undisturbed paste, rewrites of the own selection, failing closed, recorder and UI at rest, a cancelled run does not begin to paste |
| `dictation_live` | 378 k | push-to-talk and a pipeline that may panic: the stage always comes back from Processing; every step is one of `DictationSession` |
| `dictation_orphan` | violation | see findings |
| `capture` | 580 k | the manager: recordings and the deferred close in on-demand mode with failing opens: an active recording captures, the microphone is closed in the end.  The worker: any four calls, any sounds, a stream that stalls, fails or goes: a stop has its own audio, all that had come, all of the speech and nothing else; every call is answered |
| `microphone_settings` | 58 k | every command, both modes, a failing device: the profile changes outside recordings, the linger worker takes no stream from a start, every call returns unless `update_mode` has locked its mutex for good |
| `microphone_mode` | violation | see findings |
| `model_safe` | 420 k | one recording with its preview beside one outside call, with failed loads, panics, the immediate unload policy and a quit: one engine resident, slot and id agree, a realtime session keeps its engine |
| `model_live` | 188 k | the same under fairness, without panics and quit: pending loads are served, every call returns |
| `model_stale` | violation | see findings |
| `ocr_requests` | 467 k | three requests for two models, each a probe or an OCR, and two cancels or shutdowns: one child in memory, a warm child only for its own model, the late end of a superseded request harms nobody, the promise of `LatestWins`, every request returns |
| `services` | 1.33 M | stories: one worker, no stranded job, a cancel that holds, renders that end. Speech: one voice, the overlay follows the newest request. Meetings: after a crash nothing is stuck, synced audio and the names of the speakers are kept. Downloads: what has the model's name is the whole of it, and the manager rests when no call and no update is under way, both up to the two races of an update below |
| `overlay_fade` | violation | see findings |

### Bounds

* `MaxInputs = 4`, `MaxRuns = 2` (Dictation).  Two start/stop pairs in toggle
  mode or two push-to-talk presses: enough for a second run to begin under the
  remains (probe, finish message, cancel) of the first, and the invariants relate
  at most two runs.  One canceller: two of them can undo each other's mark (below).
* `MaxEpoch`, the number of recordings (Microphone): four for the dictation run,
  where it costs nothing; two with the commands, a recording and the next one
  that meets what it left behind.  `MaxCalls = 1`, `MaxFailures = 1`: one command
  against one recording and one failure.
* `MaxChunks = 3` of three samples, frames of two (Recorder): five frames in a recording,
  one of them over the boundary of two chunks and one padded.  The profiles are those
  of the code with smaller numbers (`prefill`, `hangover`, `onset` 1, 1, 2 and 2, 1, 1;
  rescue after 2 loud frames, compaction at 3 to 2): each counter reaches its limit,
  an utterance ends and a second begins, the rescue buffer is compacted before
  it is needed.  `MaxRequests = 4` is open, start, stop, start: the smallest history in
  which something of one recording meets the next.  `MaxRare = 1`: one frame per recording
  with samples that are not finite, or on which the detector fails.
* `MaxRecordings = 1`, `MaxCalls = 1` (ModelLifecycle), with two loader threads
  and two models, one of them with a realtime session.  A recording alone brings a
  transcriber, a loader and a preview worker together; the outside call is the
  fourth.  The safety instance with two outside calls (7.0 million states) passes
  as well but takes minutes; the theorems have no bound.
* `MaxRequests = 3`, `MaxCancels = 2`, two models (OcrRequests): one request that
  is served, one that waits for its child, and a newer one that dismisses both; a
  cancel before and one after.
* `MaxJobs = 3` (StoryRenders): one in work, one queued, one that is appended as
  the worker ends.
* `MaxTickets = 2`, `MaxEvents = 1` (SpeechOutput): a request and its successor, and
  one stop or recording between them.  The theorems have no bound.
* `MaxMeetings = 1`, two callers, `MaxCommands = 2`, `MaxFrames = 1`,
  `MaxCrashes = 1` (Meetings): a stale copy needs two commands on one meeting, and
  what a second meeting adds is that a run and a job may exclude each other, which
  they do by the mutexes' order alone.
* `Size = 2`, `MaxCalls = 2`, `Updaters = {u1}`, `MaxUpdates = 2`, `MaxQuits = 1`, `Overlap`
  and `DeleteBeside` FALSE (Downloads): a first attempt that leaves nothing, a part or
  all, and one that meets it, with two listings, cancels or deletes anywhere.  With a
  second thread of them, on its own, 2.1 M states pass; the theorems have no bound.

`CHECK_DEADLOCK FALSE` throughout: users need not press a key again, and the
bounded numbers of keys, calls and recordings run out.

### Fairness

The threads of the program run on: weak fairness of the coordinator, of each
pipeline and of each cancel that has begun; of each thread's own step in
Microphone and ModelLifecycle; of the teardown thread, which only drops an
engine.  The mutexes are those of the standard library, and no thread needs
strong fairness for the properties here, because each lock is taken finitely
often by the others under the bounds: starvation by an unfair mutex is not
excluded for an endless stream of callers.  Nothing is assumed of
the user (keys, settings, quit), of devices, of probes into other applications or
of the two timeouts.  One assumption is about people: in ModelLifecycle a
recording that has begun ends (`WF_vars(Dictation)`), because a realtime session
holds the lifecycle lock until it does.

In Recorder the worker is fair (`WF(Work)`): it is a thread whose only wait, `recv_timeout`,
ends after 50 ms.  Neither the stream nor the caller is.

In OcrRequests the steps of each request and the end of each cancel are fair: the
wait for the child's line is a `recv_timeout`, so it returns whatever the child does.
Nobody has to ask or cancel.  In StoryRenders each worker's thread is fair
(`WF_all(StoryWork(w))`): a render ends, in one way or another.  Speech, meetings and
downloads have safety properties only; their liveness hangs on the network,
the disk and the loudspeaker.

## Proofs

All with TLAPS, for every value of the constants that satisfies
`ConstantsAssumption` of the module.

`DictationProofs`: all the properties of `dictation_cancel`, and `ImplementsSession`
(`Spec => SessionSpec`), for any number of bindings, keys, cancel callers and runs.
The inductive invariant is

    IInv == TypeOK /\ Control /\ OnePipeline /\ RecorderReleased /\ Unborn

`OnePipeline` alone is not inductive: that a stop may create a run needs the
coordinator to be in its handler with the stage of a recording and no finish
message queued (`Control`), and a run that is started must not overwrite an old
one (`Unborn`: generations above `generation` have none).  `RecorderReleased` says
that a pipeline past its capture has left the recorder idle, which gives
`PasteUndisturbed`: only the coordinator starts a recording and it does so only
while the stage is Idle, where there is no live pipeline.  The lemmas about
sequences say what appending and removing a command does to the set of queued
finish messages.  The refinement maps a start, stop, cancel or finish message to
the session's step and everything else to a stutter.

The rest stands on three further invariants.  `Owned`: wherever an intent is, in
the registry, with the coordinator or in a pipeline, its selection is nobody's or
belongs to the run beside it, which makes `RewriteOwnsSelectionAlways`.  `Marked`: a
canceller that has stored its mark finds it there, which is true of one caller and
not of two (`CancelHonouredAlways` assumes `OneCanceller`).  `Calm`: until somebody
cancels, and if no pipeline panics (`ASSUME ~Panics`), it is known for every place of
the coordinator and of a pipeline what recorder, intents and UI are; from it follow
`RecorderTracksKeysAlways`, `UiRestsAlways` and `FailClosedAlways`.  With a panic before
`stop_recording` the recorder indeed stays on.  `StageTracksRecorder` is inductive
beside `IInv`: a cancel that has switched the recorder off is pending until its
message has put the stage back.

`MicrophoneProofs`: `TypeCorrect`, `ProfileAloneAlways`, `LingerSparesAlways` for any
commands, failure threads and bounds.  The invariant is

    IInv == TypeOK /\ Plans /\ Guarded /\ Behind /\ Spared

`Plans` says what of the lists of steps is needed: a start does its opening steps
first, a change of the profile ends with its unlock, the linger worker has only its
own steps.  `Guarded`: such a change holds the state mutex from the check to the
end.  `Behind` and `Spared`: no close is for an epoch to come, and one for the present
epoch began when its start was over, which uses the timing assumption in
`LingerOver`.

`RecordedAlways` (an active recording captures, for any number of recordings, failing
opens and deferred closes) assumes `Undisturbed`: on-demand, no cancel, no settings
command, no device failure; with any of these it does not hold (below).  Its invariant is

    Heard == Lone /\ Serving /\ Active

`Lone`: nobody else has a step to do.  `Serving`: what the start or stop under way has
left to do fits the state it has reached.  `Active`: while a recording is active the slot
holds a live recorder that captures.

The same module proves `OwnAudioAlways` and `CaptureTypes` of `Recorder`, for any sizes of
chunks and frames, any profiles, sounds and calls:

    CaptureInv == Placed /\ Commanded /\ Begun /\ Counted /\ Sounding

`OwnAudio` is not inductive, because what is let through now may have been kept
before: by the detector, to open an utterance with, or as half a frame.  So `Counted` says
that the half frame came after the last result, and `Sounding` that the detector's frames
did, as soon as a recording is on.  When a stop is taken one is on (`Begun`), since the
channel holds starts and then at most the command of the one caller that waits
(`Commanded`).

`SpeechHandedOverAlways` proves, of the same worker, that a stop hands over what the
reference (`Faithful`) asks of the recording.  The reference has no counters and looks at
the whole of `heard`, what the detector was given since it was last reset: the frames of
speech, each utterance with its onset, its hangover and the `prefill` frames before it,
each once; or, when the detector let nothing through, the end of the recording that the
rescue buffer is for.  The two are related frame by frame, by an invariant that holds
between any two steps while a recording is on or being stopped (`TunedAlways`):

    Listening(h, v, o, r) ==
        Steady(h, v) /\ Reaches(v.recent, h) /\ ToSet(o) = Wanted(h)
        /\ VoicedOnce(h, o) /\ FarBack(h, o, v) /\ (o = <<>> => Standing(h, r))

`Steady`: the detector is in speech where the reference is, the onset counter is the number
of voiced frames since the last one without, the hangover counter what is left since the
last voiced one.  `Reaches`: the detector's own buffer is the last `prefill + 1` frames.
`FarBack` is why no voiced frame is handed over twice: what was let through lies
`hangover + 1` frames back when the next onset begins to count, and the profiles
have `prefill <= hangover + onset`.  `Standing`: the rescue buffer is not compacted past
what may still be needed, since `MinActive <= Keep <= Compact`.  Both conditions on the
numbers are assumptions of `Recorder` and hold of the constants in the code.  No induction
over the recording is needed: the reference is a set of positions, and each lemma says what
one more frame adds to it.

`WaitsOrderedAlways` is the safety half of `CallsReturn`: the start and stop paths "cannot
deadlock on inverted lock ordering" (`try_start_recording`).  `Able(t)` says that the
mutexes the next step of `t` takes are free; that the step is then enabled is read
off the guards.  Whoever holds the recorder is about to publish and needs no other mutex,
the profile, which holds the state, needs at most the recorder, and the mode is held for
good or by nobody.  The invariant beside it, `LockInv`, ties each mutex to the place
of its holder.

`ClosesComing`, under `Undisturbed`, is the safety half of `MicrophoneClears`: a stream that
is open while the coordinator is idle has a close for the last epoch queued or under way,
and no recording to spare it for.  Beside `Heard` it needs `Cleared`, which says that
`is_recording` is down wherever a start has not begun and a stop has asked for the
close; an open that fails leaves nothing open.

`CallersHeard` is the safety half of `CallsAnswered`, the part of `Responsive` about calls:
the caller that waits in a stop, a snapshot or a close has its command last in the channel,
or at the worker (`Answering`), the worker runs, and wherever it is it has a step to take
that needs nothing of the stream (`Advances`).  Chunks are taken whole and none is received
that was not sent (`Chunked`), so that a drain comes to its end.

`ModelProofs`: `TypeCorrect`, `OneResidentAlways`, `SlotMatchesAlways`,
`StreamStableAlways`, for any number of loaders, recordings, calls and models.  The
invariant is

    IInv == Shape /\ Locked /\ Hands /\ Teardowns /\ Matches /\ StreamStable /\ Fresh

Whoever is between taking the lifecycle lock and releasing it holds it
(`Locked`); an engine out of the slot is in the hands of that thread, at a place
where it may be (`Hands`); a full slot means no teardown (`Teardowns`); id and slot
agree but for the holder's own window (`Matches`); workers of recordings to come
have not moved (`Fresh`).  `Shape` is as much typing as the steps need.  Steps
inside the lock go through the lemma `Moves`, which asks only what the moved
thread must satisfy at its new place; steps outside through `Quiet`.

Two theorems are the safety half of its liveness properties.  `WaitsOrderedAlways` (of
`CallsReturn`): who holds the lifecycle lock waits for no lock, only for a teardown or, in a
realtime session, for the end of the user's recording; who holds the transcribe
lock waits for the lifecycle lock at most; and every other thread can go on or waits for one
of these.  `NoneStranded` (of `PendingServed`): a load that was asked for, or left pending
while another was under way, has a loader that has yet to look for it.  `ConstantsAssumption`
says for them that `Http` is a thread of its own and that there are loaders.

`OcrProofs`: `TypeCorrect`, `AtMostOneChild`, `WarmChildMatches`, `SuccessorsUnharmed` and
`PromiseKept` (`Spec => KeepsPromise`), for any number of requests, cancels and models.
The invariant is

    IInv == TypeOK /\ Gated /\ Seated /\ Secured /\ Living /\ Named

`Gated`: the thread in a section under the gate holds it.  `Seated`: the active request is
waiting, is the latest, is above `through`, has the present epoch and its live child for
its model, and nothing is parked.  `Secured`: the holder of the gate is newer than
`through` and the latest; past its "supersede" nobody is active, and at "publish" it has a
live child with its model.  `Living`: a child that is alive is the kill target, the parked
one (whose model is the catalog's) or that of the request about to publish.  `Named`: a
child has the name of the request that spawned it.

The safety half of `RequestsReturn`: a request that sleeps on `idle_cv` does so
behind an active one that is not itself and waits for its child, and the gate is with
nobody who waits (`NobodyForgotten`); and whatever step changes who is active, none of the
sleepers sleeps on (`SleepersWoken`).

`SpeechProofs`: `IInv == Numbered /\ Placed /\ Voiced /\ Posted /\ Overlaid`.  Tickets
are handed out in order (`Numbered`); who plays holds the gate and looked at its flag
under it (`Voiced`); what is queued for the main thread about the active request is
no hide (`Posted`); and so the overlay is its own once displayed (`Overlaid`).

`MeetingProofs`: `IInv == Typed /\ Saved /\ Captured /\ Stored /\ Kept /\ Claimed /\
Alone /\ Left`, under the assumption that `NoSession` is no session record.  `Claimed`
and `Alone` say that the one caller with the job is the only one whose copy can be
saved, apart from the capture and the recovery, which work on meetings no job can
have; `Captured` and `Kept` follow the two tracks through the finish, `Left` what a
crash leaves behind.

`DownloadProofs`: `IInv == Typed /\ Alone /\ Beginning /\ Fresh /\ Fits /\ Sound /\
Told /\ Rests`, under `OneByOne` (one call at a time and no delete beside it), for any
set of `Updaters`.
`Beginning`: the partial file has the first blocks without a gap; `Fits`: the call in
flight continues exactly where it ends, which a 200 to a ranged request would break
if it were not restarted; `Fresh`: an update has read nothing before its reading and keeps nothing after its writing.
`Fits` and `Rests` also say, while `crossed` is false, that no update will sweep the
directory a call is filling (`NoSweep`), and that none has read a call that is over
(`NoStale`); `Sound`, on what carries the name of the model, needs the first.  `Told`: when
no update is under way the model is listed as there if it is.

`ServicesProofs` proves `OneWorker` and `CancelHolds` of `StoryRenders` (its invariant is
`TypeOK /\ Named /\ Claimed /\ NoneStranded /\ Flagged /\ Held`) and carries the theorems of
the other three over to `ServicesSpec`: a behaviour of the composition is one of each
component, with stutters.  `NoneOrphaned` is the safety half of `RendersEnd`: a job that is
shown rendering or assembling is in the hands of a worker.

`TypesOKAlways` states `TypesOK`, the types of whichever component the composition runs.
`IInv` of each leaves out what its argument does not need; `Furnished` of `SpeechProofs` and
`Bounded` of the other two add it.  The counters need more than their guards: that `edits`
stays within `MaxCommands` is because an edit not yet made is a caller of a command already
counted.  `BoundsAssumption` says that the bounds are numbers.

Model-checked only: the liveness properties (`BusyEnds`, `MicrophoneClears`,
`Responsive`, `PendingServed`, both `CallsReturn`, `RequestsReturn`, `RendersEnd`).  Fairness
and `ENABLED` are out of the prover's reach.  Of each of them it is proved that nobody waits
for what never comes (of `BusyEnds` by the part of `OnePipelineAlways` that says that a
stage of Processing has a live pipeline or its finish message queued; of `MicrophoneClears`
without disturbance; of `Responsive` for the calls, not for `FaultSurfaces`);
that the fair steps then lead to the end is left to TLC.  The type invariants of `Dictation`, `ModelLifecycle`, `OcrRequests` and `Recorder` are only proved.

## Findings

* `dictation_orphan`.  A cancel reads `is_recording` as false, a recording
  begins, and the cancel's message arrives at a coordinator that knows nothing of
  it: `Cancel` returns the stage to Idle under a live microphone.  No key ends that
  recording; the comment over the coordinator promises to serialize these events
  "to eliminate race conditions".
* `microphone_mode`.  `update_mode` keeps `mode_guard` in the arms that neither
  open nor close the stream and locks `mode` again at its end.  Setting always-on
  twice, or setting on-demand while recording, stops the mode mutex for good, and
  with it every later start.  It takes no second thread: a PATCH of
  `always_on_microphone` to the value it has (`http_api/mod.rs`) is enough, or
  switching off after a failed switch on.
* `model_stale`.  `transcribe` compares the loaded model under `is_loading`,
  releases it, and takes whatever engine the slot holds under the lifecycle lock
  later.  A load that gets in between serves the request with another model's
  engine, although `load_model` says that "a stale engine never serves another
  request".
* `overlay_fade`.  The thread that fades out a speech overlay compares generation
  and owner and then asks the main thread to hide the window, which it does
  without a further look.  A recording that shows its overlay in between runs with a
  hidden window, although `overlay.rs` 500-501 says that "a recording overlay that
  began afterward must remain visible".

Besides these the modules state expectations one would have of the code and that
it does not meet.  They are not runs; each is violated under the constants given.

| Property | Fails with |
|---|---|
| `Dictation!FailClosed` without `Untouched` | one canceller: clearing all intents also takes that of a dictation that began after the cancel looked |
| `Dictation!UiRests` without `Untouched` | one canceller: the overlay of a run cancelled early stays |
| `Microphone!Recorded` | always-on start with `OpenFails = TRUE`, no command: a start after a failed open at launch records silence.  Also on-demand with one cancel, or with the preview command |
| `Microphone!FailureSpares` | on-demand, `MaxEpoch = 2`, `MaxFailures = 1` |
| `Microphone!DeadIsKnown` | always-on, `MaxEpoch = 3`, `MaxFailures = 2` |
| `Microphone!OpenMeansWorking` | on-demand, `Commands = {"profile"}`, `MaxEpoch = 2`, `MaxCalls = 1` |
| `ModelLifecycle!FinalFirst` | `MaxRecordings = 2`, `MaxCalls = 1`, the flags FALSE |
| `ModelLifecycle!OneLoader` | `MaxRecordings = 1`, `MaxCalls = 2`, the flags FALSE |
| `ModelLifecycle!NothingAfterShutdown` | `MaxRecordings = 0`, `MaxCalls = 1`, only `Quits = TRUE` |
| `ModelLifecycle!PreviewSurvives` | `MaxRecordings = 1`, `MaxCalls = 1`, the flags FALSE |
| `Recorder!NoEcho` | the constants of the run: speech that resumes within the prefill of its end, or around a frame the detector fails on, has the frames between twice |
| `Recorder!StopSalvages`, `FaultTold` | the constants of the run; with `Drops = FALSE` they hold.  A backend that drops its callback with the stream hangs the channel up, and `run_consumer` returns with what it had (`recorder.rs` 777), although `managers/audio.rs` 303-305 says that "stopping normally salvages the audio captured before the failure" |
| `SpeechOutput!OverlayAnswers` | `MaxTickets = 1`, `MaxEvents = 1`: a stop between the check and the post of a status |
| `StoryRenders!CancelledLeavesNothing` | `MaxJobs = 1`: a cancel after the worker's last look at the flag finds the story stored |
| `StoryRenders!OneWorker` under `PanicSpec` | `MaxJobs = 2`: a render that unwinds leaves `worker_running` set |
| `Meetings!NeverBoth` | the constants of the run: `claim_job` unlocks the active run before it locks the jobs |
| `Downloads!ListingTrue` | the constants of the run: a cancel or a listing that read the flags of a call writes `is_downloading` after its end; or the linking of an unpacked directory fails, which is there and not listed |
| `Downloads!UnpackedWhole` | the constants of the run: a cancel or a listing looks for an unpacking during the verification, and removes the directory that is being filled; the comment at `managers/model.rs` 1742-1743 ("only if this model is NOT currently being extracted") is not kept |
| `Downloads!Usable` | the constants of the run: a directory has its name before its files have theirs; the end of the program or an error in between leaves one that the next call accepts (2185) |
| `Downloads!CanResume` | the constants of the run: a complete partial file is refused with 416, for ever |
| `Downloads!InstalledWhole` | `Overlap = TRUE` or `DeleteBeside = TRUE`: two calls, or a call and a delete, share the partial file |

### Other hazards of the code

Not in `PROJECT.json`, which lists those the modules are about or come close to:

* `managers/transcription.rs` 1694: `cancel_active_processing` loads the generation and
  stores it later; of two cancels the slower one can lower the mark again.
* `managers/transcription.rs` 2870: the wait for the teardowns of an unload has no limit.
* `utils.rs` 105: a cancel that stalls after finding no recording marks a run that
  began after it.
* `shortcut/tauri_impl.rs` 219: registering and unregistering the cancel key are two
  tasks; after a short recording they may run in the other order.
* `managers/audio.rs` 567 (the failure flag is cleared after the open that may already
  have failed), 675 (the linger worker reads the mode before it closes), 784 (`is_open`
  is read before the recorder mutex is taken), `commands/audio.rs` 195 (the preview
  reads `is_recording` and then closes the stream): `Microphone` has the steps; the
  expectations above are what fails.
* `managers/audio.rs` 540: `apply_mute` races the stop of a short recording, and the
  output stays muted.
* `audio_toolkit/ducking.rs` 131: a duck that begins before the restore of the last one
  has ended takes the lowered volume for the user's.
* `artifact_download.rs` 641: a cancel is by artifact, and meets whichever job has it.
* `managers/convo.rs` 144: a reply that arrives after a reset is appended to the new
  conversation.
* `managers/transcription.rs` 251: `ModelLoadGuard` clears `is_loading` once more after the
  loop did, which may be that of the next load.
* `managers/model.rs` 2582: an error or the end of the program between the renaming of an
  unpacked directory and its normalisation; `Usable` above.
* `settings.rs` 3132: two callers that overlap lose one change.  `clipboard.rs` 244: see
  above.
* `managers/model.rs` 2562: the cleanup after a failed rename is never reached.

## What is left

* Output effects, the paste's clipboard and the settings store, if the code comes to
  promise something of their overlaps; each is a small module beside `Microphone`,
  `Dictation` and none.
* Hugging Face snapshots as a module over `Downloads` (a directory of files, promoted by
  one rename).
* `Dictation` composed with the locks of `Microphone`: each has of the other only the
  flag and the binding, and a cancel that crosses both is modelled twice, not once.
