--------------------------- MODULE ModelLifecycle ---------------------------
(***************************************************************************)
(* The speech engine: TranscriptionManager of managers/transcription.rs.   *)
(*                                                                         *)
(* One engine slot is shared by these threads, each at its own pc:         *)
(*   Dict      the dictation pipeline: records, previews, transcribes      *)
(*   Http      another caller of transcribe (HTTP API, imports)            *)
(*   Setter    set_active_model and its like, which call load_model, and   *)
(*             the pre-warms, which call initiate_model_load               *)
(*   Tray      the tray item, the idle watcher, "unload now" and the       *)
(*             cancel under the immediate policy: they call unload_model   *)
(*   Loaders   the threads initiate_model_load_for_model spawns            *)
(*   Workers   the partial (preview) worker of recording 1, 2, ...         *)
(*                                                                         *)
(* The lifecycle lock and the transcribe lock are held across steps and    *)
(* are variables; a section of any other mutex is one step.  engine_epoch  *)
(* is left out: it moves only under the lifecycle lock, which the one      *)
(* thread that compares it holds from its load to the comparison.          *)
(***************************************************************************)
EXTENDS Naturals

CONSTANTS
    Dict, Http, Setter, Tray, Loaders,
    MaxRecordings,   \* bound on the recordings; worker n serves recording n
    MaxCalls,        \* bound on the calls from outside the recordings
    Models, Realtime,\* the models, and those with a realtime session
    NoModel, Free,   \* no model, an unheld lock
    Immediately,     \* model_unload_timeout = Immediately
    LoadFails,       \* whether a load may fail
    Panics,          \* whether inference may panic
    Quits            \* whether the user may quit

Workers      == 1..MaxRecordings
Transcribers == {Dict, Http}
Callers      == {Dict, Http, Setter, Tray} \cup Loaders
Threads      == Callers \cup Workers

ASSUME ConstantsAssumption ==
    /\ MaxRecordings \in Nat /\ MaxCalls \in Nat
    /\ Realtime \subseteq Models /\ NoModel \notin Models
    /\ Free \notin Threads /\ Callers \cap Nat = {}
    /\ Dict \notin {Http, Setter, Tray} \cup Loaders
    /\ Http \notin {Setter, Tray} \cup Loaders /\ Loaders # {}
    /\ {Immediately, LoadFails, Panics, Quits} \subseteq BOOLEAN

VARIABLES
    pc, want,        \* each thread's place, and the model it is about
    lifecycle,       \* holder of lifecycle_lock
    transcribing,    \* holder of transcribe_lock
    engine,          \* the slot: the model its engine runs
    current,         \* current_model_id
    held,            \* the engine a thread has taken out or is creating
    teardowns,       \* pending_engine_teardowns
    isLoading, pendingModel,
    finalPending,    \* final_transcription_pending
    session,         \* partial_session: its worker, or 0
    generation,      \* the worker partial_generation belongs to, or 0
    cancelled,       \* the workers whose cancel flag is set
    recordings, calls, down

control == <<pc, want>>
locks   == <<lifecycle, transcribing>>
slot    == <<engine, current, held, teardowns>>
loads   == <<isLoading, pendingModel>>
partial == <<session, generation, cancelled>>
user    == <<recordings, calls, down>>
vars    == <<control, locks, slot, loads, finalPending, partial, user>>

Places == {"idle", "initiate", "preview", "store", "recording", "finalize",
           "queue", "ready", "load", "lock", "swap", "create", "take", "infer",
           "after", "unload", "leave", "next", "drop",
           "wait", "pin", "stream", "answered", "poll", "grab", "guess", "gone"}

TypeOK ==
    /\ pc \in [Threads -> Places]
    /\ want \in [Threads -> Models \cup {NoModel}]
    /\ lifecycle \in Threads \cup {Free} /\ transcribing \in Threads \cup {Free}
    /\ engine \in Models \cup {NoModel} /\ current \in Models \cup {NoModel}
    /\ held \in [Threads -> Models \cup {NoModel}] /\ teardowns \in 0..1
    /\ isLoading \in BOOLEAN /\ pendingModel \in Models \cup {NoModel}
    /\ finalPending \in BOOLEAN
    /\ session \in 0..MaxRecordings /\ generation \in 0..MaxRecordings
    /\ cancelled \subseteq Workers
    /\ recordings \in 0..MaxRecordings /\ calls \in 0..MaxCalls
    /\ down \in BOOLEAN

Init ==
    /\ pc = [t \in Threads |-> "idle"]
    /\ want = [t \in Threads |-> NoModel]
    /\ lifecycle = Free /\ transcribing = Free
    /\ engine = NoModel /\ current = NoModel /\ teardowns = 0
    /\ held = [t \in Threads |-> NoModel]
    /\ isLoading = FALSE /\ pendingModel = NoModel /\ finalPending = FALSE
    /\ session = 0 /\ generation = 0 /\ cancelled = {}
    /\ recordings = 0 /\ calls = 0 /\ down = FALSE

-----------------------------------------------------------------------------

Go(t, s)  == pc' = [pc EXCEPT ![t] = s]
Loaded(m) == engine # NoModel /\ current = m

\* stop_partial_session_internal
StopPartial ==
    /\ session' = 0 /\ generation' = 0
    /\ cancelled' = cancelled \cup ({session} \ {0})

\* A call from outside the recordings, about model m.
Calls(t, s, m) ==
    /\ ~down /\ pc[t] = "idle" /\ calls < MaxCalls /\ calls' = calls + 1
    /\ Go(t, s) /\ want' = [want EXCEPT ![t] = m]
    /\ UNCHANGED <<recordings, down>>

-----------------------------------------------------------------------------
(* load_model *)

\* Where its caller goes on: a loader looks for a pending model, a
\* transcriber takes the engine or gives up.
Return(t, ok) ==
    Go(t, IF t \in Loaders THEN "next"
          ELSE IF t \notin Transcribers THEN "idle"
          ELSE IF ok THEN "take" ELSE "leave")

SetModel(m) ==
    /\ Calls(Setter, "load", m)
    /\ UNCHANGED <<locks, slot, loads, finalPending, partial>>

\* Up to the lifecycle lock: loaded already, not available, or the preview
\* workers are told to stop.
LoadModel(t) ==
    /\ pc[t] = "load"
    /\ \/ Loaded(want[t]) /\ Return(t, TRUE) /\ UNCHANGED partial
       \/ ~Loaded(want[t]) /\ LoadFails /\ Return(t, FALSE) /\ UNCHANGED partial
       \/ ~Loaded(want[t]) /\ Go(t, "lock") /\ StopPartial
    /\ UNCHANGED <<want, locks, slot, loads, finalPending, user>>

LoadLocks(t) ==
    /\ pc[t] = "lock" /\ lifecycle = Free
    /\ Go(t, "swap") /\ lifecycle' = t
    /\ UNCHANGED <<want, transcribing, slot, loads, finalPending, partial, user>>

\* Mutant: the load does not wait for the pending teardowns.
SwapUnwaited(t) ==
    /\ pc[t] = "swap"
    /\ \/ /\ Loaded(want[t]) /\ Return(t, TRUE) /\ lifecycle' = Free
          /\ UNCHANGED slot
       \/ /\ ~Loaded(want[t]) /\ Go(t, "create")
          /\ engine' = NoModel
          /\ current' = IF engine = NoModel THEN current ELSE NoModel
          /\ held' = [held EXCEPT ![t] = want[t]]
          /\ UNCHANGED <<lifecycle, teardowns>>
    /\ UNCHANGED <<want, transcribing, loads, finalPending, partial, user>>

\* The pending teardowns are over: look again, or drop the previous engine
\* and start to create the new one.
Swap(t) ==
    /\ pc[t] = "swap" /\ teardowns = 0
    /\ \/ /\ Loaded(want[t]) /\ Return(t, TRUE) /\ lifecycle' = Free
          /\ UNCHANGED slot
       \/ /\ ~Loaded(want[t]) /\ Go(t, "create")
          /\ engine' = NoModel
          /\ current' = IF engine = NoModel THEN current ELSE NoModel
          /\ held' = [held EXCEPT ![t] = want[t]]
          /\ UNCHANGED <<lifecycle, teardowns>>
    /\ UNCHANGED <<want, transcribing, loads, finalPending, partial, user>>

\* create_loaded_engine returns, or fails (as does the release of a previous
\* mlx-audio engine).
Create(t) ==
    /\ pc[t] = "create"
    /\ \/ engine' = held[t] /\ current' = held[t] /\ Return(t, TRUE)
       \/ LoadFails /\ Return(t, FALSE) /\ UNCHANGED <<engine, current>>
    /\ held' = [held EXCEPT ![t] = NoModel] /\ lifecycle' = Free
    /\ UNCHANGED <<want, transcribing, teardowns, loads, finalPending, partial,
                   user>>

-----------------------------------------------------------------------------
(* initiate_model_load_for_model and the thread it spawns *)

Prewarm(m) ==
    /\ Calls(Setter, "initiate", m)
    /\ UNCHANGED <<locks, slot, loads, finalPending, partial>>

Initiate(t) ==
    LET m    == want[t]
        rest == IF t = Dict THEN "preview" ELSE "idle"
    IN
    /\ pc[t] = "initiate"
    /\ \/ /\ isLoading
          /\ pendingModel' = m /\ Go(t, rest) /\ UNCHANGED <<isLoading, want>>
       \/ /\ ~isLoading /\ Loaded(m)
          /\ Go(t, rest) /\ UNCHANGED <<loads, want>>
       \/ /\ ~isLoading /\ ~Loaded(m)
          /\ isLoading' = TRUE /\ UNCHANGED pendingModel
          /\ \E l \in Loaders :
                /\ pc[l] = "idle"
                /\ pc' = [pc EXCEPT ![t] = rest, ![l] = "load"]
                /\ want' = [want EXCEPT ![l] = m]
    /\ UNCHANGED <<locks, slot, finalPending, partial, user>>

\* Mutant: the loader ends without a look at the pending model.
LoaderNextBlind(l) ==
    /\ pc[l] = "next" /\ Go(l, "drop") /\ isLoading' = FALSE
    /\ UNCHANGED <<want, locks, slot, pendingModel, finalPending, partial, user>>

\* After a load: serve the pending model, or end the loading under the
\* mutex the requests take.
LoaderNext(l) ==
    /\ pc[l] = "next" /\ pendingModel' = NoModel
    /\ IF pendingModel # NoModel /\ ~Loaded(pendingModel)
       THEN /\ Go(l, "load") /\ want' = [want EXCEPT ![l] = pendingModel]
            /\ UNCHANGED isLoading
       ELSE Go(l, "drop") /\ isLoading' = FALSE /\ UNCHANGED want
    /\ UNCHANGED <<locks, slot, finalPending, partial, user>>

\* ModelLoadGuard is dropped: it clears the flag once more.
LoaderDrop(l) ==
    /\ pc[l] = "drop" /\ Go(l, "idle") /\ isLoading' = FALSE
    /\ UNCHANGED <<want, locks, slot, pendingModel, finalPending, partial, user>>

-----------------------------------------------------------------------------
(* unload_model *)

UnloadCalled ==
    /\ Calls(Tray, "unload", NoModel) /\ StopPartial
    /\ UNCHANGED <<locks, slot, loads, finalPending>>

\* A transcriber unloads from inside its call and leaves it next.
Leaving(t) == IF transcribing = t THEN "leave" ELSE "idle"

Unload(t) ==
    /\ pc[t] = "unload" /\ lifecycle = Free
    /\ Go(t, Leaving(t))
    /\ engine' = NoModel /\ current' = NoModel
    /\ teardowns' = teardowns + IF engine = NoModel THEN 0 ELSE 1
    /\ UNCHANGED <<want, locks, held, loads, finalPending, partial, user>>

\* maybe_unload_immediately
MaybeUnload(t) ==
    /\ pc[t] = "after"
    /\ IF Immediately /\ engine # NoModel
       THEN Go(t, "unload") /\ StopPartial
       ELSE Go(t, Leaving(t)) /\ UNCHANGED partial
    /\ UNCHANGED <<want, locks, slot, loads, finalPending, user>>

\* Mutant: the teardown guard is forgotten.
TeardownForgets == teardowns > 0 /\ UNCHANGED vars

\* The thread schedule_engine_teardown spawned.
Teardown ==
    /\ teardowns > 0 /\ teardowns' = teardowns - 1
    /\ UNCHANGED <<control, locks, engine, current, held, loads, finalPending,
                   partial, user>>

-----------------------------------------------------------------------------
(* transcribe_with_settings_timed *)

Request(m) ==
    /\ Calls(Http, "queue", m) /\ finalPending' = TRUE
    /\ UNCHANGED <<locks, slot, loads, partial>>

\* Empty audio needs no engine.
TranscribeLocks(t) ==
    /\ pc[t] = "queue" /\ transcribing = Free /\ transcribing' = t
    /\ (Go(t, "ready") \/ Go(t, "after"))
    /\ UNCHANGED <<want, lifecycle, slot, loads, finalPending, partial, user>>

\* Wait for a load in progress, at most 120 seconds; then check the model.
Ready(t) ==
    /\ pc[t] = "ready"
    /\ \/ isLoading /\ Go(t, "leave")
       \/ ~isLoading /\ Loaded(want[t]) /\ Go(t, "take")
       \/ ~isLoading /\ ~Loaded(want[t]) /\ Go(t, "load")
    /\ UNCHANGED <<want, locks, slot, loads, finalPending, partial, user>>

Take(t) ==
    /\ pc[t] = "take" /\ lifecycle = Free
    /\ IF engine = NoModel
       THEN Go(t, "leave") /\ UNCHANGED <<engine, held, lifecycle>>
       ELSE /\ Go(t, "infer") /\ lifecycle' = t
            /\ held' = [held EXCEPT ![t] = engine] /\ engine' = NoModel
    /\ UNCHANGED <<want, transcribing, current, teardowns, loads, finalPending,
                   partial, user>>

\* Mutant: the panic path keeps the model id.
InferKeepsCurrent(t) ==
    /\ pc[t] = "infer" /\ lifecycle' = Free
    /\ held' = [held EXCEPT ![t] = NoModel]
    /\ \/ /\ engine' = held[t] /\ UNCHANGED current
          /\ (Go(t, "after") \/ Go(t, "leave"))
       \/ Panics /\ Go(t, "leave") /\ UNCHANGED <<engine, current>>
    /\ UNCHANGED <<want, transcribing, teardowns, loads, finalPending, partial,
                   user>>

\* The engine answers or reports an error and is put back, or panics and is
\* dropped.
Infer(t) ==
    /\ pc[t] = "infer" /\ lifecycle' = Free
    /\ held' = [held EXCEPT ![t] = NoModel]
    /\ \/ /\ engine' = held[t] /\ UNCHANGED current
          /\ (Go(t, "after") \/ Go(t, "leave"))
       \/ Panics /\ current' = NoModel /\ Go(t, "leave") /\ UNCHANGED engine
    /\ UNCHANGED <<want, transcribing, teardowns, loads, finalPending, partial,
                   user>>

Leave(t) ==
    /\ pc[t] = "leave" /\ Go(t, "idle")
    /\ transcribing' = Free /\ finalPending' = FALSE
    /\ UNCHANGED <<want, lifecycle, slot, loads, partial, user>>

-----------------------------------------------------------------------------
(* The dictation and its preview *)

\* TranscribeAction::start: pre-load the model of the active rule ...
StartRecording(m) ==
    /\ ~down /\ pc[Dict] = "idle" /\ recordings < MaxRecordings
    /\ recordings' = recordings + 1
    /\ Go(Dict, "initiate") /\ want' = [want EXCEPT ![Dict] = m]
    /\ UNCHANGED <<locks, slot, loads, finalPending, partial, calls, down>>

\* ... start_partial_provider, unless the model gives no previews ...
StartPartial ==
    /\ pc[Dict] = "preview" /\ StopPartial /\ Go(Dict, "recording")
    /\ UNCHANGED <<want, locks, slot, loads, finalPending, user>>

NextGeneration ==
    /\ pc[Dict] = "preview" /\ Go(Dict, "store")
    /\ session' = 0 /\ generation' = recordings
    /\ cancelled' = cancelled \cup ({session} \ {0})
    /\ UNCHANGED <<want, locks, slot, loads, finalPending, user>>

\* ... which stores its session and spawns the worker.
StoreSession ==
    /\ pc[Dict] = "store" /\ session' = recordings
    /\ pc' = [pc EXCEPT ![Dict] = "recording", ![recordings] = "wait"]
    /\ want' = [want EXCEPT ![recordings] = want[Dict]]
    /\ UNCHANGED <<locks, slot, loads, finalPending, generation, cancelled, user>>

\* The recording ends without a transcription.
Discard ==
    /\ pc[Dict] = "recording" /\ StopPartial /\ Go(Dict, "idle")
    /\ UNCHANGED <<want, locks, slot, loads, finalPending, user>>

\* finish_partial_provider takes the session, asks a realtime session of the
\* same model to finalize, cancels any other and falls back to the batch.
Finish(m) ==
    /\ pc[Dict] = "recording" /\ want' = [want EXCEPT ![Dict] = m]
    /\ session' = 0
    /\ IF session # 0 /\ want[session] = m /\ m \in Realtime
       THEN Go(Dict, "finalize") /\ UNCHANGED <<cancelled, finalPending>>
       ELSE /\ Go(Dict, "queue") /\ finalPending' = TRUE
            /\ cancelled' = cancelled \cup ({session} \ {0})
    /\ UNCHANGED <<locks, slot, loads, generation, user>>

\* The session answers, or it fails, has gone, or takes 120 seconds.
Finalized ==
    /\ pc[Dict] = "finalize" /\ cancelled' = cancelled \cup {recordings}
    /\ \/ pc[recordings] = "answered" /\ Go(Dict, "after")
          /\ UNCHANGED finalPending
       \/ pc[recordings] # "answered" /\ Go(Dict, "queue")
          /\ finalPending' = TRUE
    /\ UNCHANGED <<want, locks, slot, loads, session, generation, user>>

\* A worker waits for the load in progress, at most 120 seconds.
WorkerWaits(w) ==
    /\ pc[w] = "wait"
    /\ IF isLoading THEN Go(w, "gone")
       ELSE IF want[w] \in Realtime THEN Go(w, "pin")
       ELSE IF Loaded(want[w]) /\ w \notin cancelled THEN Go(w, "poll")
       ELSE Go(w, "gone")
    /\ UNCHANGED <<want, locks, slot, loads, finalPending, partial, user>>

\* Mutant: the session releases the lifecycle lock once it is connected.
PinReleased(w) ==
    /\ pc[w] = "pin" /\ lifecycle = Free
    /\ IF w \notin cancelled /\ ~down /\ Loaded(want[w])
       THEN Go(w, "stream")
       ELSE Go(w, "gone")
    /\ UNCHANGED <<want, locks, slot, loads, finalPending, partial, user>>

\* A realtime session holds the lifecycle lock until it ends.
Pin(w) ==
    /\ pc[w] = "pin" /\ lifecycle = Free
    /\ IF w \notin cancelled /\ ~down /\ Loaded(want[w])
       THEN Go(w, "stream") /\ lifecycle' = w
       ELSE Go(w, "gone") /\ UNCHANGED lifecycle
    /\ UNCHANGED <<want, transcribing, slot, loads, finalPending, partial, user>>

StreamFails(w) ==
    /\ pc[w] = "stream" /\ Go(w, "gone") /\ lifecycle' = Free
    /\ UNCHANGED <<want, transcribing, slot, loads, finalPending, partial, user>>

StreamEnds(w) ==
    /\ pc[w] = "stream" /\ lifecycle' = Free
    /\ \/ (w \in cancelled \/ down) /\ Go(w, "gone")
       \/ w \notin cancelled /\ ~down /\ pc[Dict] = "finalize" /\ w = recordings
          /\ Go(w, "answered")
    /\ UNCHANGED <<want, transcribing, slot, loads, finalPending, partial, user>>

\* A polling worker borrows the engine for each guess, never before a final
\* transcription it knows of.
MustStop(w) == w \in cancelled \/ generation # w \/ finalPending \/ down

Poll(w) ==
    /\ pc[w] = "poll"
    /\ \/ MustStop(w) /\ Go(w, "gone") /\ UNCHANGED transcribing
       \/ ~MustStop(w) /\ transcribing = Free
          /\ Go(w, "grab") /\ transcribing' = w
    /\ UNCHANGED <<want, lifecycle, slot, loads, finalPending, partial, user>>

Grab(w) ==
    /\ pc[w] = "grab" /\ lifecycle = Free
    /\ IF w \in cancelled \/ generation # w \/ finalPending \/ engine = NoModel
       THEN Go(w, "gone") /\ transcribing' = Free
            /\ UNCHANGED <<lifecycle, engine, held>>
       ELSE Go(w, "guess") /\ lifecycle' = w /\ UNCHANGED transcribing
            /\ held' = [held EXCEPT ![w] = engine] /\ engine' = NoModel
    /\ UNCHANGED <<want, current, teardowns, loads, finalPending, partial, user>>

\* restore_partial_engine, or a panic.
Guess(w) ==
    /\ pc[w] = "guess" /\ lifecycle' = Free /\ transcribing' = Free
    /\ held' = [held EXCEPT ![w] = NoModel]
    /\ \/ engine' = held[w] /\ Go(w, "poll") /\ UNCHANGED current
       \/ Panics /\ current' = NoModel /\ Go(w, "gone") /\ UNCHANGED engine
    /\ UNCHANGED <<want, teardowns, loads, finalPending, partial, user>>

-----------------------------------------------------------------------------

\* shutdown takes no lifecycle lock.
Quit ==
    /\ Quits /\ ~down /\ down' = TRUE
    /\ StopPartial /\ engine' = NoModel /\ current' = NoModel
    /\ UNCHANGED <<control, locks, held, teardowns, loads, finalPending,
                   recordings, calls>>

Step(t) ==
    \/ LoadModel(t) \/ LoadLocks(t) \/ Swap(t) \/ Create(t)
    \/ Initiate(t) \/ Unload(t) \/ MaybeUnload(t)
    \/ TranscribeLocks(t) \/ Ready(t) \/ Take(t) \/ Infer(t) \/ Leave(t)
    \/ LoaderNext(t) \/ LoaderDrop(t)
    \/ WorkerWaits(t) \/ Pin(t) \/ StreamEnds(t)
    \/ Poll(t) \/ Grab(t) \/ Guess(t)

Dictation ==
    \/ StartPartial \/ NextGeneration \/ StoreSession
    \/ Discard \/ (\E m \in Models : Finish(m)) \/ Finalized

User ==
    \/ \E m \in Models : StartRecording(m) \/ SetModel(m) \/ Prewarm(m)
                         \/ Request(m)
    \/ UnloadCalled \/ Quit

Next ==
    \/ \E t \in Threads : Step(t)
    \/ Dictation \/ Teardown
    \/ \E w \in Workers : StreamFails(w)
    \/ User

Spec == Init /\ [][Next]_vars

\* Every thread runs on, and the user ends a recording some time; nobody
\* owes a call or a failure.
FairSpec ==
    /\ Spec /\ WF_vars(Dictation) /\ WF_vars(Teardown)
    /\ \A t \in Threads : WF_vars(pc[t] \notin {"idle", "gone"} /\ Step(t))

-----------------------------------------------------------------------------
(* Properties *)

\* "Two models are never resident at once" (load_model): in the slot, in the
\* hands of a thread, under construction or in teardown, there is one engine.
OneResident ==
    /\ engine # NoModel => teardowns = 0 /\ \A t \in Threads : held[t] = NoModel
    /\ \A t \in Threads : held[t] # NoModel =>
          teardowns = 0 /\ \A u \in Threads \ {t} : held[u] = NoModel

\* Whenever nobody holds the lifecycle lock the slot and current_model_id
\* agree, whatever failed, panicked or was cancelled before.
SlotMatchesCurrent == lifecycle = Free /\ ~down => engine = current

\* A realtime session keeps "the cached model and its persistent decoder
\* session stable for the recording" (run_mlx_realtime_provider).
StreamStable ==
    \A w \in Workers : pc[w] = "stream" /\ ~down =>
        engine = want[w] /\ current = want[w]

\* "No final request can be stranded" (initiate_model_load_for_model).
PendingServed == pendingModel # NoModel ~> pendingModel = NoModel

\* Every call returns: no cycle of the lifecycle lock, the transcribe lock,
\* the loading flag, a teardown and the answer of a session.  Calls are
\* bounded, so that each returns when all come to rest.
CallsReturn ==
    (\E t \in Callers : pc[t] # "idle") ~> (\A t \in Callers : pc[t] = "idle")

\* "A stale engine never serves another request" (load_model): a call uses an
\* engine of the model it asked for.
RightModel ==
    [][\A t \in Transcribers :
        pc[t] = "take" /\ pc'[t] = "infer" => held'[t] = want[t]]_vars

-----------------------------------------------------------------------------
(* Expectations the code does not meet; the README gives the constants.    *)

\* A partial never starts while a final transcription waits.
FinalFirst ==
    [][\A w \in Workers, t \in Transcribers :
        pc[w] = "grab" /\ pc'[w] = "guess" => pc[t] # "queue"]_vars

\* One loader at a time, while the flag is up.
OneLoader ==
    \A k, l \in Loaders : k # l =>
        pc[k] \in {"idle", "drop"} \/ pc[l] \in {"idle", "drop"}

\* After the shutdown no engine is left for the native finalizers.
NothingAfterShutdown == down => engine = NoModel

\* A load that was begun before the recording leaves its preview alive.
PreviewSurvives == [][\A l \in Loaders : LoadModel(l) => session' = session]_vars
=============================================================================
