----------------------------- MODULE ModelProofs -----------------------------
(***************************************************************************)
(* What holds of ModelLifecycle for every number of loaders, recordings,   *)
(* calls and models.  The lifecycle lock alone is not enough for the three *)
(* safety properties: the invariant says what its holder has done to the   *)
(* slot at each of its places, and that a recording yet to store its       *)
(* session has a worker that has not begun.                                *)
(***************************************************************************)
EXTENDS ModelLifecycle, TLAPS

Holding  == {"create", "infer", "guess"}
Inside   == Holding \cup {"swap", "stream"}
Starting == {"initiate", "preview", "store"}

\* The places inside the lifecycle lock are those of its holder, ...
Locked == \A t \in Threads : pc[t] \in Inside => lifecycle = t

\* ... who alone has an engine in hand, with an empty slot and no teardown.
Hands ==
    \A t \in Threads :
        /\ held[t] # NoModel => pc[t] \in Holding
        /\ pc[t] \in Holding => engine = NoModel /\ teardowns = 0

\* No engine is torn down beside a full slot.
Teardowns == engine # NoModel => teardowns = 0

\* Slot and model id at each place of the holder, and while there is none.
Matches ==
    ~down =>
        /\ lifecycle = Free => engine = current
        /\ \A t \in Threads :
            /\ pc[t] \in {"swap", "stream"} => engine = current
            /\ pc[t] = "create" => current = NoModel
            /\ pc[t] \in {"infer", "guess"} => current = held[t]

\* The workers of this recording, while it has stored no session, and of the
\* next ones have not begun.
Fresh ==
    \A w \in Workers :
        (w > recordings \/ (w = recordings /\ pc[Dict] \in Starting))
        => pc[w] = "idle"

\* What the proof needs of the types.
Shape ==
    /\ pc = [t \in Threads |-> pc[t]]
    /\ want = [t \in Threads |-> want[t]]
    /\ held = [t \in Threads |-> held[t]]
    /\ recordings \in Nat

IInv ==
    Shape /\ Locked /\ Hands /\ Teardowns /\ Matches /\ StreamStable /\ Fresh

-----------------------------------------------------------------------------

LEMMA ThreadsDistinct ==
    /\ {Dict, Http, Setter, Tray} \cup Loaders \cup Workers \subseteq Threads
    /\ Dict \notin Workers /\ Dict \notin {Http, Setter, Tray} \cup Loaders
    /\ Setter \notin Workers /\ Http \notin Workers /\ Tray \notin Workers
    /\ Free \notin Threads /\ Workers \subseteq Nat
    /\ Threads \cap Nat = Workers /\ Loaders \cap Workers = {}
  BY ConstantsAssumption DEF Threads, Callers, Workers

\* The invariant holds at the start: everything is idle and empty.
LEMMA InitIInv == ASSUME Init PROVE IInv
  BY ConstantsAssumption, ThreadsDistinct
     DEF Init, IInv, Shape, Locked, Hands, Teardowns, Matches, StreamStable,
         Fresh, Holding, Inside, Starting, Places

\* Leaving every variable alone leaves the invariant.
LEMMA StutterIInv == ASSUME IInv, UNCHANGED vars PROVE IInv'
  BY DEF IInv, Shape, Locked, Hands, Teardowns, Matches, StreamStable, Fresh,
         vars, control, locks, slot, loads, partial, user

-----------------------------------------------------------------------------
(* Steps that leave the slot and the lock alone *)

\* Threads that move among the places outside the lock disturb nothing else.
LEMMA Quiet ==
    ASSUME IInv, UNCHANGED <<slot, lifecycle, down>>, Shape', Fresh',
           \A t \in Threads : pc'[t] = pc[t] \/ (pc[t] \notin Inside
                                                 /\ pc'[t] \notin Inside),
           \A w \in Workers : pc[w] = "stream" => want'[w] = want[w]
    PROVE  IInv'
  <1>1. Locked' /\ Teardowns'
    BY DEF IInv, Locked, Teardowns, slot
  <1>2. Hands'
    BY DEF IInv, Hands, Holding, Inside, slot
  <1>3. Matches'
    BY DEF IInv, Matches, Inside, Holding, slot
  <1>4. StreamStable'
    BY ThreadsDistinct DEF IInv, StreamStable, Inside, slot
  <1> QED BY <1>1, <1>2, <1>3, <1>4 DEF IInv

\* A thread that is not idle goes from outside the lock to outside the lock.
LEMMA QuietGo ==
    ASSUME IInv, NEW t \in Threads, NEW s, Go(t, s),
           pc[t] \notin Inside \cup {"idle"}, s \notin Inside,
           t = Dict /\ s \in Starting => pc[Dict] \in Starting,
           Shape', recordings' = recordings,
           \A w \in Workers \ {t} : want'[w] = want[w],
           UNCHANGED <<slot, lifecycle, down>>
    PROVE  IInv'
  <1>1. \A u \in Threads : pc'[u] = IF u = t THEN s ELSE pc[u]
    BY DEF Go, IInv, Shape
  <1>2. Fresh'
    BY <1>1, ThreadsDistinct DEF IInv, Fresh
  <1> QED BY <1>1, <1>2, ThreadsDistinct, Quiet DEF Inside

\* A call from outside the recordings begins.
LEMMA QuietCall ==
    ASSUME IInv, NEW t \in {Http, Setter, Tray}, NEW s, NEW m, Calls(t, s, m),
           s \notin Inside, UNCHANGED <<slot, lifecycle>>
    PROVE  IInv'
  <1>1. \A u \in Threads : pc'[u] = IF u = t THEN s ELSE pc[u]
    BY DEF Calls, Go, IInv, Shape
  <1>2. Shape'
    BY DEF Calls, Go, IInv, Shape, slot
  <1>3. Fresh'
    BY <1>1, ThreadsDistinct DEF IInv, Fresh, Calls
  <1>4. t \notin Workers /\ Workers \subseteq Threads
    BY ThreadsDistinct
  <1>5. pc[t] = "idle" /\ \A w \in Workers : want'[w] = want[w]
    BY <1>4 DEF Calls, IInv, Shape
  <1> QED BY <1>1, <1>2, <1>3, <1>5, Quiet DEF Inside, Holding, Calls

\* The steps of a thread outside the lifecycle lock.
LEMMA OutsideStep ==
    ASSUME IInv, NEW t \in Threads,
           \/ LoadModel(t) \/ MaybeUnload(t) \/ TranscribeLocks(t) \/ Ready(t)
           \/ Leave(t) \/ LoaderNext(t) \/ LoaderDrop(t) \/ WorkerWaits(t)
           \/ Poll(t)
    PROVE  IInv'
  <1> USE DEF IInv, Shape, Inside, Holding, Starting, locks, slot, user, Go
  <1>1. CASE LoadModel(t)
    <2>1. PICK s \in {"next", "idle", "take", "leave", "lock"} : Go(t, s)
      BY <1>1 DEF LoadModel, Return
    <2> QED BY <1>1, <2>1, QuietGo DEF LoadModel
  <1>2. CASE MaybeUnload(t)
    <2>1. PICK s \in {"unload", "leave", "idle"} : Go(t, s)
      BY <1>2 DEF MaybeUnload, Leaving
    <2> QED BY <1>2, <2>1, QuietGo DEF MaybeUnload
  <1>3. CASE TranscribeLocks(t)
    <2>1. PICK s \in {"ready", "after"} : Go(t, s)
      BY <1>3 DEF TranscribeLocks
    <2> QED BY <1>3, <2>1, QuietGo DEF TranscribeLocks
  <1>4. CASE Ready(t)
    <2>1. PICK s \in {"leave", "take", "load"} : Go(t, s)
      BY <1>4 DEF Ready
    <2> QED BY <1>4, <2>1, QuietGo DEF Ready
  <1>5. CASE Leave(t)
    BY <1>5, QuietGo DEF Leave
  <1>6. CASE LoaderNext(t)
    <2>1. PICK s \in {"load", "drop"} : Go(t, s)
      BY <1>6 DEF LoaderNext
    <2>2. Shape'
      BY <1>6, <2>1 DEF LoaderNext
    <2>3. \A w \in Workers \ {t} : want'[w] = want[w]
      BY <1>6, ThreadsDistinct DEF LoaderNext
    <2> QED BY <1>6, <2>1, <2>2, <2>3, QuietGo DEF LoaderNext
  <1>7. CASE LoaderDrop(t)
    BY <1>7, QuietGo DEF LoaderDrop
  <1>8. CASE WorkerWaits(t)
    <2>1. PICK s \in {"gone", "pin", "poll"} : Go(t, s)
      BY <1>8 DEF WorkerWaits
    <2> QED BY <1>8, <2>1, QuietGo DEF WorkerWaits
  <1>9. CASE Poll(t)
    <2>1. PICK s \in {"gone", "grab"} : Go(t, s)
      BY <1>9 DEF Poll
    <2> QED BY <1>9, <2>1, QuietGo DEF Poll
  <1> QED BY <1>1, <1>2, <1>3, <1>4, <1>5, <1>6, <1>7, <1>8, <1>9

\* A request to load a model, and the loader it may spawn.
LEMMA InitiateStep == ASSUME IInv, NEW t \in Threads, Initiate(t) PROVE IInv'
  <1> USE DEF IInv, Shape, locks, slot, user
  <1>1. Shape'
    BY DEF Initiate, Go
  <1>2. pc[t] = "initiate" /\ UNCHANGED <<slot, lifecycle, down, recordings>>
    BY DEF Initiate
  <1>3. PICK l \in Loaders \cup {t} :
           /\ l = t \/ pc[l] = "idle"
           /\ want'[l] = want[l] \/ l \in Loaders
           /\ \A u \in Threads : u # l => want'[u] = want[u]
           /\ \A u \in Threads :
                pc'[u] = IF u = l /\ l # t THEN "load"
                         ELSE IF u # t THEN pc[u]
                         ELSE IF t = Dict THEN "preview" ELSE "idle"
    BY ThreadsDistinct DEF Initiate, Go
  <1>4. \A w \in Workers : pc[w] = "idle" => pc'[w] = "idle"
    BY <1>2, <1>3, ThreadsDistinct
  <1>5. pc'[Dict] \in Starting => pc[Dict] \in Starting
    BY <1>2, <1>3, ThreadsDistinct DEF Starting
  <1>6. Fresh'
    BY <1>2, <1>4, <1>5 DEF Fresh
  <1>7. \A w \in Workers : pc[w] = "stream" => want'[w] = want[w]
    BY <1>2, <1>3, ThreadsDistinct
  <1> QED BY <1>1, <1>2, <1>3, <1>6, <1>7, Quiet DEF Inside, Holding

\* The dictation's own steps.
LEMMA DictationStep == ASSUME IInv, Dictation PROVE IInv'
  <1> USE DEF IInv, Shape, Inside, Holding, Starting, locks, slot, user, Go
  <1>0. Dict \in Threads /\ Dict \notin Workers
    BY ThreadsDistinct
  <1>1. CASE StartPartial
    BY <1>0, <1>1, QuietGo DEF StartPartial
  <1>2. CASE NextGeneration
    BY <1>0, <1>2, QuietGo DEF NextGeneration
  <1>3. CASE StoreSession
    <2>1. Shape'
      BY <1>3 DEF StoreSession
    <2>2. \A u \in Threads : pc'[u] = IF u = recordings THEN "wait"
                                      ELSE IF u = Dict THEN "recording"
                                      ELSE pc[u]
      BY <1>3 DEF StoreSession
    <2>3. \A w \in Workers : w # recordings => want'[w] = want[w]
      BY <1>3, ThreadsDistinct DEF StoreSession
    <2>4. recordings \in Threads => pc[recordings] = "idle"
      BY <1>0, <1>3, ThreadsDistinct DEF StoreSession, Fresh
    <2>5. Fresh'
      BY <1>0, <1>3, <2>2, ThreadsDistinct DEF StoreSession, Fresh
    <2>6. \A u \in Threads : pc'[u] = pc[u] \/ (pc[u] \notin Inside
                                                  /\ pc'[u] \notin Inside)
      BY <1>3, <2>2, <2>4, ThreadsDistinct DEF StoreSession
    <2>7. \A w \in Workers : pc[w] = "stream" => want'[w] = want[w]
      BY <2>3, <2>4, ThreadsDistinct
    <2> QED BY <1>3, <2>1, <2>5, <2>6, <2>7, Quiet DEF StoreSession
  <1>4. CASE Discard
    BY <1>0, <1>4, QuietGo DEF Discard
  <1>5. ASSUME NEW m \in Models, Finish(m) PROVE IInv'
    <2>1. PICK s \in {"finalize", "queue"} : Go(Dict, s)
      BY <1>5 DEF Finish
    <2>2. Shape'
      BY <1>5, <2>1 DEF Finish
    <2>3. \A w \in Workers \ {Dict} : want'[w] = want[w]
      BY <1>5, ThreadsDistinct DEF Finish
    <2> QED BY <1>0, <1>5, <2>1, <2>2, <2>3, QuietGo DEF Finish
  <1>6. CASE Finalized
    <2>1. PICK s \in {"after", "queue"} : Go(Dict, s)
      BY <1>6 DEF Finalized
    <2> QED BY <1>0, <1>6, <2>1, QuietGo DEF Finalized
  <1> QED BY <1>1, <1>2, <1>3, <1>4, <1>5, <1>6 DEF Dictation

\* The user's calls.
LEMMA UserStep == ASSUME IInv, User PROVE IInv'
  <1>1. ASSUME NEW m \in Models, StartRecording(m) PROVE IInv'
    <2> USE DEF IInv, Shape, locks, slot
    <2>1. Shape'
      <3>1. pc' = [u \in Threads |-> pc'[u]] /\ want' = [u \in Threads |-> want'[u]]
        BY <1>1 DEF StartRecording, Go
      <3>2. held' = held /\ recordings' \in Nat
        BY <1>1 DEF StartRecording
      <3> QED BY <3>1, <3>2
    <2>2. \A u \in Threads : pc'[u] = IF u = Dict THEN "initiate" ELSE pc[u]
      BY <1>1 DEF StartRecording, Go
    <2>3. Fresh'
      <3>1. recordings' = recordings + 1 /\ recordings \in Nat
        BY <1>1 DEF StartRecording
      <3>2. \A w \in Workers : w >= recordings' => w > recordings /\ w # Dict
        BY <3>1, ThreadsDistinct
      <3> QED BY <2>2, <3>1, <3>2, ThreadsDistinct DEF Fresh
    <2>4. \A w \in Workers : want'[w] = want[w]
      BY <1>1, ThreadsDistinct DEF StartRecording
    <2>5. pc[Dict] = "idle" /\ UNCHANGED <<slot, lifecycle, down>>
      BY <1>1 DEF StartRecording
    <2> QED BY <2>1, <2>2, <2>3, <2>4, <2>5, Quiet DEF Inside, Holding
  <1>2. ASSUME NEW m \in Models, SetModel(m) PROVE IInv'
    BY <1>2, QuietCall DEF SetModel, locks, Inside, Holding
  <1>3. ASSUME NEW m \in Models, Prewarm(m) PROVE IInv'
    BY <1>3, QuietCall DEF Prewarm, locks, Inside, Holding
  <1>4. ASSUME NEW m \in Models, Request(m) PROVE IInv'
    BY <1>4, QuietCall DEF Request, locks, Inside, Holding
  <1>5. CASE UnloadCalled
    BY <1>5, QuietCall DEF UnloadCalled, locks, Inside, Holding
  <1>6. CASE Quit
    BY <1>6 DEF Quit, IInv, Shape, Locked, Hands, Teardowns, Matches,
                StreamStable, Fresh, control, locks
  <1> QED BY <1>1, <1>2, <1>3, <1>4, <1>5, <1>6 DEF User

-----------------------------------------------------------------------------
(* Steps of the holder of the lifecycle lock, or of one about to hold it *)

\* Whoever holds the lock, or finds it free, is the only one inside.
LEMMA Alone ==
    ASSUME IInv, NEW t \in Threads, lifecycle = Free \/ pc[t] \in Inside
    PROVE  /\ \A u \in Threads \ {t} : pc[u] \notin Inside /\ held[u] = NoModel
           /\ lifecycle = Free => pc[t] \notin Inside /\ held[t] = NoModel
  BY ThreadsDistinct DEF IInv, Locked, Hands, Inside

\* What is true of slot, hands and model id while t is at s.
Fits(t, s) ==
    /\ s \in Inside => lifecycle = t
    /\ held[t] # NoModel => s \in Holding
    /\ s \in Holding => engine = NoModel /\ teardowns = 0
    /\ Teardowns
    /\ ~down => /\ lifecycle = Free => engine = current
                /\ s \in {"swap", "stream"} => engine = current
                /\ s = "create" => current = NoModel
                /\ s \in {"infer", "guess"} => current = held[t]

LEMMA GoOnce ==
    ASSUME IInv, NEW t \in Threads
    PROVE  \A r, s : Go(t, r) /\ Go(t, s) => r = s
  BY DEF IInv, Shape, Go

LEMMA FitsNow == ASSUME IInv, NEW t \in Threads PROVE Fits(t, pc[t]) /\ t # Free
  BY ThreadsDistinct DEF IInv, Fits, Locked, Hands, Matches, Inside, Holding

LEMMA Moves ==
    ASSUME IInv, NEW t \in Threads, NEW s, Go(t, s), Fits(t, s)',
           s = "stream" /\ ~down => engine' = want[t] /\ current' = want[t],
           pc[t] # "idle", t = Dict => s \notin Starting,
           lifecycle = Free \/ pc[t] \in Inside,
           held' = [u \in Threads |-> held'[u]],
           \A u \in Threads \ {t} : held'[u] = held[u],
           UNCHANGED <<want, recordings, down>>
    PROVE  IInv'
  <1>1. Shape' /\ \A u \in Threads : pc'[u] = IF u = t THEN s ELSE pc[u]
    BY DEF Go, IInv, Shape
  <1>2. Fresh'
    BY <1>1, ThreadsDistinct DEF IInv, Fresh
  <1>3. \A u \in Threads \ {t} : pc'[u] \notin Inside /\ held'[u] = NoModel
    BY <1>1, Alone
  <1>4. Locked' /\ Hands' /\ Teardowns'
    BY <1>1, <1>3 DEF Locked, Hands, Fits, Inside
  <1>5. Matches'
    BY <1>1, <1>3 DEF Matches, Fits, Inside, Holding
  <1>6. StreamStable'
    BY <1>1, <1>3, ThreadsDistinct DEF StreamStable, Fits, Inside
  <1> QED BY <1>1, <1>2, <1>4, <1>5, <1>6 DEF IInv

\* Loads and unloads.
LEMMA LoadStep ==
    ASSUME IInv, NEW t \in Threads,
           LoadLocks(t) \/ Swap(t) \/ Create(t) \/ Unload(t)
    PROVE  IInv'
  <1> USE DEF Inside, Holding, Starting, locks, slot, user, Fits, Teardowns
  <1>0. Fits(t, pc[t]) /\ t # Free /\ held = [u \in Threads |-> held[u]]
    BY FitsNow DEF IInv, Shape
  <1>01. \A r, s : Go(t, r) /\ Go(t, s) => r = s
    BY GoOnce
  <1>1. CASE LoadLocks(t)
    <2>1. Fits(t, "swap")'
      BY <1>0, <1>1 DEF LoadLocks
    <2> QED BY <1>0, <1>1, <2>1, Moves DEF LoadLocks
  <1>2. CASE Swap(t)
    <2>1. PICK s \in {"next", "idle", "take", "leave", "create"} : Go(t, s)
      BY <1>2 DEF Swap, Return
    <2>2. Fits(t, s)'
      BY <1>2, <2>1, <1>0, <1>01 DEF Swap, Return, Loaded
    <2> QED BY <1>0, <1>2, <2>1, <2>2, Moves DEF Swap
  <1>3. CASE Create(t)
    <2>1. PICK s \in {"next", "idle", "take", "leave"} : Go(t, s)
      BY <1>3 DEF Create, Return
    <2>2. Fits(t, s)'
      BY <1>3, <2>1, <1>0, <1>01 DEF Create
    <2> QED BY <1>0, <1>3, <2>1, <2>2, Moves DEF Create
  <1>4. CASE Unload(t)
    <2>1. PICK s \in {"leave", "idle"} : Go(t, s)
      BY <1>4 DEF Unload, Leaving
    <2>2. Fits(t, s)'
      BY <1>4, <2>1, <1>0, <1>01 DEF Unload
    <2> QED BY <1>0, <1>4, <2>1, <2>2, Moves DEF Unload
  <1> QED BY <1>1, <1>2, <1>3, <1>4

\* Transcriptions and previews.
LEMMA UseStep ==
    ASSUME IInv, NEW t \in Threads,
           \/ Take(t) \/ Infer(t) \/ Pin(t) \/ StreamFails(t) \/ StreamEnds(t)
           \/ Grab(t) \/ Guess(t)
    PROVE  IInv'
  <1> USE DEF Inside, Holding, Starting, locks, slot, user, Fits, Teardowns
  <1>0. Fits(t, pc[t]) /\ t # Free /\ held = [u \in Threads |-> held[u]]
    BY FitsNow DEF IInv, Shape
  <1>01. \A r, s : Go(t, r) /\ Go(t, s) => r = s
    BY GoOnce
  <1>1. CASE Take(t)
    <2>1. PICK s \in {"leave", "infer"} : Go(t, s)
      BY <1>1 DEF Take
    <2>2. Fits(t, s)'
      BY <1>1, <2>1, <1>0, <1>01 DEF Take
    <2> QED BY <1>0, <1>1, <2>1, <2>2, Moves DEF Take
  <1>2. CASE Infer(t)
    <2>1. PICK s \in {"after", "leave"} : Go(t, s)
      BY <1>2 DEF Infer
    <2>2. Fits(t, s)'
      BY <1>2, <2>1, <1>0, <1>01 DEF Infer
    <2> QED BY <1>0, <1>2, <2>1, <2>2, Moves DEF Infer
  <1>3. CASE Pin(t)
    <2>1. PICK s \in {"stream", "gone"} : Go(t, s)
      BY <1>3 DEF Pin
    <2>2. Fits(t, s)'
      BY <1>3, <2>1, <1>0, <1>01 DEF Pin, Loaded
    <2> QED BY <1>0, <1>01, <1>3, <2>1, <2>2, Moves DEF Pin, Loaded
  <1>4. CASE StreamFails(t) \/ StreamEnds(t)
    <2>1. PICK s \in {"gone", "answered"} : Go(t, s)
      BY <1>4 DEF StreamFails, StreamEnds
    <2>2. Fits(t, s)'
      BY <1>4, <2>1, <1>0, <1>01 DEF StreamFails, StreamEnds
    <2> QED BY <1>0, <1>4, <2>1, <2>2, Moves DEF StreamFails, StreamEnds
  <1>5. CASE Grab(t)
    <2>1. PICK s \in {"gone", "guess"} : Go(t, s)
      BY <1>5 DEF Grab
    <2>2. Fits(t, s)'
      BY <1>5, <2>1, <1>0, <1>01 DEF Grab
    <2> QED BY <1>0, <1>5, <2>1, <2>2, Moves DEF Grab
  <1>6. CASE Guess(t)
    <2>1. PICK s \in {"poll", "gone"} : Go(t, s)
      BY <1>6 DEF Guess
    <2>2. Fits(t, s)'
      BY <1>6, <2>1, <1>0, <1>01 DEF Guess
    <2> QED BY <1>0, <1>6, <2>1, <2>2, Moves DEF Guess
  <1> QED BY <1>1, <1>2, <1>3, <1>4, <1>5, <1>6

\* A teardown ends.
LEMMA TeardownStep == ASSUME IInv, Teardown PROVE IInv'
  <1>1. teardowns # 0
    BY DEF Teardown
  <1>2. engine = NoModel /\ \A t \in Threads : pc[t] \notin Holding
    BY <1>1 DEF IInv, Teardowns, Hands
  <1>3. UNCHANGED <<pc, want, lifecycle, engine, current, held, recordings, down>>
    BY DEF Teardown, control, locks, user
  <1>4. Shape' /\ Locked' /\ Matches' /\ StreamStable' /\ Fresh'
    BY <1>3 DEF IInv, Shape, Locked, Matches, StreamStable, Fresh
  <1>5. Hands' /\ Teardowns'
    BY <1>2, <1>3 DEF IInv, Hands, Teardowns
  <1> QED BY <1>4, <1>5 DEF IInv

-----------------------------------------------------------------------------

\* Every step preserves the invariant.
LEMMA NextIInv == ASSUME IInv, [Next]_vars PROVE IInv'
  <1>1. CASE UNCHANGED vars
    BY <1>1, StutterIInv
  <1>2. ASSUME NEW t \in Threads, Step(t) PROVE IInv'
    BY <1>2, OutsideStep, InitiateStep, LoadStep, UseStep DEF Step
  <1>3. ASSUME NEW w \in Workers, StreamFails(w) PROVE IInv'
    BY <1>3, UseStep, ThreadsDistinct
  <1> QED BY <1>1, <1>2, <1>3, DictationStep, TeardownStep, UserStep DEF Next

LEMMA InductiveInvariant == Spec => []IInv
  <1>1. Init => IInv
    BY InitIInv
  <1>2. IInv /\ [Next]_vars => IInv'
    BY NextIInv
  <1> QED BY <1>1, <1>2, PTL DEF Spec

\* load_model's "two models are never resident at once": slot, hands,
\* construction and teardown together hold at most one engine.
THEOREM OneResidentAlways == Spec => []OneResident
  <1>1. IInv => OneResident
    <2> SUFFICES ASSUME IInv PROVE OneResident
      OBVIOUS
    <2>1. ASSUME NEW t \in Threads, held[t] # NoModel
          PROVE  engine = NoModel /\ teardowns = 0 /\ pc[t] \in Inside
      BY <2>1 DEF IInv, Hands, Inside
    <2>2. \A t \in Threads : held[t] # NoModel =>
             \A u \in Threads \ {t} : held[u] = NoModel
      BY <2>1, Alone
    <2> QED BY <2>1, <2>2 DEF IInv, Teardowns, OneResident
  <1> QED BY <1>1, InductiveInvariant, PTL

\* Between two critical sections of the lifecycle lock the slot and
\* current_model_id tell the same story, after any failure or panic.
THEOREM SlotMatchesAlways == Spec => []SlotMatchesCurrent
  <1>1. IInv => SlotMatchesCurrent
    BY DEF IInv, Matches, SlotMatchesCurrent
  <1> QED BY <1>1, InductiveInvariant, PTL

\* A realtime session keeps its engine and its model while it streams.
THEOREM StreamStableAlways == Spec => []StreamStable
  <1>1. IInv => StreamStable
    BY DEF IInv
  <1> QED BY <1>1, InductiveInvariant, PTL

-----------------------------------------------------------------------------
(* Types *)

\* A recording that is under way has a number.
Begun == pc[Dict] # "idle" => recordings # 0

Kept == TypeOK /\ Begun

\* A thread that moves, and one whose call begins.
LEMMA GoTyped ==
    ASSUME Kept, NEW t \in Threads, NEW s \in Places, Go(t, s),
           t = Dict => pc[t] # "idle", UNCHANGED recordings
    PROVE  pc' \in [Threads -> Places] /\ Begun'
  <1>1. pc' = [pc EXCEPT ![t] = s] /\ pc \in [Threads -> Places] /\ Dict \in Threads
    BY ThreadsDistinct DEF Go, Kept, TypeOK
  <1> QED  BY <1>1 DEF Kept, Begun

LEMMA ReturnTyped ==
    ASSUME Kept, NEW t \in Threads, NEW ok \in BOOLEAN, Return(t, ok),
           t = Dict => pc[t] # "idle", UNCHANGED recordings
    PROVE  pc' \in [Threads -> Places] /\ Begun'
  <1>1. PICK s \in {"next", "idle", "take", "leave"} : Go(t, s)
    BY DEF Return
  <1> QED  BY <1>1, GoTyped DEF Places

LEMMA CallTyped ==
    ASSUME Kept, NEW t \in {Http, Setter, Tray}, NEW s \in Places,
           NEW m \in Models \cup {NoModel}, Calls(t, s, m)
    PROVE  /\ pc' \in [Threads -> Places] /\ Begun'
           /\ want' \in [Threads -> Models \cup {NoModel}]
           /\ calls' \in 0..MaxCalls /\ recordings' \in 0..MaxRecordings
           /\ down' \in BOOLEAN
  <1>1. t \in Threads /\ t # Dict
    BY ThreadsDistinct
  <1>2. pc' \in [Threads -> Places] /\ Begun'
    BY <1>1, GoTyped DEF Calls
  <1>3. want' \in [Threads -> Models \cup {NoModel}]
    BY <1>1 DEF Calls, Kept, TypeOK
  <1>4. calls' \in 0..MaxCalls
    BY ConstantsAssumption DEF Calls, Kept, TypeOK
  <1> QED  BY <1>2, <1>3, <1>4 DEF Calls, Kept, TypeOK

\* A session that is cancelled is a worker's.
LEMMA MarkTyped ==
    ASSUME Kept
    PROVE  /\ cancelled \cup ({session} \ {0}) \subseteq Workers
           /\ 0 \in 0..MaxRecordings
  <1>1. cancelled \subseteq Workers /\ session \in 0..MaxRecordings
    BY DEF Kept, TypeOK
  <1>2. session = 0 \/ session \in 1..MaxRecordings
    BY <1>1, ConstantsAssumption
  <1>3. 0 \in 0..MaxRecordings
    BY ConstantsAssumption
  <1> QED  BY <1>1, <1>2, <1>3 DEF Workers

LEMMA StopTyped ==
    ASSUME Kept, StopPartial
    PROVE  /\ session' \in 0..MaxRecordings /\ generation' \in 0..MaxRecordings
           /\ cancelled' \subseteq Workers
  BY MarkTyped DEF StopPartial

\* What load_model does.
LEMMA LoadTyped ==
    ASSUME Kept, NEW t \in Threads,
           LoadModel(t) \/ LoadLocks(t) \/ Swap(t) \/ Create(t)
    PROVE  Kept'
  <1> USE DEF slot, loads, user, locks, partial
  <1>1. CASE LoadModel(t)
    <2>1. pc' \in [Threads -> Places] /\ Begun'
      BY <1>1, ReturnTyped, GoTyped DEF LoadModel, Places
    <2>2. UNCHANGED partial \/ StopPartial
      BY <1>1 DEF LoadModel
    <2> QED  BY <1>1, <2>1, <2>2, StopTyped DEF LoadModel, Kept, TypeOK
  <1>2. CASE LoadLocks(t)
    <2>1. pc' \in [Threads -> Places] /\ Begun'
      BY <1>2, GoTyped DEF LoadLocks, Places
    <2> QED  BY <1>2, <2>1 DEF LoadLocks, Kept, TypeOK
  <1>3. CASE Swap(t)
    <2>1. pc' \in [Threads -> Places] /\ Begun'
      BY <1>3, ReturnTyped, GoTyped DEF Swap, Places
    <2>2. held' \in [Threads -> Models \cup {NoModel}]
      BY <1>3 DEF Swap, Kept, TypeOK
    <2> QED  BY <1>3, <2>1, <2>2 DEF Swap, Kept, TypeOK
  <1>4. CASE Create(t)
    <2>1. pc' \in [Threads -> Places] /\ Begun'
      BY <1>4, ReturnTyped DEF Create
    <2>2. held' \in [Threads -> Models \cup {NoModel}]
      BY <1>4 DEF Create, Kept, TypeOK
    <2>3. engine' \in Models \cup {NoModel} /\ current' \in Models \cup {NoModel}
      BY <1>4 DEF Create, Kept, TypeOK
    <2> QED  BY <1>4, <2>1, <2>2, <2>3 DEF Create, Kept, TypeOK
  <1> QED  BY <1>1, <1>2, <1>3, <1>4

\* Requests for loads, and the loaders that serve them.
LEMMA InitiateTyped ==
    ASSUME Kept, NEW t \in Threads, Initiate(t) \/ LoaderNext(t) \/ LoaderDrop(t)
    PROVE  Kept'
  <1> USE DEF slot, loads, user, locks, partial
  <1>1. CASE Initiate(t)
    <2> DEFINE rest == IF t = Dict THEN "preview" ELSE "idle"
    <2>0. rest \in Places /\ pc[t] = "initiate"
      BY <1>1 DEF Places, Initiate
    <2>1. CASE Go(t, rest) /\ UNCHANGED want
      <3>1. pc' \in [Threads -> Places] /\ Begun'
        BY <1>1, <2>0, <2>1, GoTyped DEF Initiate
      <3>2. isLoading' \in BOOLEAN /\ pendingModel' \in Models \cup {NoModel}
        BY <1>1 DEF Initiate, Kept, TypeOK
      <3> QED  BY <1>1, <2>1, <3>1, <3>2 DEF Initiate, Kept, TypeOK
    <2>2. ASSUME NEW l \in Loaders, isLoading' = TRUE, UNCHANGED pendingModel,
                 pc' = [pc EXCEPT ![t] = rest, ![l] = "load"],
                 want' = [want EXCEPT ![l] = want[t]]
          PROVE  Kept'
      <3>1. l \in Threads /\ l # Dict
        BY ConstantsAssumption DEF Threads, Callers
      <3>2. pc' \in [Threads -> Places]
        BY <2>0, <2>2, <3>1 DEF Kept, TypeOK, Places
      <3>3. Begun'
        <4>1. pc'[Dict] = IF t = Dict THEN rest ELSE pc[Dict]
          BY <2>2, <3>1, ThreadsDistinct DEF Kept, TypeOK
        <4>2. recordings' = recordings
          BY <1>1 DEF Initiate
        <4> QED  BY <2>0, <4>1, <4>2 DEF Kept, Begun
      <3>4. want' \in [Threads -> Models \cup {NoModel}]
        BY <2>2, <3>1 DEF Kept, TypeOK
      <3> QED  BY <1>1, <2>2, <3>2, <3>3, <3>4 DEF Initiate, Kept, TypeOK
    <2> QED  BY <1>1, <2>1, <2>2 DEF Initiate
  <1>2. CASE LoaderNext(t)
    <2>1. pc' \in [Threads -> Places] /\ Begun'
      BY <1>2, GoTyped DEF LoaderNext, Places
    <2>2. want' \in [Threads -> Models \cup {NoModel}] /\ isLoading' \in BOOLEAN
      BY <1>2 DEF LoaderNext, Kept, TypeOK
    <2> QED  BY <1>2, <2>1, <2>2 DEF LoaderNext, Kept, TypeOK
  <1>3. CASE LoaderDrop(t)
    <2>1. pc' \in [Threads -> Places] /\ Begun'
      BY <1>3, GoTyped DEF LoaderDrop, Places
    <2> QED  BY <1>3, <2>1 DEF LoaderDrop, Kept, TypeOK
  <1> QED  BY <1>1, <1>2, <1>3

\* Unloads; a teardown that is pending leaves no engine to tear down.
LEMMA UnloadTyped ==
    ASSUME IInv, Kept, NEW t \in Threads, Unload(t) \/ MaybeUnload(t)
    PROVE  Kept'
  <1> USE DEF slot, loads, user, locks, partial
  <1>0. Leaving(t) \in Places
    BY DEF Leaving, Places
  <1>1. CASE Unload(t)
    <2>1. pc' \in [Threads -> Places] /\ Begun'
      BY <1>0, <1>1, GoTyped DEF Unload
    <2>2. teardowns' \in 0..1
      BY <1>1 DEF Unload, IInv, Teardowns, Kept, TypeOK
    <2> QED  BY <1>1, <2>1, <2>2 DEF Unload, Kept, TypeOK
  <1>2. CASE MaybeUnload(t)
    <2>1. pc' \in [Threads -> Places] /\ Begun'
      BY <1>0, <1>2, GoTyped DEF MaybeUnload, Places
    <2>2. UNCHANGED partial \/ StopPartial
      BY <1>2 DEF MaybeUnload
    <2> QED  BY <1>2, <2>1, <2>2, StopTyped DEF MaybeUnload, Kept, TypeOK
  <1> QED  BY <1>1, <1>2

\* A transcription.
LEMMA TranscribeTyped ==
    ASSUME Kept, NEW t \in Threads,
           TranscribeLocks(t) \/ Ready(t) \/ Take(t) \/ Infer(t) \/ Leave(t)
    PROVE  Kept'
  <1> USE DEF slot, loads, user, locks, partial
  <1>1. CASE TranscribeLocks(t)
    <2>1. pc' \in [Threads -> Places] /\ Begun'
      BY <1>1, GoTyped DEF TranscribeLocks, Places
    <2> QED  BY <1>1, <2>1 DEF TranscribeLocks, Kept, TypeOK
  <1>2. CASE Ready(t)
    <2>1. pc' \in [Threads -> Places] /\ Begun'
      BY <1>2, GoTyped DEF Ready, Places
    <2> QED  BY <1>2, <2>1 DEF Ready, Kept, TypeOK
  <1>3. CASE Take(t)
    <2>1. pc' \in [Threads -> Places] /\ Begun'
      BY <1>3, GoTyped DEF Take, Places
    <2>2. held' \in [Threads -> Models \cup {NoModel}]
      BY <1>3 DEF Take, Kept, TypeOK
    <2> QED  BY <1>3, <2>1, <2>2 DEF Take, Kept, TypeOK
  <1>4. CASE Infer(t)
    <2>1. pc' \in [Threads -> Places] /\ Begun'
      BY <1>4, GoTyped DEF Infer, Places
    <2>2. held' \in [Threads -> Models \cup {NoModel}]
      BY <1>4 DEF Infer, Kept, TypeOK
    <2> QED  BY <1>4, <2>1, <2>2 DEF Infer, Kept, TypeOK
  <1>5. CASE Leave(t)
    <2>1. pc' \in [Threads -> Places] /\ Begun'
      BY <1>5, GoTyped DEF Leave, Places
    <2> QED  BY <1>5, <2>1 DEF Leave, Kept, TypeOK
  <1> QED  BY <1>1, <1>2, <1>3, <1>4, <1>5

\* The preview worker of a recording.
LEMMA WorkerTyped ==
    ASSUME Kept, NEW t \in Threads,
           \/ WorkerWaits(t) \/ Pin(t) \/ StreamFails(t) \/ StreamEnds(t)
           \/ Poll(t) \/ Grab(t) \/ Guess(t)
    PROVE  Kept'
  <1> USE DEF slot, loads, user, locks, partial
  <1>1. CASE WorkerWaits(t)
    <2>1. pc' \in [Threads -> Places] /\ Begun'
      BY <1>1, GoTyped DEF WorkerWaits, Places
    <2> QED  BY <1>1, <2>1 DEF WorkerWaits, Kept, TypeOK
  <1>2. CASE Pin(t)
    <2>1. pc' \in [Threads -> Places] /\ Begun'
      BY <1>2, GoTyped DEF Pin, Places
    <2> QED  BY <1>2, <2>1 DEF Pin, Kept, TypeOK
  <1>3. CASE StreamFails(t) \/ StreamEnds(t)
    <2>1. pc' \in [Threads -> Places] /\ Begun'
      BY <1>3, GoTyped DEF StreamFails, StreamEnds, Places
    <2> QED  BY <1>3, <2>1 DEF StreamFails, StreamEnds, Kept, TypeOK
  <1>4. CASE Poll(t)
    <2>1. pc' \in [Threads -> Places] /\ Begun'
      BY <1>4, GoTyped DEF Poll, Places
    <2> QED  BY <1>4, <2>1 DEF Poll, Kept, TypeOK
  <1>5. CASE Grab(t)
    <2>1. pc' \in [Threads -> Places] /\ Begun'
      BY <1>5, GoTyped DEF Grab, Places
    <2>2. held' \in [Threads -> Models \cup {NoModel}]
      BY <1>5 DEF Grab, Kept, TypeOK
    <2> QED  BY <1>5, <2>1, <2>2 DEF Grab, Kept, TypeOK
  <1>6. CASE Guess(t)
    <2>1. pc' \in [Threads -> Places] /\ Begun'
      BY <1>6, GoTyped DEF Guess, Places
    <2>2. held' \in [Threads -> Models \cup {NoModel}]
      BY <1>6 DEF Guess, Kept, TypeOK
    <2> QED  BY <1>6, <2>1, <2>2 DEF Guess, Kept, TypeOK
  <1> QED  BY <1>1, <1>2, <1>3, <1>4, <1>5, <1>6

\* The dictation and its provider of previews.
LEMMA DictationTyped == ASSUME Kept, Dictation PROVE Kept'
  <1> USE DEF slot, loads, user, locks, partial
  <1>0. Dict \in Threads /\ recordings \in 0..MaxRecordings /\ Workers \subseteq Threads
    BY ThreadsDistinct DEF Kept, TypeOK
  <1>1. CASE StartPartial \/ Discard
    <2>1. pc' \in [Threads -> Places] /\ Begun'
      BY <1>0, <1>1, GoTyped DEF StartPartial, Discard, Places
    <2> QED  BY <1>1, <2>1, StopTyped DEF StartPartial, Discard, Kept, TypeOK
  <1>2. CASE NextGeneration
    <2>1. pc' \in [Threads -> Places] /\ Begun'
      BY <1>0, <1>2, GoTyped DEF NextGeneration, Places
    <2>2. 0 \in 0..MaxRecordings /\ cancelled' \subseteq Workers
      BY <1>2, MarkTyped DEF NextGeneration
    <2> QED  BY <1>2, <2>1, <2>2 DEF NextGeneration, Kept, TypeOK
  <1>3. CASE StoreSession
    <2>1. recordings \in Workers /\ recordings \in Threads
      BY <1>0, <1>3, ConstantsAssumption DEF StoreSession, Kept, Begun, Workers, TypeOK
    <2>2. pc' \in [Threads -> Places] /\ want' \in [Threads -> Models \cup {NoModel}]
      BY <1>0, <1>3, <2>1 DEF StoreSession, Kept, TypeOK, Places
    <2>3. Begun'
      BY <1>3, <2>1 DEF StoreSession, Begun, Kept, Workers
    <2> QED  BY <1>0, <1>3, <2>2, <2>3 DEF StoreSession, Kept, TypeOK
  <1>4. ASSUME NEW m \in Models, Finish(m) PROVE Kept'
    <2>1. pc' \in [Threads -> Places] /\ Begun'
      BY <1>0, <1>4, GoTyped DEF Finish, Places
    <2>2. want' \in [Threads -> Models \cup {NoModel}]
      BY <1>0, <1>4 DEF Finish, Kept, TypeOK
    <2>3. session' \in 0..MaxRecordings /\ cancelled' \subseteq Workers
      <3>1. cancelled \subseteq Workers
        BY DEF Kept, TypeOK
      <3> QED  BY <1>4, <3>1, MarkTyped DEF Finish
    <2> QED  BY <1>4, <2>1, <2>2, <2>3 DEF Finish, Kept, TypeOK
  <1>5. CASE Finalized
    <2>1. pc' \in [Threads -> Places] /\ Begun'
      BY <1>0, <1>5, GoTyped DEF Finalized, Places
    <2>2. cancelled' \subseteq Workers
      <3>1. recordings # 0 /\ cancelled \subseteq Workers
        BY <1>5 DEF Finalized, Kept, Begun, TypeOK
      <3>2. recordings \in Workers
        BY <1>0, <3>1, ConstantsAssumption DEF Workers
      <3> QED  BY <1>5, <3>1, <3>2 DEF Finalized
    <2> QED  BY <1>5, <2>1, <2>2 DEF Finalized, Kept, TypeOK
  <1> QED  BY <1>1, <1>2, <1>3, <1>4, <1>5 DEF Dictation

\* What the user begins, and the teardown thread.
LEMMA UserTyped == ASSUME Kept, User \/ Teardown PROVE Kept'
  <1> USE DEF slot, loads, user, locks, partial, control
  <1>1. ASSUME NEW m \in Models, StartRecording(m) PROVE Kept'
    <2>1. Dict \in Threads
      BY ThreadsDistinct
    <2>2. recordings' \in 0..MaxRecordings /\ recordings' # 0
      BY <1>1, ConstantsAssumption DEF StartRecording, Kept, TypeOK
    <2>3. /\ pc' \in [Threads -> Places]
          /\ want' \in [Threads -> Models \cup {NoModel}]
      BY <1>1, <2>1 DEF StartRecording, Go, Kept, TypeOK, Places
    <2> QED  BY <1>1, <2>2, <2>3 DEF StartRecording, Kept, TypeOK, Begun
  <1>2. ASSUME NEW m \in Models, SetModel(m) \/ Prewarm(m) \/ Request(m) PROVE Kept'
    <2>1. PICK t \in {Http, Setter, Tray}, s \in Places : Calls(t, s, m)
      BY <1>2 DEF SetModel, Prewarm, Request, Places
    <2>2. finalPending' \in BOOLEAN /\ UNCHANGED <<locks, slot, loads, partial>>
      BY <1>2 DEF SetModel, Prewarm, Request, Kept, TypeOK
    <2> QED  BY <2>1, <2>2, CallTyped DEF Kept, TypeOK
  <1>3. CASE UnloadCalled
    <2>1. "unload" \in Places
      BY DEF Places
    <2> QED  BY <1>3, <2>1, CallTyped, StopTyped DEF UnloadCalled, Kept, TypeOK
  <1>4. CASE Quit
    BY <1>4, StopTyped DEF Quit, Kept, TypeOK, Begun
  <1>5. CASE Teardown
    BY <1>5 DEF Teardown, Kept, TypeOK, Begun
  <1> QED  BY <1>1, <1>2, <1>3, <1>4, <1>5 DEF User

LEMMA NextTyped == ASSUME IInv, Kept, [Next]_vars PROVE Kept'
  <1>1. CASE UNCHANGED vars
    BY <1>1 DEF Kept, TypeOK, Begun, vars, control, locks, slot, loads, partial, user
  <1>2. ASSUME NEW t \in Threads, Step(t) PROVE Kept'
    BY <1>2, LoadTyped, InitiateTyped, UnloadTyped, TranscribeTyped, WorkerTyped
    DEF Step
  <1>3. ASSUME NEW w \in Workers, StreamFails(w) PROVE Kept'
    BY <1>3, WorkerTyped, ThreadsDistinct
  <1> QED  BY <1>1, <1>2, <1>3, DictationTyped, UserTyped DEF Next

LEMMA InitTyped == ASSUME Init PROVE Kept
  <1>1. 0 \in 0..MaxRecordings /\ 0 \in 0..MaxCalls /\ 0 \in 0..1
    BY ConstantsAssumption
  <1>2. Dict \in Threads
    BY ThreadsDistinct
  <1> QED  BY <1>1, <1>2 DEF Init, Kept, TypeOK, Begun, Places

\* Every variable keeps its type; in particular at most one teardown is
\* pending, and only workers of recordings that began are cancelled.
THEOREM TypeCorrect == Spec => []TypeOK
  <1>1. Init => Kept
    BY InitTyped
  <1>2. IInv /\ Kept /\ [Next]_vars => Kept'
    BY NextTyped
  <1>3. Kept => TypeOK
    BY DEF Kept
  <1> QED  BY <1>1, <1>2, <1>3, InductiveInvariant, PTL DEF Spec

-----------------------------------------------------------------------------
(* Locks in their order *)

\* Places of no call, and those where a lock is queued for.
Resting      == {"idle", "gone", "answered"}
OnLifecycle  == {"lock", "unload", "take", "pin", "grab"}
OnTranscribe == {"queue", "poll"}

\* The next step of t waits for nobody.
Able(t) ==
    \/ pc[t] \in {"load", "create", "ready", "infer", "after", "leave", "next",
                  "drop", "wait", "guess"}
    \/ pc[t] = "swap" /\ teardowns = 0
    \/ pc[t] \in OnLifecycle /\ lifecycle = Free
    \/ pc[t] = "queue" /\ transcribing = Free
    \/ pc[t] = "poll" /\ (MustStop(t) \/ transcribing = Free)
    \/ pc[t] = "stream" /\ (t \in cancelled \/ down
                             \/ (t = recordings /\ pc[Dict] = "finalize"))
    \/ pc[t] = "initiate" /\ \/ isLoading \/ Loaded(want[t])
                             \/ \E l \in Loaders : pc[l] = "idle"

\* Neither do the dictation's own.
Dictating    == {"preview", "store", "recording", "finalize"}
Dictates(t)  == t = Dict /\ pc[t] \in Dictating

\* What a holder of the lifecycle lock may wait for: the end of a teardown, and
\* for a realtime session the end of the recording it transcribes.
TearsDown(t) == pc[t] = "swap" /\ teardowns > 0
Listens(t)   == pc[t] = "stream" /\ t = session /\ pc[Dict] = "recording"

\* Who holds the lifecycle lock waits for no lock, who holds the transcribe lock
\* for no other than that one, and every thread under way can go on, is at a
\* recording, or waits for a lock that is held, a teardown, a recording or, to
\* spawn one more, for a loader, all of them under way.
WaitsOrdered ==
    /\ lifecycle # Free => Able(lifecycle) \/ TearsDown(lifecycle) \/ Listens(lifecycle)
    /\ transcribing # Free =>
          \/ Able(transcribing) \/ TearsDown(transcribing)
          \/ pc[transcribing] \in OnLifecycle /\ lifecycle # Free
    /\ \A t \in Threads : pc[t] \notin Resting =>
          \/ Able(t) \/ Dictates(t)
          \/ pc[t] \in OnLifecycle /\ lifecycle # Free
          \/ pc[t] \in OnTranscribe /\ transcribing # Free
          \/ lifecycle = t /\ (TearsDown(t) \/ Listens(t))
          \/ pc[t] = "initiate" /\ \A l \in Loaders : pc[l] \notin Resting

\* Which thread comes to which place.
Serves   == {"queue", "ready", "load", "lock", "swap", "create", "take", "infer",
             "after", "unload", "leave"}
Loads    == {"initiate", "load", "lock", "swap", "create", "unload", "next", "drop"}
Previews == {"wait", "pin", "stream", "poll", "grab", "guess"}

Suits(t, s) ==
    /\ t \in {Setter, Tray} \cup Loaders => s \in Loads \cup {"idle"}
    /\ t = Http => s \in Serves \cup {"idle"}
    /\ t = Dict => s \in Serves \cup Dictating \cup {"idle", "initiate"}
    /\ t \in Workers => s \in Previews \cup Resting

\* A lock is held inside it and nowhere else.
Serving(t, s) ==
    /\ t \in Transcribers \cup Workers
    /\ t \in Transcribers => s \in Serves \ {"queue"}
    /\ t \in Workers => s \in {"grab", "guess"}

Placed(t, s) ==
    Suits(t, s) /\ (lifecycle = t => s \in Inside) /\ (transcribing = t => Serving(t, s))

\* A worker under way that was not told to stop serves the recording.
Attached ==
    /\ session # 0 => session = recordings /\ pc[Dict] = "recording"
    /\ ~down => \A w \in Workers : pc[w] \notin Resting /\ w \notin cancelled =>
                    w = recordings /\ (session = w \/ pc[Dict] = "finalize")

WInv == (\A t \in Threads : Placed(t, pc[t])) /\ Attached

Context == IInv /\ Kept /\ WInv

LEMMA Apart ==
    /\ Http # Dict /\ Http \notin {Setter, Tray} \cup Loaders \cup Workers
    /\ {Setter, Tray} \cap Workers = {} /\ Dict \in Threads /\ Http \in Threads
    /\ 0 \notin Workers /\ \A l \in Loaders : l \in Threads /\ l # Dict
  BY ConstantsAssumption, ThreadsDistinct DEF Workers

\* A thread goes where it may be, and the locks of the others stay theirs.
LEMMA PlacedGo ==
    ASSUME Context, NEW t \in Threads, NEW s, Go(t, s), Placed(t, s)',
           lifecycle' \in {lifecycle, t, Free}, transcribing' \in {transcribing, t, Free}
    PROVE  \A u \in Threads : Placed(u, pc[u])'
  <1>1. /\ pc'[t] = s /\ \A u \in Threads \ {t} : pc'[u] = pc[u]
        /\ \A u \in Threads : u # Free
    BY ThreadsDistinct DEF Go, Context, Kept, TypeOK
  <1>2. \A u \in Threads \ {t} : (lifecycle' = u => lifecycle = u)
                                 /\ (transcribing' = u => transcribing = u)
    BY <1>1
  <1>3. \A u \in Threads \ {t} : Placed(u, pc[u])'
    BY <1>1, <1>2 DEF Context, WInv, Placed, Suits, Serving
  <1> QED  BY <1>1, <1>3

\* A thread other than the dictation, or one that is not at a recording, moves;
\* the session stays, or is told to stop.
LEMMA AttachedGo ==
    ASSUME Context, NEW t \in Threads, NEW s, Go(t, s), pc[t] \notin Resting,
           t = Dict => pc[t] \notin Dictating,
           UNCHANGED <<session, cancelled>> \/ StopPartial, UNCHANGED <<recordings, down>>
    PROVE  Attached'
  <1>1. /\ \A u \in Threads \ {t} : pc'[u] = pc[u]
        /\ Dict \in Threads /\ Workers \subseteq Threads /\ 0 \notin Workers
    BY ThreadsDistinct, Apart DEF Go, Context, Kept, TypeOK
  <1>2. \A w \in Workers : pc'[w] \notin Resting => pc[w] \notin Resting
    BY <1>1
  <1>3. pc[Dict] \in {"recording", "finalize"} => pc'[Dict] = pc[Dict]
    BY <1>1 DEF Dictating
  <1>4. CASE UNCHANGED <<session, cancelled>>
    BY <1>2, <1>3, <1>4 DEF Context, WInv, Attached
  <1>5. CASE StopPartial
    BY <1>1, <1>2, <1>3, <1>5 DEF StopPartial, Context, WInv, Attached
  <1> QED  BY <1>4, <1>5

LEMMA StepGoes ==
    ASSUME Context, NEW t \in Threads, NEW s, Go(t, s), Placed(t, s)',
           lifecycle' \in {lifecycle, t, Free}, transcribing' \in {transcribing, t, Free},
           pc[t] \notin Resting, t = Dict => pc[t] \notin Dictating,
           UNCHANGED <<session, cancelled>> \/ StopPartial, UNCHANGED <<recordings, down>>
    PROVE  WInv'
  BY PlacedGo, AttachedGo DEF WInv

\* What the place of a thread says of it.
LEMMA PlaceSays ==
    ASSUME Context, NEW t \in Threads
    PROVE  /\ t # Free /\ Placed(t, pc[t])
           /\ pc[t] \in Loads \ Serves => t \in {Setter, Tray, Dict} \cup Loaders
           /\ pc[t] \in {"next", "drop"} => t \in Loaders \cup {Setter, Tray}
           /\ pc[t] \in Serves \ Loads => t \in Transcribers
           /\ pc[t] \in Previews => t \in Workers
           /\ pc[t] \in Dictating => t = Dict
  <1>1. t # Free /\ Placed(t, pc[t]) /\ t \in {Dict, Http, Setter, Tray} \cup Loaders \cup Workers
    BY ThreadsDistinct DEF Context, WInv, Threads, Callers
  <1> QED
    BY <1>1 DEF Placed, Suits, Serves, Loads, Previews, Dictating, Resting, Transcribers

LEMMA ReturnPlaced ==
    ASSUME Context, NEW t \in Threads, NEW ok \in BOOLEAN, Return(t, ok),
           pc[t] \in {"load", "swap", "create"}, lifecycle' # t,
           transcribing' = transcribing
    PROVE  \E s : Go(t, s) /\ Placed(t, s)'
  <1>1. Placed(t, pc[t]) /\ t \notin Workers
    BY PlaceSays DEF Placed, Suits, Previews, Resting
  <1>2. PICK s : /\ Go(t, s)
                 /\ t \in Loaders => s = "next"
                 /\ t \notin Loaders /\ t \notin Transcribers => s = "idle"
                 /\ t \notin Loaders /\ t \in Transcribers => s \in {"take", "leave"}
    BY DEF Return
  <1>3. Suits(t, s)
    <2>1. s \in Serves \/ (s \in Loads \cup {"idle"} /\ t \notin Transcribers)
      <3>1. t \in Loaders => t \notin Transcribers
        BY Apart DEF Transcribers
      <3> QED  BY <1>2, <3>1 DEF Loads, Serves
    <2>2. t \in {Setter, Tray} \cup Loaders => s \in Loads \cup {"idle"}
      BY <1>2, Apart, ThreadsDistinct DEF Transcribers, Loads
    <2> QED  BY <1>1, <2>1, <2>2 DEF Suits, Transcribers
  <1>4. transcribing' = t => Serving(t, s)
    BY <1>1, <1>2, Apart, ThreadsDistinct DEF Placed, Serving, Transcribers, Serves
  <1> QED  BY <1>2, <1>3, <1>4 DEF Placed, Suits, Serving

-----------------------------------------------------------------------------

\* The steps of a thread that loads or unloads.
LEMMA LoadPlaced ==
    ASSUME Context, NEW t \in Threads,
           \/ LoadModel(t) \/ LoadLocks(t) \/ Swap(t) \/ Create(t) \/ Unload(t)
           \/ MaybeUnload(t) \/ LoaderNext(t) \/ LoaderDrop(t)
    PROVE  WInv'
  <1> USE DEF locks, user, partial
  <1>1. t # Free /\ Placed(t, pc[t])
    BY PlaceSays
  <1>2. CASE LoadModel(t)
    <2>1. /\ pc[t] = "load" /\ lifecycle # t
          /\ UNCHANGED <<locks, user>> /\ (UNCHANGED partial \/ StopPartial)
      BY <1>1, <1>2 DEF LoadModel, Placed, Inside, Holding
    <2>2. PICK s : Go(t, s) /\ Placed(t, s)'
      <3>1. CASE Go(t, "lock")
        BY <1>1, <2>1, <3>1 DEF Placed, Suits, Serving, Loads, Serves, Previews, Resting,
                                Dictating
      <3> QED  BY <1>2, <2>1, <3>1, ReturnPlaced DEF LoadModel
    <2> QED  BY <2>1, <2>2, StepGoes DEF Resting, Dictating
  <1>3. CASE LoadLocks(t)
    <2>1. Placed(t, "swap")'
      BY <1>1, <1>3 DEF LoadLocks, Placed, Suits, Serving, Loads, Serves, Previews,
                        Resting, Dictating, Inside
    <2> QED  BY <1>3, <2>1, StepGoes DEF LoadLocks, Resting, Dictating
  <1>4. CASE Swap(t)
    <2>1. pc[t] = "swap" /\ lifecycle' \in {lifecycle, Free} /\ UNCHANGED <<transcribing, partial, user>>
      BY <1>4 DEF Swap, slot
    <2>2. PICK s : Go(t, s) /\ Placed(t, s)'
      <3>1. CASE Go(t, "create")
        BY <1>1, <2>1, <3>1 DEF Placed, Suits, Serving, Loads, Serves, Previews, Resting,
                                Dictating, Inside, Holding
      <3> QED  BY <1>1, <1>4, <2>1, <3>1, ReturnPlaced DEF Swap
    <2> QED  BY <2>1, <2>2, StepGoes DEF Resting, Dictating
  <1>5. CASE Create(t)
    <2>1. PICK s : Go(t, s) /\ Placed(t, s)'
      BY <1>1, <1>5, ReturnPlaced DEF Create
    <2> QED  BY <1>5, <2>1, StepGoes DEF Create, Resting, Dictating
  <1>6. CASE Unload(t) \/ MaybeUnload(t)
    <2>1. /\ pc[t] \in {"unload", "after"} /\ lifecycle # t
          /\ UNCHANGED <<locks, user>> /\ (UNCHANGED partial \/ StopPartial)
      BY <1>1, <1>6 DEF Unload, MaybeUnload, Placed, Inside, Holding
    <2>2. PICK s \in {"unload", "leave", "idle"} :
             Go(t, s) /\ (s = Leaving(t) \/ (s = "unload" /\ pc[t] = "after"))
      BY <1>6 DEF Unload, MaybeUnload, Leaving
    <2>3. pc[t] = "after" => t \in Transcribers
      BY PlaceSays DEF Serves, Loads
    <2>4. transcribing = t => t \in Transcribers /\ s \in {"leave", "unload"}
      BY <1>1, <2>1, <2>2 DEF Placed, Serving, Leaving
    <2>5. Suits(t, s)
      BY <1>1, <2>1, <2>2, <2>3, <2>4, Apart, ThreadsDistinct
      DEF Placed, Suits, Loads, Serves, Previews, Resting, Dictating, Leaving,
          Transcribers
    <2>6. Placed(t, s)'
      BY <2>1, <2>4, <2>5, ThreadsDistinct DEF Placed, Serving, Serves, Transcribers
    <2> QED  BY <2>1, <2>2, <2>6, StepGoes DEF Resting, Dictating
  <1>7. CASE LoaderNext(t) \/ LoaderDrop(t)
    <2>1. /\ pc[t] \in {"next", "drop"} /\ lifecycle # t /\ UNCHANGED <<locks, user, partial>>
          /\ \E s \in {"load", "drop", "idle"} : Go(t, s)
      BY <1>1, <1>7 DEF LoaderNext, LoaderDrop, Placed, Inside, Holding
    <2>2. PICK s \in {"load", "drop", "idle"} : Go(t, s)
      BY <2>1
    <2>3. t \in Loaders \cup {Setter, Tray}
      BY <2>1, PlaceSays
    <2>4. Placed(t, s)'
      BY <1>1, <2>1, <2>3, Apart, ThreadsDistinct
      DEF Placed, Suits, Serving, Loads, Serves, Transcribers
    <2> QED  BY <2>1, <2>2, <2>4, StepGoes DEF Resting, Dictating
  <1> QED  BY <1>2, <1>3, <1>4, <1>5, <1>6, <1>7

\* Those of a transcription.
LEMMA TranscribePlaced ==
    ASSUME Context, NEW t \in Threads,
           TranscribeLocks(t) \/ Ready(t) \/ Take(t) \/ Infer(t) \/ Leave(t)
    PROVE  WInv'
  <1> USE DEF locks, user, partial
  <1>1. /\ t # Free /\ Placed(t, pc[t]) /\ t \in Transcribers
        /\ pc[t] \in {"queue", "ready", "take", "infer", "leave"}
    <2>1. pc[t] \in {"queue", "ready", "take", "infer", "leave"}
      BY DEF TranscribeLocks, Ready, Take, Infer, Leave
    <2>2. pc[t] \in Serves \ Loads
      BY <2>1 DEF Serves, Loads
    <2> QED  BY <2>1, <2>2, PlaceSays
  <1>2. /\ UNCHANGED <<user, partial>>
        /\ lifecycle' \in {lifecycle, t, Free} /\ transcribing' \in {transcribing, t, Free}
    BY DEF TranscribeLocks, Ready, Take, Infer, Leave
  <1>3. PICK s \in Serves \cup {"idle"} :
           /\ Go(t, s)
           /\ lifecycle' = t => s = "infer"
           /\ transcribing' = t => s # "idle" /\ s # "queue"
    BY <1>1 DEF TranscribeLocks, Ready, Take, Infer, Leave, Serves, Placed, Inside, Holding,
                Serving
  <1>4. Suits(t, s)
    BY <1>1, Apart, ThreadsDistinct DEF Suits, Transcribers
  <1>5. Placed(t, s)'
    BY <1>1, <1>3, <1>4, ThreadsDistinct
    DEF Placed, Suits, Serving, Inside, Holding, Transcribers
  <1> QED  BY <1>1, <1>2, <1>3, <1>5, StepGoes DEF Resting, Dictating

\* Those of a preview worker.
LEMMA WorkerPlaced ==
    ASSUME Context, NEW t \in Threads,
           \/ WorkerWaits(t) \/ Pin(t) \/ StreamFails(t) \/ StreamEnds(t)
           \/ Poll(t) \/ Grab(t) \/ Guess(t)
    PROVE  WInv'
  <1> USE DEF locks, user, partial
  <1>1. /\ t # Free /\ Placed(t, pc[t]) /\ t \in Workers
        /\ pc[t] \in {"wait", "pin", "stream", "poll", "grab", "guess"}
    <2>1. pc[t] \in {"wait", "pin", "stream", "poll", "grab", "guess"}
      BY DEF WorkerWaits, Pin, StreamFails, StreamEnds, Poll, Grab, Guess
    <2> QED  BY <2>1, PlaceSays DEF Previews
  <1>2. /\ UNCHANGED <<user, partial>>
        /\ lifecycle' \in {lifecycle, t, Free} /\ transcribing' \in {transcribing, t, Free}
    BY DEF WorkerWaits, Pin, StreamFails, StreamEnds, Poll, Grab, Guess
  <1>3. PICK s \in Previews \cup Resting :
           /\ Go(t, s)
           /\ lifecycle' = t => s \in {"stream", "guess"}
           /\ transcribing' = t => s \in {"grab", "guess"}
    <2> USE <1>1 DEF Previews, Resting, Placed, Inside, Holding, Serving, Transcribers
    <2>1. CASE WorkerWaits(t) \/ Pin(t)
      BY <2>1, ThreadsDistinct DEF WorkerWaits, Pin
    <2>2. CASE StreamFails(t) \/ StreamEnds(t)
      BY <2>2, ThreadsDistinct DEF StreamFails, StreamEnds
    <2>3. CASE Poll(t) \/ Grab(t)
      BY <2>3, ThreadsDistinct DEF Poll, Grab
    <2>4. CASE Guess(t)
      BY <2>4, ThreadsDistinct DEF Guess
    <2> QED  BY <2>1, <2>2, <2>3, <2>4
  <1>4. Suits(t, s)
    BY <1>1, Apart, ThreadsDistinct DEF Suits
  <1>5. Placed(t, s)'
    BY <1>1, <1>3, <1>4, ThreadsDistinct
    DEF Placed, Suits, Serving, Inside, Holding, Transcribers
  <1> QED  BY <1>1, <1>2, <1>3, <1>5, StepGoes, ThreadsDistinct DEF Resting, Dictating

\* A request to load moves its thread and wakes a loader.
LEMMA InitiatePlaced == ASSUME Context, NEW t \in Threads, Initiate(t) PROVE WInv'
  <1> USE DEF locks, user, partial
  <1>1. /\ pc[t] = "initiate" /\ UNCHANGED <<locks, user, partial>>
        /\ t \in {Setter, Tray, Dict} \cup Loaders
    <2>1. pc[t] = "initiate" /\ UNCHANGED <<locks, user, partial>>
      BY DEF Initiate
    <2>2. pc[t] \in Loads \ Serves
      BY <2>1 DEF Loads, Serves
    <2> QED  BY <2>1, <2>2, PlaceSays
  <1>2. PICK l \in Loaders \cup {t} :
           /\ l = t \/ pc[l] = "idle"
           /\ \A u \in Threads :
                pc'[u] = IF u = l /\ l # t THEN "load"
                         ELSE IF u # t THEN pc[u]
                         ELSE IF t = Dict THEN "preview" ELSE "idle"
    BY ThreadsDistinct DEF Initiate, Go, Context, Kept, TypeOK
  <1>3. lifecycle # t /\ transcribing # t
    BY <1>1, PlaceSays DEF Placed, Inside, Holding, Serving, Serves
  <1>4. ASSUME l # t PROVE lifecycle # l /\ transcribing # l
    BY <1>2, <1>4, PlaceSays, ThreadsDistinct
    DEF Placed, Inside, Holding, Serving, Serves
  <1>5. ASSUME NEW u \in Threads PROVE Placed(u, pc[u])'
    <2>1. CASE u = t
      BY <1>1, <1>2, <1>3, <2>1, Apart, ThreadsDistinct
      DEF Placed, Suits, Loads, Dictating
    <2>2. CASE u = l /\ l # t
      BY <1>1, <1>2, <1>4, <2>2, Apart, ThreadsDistinct
      DEF Placed, Suits, Loads, Serves
    <2>3. CASE u # t /\ u # l
      BY <1>1, <1>2, <2>3, PlaceSays DEF Placed, Suits, Serving
    <2> QED  BY <2>1, <2>2, <2>3
  <1>6. /\ \A w \in Workers : pc'[w] = pc[w]
        /\ pc[Dict] \in {"recording", "finalize"} => pc'[Dict] = pc[Dict]
    BY <1>1, <1>2, Apart, ThreadsDistinct
  <1>7. Attached'
    BY <1>1, <1>6 DEF Context, WInv, Attached
  <1> QED  BY <1>5, <1>7 DEF WInv

-----------------------------------------------------------------------------

\* The dictation's own steps: a session lasts no longer than its recording,
\* and only a recording's end has it finalize.
LEMMA DictationPlaced == ASSUME Context, Dictation PROVE WInv'
  <1> USE DEF locks, user
  <1>0. /\ Dict \in Threads /\ Dict \notin Workers /\ Workers \subseteq Threads
        /\ Dict # Free /\ 0 \notin Workers /\ Placed(Dict, pc[Dict])
    BY ThreadsDistinct, Apart, PlaceSays
  <1>1. /\ pc[Dict] \in Dictating /\ UNCHANGED <<locks, user>>
        /\ lifecycle # Dict /\ transcribing # Dict
    <2>1. pc[Dict] \in Dictating /\ UNCHANGED <<locks, user>>
      BY DEF Dictation, StartPartial, NextGeneration, StoreSession, Discard, Finish,
             Finalized, Dictating
    <2> QED  BY <1>0, <2>1 DEF Placed, Inside, Holding, Serving, Serves, Dictating,
                                Transcribers
  <1>2. \A s \in Serves \cup Dictating \cup {"idle"} : Placed(Dict, s)'
    BY <1>0, <1>1, ThreadsDistinct DEF Placed, Suits
  <1>3. ASSUME NEW s \in Serves \cup Dictating \cup {"idle"}, Go(Dict, s)
        PROVE  /\ \A u \in Threads : Placed(u, pc[u])'
               /\ pc'[Dict] = s /\ \A w \in Workers : pc'[w] = pc[w]
    <2>1. \A u \in Threads : Placed(u, pc[u])'
      BY <1>0, <1>1, <1>2, <1>3, PlacedGo
    <2> QED  BY <1>0, <1>3, <2>1 DEF Go, Context, Kept, TypeOK
  <1>4. ASSUME NEW s \in Serves \cup Dictating \cup {"idle"}, Go(Dict, s), session' = 0,
               cancelled' = cancelled \cup ({session} \ {0}), pc[Dict] # "finalize"
        PROVE  WInv'
    <2>1. session' = 0 /\ \A w \in Workers : pc'[w] = pc[w]
      BY <1>3, <1>4
    <2>2. \A w \in Workers : pc[w] \notin Resting /\ w \notin cancelled' => down
      BY <1>0, <1>4 DEF Context, WInv, Attached
    <2>3. Attached'
      BY <1>1, <2>1, <2>2 DEF Attached
    <2> QED  BY <1>3, <1>4, <2>3 DEF WInv
  <1>5. CASE StartPartial \/ Discard \/ NextGeneration
    <2>1. PICK s \in {"recording", "idle", "store"} : Go(Dict, s)
      BY <1>5 DEF StartPartial, Discard, NextGeneration
    <2> QED  BY <1>4, <1>5, <2>1
             DEF StartPartial, Discard, NextGeneration, StopPartial, Dictating
  <1>6. CASE StoreSession
    <2>1. /\ recordings \in Workers /\ pc[Dict] = "store" /\ session' = recordings
          /\ UNCHANGED <<cancelled, down>>
      BY <1>6, ConstantsAssumption
      DEF StoreSession, Context, Kept, Begun, TypeOK, Workers
    <2>2. pc[recordings] = "idle"
      BY <2>1 DEF Context, IInv, Fresh, Starting
    <2>3. \A u \in Threads : pc'[u] = IF u = recordings THEN "wait"
                                      ELSE IF u = Dict THEN "recording" ELSE pc[u]
      BY <1>0, <1>6, <2>1 DEF StoreSession, Context, Kept, TypeOK
    <2>4. Placed(recordings, "idle")
      BY <1>0, <2>1, <2>2, PlaceSays
    <2>5. Placed(recordings, "wait")'
      BY <1>0, <1>1, <2>1, <2>4, Apart, ThreadsDistinct
      DEF Placed, Suits, Previews, Inside, Holding, Serving, Serves
    <2>6. Placed(Dict, "recording")'
      BY <1>2 DEF Dictating
    <2>7. ASSUME NEW u \in Threads PROVE Placed(u, pc[u])'
      <3>1. CASE u \notin {recordings, Dict}
        BY <1>1, <2>3, <3>1, PlaceSays DEF Placed, Suits, Serving
      <3>2. CASE u = recordings
        BY <1>1, <2>3, <2>5, <3>2 DEF Placed, Suits, Serving
      <3>3. CASE u = Dict
        BY <1>0, <2>1, <2>3, <2>6, <3>3
      <3> QED  BY <3>1, <3>2, <3>3
    <2>8. Attached'
      BY <1>0, <1>1, <2>1, <2>3 DEF Context, WInv, Attached
    <2> QED  BY <2>7, <2>8 DEF WInv
  <1>7. ASSUME NEW m \in Models, Finish(m) PROVE WInv'
    <2>1. CASE Go(Dict, "finalize") /\ session # 0 /\ UNCHANGED cancelled
      <3>1. \A u \in Threads : Placed(u, pc[u])'
        BY <1>3, <2>1 DEF Dictating
      <3>2. pc'[Dict] = "finalize" /\ \A w \in Workers : pc'[w] = pc[w]
        BY <1>3, <2>1 DEF Dictating
      <3>3. session' = 0
        BY <1>7 DEF Finish
      <3>4. Attached'
        BY <1>1, <2>1, <3>2, <3>3 DEF Context, WInv, Attached
      <3> QED  BY <3>1, <3>4 DEF WInv
    <2>2. CASE Go(Dict, "queue") /\ cancelled' = cancelled \cup ({session} \ {0})
      BY <1>4, <1>7, <2>2 DEF Finish, Serves
    <2> QED  BY <1>7, <2>1, <2>2 DEF Finish
  <1>8. CASE Finalized
    <2>1. PICK s \in {"after", "queue"} : Go(Dict, s)
      BY <1>8 DEF Finalized
    <2>2. /\ \A u \in Threads : Placed(u, pc[u])'
          /\ \A w \in Workers : pc'[w] = pc[w]
      BY <1>3, <2>1 DEF Serves
    <2>3. session' = 0 /\ cancelled' = cancelled \cup {recordings}
      BY <1>8 DEF Finalized, Context, WInv, Attached
    <2>4. Attached'
      BY <1>1, <2>2, <2>3 DEF Context, WInv, Attached
    <2> QED  BY <2>2, <2>4 DEF WInv
  <1> QED  BY <1>5, <1>6, <1>7, <1>8 DEF Dictation

\* What the user begins or ends, and the teardown thread.
LEMMA UserPlaced == ASSUME Context, User \/ Teardown PROVE WInv'
  <1> USE DEF locks, user, control
  <1>0. /\ {Http, Setter, Tray, Dict} \subseteq Threads
        /\ Workers \subseteq Threads /\ Dict \notin Workers
        /\ {Http, Setter, Tray} \cap Workers = {} /\ Dict \notin {Http, Setter, Tray}
    BY ThreadsDistinct, Apart
  <1>1. ASSUME NEW m \in Models, StartRecording(m) PROVE WInv'
    <2>1. /\ pc[Dict] = "idle" /\ Go(Dict, "initiate")
          /\ UNCHANGED <<locks, session, cancelled, down>>
      BY <1>1 DEF StartRecording, partial
    <2>2. Placed(Dict, "initiate")'
      BY <1>0, <2>1, PlaceSays, Apart, ThreadsDistinct
      DEF Placed, Suits, Inside, Holding, Serving, Serves
    <2>3. \A u \in Threads : Placed(u, pc[u])'
      BY <1>0, <2>1, <2>2, PlacedGo
    <2>4. \A w \in Workers : pc'[w] = pc[w]
      BY <1>0, <2>1 DEF Go, Context, Kept, TypeOK
    <2>5. session = 0 /\ \A w \in Workers : pc[w] \notin Resting /\ w \notin cancelled => down
      BY <2>1, Apart DEF Context, WInv, Attached
    <2>6. Attached'
      BY <2>1, <2>4, <2>5 DEF Attached
    <2> QED  BY <2>3, <2>6 DEF WInv
  <1>2. ASSUME NEW t \in {Http, Setter, Tray}, NEW s, NEW m, Calls(t, s, m),
               Suits(t, s), UNCHANGED locks,
               UNCHANGED <<session, cancelled>> \/ StopPartial
        PROVE  WInv'
    <2>1. t \in Threads /\ Go(t, s) /\ pc[t] = "idle" /\ UNCHANGED <<recordings, down>>
      BY <1>0, <1>2 DEF Calls
    <2>2. Placed(t, s)'
      BY <1>2, <2>1, PlaceSays DEF Placed, Suits, Inside, Holding, Serving, Serves
    <2>3. \A u \in Threads : Placed(u, pc[u])'
      BY <1>2, <2>1, <2>2, PlacedGo
    <2>4. pc'[Dict] = pc[Dict] /\ \A w \in Workers : pc'[w] = pc[w]
      BY <1>0, <2>1 DEF Go, Context, Kept, TypeOK
    <2>5. Attached'
      <3>1. CASE UNCHANGED <<session, cancelled>>
        BY <2>1, <2>4, <3>1 DEF Context, WInv, Attached
      <3>2. CASE StopPartial
        BY <2>1, <2>4, <3>2, Apart DEF StopPartial, Context, WInv, Attached
      <3> QED  BY <1>2, <3>1, <3>2
    <2> QED  BY <2>3, <2>5 DEF WInv
  <1>3. /\ Suits(Setter, "load") /\ Suits(Setter, "initiate")
        /\ Suits(Http, "queue") /\ Suits(Tray, "unload")
    BY <1>0, Apart DEF Suits, Loads, Serves
  <1>4. ASSUME NEW m \in Models, SetModel(m) \/ Prewarm(m) \/ Request(m) PROVE WInv'
    BY <1>2, <1>3, <1>4 DEF SetModel, Prewarm, Request, partial
  <1>5. CASE UnloadCalled
    BY <1>2, <1>3, <1>5 DEF UnloadCalled
  <1>6. CASE Quit
    BY <1>6 DEF Quit, StopPartial, Context, WInv, Attached, Placed, Suits, Serving
  <1>7. CASE Teardown
    BY <1>7 DEF Teardown, partial, Context, WInv, Attached, Placed, Suits, Serving
  <1> QED  BY <1>1, <1>4, <1>5, <1>6, <1>7 DEF User

LEMMA NextPlaced == ASSUME Context, [Next]_vars PROVE WInv'
  <1>1. CASE UNCHANGED vars
    BY <1>1 DEF vars, control, locks, partial, user, Context, WInv, Attached, Placed,
                Suits, Serving
  <1>2. ASSUME NEW t \in Threads, Step(t) PROVE WInv'
    BY <1>2, LoadPlaced, InitiatePlaced, TranscribePlaced, WorkerPlaced DEF Step
  <1>3. ASSUME NEW w \in Workers, StreamFails(w) PROVE WInv'
    BY <1>3, WorkerPlaced, ThreadsDistinct
  <1> QED  BY <1>1, <1>2, <1>3, DictationPlaced, UserPlaced DEF Next

LEMMA InitPlaced == ASSUME Init PROVE WInv
  BY ThreadsDistinct, Apart
  DEF Init, WInv, Attached, Placed, Suits, Serving, Loads, Serves, Previews, Resting,
      Dictating

\* A thread under way is able to go on, or at a recording, or waits for what its
\* place says; and holds what it waits with.
LEMMA ContextOrders == ASSUME Context PROVE WaitsOrdered
  <1>1. ASSUME NEW t \in Threads, pc[t] \notin Resting
        PROVE  \/ Able(t) \/ Dictates(t)
               \/ pc[t] \in OnLifecycle /\ lifecycle # Free
               \/ pc[t] \in OnTranscribe /\ transcribing # Free
               \/ lifecycle = t /\ (TearsDown(t) \/ Listens(t))
               \/ pc[t] = "initiate" /\ \A l \in Loaders : pc[l] \notin Resting
    <2>1. CASE pc[t] = "swap"
      <3>1. lifecycle = t /\ teardowns \in 0..1
        BY <2>1 DEF Context, IInv, Locked, Inside, Kept, TypeOK
      <3> QED  BY <2>1, <3>1 DEF Able, TearsDown
    <2>2. CASE pc[t] = "stream"
      <3>1. lifecycle = t /\ t \in Workers
        BY <2>2, PlaceSays DEF Context, IInv, Locked, Inside, Previews
      <3>2. ~down /\ t \notin cancelled =>
              t = recordings /\ (session = t \/ pc[Dict] = "finalize")
        BY <1>1, <3>1 DEF Context, WInv, Attached
      <3>3. session = t => pc[Dict] = "recording"
        BY <3>1, Apart DEF Context, WInv, Attached
      <3> QED  BY <2>2, <3>1, <3>2, <3>3 DEF Able, Listens
    <2>3. CASE pc[t] = "initiate"
      <3>1. \A l \in Loaders : pc[l] # "idle" => pc[l] \notin Resting
        BY PlaceSays, Apart DEF Placed, Suits, Loads, Resting
      <3> QED  BY <2>3, <3>1 DEF Able
    <2>4. CASE pc[t] \in Dictating
      BY <2>4, PlaceSays DEF Dictates
    <2>5. CASE pc[t] \notin Dictating \cup {"swap", "stream", "initiate"}
      BY <1>1, <2>5 DEF Context, Kept, TypeOK, Places, Able, OnLifecycle, OnTranscribe,
                        Dictating, Resting
    <2> QED  BY <2>1, <2>2, <2>3, <2>4, <2>5
  <1>2. ASSUME lifecycle # Free
        PROVE  Able(lifecycle) \/ TearsDown(lifecycle) \/ Listens(lifecycle)
    <2>1. lifecycle \in Threads /\ pc[lifecycle] \in Inside
      BY <1>2, PlaceSays DEF Context, Kept, TypeOK, Placed
    <2> QED  BY <1>1, <2>1 DEF Inside, Holding, Dictates, Dictating, OnLifecycle,
                                OnTranscribe, Resting, Able
  <1>3. ASSUME transcribing # Free
        PROVE  \/ Able(transcribing) \/ TearsDown(transcribing)
               \/ pc[transcribing] \in OnLifecycle /\ lifecycle # Free
    <2>1. transcribing \in Threads
      BY <1>3 DEF Context, Kept, TypeOK
    <2>2. Serving(transcribing, pc[transcribing])
      BY <2>1, PlaceSays DEF Placed
    <2>3. pc[transcribing] \in (Serves \ {"queue"}) \cup {"grab", "guess"}
      BY <2>2 DEF Serving
    <2> QED  BY <1>1, <2>1, <2>3 DEF Serves, Dictates, Dictating, OnTranscribe, Listens, Resting
  <1> QED  BY <1>1, <1>2, <1>3 DEF WaitsOrdered

\* The locks have an order: the holder of the lifecycle lock waits for no lock,
\* the holder of the transcribe lock for no other than that one, and every thread
\* of load_model, unload_model, transcribe and the previews can go on or waits for
\* one of them, for a teardown, for the user's recording or for a loader,
\* all of them under way.  No cycle of waits can form: what CallsReturn rests on.
THEOREM WaitsOrderedAlways == Spec => []WaitsOrdered
  <1>1. Init => IInv /\ Kept /\ WInv
    BY InitIInv, InitTyped, InitPlaced
  <1>2. IInv /\ Kept /\ WInv /\ [Next]_vars => IInv' /\ Kept' /\ WInv'
    BY NextIInv, NextTyped, NextPlaced DEF Context
  <1>3. IInv /\ Kept /\ WInv => WaitsOrdered
    BY ContextOrders DEF Context
  <1> QED  BY <1>1, <1>2, <1>3, PTL DEF Spec

-----------------------------------------------------------------------------
(* Requests to load *)

\* A loader that has yet to look for a pending model.
Looking == {"load", "lock", "swap", "create", "next"}

Watched ==
    isLoading \/ pendingModel # NoModel => \E l \in Loaders : pc[l] \in Looking

\* A loader that is looking goes on looking until it finds nothing.
LEMMA LooksOn ==
    ASSUME Context, NEW l \in Loaders, pc[l] \in Looking, [Next]_vars
    PROVE  pc'[l] \in Looking \/ (isLoading' = FALSE /\ pendingModel' = NoModel)
  <1>0. /\ l \in Threads /\ l # Dict /\ l \notin Workers /\ l \notin Transcribers
        /\ pc \in [Threads -> Places]
    BY Apart, ThreadsDistinct DEF Transcribers, Context, Kept, TypeOK
  <1>1. ASSUME NEW t \in Threads, Step(t)
        PROVE  pc'[l] = pc[l] \/ pc'[l] \in Looking
               \/ (isLoading' = FALSE /\ pendingModel' = NoModel)
    <2>1. CASE Initiate(t)
      BY <1>0, <2>1 DEF Initiate, Go, Looking
    <2>2. CASE t # l /\ ~Initiate(t)
      <3>1. \E s : Go(t, s)
        BY <1>1, <2>2 DEF Step, LoadModel, LoadLocks, Swap, Create, Return, Unload, MaybeUnload,
           TranscribeLocks, Ready, Take, Infer, Leave, LoaderNext, LoaderDrop, WorkerWaits,
           Pin, StreamEnds, Poll, Grab, Guess, Go
      <3> QED  BY <1>0, <2>2, <3>1 DEF Go
    <2>3. CASE t = l /\ (LoadModel(l) \/ LoadLocks(l))
      BY <1>0, <2>3 DEF LoadModel, LoadLocks, Return, Go, Looking
    <2>4. CASE t = l /\ (Swap(l) \/ Create(l))
      BY <1>0, <2>4 DEF Swap, Create, Return, Go, Looking
    <2>5. CASE t = l /\ LoaderNext(l)
      BY <1>0, <2>5 DEF LoaderNext, Go, Looking
    <2> QED  BY <1>1, <2>1, <2>2, <2>3, <2>4, <2>5
             DEF Step, Looking, Unload, MaybeUnload, TranscribeLocks, Ready, Take, Infer, Leave,
                 LoaderDrop, WorkerWaits, Pin, StreamEnds, Poll, Grab, Guess
  <1>2. CASE Dictation
    <2>1. PICK s, r : pc' = [pc EXCEPT ![Dict] = s] \/ (pc' = [pc EXCEPT ![Dict] = s, ![recordings] = r] /\ pc[Dict] = "store")
      BY <1>2 DEF Dictation, StartPartial, NextGeneration, StoreSession, Discard, Finish, Finalized, Go
    <2>2. pc[Dict] = "store" => recordings # l
      BY <1>0, ConstantsAssumption DEF Context, Kept, TypeOK, Begun, Workers
    <2> QED  BY <1>0, <2>1, <2>2
  <1>3. CASE User \/ Teardown \/ UNCHANGED vars
    BY <1>0, <1>3 DEF User, StartRecording, SetModel, Prewarm, Request, UnloadCalled, Quit,
       Calls, Go, Teardown, vars, control, Looking
  <1>4. ASSUME NEW w \in Workers, StreamFails(w) PROVE pc'[l] = pc[l]
    BY <1>0, <1>4 DEF StreamFails, Go
  <1> QED  BY <1>1, <1>2, <1>3, <1>4 DEF Next

\* A request joins a load under way, or begins one.
LEMMA WatchKept == ASSUME Context, Watched, [Next]_vars PROVE Watched'
  <1>1. ASSUME NEW l \in Loaders, pc[l] \in Looking PROVE Watched'
    BY <1>1, LooksOn DEF Watched
  <1>2. ASSUME ~isLoading, pendingModel = NoModel, ~(\E l \in Loaders : pc[l] \in Looking)
        PROVE  Watched'
    <2>1. ASSUME NEW t \in Threads, Initiate(t) PROVE Watched'
      <3>1. CASE UNCHANGED <<isLoading, pendingModel>>
        BY <1>2, <3>1 DEF Watched
      <3>2. ASSUME NEW l \in Loaders, pc' = [pc EXCEPT ![t] = IF t = Dict THEN "preview" ELSE "idle",
                                                       ![l] = "load"]
            PROVE  Watched'
        BY <3>2, Apart DEF Watched, Looking, Context, Kept, TypeOK
      <3> QED  BY <1>2, <2>1, <3>1, <3>2 DEF Initiate, loads
    <2>2. ASSUME NEW t \in Threads, Step(t), ~Initiate(t)
          PROVE  ~isLoading' /\ pendingModel' = NoModel
      <3>1. CASE LoaderNext(t) \/ LoaderDrop(t)
        BY <1>2, <3>1 DEF LoaderNext, LoaderDrop
      <3>2. CASE ~(LoaderNext(t) \/ LoaderDrop(t))
        <4>1. UNCHANGED loads
          BY <2>2, <3>2 DEF Step, LoadModel, LoadLocks, Swap, Create, Unload, MaybeUnload,
             TranscribeLocks, Ready, Take, Infer, Leave, WorkerWaits, Pin, StreamEnds,
             Poll, Grab, Guess
        <4> QED  BY <1>2, <4>1 DEF loads
      <3> QED  BY <3>1, <3>2
    <2>3. CASE \/ Dictation \/ Teardown \/ User \/ UNCHANGED vars
               \/ \E w \in Workers : StreamFails(w)
      BY <1>2, <2>3 DEF Dictation, StartPartial, NextGeneration, StoreSession, Discard, Finish,
         Finalized, Teardown, User, StartRecording, SetModel, Prewarm, Request, UnloadCalled,
         Quit, StreamFails, loads, vars, Watched
    <2> QED  BY <2>1, <2>2, <2>3 DEF Next, Watched
  <1> QED  BY <1>1, <1>2 DEF Watched

\* "No final request can be stranded" (initiate_model_load_for_model): while a
\* model is pending, or the flag that makes the next one wait is up, a loader is
\* under way that has yet to look.  What PendingServed rests on.
THEOREM NoneStranded == Spec => []Watched
  <1>1. Init => IInv /\ Kept /\ WInv /\ Watched
    BY InitIInv, InitTyped, InitPlaced DEF Init, Watched
  <1>2. IInv /\ Kept /\ WInv /\ Watched /\ [Next]_vars
           => IInv' /\ Kept' /\ WInv' /\ Watched'
    BY NextIInv, NextTyped, NextPlaced, WatchKept DEF Context
  <1> QED  BY <1>1, <1>2, PTL DEF Spec
=============================================================================
