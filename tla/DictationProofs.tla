-------------------------- MODULE DictationProofs --------------------------
(***************************************************************************)
(* Proofs about Dictation, for any set of bindings, key events and         *)
(* cancellers and any bounds.  The inductive invariant adds to the types   *)
(* and to OnePipeline what the coordinator's thread knows while it is in a *)
(* handler, and what a pipeline knows of the recorder once it stopped it.  *)
(***************************************************************************)
EXTENDS Dictation, TLAPS

\* In a handler the coordinator works for a binding: starting it came from
\* Idle, stopping it from a recording, with a generation left.
Control ==
    /\ cpc # "recv" => cbinding \in Bindings
    /\ cpc \notin {"recv", "stopping"} => stage = "Idle"
    /\ cpc = "stopping" => stage \in Bindings /\ generation < MaxRuns

\* A pipeline past stop_recording's lock finds the recorder Idle; once it
\* has drained it, is_recording is off as well.
Captured == {"captured", "transcribe", "ready", "scheduled", "pasting"}
RecorderReleased ==
    \A g \in Gens :
        /\ run[g].pc \in Captured \cup {"drain"} => recState = "None"
        /\ run[g].pc \in Captured => ~isRecording

\* A generation not handed out has no pipeline yet.
Unborn == \A g \in Gens : g > generation => run[g].pc = "none"

IInv == TypeOK /\ Control /\ OnePipeline /\ RecorderReleased /\ Unborn

---------------------------------------------------------------------------
(* The channel                                                             *)

LEMMA AppendOther ==
    ASSUME NEW s \in Seq(Command), NEW x \in Command, x # Finished
    PROVE  FinishedIn(Append(s, x)) = FinishedIn(s)
  BY DEF FinishedIn

LEMMA AppendFinished ==
    ASSUME NEW s \in Seq(Command)
    PROVE  FinishedIn(Append(s, Finished)) = FinishedIn(s) \cup {Len(s) + 1}
  BY DEF FinishedIn, Command

\* Taking another command away moves the ProcessingFinished ones up.
LEMMA TailOther ==
    ASSUME NEW s \in Seq(Command), s # <<>>, Head(s) # Finished
    PROVE  /\ \A i \in FinishedIn(Tail(s)) : i + 1 \in FinishedIn(s)
           /\ \A i \in FinishedIn(s) : i - 1 \in FinishedIn(Tail(s))
  BY DEF FinishedIn

\* Taking away the only one leaves none.
LEMMA TailFinished ==
    ASSUME NEW s \in Seq(Command), s # <<>>, Head(s) = Finished,
           \A i, j \in FinishedIn(s) : i = j
    PROVE  FinishedIn(Tail(s)) = {}
  <1>1. 1 \in FinishedIn(s)
    BY DEF FinishedIn
  <1>2. \A i \in FinishedIn(Tail(s)) : i \in 1..Len(s) /\ i + 1 \in FinishedIn(s)
    BY DEF FinishedIn
  <1> QED BY <1>1, <1>2

\* The three kinds of command differ.
LEMMA CommandKinds ==
    /\ \A x \in InputCmd : x \in Command /\ x # Finished /\ x \notin CancelCmd
    /\ \A x \in CancelCmd : x \in Command /\ x # Finished
    /\ Finished \in Command
  <1>1. \A x \in InputCmd : x.kind = "input"
    BY DEF InputCmd
  <1>2. \A x \in CancelCmd : x.kind = "cancel"
    BY DEF CancelCmd
  <1>3. Finished.kind = "finished"
    BY DEF Finished
  <1> QED BY <1>1, <1>2, <1>3 DEF Command

---------------------------------------------------------------------------
(* A pipeline's program counter                                            *)

LEMMA GotoType ==
    ASSUME run \in [Gens -> Run], NEW g \in Gens,
           NEW pc \in LivePC \cup DonePC, Goto(g, pc)
    PROVE  /\ run' \in [Gens -> Run]
           /\ \A h \in Gens : run'[h].pc = IF h = g THEN pc ELSE run[h].pc
  BY DEF Goto, Run

---------------------------------------------------------------------------
(* Types                                                                   *)

LEMMA TypeInit == Init => TypeOK
  <1> SUFFICES ASSUME Init PROVE TypeOK
    OBVIOUS
  <1>1. NoIntent \in Intent /\ NoTaken \in Taken
    BY DEF NoIntent, NoTaken, Intent, Taken, RunIds
  <1>2. NoRun \in Run
    BY <1>1 DEF NoRun, Run
  <1>3. 0 \in 0..MaxInputs /\ 0 \in 0..MaxRuns
    BY ConstantsAssumption
  <1>4. chan \in Seq(Command) /\ intents \in [Bindings -> Intent]
    BY <1>1 DEF Init
  <1>5. run \in [Gens -> Run] /\ kpc \in [Cancellers -> CancelPC]
    BY <1>2 DEF Init, CancelPC
  <1>6. /\ kactive \in [Cancellers -> BOOLEAN]
        /\ kgen \in [Cancellers -> 0..MaxRuns]
    BY <1>3 DEF Init
  <1> QED BY <1>1, <1>3, <1>4, <1>5, <1>6 DEF Init, TypeOK, CoordPC, RunIds

LEMMA TypeCoordinator ==
    ASSUME TypeOK, Control, Coordinator
    PROVE  TypeOK'
  <1> USE DEF TypeOK, coordVars, recVars, intentVars, genVars, kVars
  <1>0. NoIntent \in Intent /\ NoTaken \in Taken
    BY DEF NoIntent, NoTaken, Intent, Taken, RunIds
  <1>1. ASSUME NEW i \in Inputs, IgnoreInput(i) PROVE TypeOK'
    BY <1>1, ConstantsAssumption DEF IgnoreInput, Receive
  <1>2. ASSUME NEW i \in Inputs, StartAction(i) PROVE TypeOK'
    <2>1. i.binding \in Bindings /\ i.pressed \in BOOLEAN
      BY ConstantsAssumption
    <2>2. [run |-> nextRun, rewrite |-> i.binding \in Rewriting, sel |-> 0,
           pending |-> i.binding \in Probing] \in Intent
      BY DEF Intent, RunIds
    <2> QED BY <1>2, <2>1, <2>2 DEF StartAction, Receive, CoordPC, RunIds
  <1>3. ASSUME NEW i \in Inputs, StartRewriteDisabled(i) PROVE TypeOK'
    BY <1>3, ConstantsAssumption DEF StartRewriteDisabled, Receive, CoordPC
  <1>4. ASSUME NEW i \in Inputs, StopAction(i) PROVE TypeOK'
    <2>1. i.binding \in Bindings /\ i.pressed \in BOOLEAN
      BY ConstantsAssumption
    <2>2. TakeIntent(i.binding) \in Taken
      BY <2>1 DEF TakeIntent, Taken, Intent, RunIds
    <2> QED BY <1>4, <1>0, <2>1, <2>2 DEF StopAction, Receive, CoordPC
  <1>5. CASE OpenStream
    BY <1>5 DEF OpenStream, CoordPC
  <1>6. CASE BeginRecording
    BY <1>6 DEF BeginRecording, CoordPC
  <1>7. CASE StartSucceeded
    BY <1>7 DEF StartSucceeded, CoordPC
  <1>8. CASE StartFailed
    BY <1>0, <1>8 DEF StartFailed, CoordPC
  <1>9. CASE CheckRecording
    BY <1>9 DEF CheckRecording, CoordPC, Control
  <1>10. CASE SpawnPipeline
    <2>1. generation + 1 \in Gens
      BY <1>10, ConstantsAssumption DEF SpawnPipeline, Control, Gens
    <2>2. [pc |-> "stop", binding |-> cbinding, intent |-> cintent] \in Run
      BY DEF Run, LivePC
    <2> QED BY <1>0, <1>10, <2>1, <2>2 DEF SpawnPipeline, CoordPC, Gens
  <1>11. CASE ReceiveCancel
    BY <1>11 DEF ReceiveCancel, AfterCancel
  <1>12. CASE ReceiveFinished
    BY <1>12 DEF ReceiveFinished
  <1> QED BY <1>1, <1>2, <1>3, <1>4, <1>5, <1>6, <1>7, <1>8, <1>9, <1>10,
             <1>11, <1>12 DEF Coordinator

LEMMA TypeProbe ==
    ASSUME TypeOK, Probe
    PROVE  TypeOK'
  <1> USE DEF TypeOK, coordVars, recVars, genVars, kVars
  <1>1. PICK p \in probes : ProbeAnswers(p) \/ ProbeFails(p)
    BY DEF Probe
  <1>2. p[1] \in Bindings /\ p[2] \in RunIds
    BY ConstantsAssumption
  <1>3. ASSUME ProbeAnswers(p) PROVE intents' \in [Bindings -> Intent]
    <2>1. intents[p[1]] \in Intent
      BY <1>2
    <2>2. Answers(p) \subseteq Intent
      <3>1. ASSUME NEW e \in Intent PROVE [e EXCEPT !.pending = FALSE] \in Intent
        BY DEF Intent
      <3>2. [run |-> intents[p[1]].run, rewrite |-> TRUE, sel |-> p[2],
             pending |-> FALSE] \in Intent
        BY <1>2, <2>1 DEF Intent
      <3> QED BY <2>1, <3>1, <3>2 DEF Answers
    <2> QED BY <1>2, <1>3, <2>2 DEF ProbeAnswers
  <1> QED BY <1>1, <1>3 DEF ProbeAnswers, ProbeFails

LEMMA TypePipeline ==
    ASSUME TypeOK, NEW g \in Gens, Pipeline(g) \/ MainThread(g)
    PROVE  TypeOK'
  <1> USE DEF TypeOK, coordVars, recVars, intentVars, kVars, pipeRest
  <1>1. /\ run' \in [Gens -> Run]
        /\ chan' \in Seq(Command)
    <2>1. PICK pc \in LivePC \cup DonePC : Goto(g, pc)
      BY DEF Pipeline, MainThread, StopRecording, DrainRecorder, DiscardCancelled,
             BeginTranscription, TranscriptionFailed, NothingSaid, TextReady,
             PasteSkipped, SchedulePaste, PasteNotQueued, PipelinePanics,
             MainThreadDrops, MainThreadPastes, PasteEnds, Finish, LivePC, DonePC
    <2>2. chan' = chan \/ chan' = Append(chan, Finished)
      BY DEF Pipeline, MainThread, StopRecording, DrainRecorder, DiscardCancelled,
             BeginTranscription, TranscriptionFailed, NothingSaid, TextReady,
             PasteSkipped, SchedulePaste, PasteNotQueued, PipelinePanics,
             MainThreadDrops, MainThreadPastes, PasteEnds, Finish
    <2>3. run' \in [Gens -> Run]
      BY <2>1, GotoType
    <2>4. Append(chan, Finished) \in Seq(Command)
      BY CommandKinds
    <2> QED BY <2>2, <2>3, <2>4
  <1>2. /\ ui' \in {ui, "Idle"}
        /\ recState' \in {recState, "None"}
        /\ isRecording' \in {isRecording, FALSE}
        /\ UNCHANGED pipeRest
    BY DEF Pipeline, MainThread, StopRecording, DrainRecorder, DiscardCancelled,
           BeginTranscription, TranscriptionFailed, NothingSaid, TextReady,
           PasteSkipped, SchedulePaste, PasteNotQueued, PipelinePanics,
           MainThreadDrops, MainThreadPastes, PasteEnds
  <1> QED BY <1>1, <1>2

LEMMA TypeCancel ==
    ASSUME TypeOK, NEW c \in Cancellers, Cancel(c)
    PROVE  TypeOK'
  <1> USE DEF TypeOK, coordVars, recVars, kRest, CancelPC, KGoto
  <1>0. NoIntent \in Intent
    BY DEF NoIntent, Intent, RunIds
  <1>1. CASE CancelBegins(c)
    BY <1>1 DEF CancelBegins
  <1>2. CASE CancelRecording(c)
    BY <1>2 DEF CancelRecording
  <1>3. CASE DiscardRecording(c)
    BY <1>3 DEF DiscardRecording
  <1>4. CASE ClearIntents(c)
    BY <1>0, <1>4 DEF ClearIntents
  <1>5. CASE HideUi(c)
    BY <1>5 DEF HideUi
  <1>6. CASE LoadGeneration(c)
    BY <1>6 DEF LoadGeneration
  <1>7. CASE StoreCancelled(c)
    BY <1>7 DEF StoreCancelled
  <1>8. CASE NotifyCancel(c)
    <2>1. [kind |-> "cancel", active |-> kactive[c]] \in Command
      BY DEF Command, CancelCmd
    <2> QED BY <1>8, <2>1 DEF NotifyCancel
  <1> QED BY <1>1, <1>2, <1>3, <1>4, <1>5, <1>6, <1>7, <1>8 DEF Cancel

LEMMA TypeStep == TypeOK /\ Control /\ [Next]_vars => TypeOK'
  <1> SUFFICES ASSUME TypeOK, Control, [Next]_vars PROVE TypeOK'
    OBVIOUS
  <1>1. CASE SendInput
    <2>1. PICK i \in Inputs : chan' = Append(chan, [kind |-> "input", input |-> i])
      BY <1>1 DEF SendInput
    <2>2. [kind |-> "input", input |-> i] \in Command
      BY DEF Command, InputCmd
    <2> QED BY <1>1, <2>1, <2>2, ConstantsAssumption
            DEF SendInput, TypeOK, coordVars, recVars, intentVars, genVars, kVars
  <1>2. CASE UNCHANGED vars
    BY <1>2 DEF TypeOK, vars, coordVars, recVars, intentVars, genVars, kVars
  <1> QED BY <1>1, <1>2, TypeCoordinator, TypeProbe, TypePipeline, TypeCancel
          DEF Next

---------------------------------------------------------------------------
(* What the coordinator knows inside a handler                             *)

LEMMA ControlStep == TypeOK /\ Control /\ [Next]_vars => Control'
  <1> SUFFICES ASSUME TypeOK, Control, [Next]_vars PROVE Control'
    OBVIOUS
  <1> USE DEF Control, coordVars, recVars, intentVars, genVars, kVars
  <1>1. CASE Coordinator
    <2>1. ASSUME NEW i \in Inputs, IgnoreInput(i) PROVE Control'
      BY <2>1 DEF IgnoreInput, Receive
    <2>2. ASSUME NEW i \in Inputs, StartAction(i) PROVE Control'
      BY <2>2, ConstantsAssumption DEF StartAction, Receive, Starts
    <2>3. ASSUME NEW i \in Inputs, StartRewriteDisabled(i) PROVE Control'
      BY <2>3, ConstantsAssumption DEF StartRewriteDisabled, Receive, Starts
    <2>4. ASSUME NEW i \in Inputs, StopAction(i) PROVE Control'
      <3>1. i.binding \in Bindings /\ i.binding # "Processing"
        BY ConstantsAssumption
      <3> QED BY <2>4, <3>1 DEF StopAction, Receive, Stops
    <2>5. CASE OpenStream
      BY <2>5 DEF OpenStream
    <2>6. CASE BeginRecording
      BY <2>6 DEF BeginRecording
    <2>7. CASE StartSucceeded
      BY <2>7 DEF StartSucceeded
    <2>8. CASE StartFailed
      BY <2>8 DEF StartFailed
    <2>9. CASE CheckRecording \/ SpawnPipeline \/ ReceiveCancel \/ ReceiveFinished
      BY <2>9 DEF CheckRecording, SpawnPipeline, ReceiveCancel, ReceiveFinished
    <2> QED BY <1>1, <2>1, <2>2, <2>3, <2>4, <2>5, <2>6, <2>7, <2>8, <2>9
            DEF Coordinator
  <1>2. ASSUME UNCHANGED <<stage, cpc, cbinding, generation>> PROVE Control'
    BY <1>2
  <1>3. CASE SendInput \/ UNCHANGED vars
    BY <1>2, <1>3 DEF SendInput, vars
  <1>4. CASE Probe
    BY <1>2, <1>4 DEF Probe, ProbeAnswers, ProbeFails
  <1>5. ASSUME NEW g \in Gens, Pipeline(g) \/ MainThread(g) PROVE Control'
    BY <1>2, <1>5
       DEF Pipeline, MainThread, StopRecording, DrainRecorder, DiscardCancelled,
           BeginTranscription, TranscriptionFailed, NothingSaid, TextReady,
           PasteSkipped, SchedulePaste, PasteNotQueued, PipelinePanics,
           MainThreadDrops, MainThreadPastes, PasteEnds, pipeRest
  <1>6. ASSUME NEW c \in Cancellers, Cancel(c) PROVE Control'
    BY <1>2, <1>6
       DEF Cancel, CancelBegins, CancelRecording, DiscardRecording, ClearIntents,
           HideUi, LoadGeneration, StoreCancelled, NotifyCancel, kRest
  <1> QED BY <1>1, <1>3, <1>4, <1>5, <1>6 DEF Next

---------------------------------------------------------------------------
(* One pipeline                                                            *)

\* A step of a pipeline keeps it alive and the channel as it was, or ends it
\* and posts its ProcessingFinished.
LEMMA PipelineStep ==
    ASSUME TypeOK, NEW g \in Gens, Pipeline(g) \/ MainThread(g)
    PROVE  /\ g \in Live
           /\ \A h \in Gens \ {g} : run'[h].pc = run[h].pc
           /\ \/ run'[g].pc \in LivePC /\ chan' = chan
              \/ run'[g].pc \in DonePC /\ chan' = Append(chan, Finished)
           /\ UNCHANGED <<stage, cpc, generation>>
  <1> USE DEF coordVars, recVars, intentVars, pipeRest, Live, LivePC, DonePC,
              Finish
  <1>1. \A pc \in LivePC \cup DonePC : Goto(g, pc) =>
          run'[g].pc = pc /\ \A h \in Gens \ {g} : run'[h].pc = run[h].pc
    BY GotoType DEF TypeOK
  <1>2. CASE StopRecording(g)
    BY <1>1, <1>2 DEF StopRecording
  <1>3. CASE DrainRecorder(g)
    BY <1>1, <1>3 DEF DrainRecorder
  <1>4. CASE DiscardCancelled(g)
    BY <1>1, <1>4 DEF DiscardCancelled
  <1>5. CASE BeginTranscription(g) \/ TextReady(g)
    BY <1>1, <1>5 DEF BeginTranscription, TextReady
  <1>6. CASE TranscriptionFailed(g) \/ NothingSaid(g)
    BY <1>1, <1>6 DEF TranscriptionFailed, NothingSaid
  <1>7. CASE PasteSkipped(g) \/ SchedulePaste(g) \/ PasteNotQueued(g)
    BY <1>1, <1>7 DEF PasteSkipped, SchedulePaste, PasteNotQueued
  <1>8. CASE PipelinePanics(g)
    BY <1>1, <1>8 DEF PipelinePanics
  <1>9. CASE MainThreadDrops(g) \/ MainThreadPastes(g)
    BY <1>1, <1>9 DEF MainThreadDrops, MainThreadPastes
  <1>10. CASE PasteEnds(g)
    BY <1>1, <1>10 DEF PasteEnds
  <1> QED BY <1>2, <1>3, <1>4, <1>5, <1>6, <1>7, <1>8, <1>9, <1>10
          DEF Pipeline, MainThread

\* Posting anything but a ProcessingFinished leaves the count alone.
LEMMA OnePipelinePost ==
    ASSUME TypeOK, OnePipeline, NEW x \in Command, x # Finished,
           chan' = Append(chan, x), UNCHANGED <<stage, run>>
    PROVE  OnePipeline'
  <1>1. QueuedFinished' = QueuedFinished
    BY AppendOther DEF QueuedFinished, TypeOK
  <1>2. Live' = Live
    BY DEF Live
  <1> QED BY <1>1, <1>2 DEF OnePipeline

\* So does taking away another command, as long as the stage moves only
\* between Idle and the bindings.
LEMMA OnePipelineReceive ==
    ASSUME TypeOK, OnePipeline, chan # <<>>, Head(chan) # Finished,
           chan' = Tail(chan), UNCHANGED run,
           stage' = stage \/ (stage # "Processing" /\ stage' # "Processing")
    PROVE  OnePipeline'
  <1>1. Live' = Live
    BY DEF Live
  <1>2. /\ \A i \in QueuedFinished' : i + 1 \in QueuedFinished
        /\ \A i \in QueuedFinished : i - 1 \in QueuedFinished'
    BY TailOther DEF QueuedFinished, TypeOK
  <1>3. QueuedFinished' \subseteq Int
    BY DEF QueuedFinished, FinishedIn, TypeOK
  <1> QED BY <1>1, <1>2, <1>3 DEF OnePipeline

LEMMA OnePipelineStep ==
    TypeOK /\ Control /\ OnePipeline /\ [Next]_vars => OnePipeline'
  <1> SUFFICES ASSUME TypeOK, Control, OnePipeline, [Next]_vars
               PROVE  OnePipeline'
    OBVIOUS
  <1> USE DEF coordVars, recVars, intentVars, genVars, kVars
  <1>0. ASSUME UNCHANGED <<chan, run>>,
               stage' = stage \/ (stage # "Processing" /\ stage' # "Processing")
        PROVE  OnePipeline'
    BY <1>0 DEF OnePipeline, Live, QueuedFinished
  <1>1. CASE SendInput
    <2>1. PICK i \in Inputs : chan' = Append(chan, [kind |-> "input", input |-> i])
      BY <1>1 DEF SendInput
    <2>2. [kind |-> "input", input |-> i] \in InputCmd
      BY DEF InputCmd
    <2> QED BY <1>1, <2>1, <2>2, CommandKinds, OnePipelinePost DEF SendInput
  <1>2. ASSUME NEW i \in Inputs,
               IgnoreInput(i) \/ StartAction(i) \/ StartRewriteDisabled(i)
                              \/ StopAction(i)
        PROVE  OnePipeline'
    <2>1. Head(chan) # Finished
      BY <1>2, CommandKinds
         DEF IgnoreInput, StartAction, StartRewriteDisabled, StopAction, Receive,
             InputCmd
    <2> QED BY <1>2, <2>1, OnePipelineReceive
            DEF IgnoreInput, StartAction, StartRewriteDisabled, StopAction, Receive
  <1>3. CASE OpenStream \/ BeginRecording \/ StartSucceeded \/ StartFailed
    BY <1>0, <1>3 DEF OpenStream, BeginRecording, StartSucceeded, StartFailed
  <1>4. CASE CheckRecording
    <2>1. stage # "Processing" /\ cbinding # "Processing"
      BY <1>4, ConstantsAssumption DEF CheckRecording, Control
    <2> QED BY <1>0, <1>4, <2>1 DEF CheckRecording
  <1>5. CASE SpawnPipeline
    \* The only place a pipeline is born: in a handler, so beside no other.
    <2>1. Live = {} /\ QueuedFinished = {}
      BY <1>5, ConstantsAssumption DEF SpawnPipeline, Control, OnePipeline
    <2>2. generation + 1 \in Gens
      BY <1>5, ConstantsAssumption DEF SpawnPipeline, Control, TypeOK, Gens
    <2>3. Live' = {generation + 1}
      BY <1>5, <2>1, <2>2 DEF SpawnPipeline, Live, LivePC, TypeOK
    <2>4. QueuedFinished' = {} /\ stage' = "Processing"
      BY <1>5, <2>1 DEF SpawnPipeline, QueuedFinished
    <2> QED BY <2>3, <2>4 DEF OnePipeline
  <1>6. CASE ReceiveCancel
    BY <1>6, CommandKinds, OnePipelineReceive DEF ReceiveCancel, AfterCancel
  <1>7. CASE ReceiveFinished
    \* The only place the stage leaves Processing: its one message is gone.
    <2>1. QueuedFinished # {}
      BY <1>7 DEF ReceiveFinished, QueuedFinished, FinishedIn, TypeOK
    <2>2. QueuedFinished' = {}
      BY <1>7, TailFinished DEF ReceiveFinished, QueuedFinished, OnePipeline, TypeOK
    <2>3. Live' = {}
      BY <1>7, <2>1 DEF ReceiveFinished, OnePipeline, Live
    <2> QED BY <1>7, <2>2, <2>3 DEF ReceiveFinished, OnePipeline
  <1>8. ASSUME NEW g \in Gens, Pipeline(g) \/ MainThread(g) PROVE OnePipeline'
    <2>1. Live = {g} /\ QueuedFinished = {} /\ stage = "Processing"
      BY <1>8, PipelineStep DEF OnePipeline
    <2>2. CASE run'[g].pc \in LivePC /\ chan' = chan
      <3>1. Live' = {g}
        BY <1>8, <2>1, <2>2, PipelineStep DEF Live
      <3> QED BY <1>8, <2>1, <2>2, <3>1, PipelineStep
              DEF OnePipeline, QueuedFinished
    <2>3. CASE run'[g].pc \in DonePC /\ chan' = Append(chan, Finished)
      <3>1. run'[g].pc \notin LivePC
        BY <2>3 DEF LivePC, DonePC
      <3>2. Live' = {}
        BY <1>8, <2>1, <3>1, PipelineStep DEF Live
      <3>3. QueuedFinished' = {Len(chan) + 1}
        BY <2>1, <2>3, AppendFinished DEF QueuedFinished, TypeOK
      <3> QED BY <1>8, <2>1, <3>2, <3>3, PipelineStep DEF OnePipeline
    <2> QED BY <1>8, <2>2, <2>3, PipelineStep
  <1>9. CASE Probe
    BY <1>0, <1>9 DEF Probe, ProbeAnswers, ProbeFails
  <1>10. ASSUME NEW c \in Cancellers, Cancel(c) PROVE OnePipeline'
    <2> USE DEF kRest
    <2>1. CASE NotifyCancel(c)
      <3>1. [kind |-> "cancel", active |-> kactive[c]] \in CancelCmd
        BY DEF CancelCmd, TypeOK
      <3> QED BY <2>1, <3>1, CommandKinds, OnePipelinePost DEF NotifyCancel
    <2>2. CASE ~NotifyCancel(c)
      BY <1>0, <1>10, <2>2
         DEF Cancel, CancelBegins, CancelRecording, DiscardRecording,
             ClearIntents, HideUi, LoadGeneration, StoreCancelled
    <2> QED BY <2>1, <2>2
  <1>11. CASE UNCHANGED vars
    BY <1>0, <1>11 DEF vars
  <1> QED BY <1>1, <1>2, <1>3, <1>4, <1>5, <1>6, <1>7, <1>8, <1>9, <1>10, <1>11
          DEF Next, Coordinator

---------------------------------------------------------------------------
(* The recorder under a paste                                              *)

\* While no other pipeline lives, a pipeline's own step keeps its knowledge
\* of the recorder; every other thread can only switch the recorder off,
\* except a coordinator in a handler, and then no pipeline lives.
LEMMA RecorderReleasedStep == IInv /\ [Next]_vars => RecorderReleased'
  <1> SUFFICES ASSUME IInv, [Next]_vars PROVE RecorderReleased'
    OBVIOUS
  <1> USE DEF IInv, coordVars, recVars, intentVars, genVars, kVars
  <1>0. ASSUME UNCHANGED run, recState' \in {recState, "None"},
               isRecording' \in {isRecording, FALSE}
        PROVE  RecorderReleased'
    BY <1>0 DEF RecorderReleased
  <1>1. CASE BeginRecording
    <2>1. Live = {}
      BY <1>1 DEF BeginRecording, Control, OnePipeline
    <2>2. \A h \in Gens : run'[h].pc \notin Captured \cup {"drain"}
      BY <1>1, <2>1 DEF BeginRecording, Live, LivePC, Captured
    <2> QED BY <2>2 DEF RecorderReleased
  <1>2. CASE SpawnPipeline
    <2>1. \A h \in Gens : run'[h].pc = "stop" \/ run'[h].pc = run[h].pc
      BY <1>2 DEF SpawnPipeline, TypeOK
    <2> QED BY <1>2, <2>1 DEF SpawnPipeline, RecorderReleased, Captured
  <1>3. ASSUME NEW i \in Inputs,
               IgnoreInput(i) \/ StartAction(i) \/ StartRewriteDisabled(i)
                              \/ StopAction(i)
        PROVE  RecorderReleased'
    BY <1>0, <1>3
       DEF IgnoreInput, StartAction, StartRewriteDisabled, StopAction
  <1>4. CASE OpenStream \/ StartSucceeded \/ StartFailed \/ CheckRecording
             \/ ReceiveCancel \/ ReceiveFinished
    BY <1>0, <1>4
       DEF OpenStream, StartSucceeded, StartFailed, CheckRecording,
           ReceiveCancel, ReceiveFinished
  <1>5. CASE SendInput \/ Probe \/ UNCHANGED vars
    BY <1>0, <1>5 DEF SendInput, Probe, ProbeAnswers, ProbeFails, vars
  <1>6. ASSUME NEW c \in Cancellers, Cancel(c) PROVE RecorderReleased'
    BY <1>0, <1>6
       DEF Cancel, CancelBegins, CancelRecording, DiscardRecording, ClearIntents,
           HideUi, LoadGeneration, StoreCancelled, NotifyCancel, kRest
  <1>7. ASSUME NEW g \in Gens, Pipeline(g) \/ MainThread(g)
        PROVE  RecorderReleased'
    <2>1. \A h \in Gens \ {g} : run'[h].pc \notin Captured \cup {"drain"}
      BY <1>7, PipelineStep DEF OnePipeline, Live, LivePC, Captured
    <2>2. \A pc \in LivePC \cup DonePC : Goto(g, pc) => run'[g].pc = pc
      BY <1>7, GotoType DEF TypeOK
    <2> USE <1>7, <2>2 DEF Captured, LivePC, DonePC, RecorderReleased, Finish
    <2> DEFINE Own == /\ run'[g].pc \in Captured \cup {"drain"} =>
                           recState' = "None"
                      /\ run'[g].pc \in Captured => ~isRecording'
    <2>3. Own
      <3>1. CASE StopRecording(g)
        BY <3>1 DEF StopRecording
      <3>2. CASE DrainRecorder(g)
        BY <3>2 DEF DrainRecorder
      <3>3. CASE DiscardCancelled(g) \/ PipelinePanics(g)
        BY <3>3 DEF DiscardCancelled, PipelinePanics
      <3>4. CASE BeginTranscription(g) \/ TextReady(g)
        BY <3>4 DEF BeginTranscription, TextReady
      <3>5. CASE TranscriptionFailed(g) \/ NothingSaid(g)
        BY <3>5 DEF TranscriptionFailed, NothingSaid
      <3>6. CASE PasteSkipped(g) \/ SchedulePaste(g) \/ PasteNotQueued(g)
        BY <3>6 DEF PasteSkipped, SchedulePaste, PasteNotQueued
      <3>7. CASE MainThread(g)
        BY <3>7 DEF MainThread, MainThreadDrops, MainThreadPastes, PasteEnds
      <3> QED BY <3>1, <3>2, <3>3, <3>4, <3>5, <3>6, <3>7 DEF Pipeline
    <2> QED BY <2>1, <2>3
  <1> QED BY <1>1, <1>2, <1>3, <1>4, <1>5, <1>6, <1>7 DEF Next, Coordinator

---------------------------------------------------------------------------
(* Fresh generations                                                       *)

LEMMA UnbornStep == IInv /\ [Next]_vars => Unborn'
  <1> SUFFICES ASSUME IInv, [Next]_vars PROVE Unborn'
    OBVIOUS
  <1> USE DEF IInv, Unborn, coordVars, recVars, intentVars, genVars, kVars
  <1>0. ASSUME UNCHANGED <<generation, run>> PROVE Unborn'
    BY <1>0
  <1>1. CASE SpawnPipeline
    BY <1>1 DEF SpawnPipeline, TypeOK, Gens
  <1>2. ASSUME NEW g \in Gens, Pipeline(g) \/ MainThread(g) PROVE Unborn'
    <2>1. run[g].pc # "none"
      BY <1>2, PipelineStep DEF Live, LivePC
    <2> QED BY <1>2, <2>1, PipelineStep
  <1>3. ASSUME NEW i \in Inputs,
               IgnoreInput(i) \/ StartAction(i) \/ StartRewriteDisabled(i)
                              \/ StopAction(i)
        PROVE  Unborn'
    BY <1>0, <1>3
       DEF IgnoreInput, StartAction, StartRewriteDisabled, StopAction
  <1>4. CASE OpenStream \/ BeginRecording \/ StartSucceeded \/ StartFailed
             \/ CheckRecording \/ ReceiveCancel \/ ReceiveFinished
    BY <1>0, <1>4
       DEF OpenStream, BeginRecording, StartSucceeded, StartFailed,
           CheckRecording, ReceiveCancel, ReceiveFinished
  <1>5. CASE SendInput \/ Probe \/ UNCHANGED vars
    BY <1>0, <1>5 DEF SendInput, Probe, ProbeAnswers, ProbeFails, vars
  <1>6. ASSUME NEW c \in Cancellers, Cancel(c) PROVE Unborn'
    BY <1>0, <1>6
       DEF Cancel, CancelBegins, CancelRecording, DiscardRecording, ClearIntents,
           HideUi, LoadGeneration, StoreCancelled, NotifyCancel, kRest
  <1> QED BY <1>1, <1>2, <1>3, <1>4, <1>5, <1>6 DEF Next, Coordinator

---------------------------------------------------------------------------
(* Theorems                                                                *)

LEMMA InductiveInit == Init => IInv
  <1> SUFFICES ASSUME Init PROVE IInv
    OBVIOUS
  <1>1. Control
    BY DEF Init, Control
  <1>2. \A g \in Gens : run[g].pc = "none"
    BY DEF Init, NoRun
  <1>3. Live = {} /\ QueuedFinished = {}
    BY <1>2 DEF Init, Live, LivePC, QueuedFinished, FinishedIn
  <1>4. OnePipeline
    BY <1>3 DEF Init, OnePipeline
  <1>5. RecorderReleased
    BY <1>2 DEF RecorderReleased, Captured
  <1> QED BY <1>1, <1>2, <1>4, <1>5, TypeInit DEF IInv, Unborn

\* The invariant the other theorems are read off.
THEOREM InductiveInvariant == Spec => []IInv
  <1>1. Init => IInv
    BY InductiveInit
  <1>2. IInv /\ [Next]_vars => IInv'
    BY TypeStep, ControlStep, OnePipelineStep, RecorderReleasedStep,
       UnbornStep DEF IInv
  <1> QED BY <1>1, <1>2, PTL DEF Spec

\* Every variable keeps its type, in particular no run is spawned beyond the
\* generations there are.
THEOREM TypeCorrect == Spec => []TypeOK
  <1>1. IInv => TypeOK
    BY DEF IInv
  <1> QED BY <1>1, InductiveInvariant, PTL

\* Processing means exactly one pipeline, or its one ProcessingFinished.
THEOREM OnePipelineAlways == Spec => []OnePipeline
  <1>1. IInv => OnePipeline
    BY DEF IInv
  <1> QED BY <1>1, InductiveInvariant, PTL

\* From queueing a paste to its end no recording runs or starts, for any
\* number of keys and cancellers.
THEOREM PasteUndisturbedAlways == Spec => []PasteUndisturbed
  <1>1. IInv => PasteUndisturbed
    <2> SUFFICES ASSUME IInv, NEW g \in Gens, run[g].pc \in {"scheduled", "pasting"}
                 PROVE  recState = "None" /\ ~isRecording /\ cpc = "recv"
      BY DEF PasteUndisturbed
    <2>1. g \in Live
      BY DEF Live, LivePC
    <2>2. stage = "Processing"
      BY <2>1 DEF IInv, OnePipeline
    <2> QED BY <2>2, ConstantsAssumption
            DEF IInv, TypeOK, Control, RecorderReleased, Captured
  <1> QED BY <1>1, InductiveInvariant, PTL


---------------------------------------------------------------------------
(* What nobody's cancel has disturbed                                      *)

\* Run ids start at 1, and a selection belongs to the run beside it: in the
\* registered intents, in the one a stop took, and in every pipeline.
Owned ==
    /\ nextRun # 0
    /\ \A b \in Bindings : intents[b].sel \in {0, intents[b].run}
    /\ cintent.sel \in {0, cintent.run}
    /\ \A g \in Gens :
          /\ run[g].intent.sel \in {0, run[g].intent.run}
          /\ run[g].pc = "pasted" /\ run[g].intent.rewrite =>
                run[g].intent.sel # 0

\* With one canceller, the generation it has stored is the cancelled one.
OneCanceller == \A c, d \in Cancellers : c = d
Marked ==
    \A c \in Cancellers : kpc[c] \in {"notify", "done"} => cancelled = kgen[c]

Quiet           == recState = "None" /\ ~isRecording
RecordingFor(b) == recState = b /\ isRecording
Registered(b)   == intents[b].run # 0
Resolved(b, i)  == b \in Probing => i.rewrite \/ i.resolved

\* At each place of the coordinator, what the recorder, the intents and the
\* UI are.
CalmCoordinator ==
    /\ cpc = "recv" /\ stage = "Idle" => Quiet /\ ui = "Idle"
    /\ cpc = "recv" /\ stage \in Bindings =>
          RecordingFor(stage) /\ Registered(stage)
    /\ cpc \in {"open", "begin", "failed"} => Quiet
    /\ cpc \in {"open", "begin"} => Registered(cbinding)
    /\ cpc = "started" => RecordingFor(cbinding) /\ Registered(cbinding)
    /\ cpc = "check" => \/ Quiet /\ ui = "Idle"
                        \/ RecordingFor(cbinding) /\ Registered(cbinding)
    /\ cpc = "stopping" =>
          RecordingFor(cbinding) /\ Resolved(cbinding, cintent)

CalmPipelines ==
    /\ QueuedFinished # {} => Quiet /\ ui = "Idle"
    /\ \A g \in Gens :
          /\ run[g].pc = "stop" => RecordingFor(run[g].binding)
          /\ run[g].pc # "none" => Resolved(run[g].binding, run[g].intent)

NoCancel == cancelled = 0 /\ \A i \in DOMAIN chan : chan[i] \notin CancelCmd

Calm == Untouched => NoCancel /\ CalmCoordinator /\ CalmPipelines

\* Commands that stay in the channel, or are joined by others, stay pending.
LEMMA PendingStays ==
    ASSUME NEW s \in Seq(Command), NEW x \in Command,
           NEW i \in DOMAIN s, s[i] \in CancelCmd
    PROVE  /\ \E j \in DOMAIN Append(s, x) : Append(s, x)[j] \in CancelCmd
           /\ s # <<>> /\ Head(s) \notin CancelCmd =>
                 \E j \in DOMAIN Tail(s) : Tail(s)[j] \in CancelCmd
  <1>1. i \in DOMAIN Append(s, x) /\ Append(s, x)[i] = s[i]
    OBVIOUS
  <1>2. ASSUME s # <<>>, Head(s) \notin CancelCmd
        PROVE  i - 1 \in DOMAIN Tail(s) /\ Tail(s)[i - 1] = s[i]
    <2>1. Head(s) = s[1] /\ i # 1
      BY <1>2
    <2> QED  BY <1>2, <2>1
  <1> QED  BY <1>1, <1>2

LEMMA NoCancelStays ==
    ASSUME NEW s \in Seq(Command), NEW x \in Command, x \notin CancelCmd,
           \A i \in DOMAIN s : s[i] \notin CancelCmd
    PROVE  /\ \A i \in DOMAIN Append(s, x) : Append(s, x)[i] \notin CancelCmd
           /\ s # <<>> => \A i \in DOMAIN Tail(s) : Tail(s)[i] \notin CancelCmd
  <1>1. \A i \in DOMAIN Append(s, x) :
           IF i = Len(s) + 1 THEN Append(s, x)[i] = x
                             ELSE i \in DOMAIN s /\ Append(s, x)[i] = s[i]
    OBVIOUS
  <1>2. s # <<>> => \A i \in DOMAIN Tail(s) :
                       i + 1 \in DOMAIN s /\ Tail(s)[i] = s[i + 1]
    OBVIOUS
  <1> QED  BY <1>1, <1>2

---------------------------------------------------------------------------
(* A recording the coordinator believes in                                 *)

\* What leaves the coordinator and the recorder alone and takes no cancel away.
LEMMA TrackedQuietly ==
    ASSUME TypeOK, StageTracksRecorder, UNCHANGED <<stage, cpc, isRecording, kpc>>,
           \/ chan' = chan
           \/ \E x \in Command : chan' = Append(chan, x)
           \/ chan # <<>> /\ Head(chan) \notin CancelCmd /\ chan' = Tail(chan)
    PROVE  StageTracksRecorder'
  <1>1. ASSUME NEW i \in DOMAIN chan, chan[i] \in CancelCmd
        PROVE  \E j \in DOMAIN chan' : chan'[j] \in CancelCmd
    BY <1>1, PendingStays, CommandKinds DEF TypeOK
  <1>2. CancelPending => CancelPending'
    BY <1>1 DEF CancelPending
  <1> QED  BY <1>2 DEF StageTracksRecorder

LEMMA TrackedStep == IInv /\ StageTracksRecorder /\ [Next]_vars => StageTracksRecorder'
  <1> SUFFICES ASSUME IInv, StageTracksRecorder, [Next]_vars
               PROVE  StageTracksRecorder'
    OBVIOUS
  <1> USE DEF coordVars, recVars, intentVars, genVars, kVars
  <1>0. TypeOK /\ Control /\ OnePipeline
    BY DEF IInv
  <1>1. CASE SendInput
    <2>1. PICK i \in Inputs : chan' = Append(chan, [kind |-> "input", input |-> i])
      BY <1>1 DEF SendInput
    <2>2. [kind |-> "input", input |-> i] \in Command
      BY DEF InputCmd, Command
    <2> QED  BY <1>0, <1>1, <2>1, <2>2, TrackedQuietly DEF SendInput
  <1>2. ASSUME NEW i \in Inputs, IgnoreInput(i) PROVE StageTracksRecorder'
    <2>1. Head(chan) \notin CancelCmd
      BY <1>2, CommandKinds DEF IgnoreInput, Receive, InputCmd
    <2> QED  BY <1>0, <1>2, <2>1, TrackedQuietly DEF IgnoreInput, Receive
  <1>3. ASSUME NEW i \in Inputs,
               StartAction(i) \/ StartRewriteDisabled(i) \/ StopAction(i)
        PROVE  StageTracksRecorder'
    BY <1>3 DEF StartAction, StartRewriteDisabled, StopAction, StageTracksRecorder
  <1>4. CASE OpenStream \/ BeginRecording \/ StartSucceeded \/ StartFailed
    BY <1>4 DEF OpenStream, BeginRecording, StartSucceeded, StartFailed,
                StageTracksRecorder
  <1>5. CASE CheckRecording
    <2>1. isRecording \/ stage' = "Idle"
      BY <1>0, <1>5 DEF CheckRecording, Control
    <2> QED  BY <1>5, <2>1, ConstantsAssumption
             DEF CheckRecording, StageTracksRecorder
  <1>6. CASE SpawnPipeline \/ ReceiveFinished
    BY <1>6, ConstantsAssumption
       DEF SpawnPipeline, ReceiveFinished, StageTracksRecorder
  <1>7. CASE ReceiveCancel
    <2>1. stage' \in {"Idle", "Processing"}
      BY <1>7 DEF ReceiveCancel, AfterCancel
    <2> QED  BY <2>1, ConstantsAssumption DEF StageTracksRecorder
  <1>8. CASE Probe \/ UNCHANGED vars
    BY <1>0, <1>8, TrackedQuietly DEF Probe, ProbeAnswers, ProbeFails, vars
  <1>9. ASSUME NEW g \in Gens, Pipeline(g) \/ MainThread(g)
        PROVE  StageTracksRecorder'
    <2>1. stage' = "Processing"
      BY <1>0, <1>9, PipelineStep DEF OnePipeline
    <2> QED  BY <2>1, ConstantsAssumption DEF StageTracksRecorder
  <1>10. ASSUME NEW c \in Cancellers, Cancel(c) PROVE StageTracksRecorder'
    <2>1. CASE NotifyCancel(c)
      <3>1. /\ chan' = Append(chan, [kind |-> "cancel", active |-> kactive[c]])
            /\ [kind |-> "cancel", active |-> kactive[c]] \in CancelCmd
            /\ chan \in Seq(Command)
        BY <1>0, <2>1 DEF NotifyCancel, TypeOK, CancelCmd
      <3>2. /\ Len(chan) + 1 \in DOMAIN chan'
            /\ chan'[Len(chan) + 1] \in CancelCmd
        BY <3>1, CommandKinds
      <3> QED  BY <3>2 DEF StageTracksRecorder, CancelPending
    <2>2. CASE ~NotifyCancel(c)
      <3>1. kpc'[c] \notin {"off", "done"}
        BY <1>0, <1>10, <2>2
           DEF Cancel, CancelBegins, CancelRecording, DiscardRecording,
               ClearIntents, HideUi, LoadGeneration, StoreCancelled, KGoto, TypeOK
      <3> QED  BY <3>1 DEF StageTracksRecorder, CancelPending
    <2> QED  BY <2>1, <2>2
  <1> QED BY <1>1, <1>2, <1>3, <1>4, <1>5, <1>6, <1>7, <1>8, <1>9, <1>10
          DEF Next, Coordinator

---------------------------------------------------------------------------
(* Whose selection                                                         *)

\* A pipeline's step leaves the binding and the intent of every run alone.
LEMMA RunsKeep ==
    ASSUME TypeOK, NEW g \in Gens, Pipeline(g) \/ MainThread(g)
    PROVE  \A h \in Gens : /\ run'[h].intent = run[h].intent
                           /\ run'[h].binding = run[h].binding
  <1>1. \E pc \in LivePC \cup DonePC : Goto(g, pc)
    BY DEF Pipeline, MainThread, StopRecording, DrainRecorder, DiscardCancelled,
           BeginTranscription, TranscriptionFailed, NothingSaid, TextReady,
           PasteSkipped, SchedulePaste, PasteNotQueued, PipelinePanics,
           MainThreadDrops, MainThreadPastes, PasteEnds, Finish, LivePC, DonePC
  <1> QED  BY <1>1 DEF Goto, TypeOK, Run

LEMMA OwnedStep == IInv /\ Owned /\ [Next]_vars => Owned'
  <1> SUFFICES ASSUME IInv, Owned, [Next]_vars PROVE Owned'
    OBVIOUS
  <1> USE DEF coordVars, recVars, intentVars, genVars, kVars
  <1>0. TypeOK
    BY DEF IInv
  <1>1. ASSUME UNCHANGED <<nextRun, intents, cintent, run>> PROVE Owned'
    BY <1>1 DEF Owned
  <1>2. ASSUME NEW i \in Inputs, StartAction(i) PROVE Owned'
    <2> DEFINE e == [run |-> nextRun, rewrite |-> i.binding \in Rewriting,
                     sel |-> 0, pending |-> i.binding \in Probing]
    <2>1. /\ nextRun' = nextRun + 1 /\ UNCHANGED <<cintent, run>>
          /\ intents' = [intents EXCEPT ![i.binding] = e] /\ e.sel = 0
      BY <1>2 DEF StartAction
    <2> HIDE DEF e
    <2>2. \A b \in Bindings : intents'[b] = intents[b] \/ intents'[b] = e
      BY <1>0, <2>1 DEF TypeOK
    <2> QED  BY <1>0, <2>1, <2>2 DEF Owned, TypeOK, RunIds
  <1>3. ASSUME NEW i \in Inputs, StopAction(i) PROVE Owned'
    <2>1. i.binding \in Bindings
      BY ConstantsAssumption
    <2>2. cintent'.sel \in {0, cintent'.run}
      BY <1>3, <2>1 DEF StopAction, TakeIntent, Owned
    <2>3. \A b \in Bindings : intents'[b] = intents[b] \/ intents'[b] = NoIntent
      BY <1>0, <1>3 DEF StopAction, TypeOK
    <2> QED  BY <1>3, <2>2, <2>3 DEF StopAction, Owned, NoIntent
  <1>4. CASE StartFailed
    <2>1. \A b \in Bindings : intents'[b] = intents[b] \/ intents'[b] = NoIntent
      BY <1>0, <1>4 DEF StartFailed, TypeOK
    <2> QED  BY <1>4, <2>1 DEF StartFailed, Owned, NoIntent
  <1>5. CASE SpawnPipeline
    <2> DEFINE r == [pc |-> "stop", binding |-> cbinding, intent |-> cintent]
    <2>1. run' = [run EXCEPT ![generation + 1] = r] /\ cintent' = NoTaken
          /\ UNCHANGED <<nextRun, intents>>
      BY <1>5 DEF SpawnPipeline
    <2>2. r.pc = "stop" /\ r.intent = cintent
      OBVIOUS
    <2> HIDE DEF r
    <2>3. \A g \in Gens : run'[g] = run[g] \/ run'[g] = r
      BY <1>0, <2>1 DEF TypeOK
    <2> QED  BY <2>1, <2>2, <2>3 DEF Owned, NoTaken
  <1>6. CASE Probe
    <2>1. PICK p \in probes : ProbeAnswers(p) \/ ProbeFails(p)
      BY <1>6 DEF Probe
    <2>2. CASE ProbeFails(p)
      BY <1>1, <2>2 DEF ProbeFails
    <2>3. CASE ProbeAnswers(p)
      <3>1. PICK a \in Answers(p) :
               intents' = IF Accepts(p) THEN [intents EXCEPT ![p[1]] = a]
                                        ELSE intents
        BY <2>3 DEF ProbeAnswers
      <3>2. p[1] \in Bindings /\ intents[p[1]] \in Intent
        BY <1>0, ConstantsAssumption DEF TypeOK
      <3>3. Accepts(p) => a.sel \in {0, a.run}
        <4>1. CASE a = [intents[p[1]] EXCEPT !.pending = FALSE]
          BY <3>2, <4>1 DEF Owned, Intent
        <4>2. CASE a = [run |-> intents[p[1]].run, rewrite |-> TRUE,
                        sel |-> p[2], pending |-> FALSE]
          BY <4>2 DEF Accepts
        <4> QED  BY <4>1, <4>2 DEF Answers
      <3>4. \A b \in Bindings :
               intents'[b] = intents[b] \/ (intents'[b] = a /\ Accepts(p))
        BY <1>0, <3>1 DEF TypeOK
      <3> QED  BY <2>3, <3>3, <3>4 DEF ProbeAnswers, Owned
    <2> QED  BY <2>1, <2>2, <2>3
  <1>7. ASSUME NEW g \in Gens, Pipeline(g) \/ MainThread(g) PROVE Owned'
    <2>1. /\ \A h \in Gens : run'[h].intent = run[h].intent
          /\ \A h \in Gens \ {g} : run'[h].pc = run[h].pc
      BY <1>0, <1>7, RunsKeep, PipelineStep
    <2>2. UNCHANGED <<nextRun, intents, cintent>>
      BY <1>7 DEF Pipeline, MainThread, StopRecording, DrainRecorder,
           DiscardCancelled, BeginTranscription, TranscriptionFailed, NothingSaid,
           TextReady, PasteSkipped, SchedulePaste, PasteNotQueued, PipelinePanics,
           MainThreadDrops, MainThreadPastes, PasteEnds, pipeRest
    <2>3. run'[g].pc = "pasted" /\ run[g].intent.rewrite => run[g].intent.sel # 0
      <3>1. \A pc \in LivePC \cup DonePC : Goto(g, pc) => run'[g].pc = pc
        BY <1>0, GotoType DEF TypeOK
      <3>2. CASE PasteEnds(g)
        BY <3>1, <3>2 DEF PasteEnds, Finish, LivePC, DonePC
      <3>3. CASE ~PasteEnds(g)
        <4>1. run'[g].pc # "pasted"
          BY <1>7, <3>1, <3>3
             DEF Pipeline, MainThread, StopRecording, DrainRecorder,
                 DiscardCancelled, BeginTranscription, TranscriptionFailed,
                 NothingSaid, TextReady, PasteSkipped, SchedulePaste,
                 PasteNotQueued, PipelinePanics, MainThreadDrops,
                 MainThreadPastes, Finish, LivePC, DonePC
        <4> QED  BY <4>1
      <3> QED  BY <3>2, <3>3
    <2> QED  BY <2>1, <2>2, <2>3 DEF Owned
  <1>8. ASSUME NEW c \in Cancellers, Cancel(c) PROVE Owned'
    <2>1. CASE ClearIntents(c)
      BY <2>1 DEF ClearIntents, kRest, Owned, NoIntent
    <2>2. CASE ~ClearIntents(c)
      BY <1>1, <1>8, <2>2
         DEF Cancel, CancelBegins, CancelRecording, DiscardRecording,
             HideUi, LoadGeneration, StoreCancelled, NotifyCancel, kRest
    <2> QED  BY <2>1, <2>2
  <1>9. ASSUME NEW i \in Inputs, IgnoreInput(i) \/ StartRewriteDisabled(i)
        PROVE  Owned'
    BY <1>1, <1>9 DEF IgnoreInput, StartRewriteDisabled
  <1>10. CASE OpenStream \/ BeginRecording \/ StartSucceeded \/ CheckRecording
              \/ ReceiveCancel \/ ReceiveFinished \/ SendInput \/ UNCHANGED vars
    BY <1>1, <1>10 DEF OpenStream, BeginRecording, StartSucceeded, CheckRecording,
                       ReceiveCancel, ReceiveFinished, SendInput, vars
  <1> QED BY <1>2, <1>3, <1>4, <1>5, <1>6, <1>7, <1>8, <1>9, <1>10
          DEF Next, Coordinator

---------------------------------------------------------------------------
(* Marked runs                                                             *)

\* Only the canceller moves the mark or its place, and the second time it
\* does, the mark is its own.
LEMMA MarkedStep ==
    ASSUME OneCanceller, IInv, Marked, [Next]_vars
    PROVE  Marked'
  <1> USE DEF coordVars, recVars, intentVars, genVars, kVars
  <1>0. TypeOK
    BY DEF IInv
  <1>1. ASSUME UNCHANGED <<kpc, kgen, cancelled>> PROVE Marked'
    BY <1>1 DEF Marked
  <1>2. ASSUME NEW c \in Cancellers, Cancel(c) PROVE Marked'
    <2>1. \A d \in Cancellers : d = c
      BY DEF OneCanceller
    <2>2. CASE StoreCancelled(c)
      BY <2>1, <2>2 DEF StoreCancelled, Marked
    <2>3. CASE NotifyCancel(c)
      BY <1>0, <2>1, <2>3 DEF NotifyCancel, Marked, kRest
    <2>4. CASE ~StoreCancelled(c) /\ ~NotifyCancel(c)
      <3>1. kpc'[c] \notin {"notify", "done"}
        BY <1>0, <1>2, <2>4
           DEF Cancel, CancelBegins, CancelRecording, DiscardRecording,
               ClearIntents, HideUi, LoadGeneration, KGoto, TypeOK
      <3> QED  BY <2>1, <3>1 DEF Marked
    <2> QED  BY <2>2, <2>3, <2>4
  <1>3. ASSUME NEW g \in Gens, Pipeline(g) \/ MainThread(g) PROVE Marked'
    BY <1>1, <1>3
       DEF Pipeline, MainThread, StopRecording, DrainRecorder, DiscardCancelled,
           BeginTranscription, TranscriptionFailed, NothingSaid, TextReady,
           PasteSkipped, SchedulePaste, PasteNotQueued, PipelinePanics,
           MainThreadDrops, MainThreadPastes, PasteEnds, pipeRest
  <1>4. ASSUME NEW i \in Inputs,
               IgnoreInput(i) \/ StartAction(i) \/ StartRewriteDisabled(i)
                              \/ StopAction(i)
        PROVE  Marked'
    BY <1>1, <1>4
       DEF IgnoreInput, StartAction, StartRewriteDisabled, StopAction
  <1>5. CASE OpenStream \/ BeginRecording \/ StartSucceeded \/ StartFailed
             \/ CheckRecording \/ SpawnPipeline \/ ReceiveCancel
             \/ ReceiveFinished
    BY <1>1, <1>5
       DEF OpenStream, BeginRecording, StartSucceeded, StartFailed,
           CheckRecording, SpawnPipeline, ReceiveCancel, ReceiveFinished
  <1>6. CASE SendInput \/ Probe \/ UNCHANGED vars
    BY <1>1, <1>6 DEF SendInput, Probe, ProbeAnswers, ProbeFails, vars
  <1> QED BY <1>2, <1>3, <1>4, <1>5, <1>6 DEF Next, Coordinator

\* A run begins to paste in MainThreadPastes, which looks at the mark.
LEMMA PastesUnmarked ==
    ASSUME IInv, [Next]_vars, NEW g \in Gens, run[g].pc # "pasting",
           run'[g].pc = "pasting"
    PROVE  ~IsCancelled(g)
  <1> USE DEF coordVars, recVars, intentVars, genVars, kVars
  <1>0. TypeOK
    BY DEF IInv
  <1>1. run' # run
    OBVIOUS
  <1>2. ASSUME NEW h \in Gens, Pipeline(h) \/ MainThread(h) PROVE ~IsCancelled(g)
    <2>1. g = h
      BY <1>0, <1>2, PipelineStep
    <2>2. \A pc \in LivePC \cup DonePC : Goto(g, pc) => pc = "pasting"
      BY <1>0, GotoType DEF TypeOK
    <2>3. MainThreadPastes(g)
      BY <1>2, <2>1, <2>2
         DEF Pipeline, MainThread, StopRecording, DrainRecorder, DiscardCancelled,
             BeginTranscription, TranscriptionFailed, NothingSaid, TextReady,
             PasteSkipped, SchedulePaste, PasteNotQueued, PipelinePanics,
             MainThreadDrops, PasteEnds, Finish, LivePC, DonePC
    <2> QED  BY <2>3 DEF MainThreadPastes
  <1>3. CASE SpawnPipeline
    <2> DEFINE r == [pc |-> "stop", binding |-> cbinding, intent |-> cintent]
    <2>1. run' = [run EXCEPT ![generation + 1] = r] /\ r.pc = "stop"
      BY <1>3 DEF SpawnPipeline
    <2> HIDE DEF r
    <2>2. run'[g] = run[g] \/ run'[g] = r
      BY <1>0, <2>1 DEF TypeOK
    <2> QED  BY <2>1, <2>2
  <1>4. ASSUME NEW i \in Inputs,
               IgnoreInput(i) \/ StartAction(i) \/ StartRewriteDisabled(i)
                              \/ StopAction(i)
        PROVE  ~IsCancelled(g)
    BY <1>1, <1>4
       DEF IgnoreInput, StartAction, StartRewriteDisabled, StopAction
  <1>5. CASE OpenStream \/ BeginRecording \/ StartSucceeded \/ StartFailed
             \/ CheckRecording \/ ReceiveCancel \/ ReceiveFinished
    BY <1>1, <1>5
       DEF OpenStream, BeginRecording, StartSucceeded, StartFailed,
           CheckRecording, ReceiveCancel, ReceiveFinished
  <1>6. CASE SendInput \/ Probe \/ UNCHANGED vars
    BY <1>1, <1>6 DEF SendInput, Probe, ProbeAnswers, ProbeFails, vars
  <1>7. ASSUME NEW c \in Cancellers, Cancel(c) PROVE ~IsCancelled(g)
    BY <1>1, <1>7
       DEF Cancel, CancelBegins, CancelRecording, DiscardRecording, ClearIntents,
           HideUi, LoadGeneration, StoreCancelled, NotifyCancel, kRest
  <1> QED BY <1>2, <1>3, <1>4, <1>5, <1>6, <1>7 DEF Next, Coordinator

---------------------------------------------------------------------------
(* Before the first cancel                                                 *)

\* Commands leave the channel by its head and join it at its end.
LEMMA Undisturbed ==
    ASSUME TypeOK, NoCancel, UNCHANGED cancelled,
           \/ chan' = chan
           \/ chan # <<>> /\ chan' = Tail(chan)
           \/ \E x \in Command \ CancelCmd : chan' = Append(chan, x)
    PROVE  NoCancel'
  <1>1. chan \in Seq(Command) /\ Finished \in Command \ CancelCmd
    BY CommandKinds DEF TypeOK
  <1>2. chan # <<>> => \A i \in DOMAIN Tail(chan) : Tail(chan)[i] \notin CancelCmd
    BY <1>1, NoCancelStays DEF NoCancel
  <1>3. \A x \in Command \ CancelCmd :
           \A i \in DOMAIN Append(chan, x) : Append(chan, x)[i] \notin CancelCmd
    BY <1>1, NoCancelStays DEF NoCancel
  <1> QED  BY <1>2, <1>3 DEF NoCancel

\* An intent that the coordinator's thread does not touch stays registered.
LEMMA CalmFrame ==
    ASSUME CalmCoordinator, UNCHANGED <<cpc, stage, cbinding, cintent, recVars, ui>>,
           \A b \in {stage, cbinding} : Registered(b) => Registered(b)'
    PROVE  CalmCoordinator'
  BY DEF CalmCoordinator, Quiet, RecordingFor, Registered, recVars

\* The pipelines rest while the coordinator is in a handler, and a command
\* other than ProcessingFinished changes nothing for them.
LEMMA CalmRuns ==
    ASSUME CalmPipelines, UNCHANGED run,
           QueuedFinished' # {} =>
               QueuedFinished # {} /\ UNCHANGED <<recVars, ui>>,
           Live = {} \/ UNCHANGED recVars
    PROVE  CalmPipelines'
  <1>1. \A g \in Gens : run[g].pc = "stop" => RecordingFor(run[g].binding)'
    BY DEF CalmPipelines, RecordingFor, recVars, Live, LivePC
  <1> QED  BY <1>1 DEF CalmPipelines, Quiet, Resolved, recVars

LEMMA CalmHandler ==
    ASSUME ~Panics, IInv, IInv', Owned, NoCancel, CalmCoordinator, CalmPipelines,
           Coordinator
    PROVE  NoCancel' /\ CalmCoordinator' /\ CalmPipelines'
  <1> USE DEF coordVars, recVars, intentVars, genVars, kVars
  <1>0. /\ TypeOK /\ Control /\ OnePipeline /\ OnePipeline'
        /\ "Idle" \notin Bindings /\ "Processing" \notin Bindings
        /\ "None" \notin Bindings
    BY ConstantsAssumption DEF IInv
  <1>1. stage # "Processing" => Live = {} /\ QueuedFinished = {}
    BY <1>0 DEF OnePipeline
  <1>2. stage' # "Processing" => QueuedFinished' = {}
    BY <1>0 DEF OnePipeline
  <1>3. Head(chan) # Finished /\ chan' = Tail(chan) /\ chan # <<>> =>
           (QueuedFinished' # {} => QueuedFinished # {})
    BY <1>0, TailOther DEF QueuedFinished, TypeOK
  <1>4. ASSUME NEW i \in Inputs, IgnoreInput(i)
        PROVE  NoCancel' /\ CalmCoordinator' /\ CalmPipelines'
    <2>1. Head(chan) # Finished
      BY <1>4, CommandKinds DEF IgnoreInput, Receive, InputCmd
    <2>2. CalmCoordinator'
      BY <1>4, CalmFrame DEF IgnoreInput, Registered
    <2>3. CalmPipelines'
      BY <1>3, <1>4, <2>1, CalmRuns DEF IgnoreInput, Receive
    <2> QED  BY <1>0, <1>4, <2>2, <2>3, Undisturbed DEF IgnoreInput, Receive
  <1>5. ASSUME NEW i \in Inputs, StartAction(i)
        PROVE  NoCancel' /\ CalmCoordinator' /\ CalmPipelines'
    <2>1. /\ i.binding \in Bindings /\ cpc = "recv" /\ stage = "Idle"
          /\ cpc' = "open" /\ cbinding' = i.binding /\ UNCHANGED <<stage, recVars, run>>
          /\ intents'[i.binding].run = nextRun
      BY <1>0, <1>5, ConstantsAssumption DEF StartAction, Receive, Starts, TypeOK
    <2>2. CalmCoordinator'
      BY <2>1 DEF CalmCoordinator, Quiet, Registered, Owned
    <2>3. CalmPipelines'
      BY <1>1, <1>2, <2>1, CalmRuns
    <2> QED  BY <1>0, <1>5, <2>2, <2>3, Undisturbed DEF StartAction, Receive
  <1>6. ASSUME NEW i \in Inputs, StartRewriteDisabled(i)
        PROVE  NoCancel' /\ CalmCoordinator' /\ CalmPipelines'
    <2>1. CalmCoordinator'
      BY <1>6 DEF StartRewriteDisabled, Receive, Starts, CalmCoordinator, Quiet
    <2>2. CalmPipelines'
      BY <1>1, <1>2, <1>6, CalmRuns DEF StartRewriteDisabled, Receive, Starts
    <2> QED  BY <1>0, <1>6, <2>1, <2>2, Undisturbed
             DEF StartRewriteDisabled, Receive
  <1>7. ASSUME NEW i \in Inputs, StopAction(i)
        PROVE  NoCancel' /\ CalmCoordinator' /\ CalmPipelines'
    <2>1. /\ i.binding \in Bindings /\ cpc = "recv" /\ stage = i.binding
          /\ cpc' = "stopping" /\ cbinding' = i.binding
          /\ cintent' = TakeIntent(i.binding) /\ UNCHANGED <<stage, recVars, run>>
      BY <1>7, ConstantsAssumption DEF StopAction, Receive, Stops
    <2>2. RecordingFor(i.binding) /\ Registered(i.binding)
      BY <2>1 DEF CalmCoordinator
    <2>3. cintent'.rewrite \/ cintent'.resolved
      <3>1. intents[i.binding] # NoIntent /\ intents[i.binding] \in Intent
        BY <1>0, <2>1, <2>2 DEF Registered, NoIntent, TypeOK
      <3> QED  BY <2>1, <3>1 DEF TakeIntent, Intent
    <2>4. CalmCoordinator'
      BY <2>1, <2>2, <2>3 DEF CalmCoordinator, RecordingFor, Resolved
    <2>5. CalmPipelines'
      BY <1>0, <1>1, <1>2, <2>1, CalmRuns
    <2> QED  BY <1>0, <1>7, <2>4, <2>5, Undisturbed DEF StopAction, Receive
  <1>8. CASE OpenStream \/ BeginRecording \/ StartSucceeded \/ StartFailed
    <2>1. /\ stage = "Idle" /\ cbinding \in Bindings
          /\ UNCHANGED <<chan, cancelled, run, stage, cbinding>>
          /\ cpc # "recv"
      BY <1>0, <1>8 DEF OpenStream, BeginRecording, StartSucceeded, StartFailed,
                        Control
    <2>2. CalmPipelines'
      BY <1>1, <1>2, <2>1, CalmRuns
    <2>3. CalmCoordinator'
      <3>1. CASE OpenStream
        BY <3>1 DEF OpenStream, CalmCoordinator, Quiet, Registered
      <3>2. CASE BeginRecording
        BY <3>2 DEF BeginRecording, CalmCoordinator, Quiet, RecordingFor, Registered
      <3>3. CASE StartSucceeded
        BY <3>3 DEF StartSucceeded, CalmCoordinator, RecordingFor, Registered
      <3>4. CASE StartFailed
        BY <3>4 DEF StartFailed, CalmCoordinator, Quiet
      <3> QED  BY <1>8, <3>1, <3>2, <3>3, <3>4
    <2> QED  BY <1>0, <2>1, <2>2, <2>3, Undisturbed
  <1>9. CASE CheckRecording
    <2>1. /\ stage = "Idle" /\ cbinding \in Bindings /\ cpc = "check"
          /\ cpc' = "recv" /\ UNCHANGED <<chan, cancelled, run, recVars, ui, intents>>
          /\ stage' = IF isRecording THEN cbinding ELSE "Idle"
      BY <1>0, <1>9 DEF CheckRecording, Control
    <2>2. CalmPipelines'
      BY <1>0, <1>1, <1>2, <2>1, CalmRuns
    <2>3. CalmCoordinator'
      BY <1>0, <2>1 DEF CalmCoordinator, Quiet, RecordingFor, Registered
    <2> QED  BY <1>0, <2>1, <2>2, <2>3, Undisturbed
  <1>10. CASE SpawnPipeline
    <2> DEFINE r == [pc |-> "stop", binding |-> cbinding, intent |-> cintent]
    <2>1. /\ cpc = "stopping" /\ stage \in Bindings /\ stage' = "Processing"
          /\ cpc' = "recv" /\ UNCHANGED <<chan, cancelled, recVars>>
          /\ run' = [run EXCEPT ![generation + 1] = r]
          /\ r.pc = "stop" /\ r.binding = cbinding /\ r.intent = cintent
      BY <1>0, <1>10 DEF SpawnPipeline, Control
    <2> HIDE DEF r
    <2>2. RecordingFor(cbinding) /\ Resolved(cbinding, cintent)
      BY <2>1 DEF CalmCoordinator
    <2>3. QueuedFinished' = {}
      BY <1>0, <1>1, <2>1 DEF QueuedFinished
    <2>4. \A g \in Gens : (run'[g] = run[g] /\ run[g].pc # "stop") \/ run'[g] = r
      BY <1>0, <1>1, <2>1 DEF TypeOK, Live, LivePC
    <2>5. CalmPipelines'
      BY <2>1, <2>2, <2>3, <2>4 DEF CalmPipelines, RecordingFor, Resolved
    <2>6. CalmCoordinator'
      BY <1>0, <2>1 DEF CalmCoordinator
    <2> QED  BY <1>0, <2>1, <2>5, <2>6, Undisturbed
  <1>11. CASE ReceiveCancel
    <2>1. Head(chan) = chan[1] /\ 1 \in DOMAIN chan
      BY <1>0, <1>11 DEF ReceiveCancel, TypeOK
    <2> QED  BY <1>11, <2>1 DEF ReceiveCancel, NoCancel
  <1>12. CASE ReceiveFinished
    <2>1. QueuedFinished # {}
      BY <1>0, <1>12 DEF ReceiveFinished, QueuedFinished, FinishedIn, TypeOK
    <2>2. Quiet /\ ui = "Idle"
      BY <2>1 DEF CalmPipelines
    <2>3. /\ stage' = "Idle" /\ cpc = "recv" /\ chan # <<>> /\ chan' = Tail(chan)
          /\ UNCHANGED <<recVars, cpc, ui, run, cancelled>>
      BY <1>12 DEF ReceiveFinished
    <2>4. CalmCoordinator'
      BY <1>0, <2>2, <2>3 DEF CalmCoordinator, Quiet
    <2>5. CalmPipelines'
      BY <1>2, <2>3, CalmRuns
    <2> QED  BY <1>0, <2>3, <2>4, <2>5, Undisturbed
  <1> QED BY <1>4, <1>5, <1>6, <1>7, <1>8, <1>9, <1>10, <1>11, <1>12
          DEF Coordinator

\* While a pipeline lives the stage is Processing, where the coordinator's
\* part says nothing; the run that ends leaves the recorder and the UI at rest.
LEMMA CalmPipeline ==
    ASSUME ~Panics, IInv, IInv', NoCancel, CalmCoordinator, CalmPipelines,
           NEW g \in Gens, Pipeline(g) \/ MainThread(g)
    PROVE  NoCancel' /\ CalmCoordinator' /\ CalmPipelines'
  <1> USE DEF coordVars, recVars, intentVars, kVars
  <1>0. /\ TypeOK /\ Control /\ OnePipeline /\ RecorderReleased /\ RecorderReleased'
        /\ "Processing" \notin Bindings
    BY ConstantsAssumption DEF IInv
  <1>1. /\ Live = {g} /\ QueuedFinished = {} /\ stage = "Processing"
        /\ g \in Live
    BY <1>0, PipelineStep DEF OnePipeline
  <1>2. /\ \A h \in Gens \ {g} : run'[h].pc = run[h].pc
        /\ \A h \in Gens : /\ run'[h].intent = run[h].intent
                           /\ run'[h].binding = run[h].binding
        /\ \/ run'[g].pc \in LivePC /\ chan' = chan
           \/ run'[g].pc \in DonePC /\ chan' = Append(chan, Finished)
        /\ stage' = stage /\ cpc' = cpc
    BY <1>0, PipelineStep, RunsKeep
  <1>3. cpc = "recv" /\ cancelled' = cancelled /\ ~IsCancelled(g)
    <2>1. cpc = "recv"
      BY <1>0, <1>1 DEF Control
    <2>2. ~IsCancelled(g)
      BY DEF NoCancel, IsCancelled, Gens
    <2>3. cancelled' = cancelled
      BY DEF Pipeline, MainThread, StopRecording, DrainRecorder, DiscardCancelled,
           BeginTranscription, TranscriptionFailed, NothingSaid, TextReady,
           PasteSkipped, SchedulePaste, PasteNotQueued, PipelinePanics,
           MainThreadDrops, MainThreadPastes, PasteEnds, pipeRest
    <2> QED  BY <2>1, <2>2, <2>3
  <1>4. CalmCoordinator'
    BY <1>0, <1>1, <1>2, <1>3, ConstantsAssumption DEF CalmCoordinator
  <1>5. NoCancel'
    BY <1>0, <1>2, <1>3, Undisturbed, CommandKinds
  <1>6. run'[g].pc # "stop" /\ (run'[g].pc \in DonePC => Quiet' /\ ui' = "Idle")
    <2>1. \A pc \in LivePC \cup DonePC : Goto(g, pc) => run'[g].pc = pc
      BY <1>0, GotoType DEF TypeOK
    <2>2. run[g].pc \in Captured => Quiet
      BY <1>0 DEF RecorderReleased, Quiet
    <2> USE <1>3, <2>1, <2>2 DEF LivePC, DonePC, Captured, Finish, Quiet
    <2>3. CASE StopRecording(g)
      BY <2>3 DEF StopRecording, CalmPipelines, RecordingFor
    <2>4. CASE DrainRecorder(g)
      BY <2>4 DEF DrainRecorder
    <2>5. CASE DiscardCancelled(g) \/ PipelinePanics(g) \/ MainThreadDrops(g)
      BY <2>5 DEF DiscardCancelled, PipelinePanics, MainThreadDrops
    <2>6. CASE BeginTranscription(g) \/ TextReady(g) \/ SchedulePaste(g)
               \/ MainThreadPastes(g)
      BY <2>6 DEF BeginTranscription, TextReady, SchedulePaste, MainThreadPastes
    <2>7. CASE TranscriptionFailed(g) \/ NothingSaid(g)
      BY <2>7 DEF TranscriptionFailed, NothingSaid
    <2>8. CASE PasteSkipped(g) \/ PasteNotQueued(g) \/ PasteEnds(g)
      BY <2>8 DEF PasteSkipped, PasteNotQueued, PasteEnds
    <2> QED  BY <2>3, <2>4, <2>5, <2>6, <2>7, <2>8 DEF Pipeline, MainThread
  <1>7. CalmPipelines'
    <2>1. \A h \in Gens : run'[h].pc # "stop"
      BY <1>1, <1>2, <1>6 DEF Live, LivePC
    <2>2. QueuedFinished' # {} => run'[g].pc \in DonePC
      BY <1>1, <1>2 DEF QueuedFinished
    <2>3. \A h \in Gens : run'[h].pc # "none" => run[h].pc # "none"
      BY <1>1, <1>2 DEF Live, LivePC
    <2> QED  BY <1>2, <1>6, <2>1, <2>2, <2>3 DEF CalmPipelines, Resolved
  <1> QED  BY <1>4, <1>5, <1>7

LEMMA CalmStep ==
    ASSUME ~Panics, IInv, IInv', Owned, Calm, [Next]_vars
    PROVE  Calm'
  <1> USE DEF coordVars, recVars, intentVars, genVars, kVars
  <1>0. TypeOK
    BY DEF IInv
  <1>1. ASSUME NEW c \in Cancellers, Cancel(c) PROVE Calm'
    <2>1. kpc'[c] # "off"
      BY <1>0, <1>1
         DEF Cancel, CancelBegins, CancelRecording, DiscardRecording, ClearIntents,
             HideUi, LoadGeneration, StoreCancelled, NotifyCancel, KGoto, TypeOK
    <2> QED  BY <2>1 DEF Calm, Untouched
  <1>2. CASE Coordinator
    <2>1. kpc' = kpc
      BY <1>2 DEF Coordinator, IgnoreInput, StartAction, StartRewriteDisabled,
           StopAction, OpenStream, BeginRecording, StartSucceeded, StartFailed,
           CheckRecording, SpawnPipeline, ReceiveCancel, ReceiveFinished
    <2> QED  BY <1>2, <2>1, CalmHandler DEF Calm, Untouched
  <1>3. ASSUME NEW g \in Gens, Pipeline(g) \/ MainThread(g) PROVE Calm'
    <2>1. kpc' = kpc
      BY <1>3 DEF Pipeline, MainThread, StopRecording, DrainRecorder,
           DiscardCancelled, BeginTranscription, TranscriptionFailed, NothingSaid,
           TextReady, PasteSkipped, SchedulePaste, PasteNotQueued, PipelinePanics,
           MainThreadDrops, MainThreadPastes, PasteEnds, pipeRest
    <2> QED  BY <1>3, <2>1, CalmPipeline DEF Calm, Untouched
  <1>4. CASE SendInput
    <2>1. PICK i \in Inputs : chan' = Append(chan, [kind |-> "input", input |-> i])
      BY <1>4 DEF SendInput
    <2>2. [kind |-> "input", input |-> i] \in InputCmd
      BY DEF InputCmd
    <2>3. /\ [kind |-> "input", input |-> i] \in Command \ CancelCmd
          /\ QueuedFinished' = QueuedFinished
      BY <1>0, <2>1, <2>2, CommandKinds, AppendOther DEF QueuedFinished, TypeOK
    <2>4. UNCHANGED <<coordVars, recVars, intents, ui, run, cancelled, kpc>>
      BY <1>4 DEF SendInput
    <2>5. Calm => (Untouched => CalmCoordinator' /\ CalmPipelines')
      BY <2>3, <2>4, CalmFrame, CalmRuns DEF Calm, Registered
    <2> QED  BY <1>0, <2>1, <2>3, <2>4, <2>5, Undisturbed DEF Calm, Untouched
  <1>5. CASE Probe
    <2>1. PICK p \in probes : ProbeAnswers(p) \/ ProbeFails(p)
      BY <1>5 DEF Probe
    <2>2. /\ UNCHANGED <<chan, coordVars, recVars, ui, run, cancelled, kpc>>
          /\ QueuedFinished' = QueuedFinished
      BY <2>1 DEF ProbeAnswers, ProbeFails, QueuedFinished
    <2>3. \A b \in Bindings : intents'[b].run = intents[b].run
      <3>1. CASE ProbeFails(p)
        BY <3>1 DEF ProbeFails
      <3>2. CASE ProbeAnswers(p)
        <4>1. PICK a \in Answers(p) :
                 intents' = IF Accepts(p) THEN [intents EXCEPT ![p[1]] = a]
                                          ELSE intents
          BY <3>2 DEF ProbeAnswers
        <4>2. p[1] \in Bindings /\ intents[p[1]] \in Intent
          BY <1>0, ConstantsAssumption DEF TypeOK
        <4>3. a.run = intents[p[1]].run
          <5>1. CASE a = [intents[p[1]] EXCEPT !.pending = FALSE]
            BY <4>2, <5>1 DEF Intent
          <5>2. CASE a = [run |-> intents[p[1]].run, rewrite |-> TRUE,
                          sel |-> p[2], pending |-> FALSE]
            BY <5>2
          <5> QED  BY <5>1, <5>2 DEF Answers
        <4> QED  BY <1>0, <4>1, <4>2, <4>3 DEF TypeOK
      <3> QED  BY <2>1, <3>1, <3>2
    <2>4. ASSUME Untouched PROVE CalmCoordinator'
      <3>1. CalmCoordinator
        BY <2>4 DEF Calm
      <3>2. cpc # "recv" => cbinding \in Bindings
        BY DEF IInv, Control
      <3> QED  BY <2>2, <2>3, <3>1, <3>2
               DEF CalmCoordinator, Quiet, RecordingFor, Registered
    <2>5. Untouched => CalmPipelines'
      BY <2>2, CalmRuns DEF Calm
    <2> QED  BY <1>0, <2>2, <2>4, <2>5, Undisturbed DEF Calm, Untouched
  <1>6. CASE UNCHANGED vars
    BY <1>6 DEF vars, Calm, Untouched, NoCancel, CalmCoordinator, CalmPipelines,
                Quiet, RecordingFor, Registered, Resolved, QueuedFinished
  <1> QED BY <1>1, <1>2, <1>3, <1>4, <1>5, <1>6 DEF Next

\* Without panics, what holds until somebody cancels.
LEMMA CalmAlways == ASSUME ~Panics PROVE Spec => [](IInv /\ Calm)
  <1>1. Init => Owned /\ Calm
    <2> SUFFICES ASSUME Init PROVE Owned /\ Calm
      OBVIOUS
    <2>1. /\ \A g \in Gens : run[g].pc = "none"
          /\ QueuedFinished = {} /\ DOMAIN chan = {}
      BY DEF Init, NoRun, QueuedFinished, FinishedIn
    <2>2. CalmPipelines /\ NoCancel
      BY <2>1 DEF CalmPipelines, NoCancel, Init
    <2>3. CalmCoordinator
      BY ConstantsAssumption DEF Init, CalmCoordinator, Quiet
    <2> QED  BY <2>2, <2>3 DEF Init, Owned, Calm, NoIntent, NoTaken, NoRun
  <1>2. IInv /\ Owned /\ [Next]_vars => Owned'
    BY OwnedStep
  <1>3. IInv /\ IInv' /\ Owned /\ Calm /\ [Next]_vars => Calm'
    BY CalmStep
  <1> QED  BY <1>1, <1>2, <1>3, InductiveInvariant, PTL DEF Spec

---------------------------------------------------------------------------
(* Theorems about cancels, intents and the UI                              *)

\* A coordinator that believes it is recording, with no cancel under way, has
\* a recorder that records: for any number of cancellers, panics included.
THEOREM StageTracksRecorderAlways == Spec => []StageTracksRecorder
  <1>1. Init => StageTracksRecorder
    BY ConstantsAssumption DEF Init, StageTracksRecorder
  <1>2. IInv /\ StageTracksRecorder /\ [Next]_vars => StageTracksRecorder'
    BY TrackedStep
  <1> QED  BY <1>1, <1>2, InductiveInvariant, PTL DEF Spec

\* A rewrite that is pasted replaces the selection its own run captured, for
\* any number of runs, late probes and cancellers.
THEOREM RewriteOwnsSelectionAlways == Spec => []RewriteOwnsSelection
  <1>1. Init => Owned
    BY DEF Init, Owned, NoIntent, NoTaken, NoRun
  <1>2. IInv /\ Owned /\ [Next]_vars => Owned'
    BY OwnedStep
  <1>3. Owned => RewriteOwnsSelection
    BY DEF Owned, RewriteOwnsSelection
  <1> QED  BY <1>1, <1>2, <1>3, InductiveInvariant, PTL DEF Spec

\* With one caller of cancel, a run it has marked never begins to paste.  Two
\* callers can undo each other's mark.
THEOREM CancelHonouredAlways == ASSUME OneCanceller PROVE Spec => CancelHonoured
  <1>1. Init => Marked
    BY DEF Init, Marked
  <1>2. IInv /\ Marked /\ [Next]_vars => Marked'
    BY MarkedStep
  <1> DEFINE Act == \A c \in Cancellers, g \in Gens :
                       /\ kpc[c] \in {"notify", "done"}
                       /\ g <= kgen[c]
                       /\ run[g].pc # "pasting"
                       => run'[g].pc # "pasting"
  <1>3. IInv /\ Marked /\ [Next]_vars => [Act]_vars
    <2> SUFFICES ASSUME IInv, Marked, [Next]_vars, NEW c \in Cancellers,
                        NEW g \in Gens, kpc[c] \in {"notify", "done"},
                        g <= kgen[c], run[g].pc # "pasting",
                        run'[g].pc = "pasting"
                 PROVE  FALSE
      OBVIOUS
    <2>1. cancelled < g
      BY PastesUnmarked DEF IsCancelled, IInv, TypeOK, Gens
    <2>2. cancelled = kgen[c]
      BY DEF Marked
    <2> QED  BY <2>1, <2>2 DEF IInv, TypeOK, Gens
  <1> HIDE DEF Act
  <1>4. Spec => [][Act]_vars
    BY <1>1, <1>2, <1>3, InductiveInvariant, PTL DEF Spec
  <1> QED  BY <1>4 DEF Act, CancelHonoured

\* As long as nobody cancels and no pipeline panics, a recorder that is on at
\* rest is the one the stage names, so that a key ends it: for any number of
\* bindings, keys and runs, with failing devices.
THEOREM RecorderTracksKeysAlways ==
    ASSUME ~Panics PROVE Spec => []RecorderTracksKeys
  <1>1. IInv /\ Calm => RecorderTracksKeys
    <2> SUFFICES ASSUME IInv, Calm, Untouched, AtRest, isRecording
                 PROVE  stage = recState
      BY DEF RecorderTracksKeys, RecorderTracksStage
    <2>1. stage # "Processing"
      BY DEF AtRest, IInv, OnePipeline, QueuedFinished, FinishedIn
    <2> QED  BY <2>1 DEF IInv, TypeOK, Calm, CalmCoordinator, AtRest, Quiet,
                         RecordingFor
  <1> QED  BY <1>1, CalmAlways, PTL

\* Under the same assumption tray and overlay are idle once everything is at
\* rest, whichever way the runs ended.
THEOREM UiRestsAlways == ASSUME ~Panics PROVE Spec => []UiRests
  <1>1. IInv /\ Calm => UiRests
    <2> SUFFICES ASSUME IInv, Calm, Untouched, AtRest, ~isRecording
                 PROVE  ui = "Idle"
      BY DEF UiRests
    <2>1. stage # "Processing"
      BY DEF AtRest, IInv, OnePipeline, QueuedFinished, FinishedIn
    <2> QED  BY <2>1 DEF IInv, TypeOK, Calm, CalmCoordinator, AtRest,
                         RecordingFor
  <1> QED  BY <1>1, CalmAlways, PTL

\* Under the same assumption a binding that probes the selection is pasted as
\* ordinary dictation only if its probe came back without one.
THEOREM FailClosedAlways == ASSUME ~Panics PROVE Spec => []FailClosed
  <1>1. IInv /\ Calm => FailClosed
    BY DEF Calm, CalmPipelines, Resolved, FailClosed
  <1> QED  BY <1>1, CalmAlways, PTL

---------------------------------------------------------------------------
(* Dictation implements DictationSession                                   *)

Pasted == {g \in Gens : run[g].pc = "pasted"}

LEMMA SessionStep == IInv /\ [Next]_vars => [Session!Next]_(Session!vars)
  <1> SUFFICES ASSUME IInv, [Next]_vars
               PROVE  Session!Next \/ UNCHANGED Session!vars
    OBVIOUS
  <1> USE DEF IInv, coordVars, recVars, intentVars, genVars, kVars
  <1>0. ASSUME UNCHANGED <<stage, generation, run>>
        PROVE  UNCHANGED Session!vars
    BY <1>0 DEF Session!vars, Live
  <1>1. CASE CheckRecording
    <2>1. CASE isRecording
      <3>1. Session!Begin
        BY <1>1, <2>1 DEF CheckRecording, Control, Session!Begin, Live
      <3> QED BY <3>1 DEF Session!Next
    <2>2. CASE ~isRecording
      BY <1>0, <1>1, <2>2 DEF CheckRecording
    <2> QED BY <2>1, <2>2
  <1>2. CASE SpawnPipeline
    <2>1. generation + 1 \in Gens
      BY <1>2, ConstantsAssumption DEF SpawnPipeline, Control, TypeOK, Gens
    <2>2. Live' = {generation + 1}
      <3>1. Live = {}
        BY <1>2, ConstantsAssumption DEF SpawnPipeline, Control, OnePipeline
      <3> QED BY <1>2, <2>1, <3>1 DEF SpawnPipeline, Live, LivePC, TypeOK
    <2>3. Pasted' = Pasted
      <3>1. run[generation + 1].pc # "pasted"
        BY <1>2, <2>1 DEF SpawnPipeline, Unborn, TypeOK
      <3> QED BY <1>2, <2>1, <3>1 DEF SpawnPipeline, Pasted, TypeOK
    <2>4. Session!Stop
      BY <1>2, <2>1, <2>2, <2>3
         DEF SpawnPipeline, Control, Session!Stop, Pasted
    <2> QED BY <2>4 DEF Session!Next
  <1>3. CASE ReceiveCancel
    <2>1. CASE stage' = stage
      BY <1>0, <1>3, <2>1 DEF ReceiveCancel
    <2>2. CASE stage' # stage
      <3>1. Session!Abandon
        BY <1>3, <2>2 DEF ReceiveCancel, AfterCancel, TypeOK, Session!Abandon, Live
      <3> QED BY <3>1 DEF Session!Next
    <2> QED BY <2>1, <2>2
  <1>4. CASE ReceiveFinished
    <2>1. QueuedFinished # {}
      BY <1>4 DEF ReceiveFinished, QueuedFinished, FinishedIn, TypeOK
    <2>2. Session!Close
      BY <1>4, <2>1 DEF ReceiveFinished, OnePipeline, Session!Close, Live
    <2> QED BY <2>2 DEF Session!Next
  <1>5. ASSUME NEW g \in Gens, Pipeline(g) \/ MainThread(g)
        PROVE  Session!Next \/ UNCHANGED Session!vars
    <2>1. /\ g \in Live
          /\ \A h \in Gens \ {g} : run'[h].pc = run[h].pc
          /\ UNCHANGED <<stage, generation>>
          /\ run'[g].pc \in LivePC \cup DonePC
      BY <1>5, PipelineStep
    <2>2. run[g].pc \in LivePC /\ g \notin Pasted
      BY <2>1 DEF Live, LivePC, Pasted
    <2>3. CASE run'[g].pc \in LivePC
      <3>1. Live' = Live /\ Pasted' = Pasted
        BY <2>1, <2>2, <2>3 DEF Live, LivePC, Pasted
      <3> QED BY <2>1, <3>1 DEF Session!vars, Pasted
    <2>4. CASE run'[g].pc = "pasted"
      <3>1. Live' = Live \ {g} /\ Pasted' = Pasted \cup {g}
        BY <2>1, <2>2, <2>4 DEF Live, LivePC, Pasted
      <3>2. Session!Deliver(g)
        BY <2>1, <3>1 DEF Session!Deliver, Pasted
      <3> QED BY <3>2 DEF Session!Next
    <2>5. CASE run'[g].pc \in DonePC \ {"pasted"}
      <3>1. Live' = Live \ {g} /\ Pasted' = Pasted
        BY <2>1, <2>2, <2>5 DEF Live, LivePC, DonePC, Pasted
      <3>2. Session!Drop(g)
        BY <2>1, <3>1 DEF Session!Drop, Pasted
      <3> QED BY <3>2 DEF Session!Next
    <2> QED BY <2>1, <2>3, <2>4, <2>5 DEF DonePC
  <1>6. CASE OpenStream \/ BeginRecording \/ StartSucceeded \/ StartFailed
             \/ SendInput \/ Probe \/ UNCHANGED vars
    BY <1>0, <1>6 DEF OpenStream, BeginRecording, StartSucceeded, StartFailed,
                      SendInput, Probe, ProbeAnswers, ProbeFails, vars
  <1>7. ASSUME NEW i \in Inputs,
               IgnoreInput(i) \/ StartAction(i) \/ StartRewriteDisabled(i)
                              \/ StopAction(i)
        PROVE  UNCHANGED Session!vars
    BY <1>0, <1>7
       DEF IgnoreInput, StartAction, StartRewriteDisabled, StopAction
  <1>8. ASSUME NEW c \in Cancellers, Cancel(c) PROVE UNCHANGED Session!vars
    BY <1>0, <1>8
       DEF Cancel, CancelBegins, CancelRecording, DiscardRecording, ClearIntents,
           HideUi, LoadGeneration, StoreCancelled, NotifyCancel, kRest
  <1> QED BY <1>1, <1>2, <1>3, <1>4, <1>5, <1>6, <1>7, <1>8 DEF Next, Coordinator

\* The threads, the channel and the cancels implement one session at a time
\* whose text is delivered at most once.
THEOREM ImplementsSession == Spec => SessionSpec
  <1>1. Init => Session!Init
    <2> SUFFICES ASSUME Init PROVE Session!Init
      OBVIOUS
    <2>1. \A g \in Gens : run[g].pc = "none"
      BY DEF Init, NoRun
    <2>2. Live = {} /\ Pasted = {}
      BY <2>1 DEF Live, LivePC, Pasted
    <2> QED BY <2>2 DEF Init, Session!Init, Pasted
  <1>2. IInv /\ [Next]_vars => [Session!Next]_(Session!vars)
    BY SessionStep
  <1> QED BY <1>1, <1>2, InductiveInvariant, PTL DEF Spec, SessionSpec, Session!Spec
=============================================================================
