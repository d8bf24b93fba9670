------------------------------ MODULE Recorder ------------------------------
(***************************************************************************)
(* The capture worker of AudioRecorder (audio_toolkit/audio/recorder.rs):  *)
(* run_consumer reads the chunks the stream's callback sends, cuts them    *)
(* into frames, and passes each frame of a recording to SmoothedVad and,   *)
(* until the VAD has let one through, to the rescue buffer                 *)
(* (VadFallbackAudio) that stands in when it lets none through.            *)
(*                                                                         *)
(* The samples are numbered in the order the streams deliver them, so the  *)
(* channel is the interval (taken, captured] and the samples carried over  *)
(* to the next frame are the last `carried` of those taken.  A frame is    *)
(* named by its first sample.  Of its sound only the `kind` is kept.       *)
(*                                                                         *)
(* The calls come one at a time: the manager makes them under the mutex of *)
(* its recorder slot.                                                      *)
(***************************************************************************)
EXTENDS Integers, SequencesExt

CONSTANTS
    Kinds,           \* the kinds of frames that occur, of AllKinds
    ChunkSize,       \* samples in a chunk of the callback
    FrameSize,       \* samples in a frame
    Profiles,        \* the acoustic profiles: prefill_frames, hangover_frames,
                     \* onset_frames
    MinActive,       \* min_active_frames, the same in each
    Keep, Compact,   \* VAD_FALLBACK_SILENCE_KEEP_SAMPLES and _COMPACT_, in frames
    Drops,           \* whether a stream may drop its callback when it fails
    MaxRare,         \* bound on the rare frames of a recording
    MaxChunks,       \* bound on the chunks delivered
    MaxRequests      \* bound on the calls

(***************************************************************************)
(* What the VAD and the energy gate make of a frame: voice that is loud    *)
(* enough for the rescue buffer or not, sound that is loud but no voice,   *)
(* neither; samples that are not finite; a frame the VAD fails on.         *)
(***************************************************************************)
AllKinds == {"speech", "murmur", "thud", "silence", "broken", "error"}
Voiced   == {"speech", "murmur"}
Loud     == {"speech", "thud"}
Rare     == {"broken", "error"}

RecorderAssumption ==
    /\ Kinds \subseteq AllKinds
    /\ Profiles \subseteq [prefill : Nat, hangover : Nat, onset : Nat \ {0}]
    /\ \A p \in Profiles : p.prefill <= p.hangover + p.onset
    /\ {ChunkSize, FrameSize, MinActive} \subseteq Nat \ {0}
    /\ {Keep, Compact, MaxRare, MaxChunks, MaxRequests} \subseteq Nat
    /\ MinActive <= Keep /\ Keep <= Compact
    /\ Drops \in BOOLEAN

VARIABLES
    profile,     \* of the recorder, whose slot is emptied to change it
    caller,      \* the call that waits for the worker, or "idle"
    inbox,       \* the channel of Cmd
    worker,      \* where run_consumer stands; "none" before open and after
                 \* close, "dead" once it returned on a channel that was dropped
    captured,    \* samples the callback has sent
    taken,       \* samples received from the channel
    carried,     \* of these, the ones not yet in a frame
    device,      \* "live", which need not deliver, or "gone" (callback dropped)
    fault,       \* the first stream error: "none", "sent", "surfaced"
    recording,
    vad,         \* SmoothedVad: frame_buffer, counters, in_speech
    out,         \* processed_samples
    rescue,      \* VadFallbackAudio
    begun,       \* a recording the manager started and has not stopped
    requests,    \* calls so far
    heard,       \* the frames of this recording and their kinds
    sealed,      \* samples taken when the last recording was handed over
    tail         \* samples captured when the stop that waits was called

stream == <<captured, device>>
feed   == <<taken, carried>>
sound  == <<vad, out, rescue, heard>>
calls  == <<caller, begun, requests, tail>>
vars   == <<stream, feed, sound, calls, sealed, inbox, worker, fault, recording,
            profile>>

Cmd == {"Start", "Stop", "Snapshot", "Shutdown"}
Stages   == {"none", "dead", "hear", "feed", "obey", "drain", "finish"}

Fresh == [frames |-> <<>>, active |-> 0, detected |-> FALSE]
Reset == [recent |-> <<>>, hangover |-> 0, onset |-> 0, speech |-> FALSE]

TypeOK ==
    /\ profile \in Profiles
    /\ caller \in {"idle", "Stop", "Snapshot", "Shutdown"}
    /\ inbox \in Seq(Cmd) /\ worker \in Stages
    /\ captured \in Nat /\ taken \in Nat /\ carried \in Nat /\ requests \in Nat
    /\ sealed \in Nat /\ tail \in Nat
    /\ carried <= taken
    /\ device \in {"live", "gone"}
    /\ fault \in {"none", "sent", "surfaced"}
    /\ recording \in BOOLEAN /\ begun \in BOOLEAN
    /\ vad \in [recent : Seq(Nat), hangover : 0..profile.hangover, onset : 0..profile.onset,
                speech : BOOLEAN]
    /\ rescue \in [frames : Seq(Nat), active : Nat, detected : BOOLEAN]
    /\ out \in Seq(Nat)
    /\ heard \in Seq([frame : Nat, kind : AllKinds])

Init ==
    /\ profile \in Profiles
    /\ caller = "idle" /\ inbox = <<>> /\ worker = "none"
    /\ captured = 0 /\ taken = 0 /\ carried = 0
    /\ device = "live" /\ fault = "none"
    /\ recording = FALSE /\ vad = Reset /\ out = <<>> /\ rescue = Fresh
    /\ begun = FALSE /\ requests = 0
    /\ heard = <<>> /\ sealed = 0 /\ tail = 0

-----------------------------------------------------------------------------
(* The stream's callbacks, on threads of the operating system              *)

Running == worker \notin {"none", "dead"}

Capture ==
    /\ Running /\ device = "live" /\ captured < MaxChunks * ChunkSize
    /\ captured' = captured + ChunkSize
    /\ UNCHANGED <<device, feed, sound, calls, sealed, inbox, worker, fault, recording>>

\* The error callback; the stream goes on, if only in silence, or is torn down
\* with both callbacks, which hangs the sample channel up.
StreamFails ==
    /\ Running /\ device # "gone"
    /\ fault' = IF fault = "none" THEN "sent" ELSE fault
    /\ device' \in {"live"} \cup (IF Drops THEN {"gone"} ELSE {})
    /\ UNCHANGED <<captured, feed, sound, calls, sealed, inbox, worker, recording>>

-----------------------------------------------------------------------------
(* The calls                                                               *)

Asks == caller = "idle" /\ requests < MaxRequests /\ requests' = requests + 1

\* open: a worker with new channels and resamplers.  The VAD is that of the
\* recorder and keeps what it heard.
Open ==
    /\ Asks /\ worker = "none"
    /\ worker' = "hear" /\ inbox' = <<>>
    /\ taken' = captured /\ sealed' = captured
    /\ device' = "live" /\ fault' = "none"
    /\ UNCHANGED <<captured, carried, recording, sound, caller, begun, tail>>

\* start does not wait.
Start ==
    /\ Asks /\ Running
    /\ inbox' = Append(inbox, "Start") /\ begun' = TRUE
    /\ UNCHANGED <<caller, tail, stream, feed, sound, sealed, worker, fault, recording>>

\* stop, snapshot and close wait for the answer, or for the worker to end.
Ask(command) ==
    /\ Asks /\ Running
    /\ inbox' = Append(inbox, command) /\ caller' = command
    /\ UNCHANGED <<stream, feed, sound, sealed, worker, fault, recording>>

Stop     == begun /\ Ask("Stop") /\ begun' = FALSE /\ tail' = captured
Snapshot == Ask("Snapshot") /\ UNCHANGED <<begun, tail>>
Close    == Ask("Shutdown") /\ begun' = FALSE /\ UNCHANGED tail

\* A worker that has ended answers no call, and close only joins it.
CloseDead ==
    /\ Asks /\ worker = "dead"
    /\ worker' = "none" /\ begun' = FALSE
    /\ UNCHANGED <<caller, tail, stream, feed, sound, sealed, inbox, fault, recording>>

-----------------------------------------------------------------------------
(* One frame: handle_frame                                                 *)

\* The last n of s.
Latest(s, n) == IF Len(s) <= n THEN s ELSE SubSeq(s, Len(s) - n + 1, Len(s))

\* VadFallbackAudio::push_frame
PushRescue(f, kind) ==
    LET frames == Append(rescue.frames, f)
        active == IF kind \in Loud THEN rescue.active + 1 ELSE 0
    IN  IF kind = "broken" THEN Fresh
        ELSE IF rescue.detected THEN [rescue EXCEPT !.frames = frames]
        ELSE IF active >= MinActive
             THEN [frames |-> frames, active |-> active, detected |-> TRUE]
        ELSE [frames   |-> IF Len(frames) > Compact THEN Latest(frames, Keep)
                                                    ELSE frames,
              active   |-> active,
              detected |-> FALSE]

\* Mutant: frame_buffer has no room for the frame itself.
RecentShort(f) == Latest(Append(vad.recent, f), profile.prefill)

\* frame_buffer, the frame included.
Recent(f) == Latest(Append(vad.recent, f), profile.prefill + 1)

\* SmoothedVad::push_frame.  Speech begins with enough frames of voice in a row
\* and goes on while the hangover lasts.
Begins(kind)  == ~vad.speech /\ kind \in Voiced /\ vad.onset + 1 >= profile.onset
GoesOn(kind)  == vad.speech /\ (kind \in Voiced \/ vad.hangover > 0)

\* What it lets through; a frame the detector fails on is let through as well,
Passed(f, kind) ==
    IF Begins(kind) THEN Recent(f)
    ELSE IF GoesOn(kind) \/ kind = "error" THEN <<f>> ELSE <<>>

\* and leaves the counters alone.
Smoothed(f, kind) ==
    IF kind = "error" THEN [vad EXCEPT !.recent = Recent(f)]
    ELSE [recent   |-> Recent(f),
          speech   |-> Begins(kind) \/ GoesOn(kind),
          onset    |-> IF vad.speech THEN vad.onset
                       ELSE IF kind \in Voiced /\ ~Begins(kind) THEN vad.onset + 1 ELSE 0,
          hangover |-> IF Begins(kind) \/ (vad.speech /\ kind \in Voiced)
                       THEN profile.hangover
                       ELSE IF GoesOn(kind) THEN vad.hangover - 1 ELSE vad.hangover]

\* handle_frame: the rescue buffer takes the frame first, and is cleared once the
\* VAD lets something through.
Rescued(f, kind) ==
    IF Passed(f, kind) # <<>> THEN Fresh
    ELSE IF out = <<>> THEN PushRescue(f, kind) ELSE rescue

HandleFrame(f, kind) ==
    /\ kind \in Rare => Len(SelectSeq(heard, LAMBDA x : x.kind \in Rare)) < MaxRare
    /\ vad' = Smoothed(f, kind) /\ out' = out \o Passed(f, kind)
    /\ rescue' = Rescued(f, kind)
    /\ heard' = Append(heard, [frame |-> f, kind |-> kind])

-----------------------------------------------------------------------------
(* The worker: run_consumer                                                *)

NextFrame == taken - carried + 1

Receive ==
    /\ taken < captured
    /\ taken' = taken + ChunkSize /\ carried' = carried + ChunkSize

At(stage) == worker = stage
Go(stage) == worker' = stage

rest == <<stream, calls, sealed, inbox, fault>>

HearChunk == /\ At("hear") /\ Receive /\ Go("feed")
             /\ UNCHANGED <<rest, sound, recording>>

\* run_consumer returns; what it had is lost, but for the VAD.
Return ==
    /\ carried' = 0 /\ recording' = FALSE
    /\ out' = <<>> /\ rescue' = Fresh /\ heard' = <<>>
    /\ caller' = "idle"
    /\ UNCHANGED <<stream, taken, vad, begun, requests, sealed, fault>>

\* The channel is hung up: run_consumer returns and drops the command channel,
\* so that whoever waits gets an error.
Disconnected ==
    /\ At("hear") /\ taken = captured /\ device = "gone"
    /\ worker' = IF caller = "Shutdown" THEN "none" ELSE "dead"
    /\ inbox' = <<>> /\ tail' = 0 /\ Return

\* The resampler emits a full frame, which counts if a recording is on.
Frame ==
    /\ worker \in {"feed", "drain"} /\ carried >= FrameSize
    /\ carried' = carried - FrameSize
    /\ IF recording \/ At("drain")
       THEN \E kind \in Kinds : HandleFrame(NextFrame, kind)
       ELSE UNCHANGED sound
    /\ UNCHANGED <<rest, taken, worker, recording>>

\* Mutant: recv without a timeout.
ReportAfterSample ==
    /\ At("feed") /\ carried < FrameSize
    /\ Go("obey") /\ fault' = IF fault = "sent" THEN "surfaced" ELSE fault
    /\ UNCHANGED <<stream, feed, sound, calls, sealed, inbox, recording>>

\* All frames of the chunk are done, or no sample came within the 50 ms of
\* recv_timeout: the error callback is told of the first stream error.
Report ==
    /\ \/ At("feed") /\ carried < FrameSize
       \/ At("hear") /\ taken = captured /\ device # "gone"
    /\ Go("obey") /\ fault' = IF fault = "sent" THEN "surfaced" ELSE fault
    /\ UNCHANGED <<stream, feed, sound, calls, sealed, inbox, recording>>

Obeyed == At("obey") /\ inbox = <<>> /\ Go("hear")
          /\ UNCHANGED <<rest, feed, sound, recording>>

Takes(command) == /\ At("obey") /\ inbox # <<>> /\ Head(inbox) = command
                  /\ inbox' = Tail(inbox)

\* Mutant: the VAD goes on from the previous recording.
ObeyStartUnreset ==
    /\ Takes("Start")
    /\ recording' = TRUE /\ out' = <<>> /\ rescue' = Fresh /\ heard' = <<>>
    /\ UNCHANGED <<vad, stream, feed, calls, sealed, worker, fault>>

ObeyStart ==
    /\ Takes("Start")
    /\ recording' = TRUE /\ vad' = Reset
    /\ out' = <<>> /\ rescue' = Fresh /\ heard' = <<>>
    /\ UNCHANGED <<stream, feed, calls, sealed, worker, fault>>

ObeyStop ==
    /\ Takes("Stop") /\ recording' = FALSE /\ Go("drain")
    /\ UNCHANGED <<stream, feed, sound, calls, sealed, fault>>

ObeySnapshot ==
    /\ Takes("Snapshot") /\ caller' = "idle"
    /\ UNCHANGED <<stream, feed, sound, begun, requests, tail, sealed, worker, fault,
                   recording>>

ObeyShutdown ==
    /\ Takes("Shutdown") /\ Go("none") /\ Return /\ UNCHANGED tail

\* Stop takes what the callback has sent and the worker has not received,
Drain == /\ At("drain") /\ carried < FrameSize /\ Receive
         /\ UNCHANGED <<rest, worker, sound, recording>>

\* pads what is left to a frame,
Finish ==
    /\ At("drain") /\ carried < FrameSize /\ taken = captured /\ Go("finish")
    /\ carried' = 0
    /\ IF carried > 0 THEN \E kind \in Kinds : HandleFrame(NextFrame, kind)
                      ELSE UNCHANGED sound
    /\ UNCHANGED <<rest, taken, recording>>

\* and answers with what the VAD let through or else with what was rescued.
Finalized == IF out # <<>> THEN out
             ELSE IF rescue.detected THEN rescue.frames ELSE <<>>

Finalize ==
    /\ At("finish") /\ Go("obey")
    /\ sealed' = taken
    /\ out' = <<>> /\ rescue' = Fresh /\ heard' = <<>>
    /\ caller' = "idle"
    /\ UNCHANGED <<stream, feed, vad, begun, requests, tail, inbox, fault,
                   recording>>

Work ==
    /\ UNCHANGED profile
    /\ \/ HearChunk \/ Disconnected \/ Frame \/ Report \/ Obeyed
       \/ ObeyStart \/ ObeyStop \/ ObeySnapshot \/ ObeyShutdown
       \/ Drain \/ Finish \/ Finalize

User == Open \/ Start \/ Stop \/ Snapshot \/ Close \/ CloseDead

Next == Work \/ ((User \/ Capture \/ StreamFails) /\ UNCHANGED profile)

Spec == Init /\ [][Next]_vars

\* The worker is a thread that waits for a sample 50 ms at most.
FairSpec == Spec /\ WF_vars(Work)

-----------------------------------------------------------------------------
(* What the VAD is for, said of the whole recording h, a sequence of       *)
(* [frame, kind], without its counters.                                    *)

Names(h)        == [i \in DOMAIN h |-> h[i].frame]
Judged(h, a, b) == {j \in a..b : h[j].kind # "error"}
Voice(h, a, b)  == {j \in a..b : h[j].kind \in Voiced}

\* An onset is complete at k: of the frames that could be judged the last ones
\* are voice, and enough.  The speech it opens lasts to i while no more than
\* profile.hangover judged frames in a row are without voice.
Complete(h, k) ==
    /\ h[k].kind \in Voiced
    /\ \E a \in 1..k : /\ Judged(h, a, k) = Voice(h, a, k)
                       /\ Cardinality(Voice(h, a, k)) >= profile.onset
Lasts(h, k, i) ==
    \A m \in k..i : \E j \in Voice(h, k, m) :
        Cardinality(Judged(h, j + 1, m)) <= profile.hangover

InSpeech(h, i) == \E k \in 1..i : Complete(h, k) /\ Lasts(h, k, i)
Opens(h, i)    == Complete(h, i) /\ ~InSpeech(h, i - 1)

\* The frames of speech, each opening with the profile.prefill frames before it, and the
\* ones that could not be judged.
Wants(h, i) ==
    \/ InSpeech(h, i) \/ h[i].kind = "error"
    \/ \E j \in i..Len(h) : j - i <= profile.prefill /\ Opens(h, j)

Wanted(h) == {h[i].frame : i \in {i \in DOMAIN h : Wants(h, i)}}

\* MinActive loud frames in a row end at k, and no broken one follows.
Audible(h, k) ==
    /\ k >= MinActive /\ \A j \in (k - MinActive + 1)..k : h[j].kind \in Loud
    /\ \A j \in k..Len(h) : h[j].kind # "broken"

\* r is the end of h with no broken frame in it, from Keep frames before the
\* first such sound on or from where it can begin at all.
Rescues(h, r) ==
    LET start == Len(h) - Len(r) IN
    /\ r = Latest(Names(h), Len(r))
    /\ \A i \in (start + 1)..Len(h) : h[i].kind # "broken"
    /\ \A k \in DOMAIN h : Audible(h, k) =>
           start + Keep < k \/ start = 0 \/ h[start].kind = "broken"

Faithful(h, r) ==
    IF Wanted(h) # {}
    THEN /\ ToSet(r) = Wanted(h)
         /\ \A i \in DOMAIN h : h[i].kind \in Voiced =>
                \A a, b \in DOMAIN r : r[a] = h[i].frame /\ r[b] = h[i].frame => a = b
    ELSE IF \E k \in DOMAIN h : Audible(h, k) THEN Rescues(h, r) ELSE r = <<>>

-----------------------------------------------------------------------------
(* Properties *)

\* What a stop hands over was captured after the previous recording was handed
\* over, and what the stream had delivered when stop was called is heard.
OwnAudio ==
    /\ \A f \in ToSet(out) \cup ToSet(rescue.frames) : f > sealed
    /\ caller # "Stop" => tail <= sealed

\* A stop hands over every stretch of speech with the frames around it and no
\* other frame, no voice twice; and when the VAD lets nothing through, audible
\* audio is rescued (finalize_recording_samples).
SpeechHandedOver ==
    [][worker = "finish" /\ worker' = "obey" => Faithful(heard, Finalized)]_vars

\* A stream that delivers nothing wedges neither the calls nor the news of its
\* failure, which is told unless the stream takes its callbacks down with it.
CallsAnswered == []<>(caller = "idle")
FaultSurfaces == []<>(fault = "sent" => ~Running \/ device = "gone")
Responsive    == CallsAnswered /\ FaultSurfaces

-----------------------------------------------------------------------------
(* Expectations the code does not meet; the README gives the constants.    *)

\* No audio is handed over twice in one recording.
NoEcho == \A a, b \in DOMAIN out : a < b => out[a] < out[b]

\* "Stopping normally salvages the audio captured before the failure"
\* (handle_stream_failure): no failure ends the worker under a recording.
StopSalvages == [][worker' # "dead" \/ ~begun]_vars

\* The error callback is told of the first stream error, unless the stream is
\* closed before.
FaultTold == fault = "sent" ~> fault = "surfaced" \/ worker = "none"
=============================================================================
