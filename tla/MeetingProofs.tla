--------------------------- MODULE MeetingProofs ---------------------------
(***************************************************************************)
(* Proofs about Meetings, for any number of meetings, callers, commands,   *)
(* frames and crashes.  Everybody who saves a session holds a copy that is *)
(* the session as it stands, because runs, the one job and the recovery    *)
(* never work on the same meeting at a time: that is what the invariant    *)
(* says, and the properties rest on it.                                    *)
(***************************************************************************)
EXTENDS Meetings, FiniteSetTheorems, TLAPS

States  == Working \cup {"recorded", "interrupted", "ready"}
Records == [state : States, mic : BOOLEAN, names : Nat, transcript : BOOLEAN]
Copies  == Records \cup {NoSession}

Places == {"none", "asked", "claimed", "loaded", "working", "json", "md",
           "transcribed", "failed", "summed", "leave"}
Analyzing == {"working", "json", "md", "transcribed", "failed", "summed"}
Holding   == Analyzing \cup {"loaded"}
Waiting   == {"none", "asked"}

Stages  == {"none", "claimed", "opening", "capturing", "closeMicrophone",
            "closeSystem", "moveMicrophone", "moveSystem", "mix", "failed"}
Writing == {"capturing", "closeMicrophone", "closeSystem"}

Lengths == [Meetings -> [Tracks -> Nat]]
Files   == [Meetings -> [Tracks -> {"none", "partial", "final"}]]

Typed ==
    /\ exists \subseteq Meetings /\ session \in [Meetings -> Copies]
    /\ text \in [Meetings -> {"none", "json", "both"}]
    /\ file \in Files /\ frames \in Lengths /\ header \in Lengths
    /\ synced \in Lengths
    /\ run \in Meetings \cup {NoMeeting} /\ capture \in Stages
    /\ visit \in Meetings \cup {NoMeeting}
    /\ call \in [Callers -> Places] /\ order \in [Callers -> Orders]
    /\ about \in [Callers -> Meetings \cup {NoMeeting}]
    /\ copy \in [Callers -> Copies] /\ edits \in Nat
    /\ recovering \in BOOLEAN

\* A saved session claims nothing that is not there, and before it is saved
\* there is no audio.
Saved ==
    /\ \A m \in exists : session[m] \in Records
    /\ \A m \in Meetings : session[m] \in Records =>
          session[m].names <= edits /\ (session[m].transcript => text[m] = "both")
    /\ \A m \in Meetings : \A t \in Tracks :
          session[m] = NoSession => synced[m][t] = 0

\* The run's copy is the session.
Captured ==
    /\ run = NoMeeting <=> capture = "none"
    /\ capture = "claimed" => session[run] = NoSession
    /\ capture \notin {"none", "claimed"} =>
          record = session[run] /\ session[run] \in Records

\* A track that has its final name is synced and its header true.
Whole(m, t) == header[m][t] = frames[m][t] /\ synced[m][t] = frames[m][t]
Stored ==
    /\ \A m \in Meetings : \A t \in Tracks :
          synced[m][t] <= frames[m][t] /\ (file[m][t] = "final" => Whole(m, t))
    /\ capture \in Writing => \A t \in Tracks : file[run][t] = "partial"
    /\ capture \in {"closeSystem", "moveMicrophone", "moveSystem"} =>
          Whole(run, "microphone")
    /\ capture \in {"moveMicrophone", "moveSystem"} => Whole(run, "system")

\* Synced audio that is wanted has a file.
Wanted(m, t) == t = "system" \/ session[m].mic
Kept ==
    \A m \in exists : \A t \in Tracks :
        synced[m][t] > 0 /\ Wanted(m, t) => file[m][t] # "none"

\* No caller is about the meeting of the run; the one who claimed the job is
\* the job, and its copy is the session.
Claimed ==
    \A c \in Callers : call[c] # "none" =>
        /\ about[c] \in Meetings /\ about[c] # run /\ session[about[c]] \in Records
        /\ call[c] \notin Waiting => jobs = about[c]
        /\ call[c] \in Holding => copy[c] = session[about[c]]
        /\ call[c] = "transcribed" => text[about[c]] = "both"
Alone ==
    \A c, d \in Callers : call[c] \notin Waiting /\ call[d] \notin Waiting => c = d

\* What looks worked on is, or the recovery will see to it.
InWork(m) == run = m \/ \E c \in Callers : about[c] = m /\ call[c] \in Analyzing
Left ==
    /\ ~recovering => visit = NoMeeting
    /\ ~recovering => \A m \in exists : session[m].state \in Working => InWork(m)
    /\ recovering => run = NoMeeting /\ \A c \in Callers : call[c] = "none"
    /\ recovering => /\ todo \subseteq exists
                     /\ \A m \in exists \ todo : session[m].state \notin Working
    /\ visit # NoMeeting =>
          /\ session[visit] \in Records
          /\ restored = [session[visit] EXCEPT !.state = "interrupted"]

IInv == Typed /\ Saved /\ Captured /\ Stored /\ Kept /\ Claimed /\ Alone /\ Left

-----------------------------------------------------------------------------
(* What a part of the invariant is about *)

LEMMA Frames ==
    /\ Saved /\ UNCHANGED <<exists, session, text, synced, edits>> => Saved'
    /\ Captured /\ UNCHANGED <<run, capture, record, session>> => Captured'
    /\ Stored /\ UNCHANGED <<audio, capture, run>> => Stored'
    /\ Kept /\ UNCHANGED <<exists, session, synced, file>> => Kept'
    /\ Claimed /\ UNCHANGED <<call, about, copy, jobs, run, session, text>> => Claimed'
    /\ Alone /\ UNCHANGED call => Alone'
    /\ Left /\ UNCHANGED <<recovery, exists, session, run, call, about>> => Left'
  <1>1. Saved /\ UNCHANGED <<exists, session, text, synced, edits>> => Saved'
    BY DEF Saved
  <1>2. Captured /\ UNCHANGED <<run, capture, record, session>> => Captured'
    BY DEF Captured
  <1>3. Stored /\ UNCHANGED <<audio, capture, run>> => Stored'
    BY DEF Stored, Whole, audio
  <1>4. Kept /\ UNCHANGED <<exists, session, synced, file>> => Kept'
    BY DEF Kept, Wanted
  <1>5. Claimed /\ UNCHANGED <<call, about, copy, jobs, run, session, text>> => Claimed'
    BY DEF Claimed
  <1>6. Alone /\ UNCHANGED call => Alone'
    BY DEF Alone
  <1>7. Left /\ UNCHANGED <<recovery, exists, session, run, call, about>> => Left'
    BY DEF Left, InWork, recovery
  <1> QED  BY <1>1, <1>2, <1>3, <1>4, <1>5, <1>6, <1>7

\* Changing one field of a record.
LEMMA Fields ==
    ASSUME NEW s \in Records
    PROVE  /\ s.state \in States /\ s.mic \in BOOLEAN /\ s.names \in Nat
           /\ s.transcript \in BOOLEAN
           /\ \A x \in States : LET r == [s EXCEPT !.state = x]
                 IN  r \in Records /\ r.state = x /\ r.mic = s.mic
                     /\ r.names = s.names /\ r.transcript = s.transcript
           /\ \A n \in Nat : LET r == [s EXCEPT !.names = n]
                 IN  r \in Records /\ r.state = s.state /\ r.mic = s.mic
                     /\ r.names = n /\ r.transcript = s.transcript
  BY DEF Records

\* One track of one meeting is changed.
IsPut(g, f, m, t, v) ==
    /\ g[m][t] = v
    /\ \A n \in Meetings : \A u \in Tracks : n # m \/ u # t => g[n][u] = f[n][u]

LEMMA PutLength ==
    ASSUME NEW f \in Lengths, NEW m \in Meetings, NEW t \in Tracks, NEW n \in Nat,
           NEW g, g = Put(f, m, t, n)
    PROVE  g \in Lengths /\ IsPut(g, f, m, t, n)
  BY DEF Lengths, Put, IsPut

LEMMA PutFile ==
    ASSUME NEW f \in Files, NEW m \in Meetings, NEW t \in Tracks,
           NEW v \in {"none", "partial", "final"}, NEW g, g = Put(f, m, t, v)
    PROVE  g \in Files /\ IsPut(g, f, m, t, v)
  BY DEF Files, Put, IsPut

LEMMA Lengthwise ==
    Typed => \A m \in Meetings : \A t \in Tracks :
        frames[m][t] \in Nat /\ header[m][t] \in Nat /\ synced[m][t] \in Nat
  BY DEF Typed, Lengths

\* A caller goes on.
LEMMA GoesOne ==
    ASSUME Typed, NEW c \in Callers, NEW p \in Places, Goes(c, p)
    PROVE  /\ call' \in [Callers -> Places] /\ call'[c] = p
           /\ \A d \in Callers \ {c} : call'[d] = call[d]
  BY DEF Typed, Goes

\* Saving what the session allows.
LEMMA SaveKeeps ==
    ASSUME NoSession \notin Records, IInv, NEW m \in Meetings, session[m] \in Records,
           NEW s \in Records, Save(m, s), s.mic = session[m].mic,
           s.names <= edits', edits' \in Nat, edits <= edits',
           s.transcript => text[m] = "both", UNCHANGED <<exists, text>>
    PROVE  /\ session' \in [Meetings -> Copies] /\ session'[m] = s
           /\ \A n \in Meetings \ {m} : session'[n] = session[n]
           /\ \A n \in Meetings : session[n] \in Records => session'[n] \in Records
           /\ UNCHANGED synced => Saved'
           /\ UNCHANGED <<synced, file>> => Kept'
  <1>1. /\ session' \in [Meetings -> Copies] /\ session'[m] = s
        /\ \A n \in Meetings \ {m} : session'[n] = session[n]
    BY DEF Save, IInv, Typed, Copies
  <1>2. UNCHANGED synced => Saved'
    <2> SUFFICES ASSUME UNCHANGED synced PROVE Saved'
      OBVIOUS
    <2>1. \A n \in exists' : session'[n] \in Records
      BY <1>1 DEF IInv, Saved, Typed
    <2>2. ASSUME NEW n \in Meetings, session'[n] \in Records
          PROVE  session'[n].names <= edits' /\ (session'[n].transcript => text'[n] = "both")
      <3>1. CASE n = m
        BY <1>1, <3>1
      <3>2. CASE n # m
        <4>1. session[n] \in Records /\ session'[n] = session[n]
          BY <1>1, <2>2, <3>2
        <4>2. session[n].names \in Nat /\ edits \in Nat
          BY <4>1, Fields DEF IInv, Typed
        <4>3. session[n].names <= edits /\ (session[n].transcript => text[n] = "both")
          BY <4>1 DEF IInv, Saved
        <4> QED  BY <4>1, <4>2, <4>3
      <3> QED  BY <3>1, <3>2
    <2>3. \A n \in Meetings : \A t \in Tracks :
             session'[n] = NoSession => synced'[n][t] = 0
      BY <1>1 DEF IInv, Saved
    <2> QED  BY <2>1, <2>2, <2>3 DEF Saved
  <1>3. UNCHANGED <<synced, file>> => Kept'
    BY <1>1 DEF IInv, Kept, Wanted, Typed
  <1> QED  BY <1>1, <1>2, <1>3

-----------------------------------------------------------------------------
(* The run *)

LEMMA StartKeeps ==
    ASSUME NoSession \notin Records, IInv, NEW m \in Meetings, Start(m) PROVE IInv'
  <1> USE DEF Disk, audio, recovery, active, calls
  <1>1. run = NoMeeting /\ ~recovering /\ m # NoMeeting /\ session[m] = NoSession
    BY DEF Start, Busy, Meetings, NoMeeting
  <1>2. Typed'
    BY DEF Start, IInv, Typed, Stages
  <1>3. Captured'
    BY <1>1 DEF Start, Captured
  <1>4. Stored'
    BY DEF Start, IInv, Stored, Writing, Whole
  <1>5. Claimed'
    BY <1>1 DEF Start, IInv, Claimed
  <1>6. Left'
    <2>1. \A n \in exists : InWork(n) => InWork(n)'
      BY <1>1 DEF Start, InWork, IInv, Typed, Meetings, NoMeeting
    <2> QED  BY <1>1, <2>1 DEF Start, IInv, Left
  <1> QED
    BY <1>2, <1>3, <1>4, <1>5, <1>6, Frames DEF Start, IInv

\* While there is a run nothing is recovered, and its work is its own.
LEMMA Running ==
    ASSUME IInv, capture # "none"
    PROVE  run \in Meetings /\ ~recovering /\ visit = NoMeeting
  BY DEF IInv, Captured, Typed, Left

\* A step of the run that stays with its meeting.
LEMMA RunLeft ==
    ASSUME IInv, capture # "none", UNCHANGED <<recovery, run, call, about>>,
           exists' \subseteq exists \cup {run},
           \A m \in Meetings \ {run} : session'[m] = session[m]
    PROVE  Left'
  <1>1. ~recovering /\ visit = NoMeeting /\ exists \subseteq Meetings
    BY Running DEF IInv, Typed
  <1>2. ASSUME NEW m \in exists', session'[m].state \in Working PROVE InWork(m)'
    <2>1. CASE m = run
      BY <2>1 DEF InWork
    <2>2. CASE m # run
      BY <1>1, <1>2, <2>2 DEF IInv, Left, InWork
    <2> QED  BY <2>1, <2>2
  <1> QED  BY <1>1, <1>2 DEF recovery, Left

LEMMA CreateKeeps ==
    ASSUME NoSession \notin Records, IInv, Create PROVE IInv'
  <1> USE DEF Disk, audio, recovery, active, calls
  <1>1. run \in Meetings /\ ~recovering /\ visit = NoMeeting /\ run # NoMeeting
        /\ session[run] = NoSession /\ capture = "claimed"
    BY Running DEF Create, IInv, Captured
  <1>2. CASE run' = NoMeeting /\ capture' = "none" /\ UNCHANGED <<exists, session, record>>
    <2>1. Typed'
      BY <1>2 DEF Create, IInv, Typed, Stages
    <2>2. Captured' /\ Stored'
      BY <1>1, <1>2 DEF Create, IInv, Captured, Stored, Writing, Whole
    <2>3. Claimed'
      BY <1>2 DEF Create, IInv, Claimed, Meetings, NoMeeting
    <2>4. run \notin exists
      BY <1>1 DEF IInv, Saved
    <2>5. Left'
      BY <1>1, <1>2, <2>4 DEF Create, IInv, Left, InWork
    <2> QED  BY <1>2, <2>1, <2>2, <2>3, <2>5, Frames DEF Create, IInv
  <1>3. ASSUME NEW mic \in BOOLEAN, NEW s,
               s = [state |-> "starting", mic |-> mic, names |-> 0, transcript |-> FALSE],
               exists' = exists \cup {run}, Save(run, s), record' = s,
               capture' = "opening", UNCHANGED run
        PROVE  IInv'
    <2>1. s \in Records /\ s.names = 0 /\ ~s.transcript
      BY <1>3 DEF Records, States, Working
    <2>2. /\ session' \in [Meetings -> Copies] /\ session'[run] = s
          /\ \A n \in Meetings \ {run} : session'[n] = session[n]
      BY <1>1, <1>3, <2>1 DEF Save, IInv, Typed, Copies
    <2>3. Typed'
      BY <1>1, <1>3, <2>2 DEF Create, IInv, Typed, Stages
    <2>4. Saved'
      <3>1. \A n \in exists' : session'[n] \in Records
        BY <1>3, <2>1, <2>2 DEF IInv, Saved, Typed
      <3>2. ASSUME NEW n \in Meetings, session'[n] \in Records
            PROVE  session'[n].names <= edits' /\ (session'[n].transcript => text'[n] = "both")
        <4>1. CASE n = run
          BY <2>1, <2>2, <4>1 DEF Create, IInv, Typed
        <4>2. CASE n # run
          BY <2>2, <3>2, <4>2 DEF Create, IInv, Saved
        <4> QED  BY <4>1, <4>2
      <3>3. \A n \in Meetings : \A t \in Tracks :
               session'[n] = NoSession => synced'[n][t] = 0
        BY <2>1, <2>2 DEF Create, IInv, Saved
      <3> QED  BY <3>1, <3>2, <3>3 DEF Saved
    <2>5. Captured'
      BY <1>1, <1>3, <2>1, <2>2 DEF Captured
    <2>6. Stored'
      BY <1>1, <1>3 DEF Create, IInv, Stored, Writing, Whole
    <2>7. Kept'
      <3>1. \A t \in Tracks : synced[run][t] = 0
        BY <1>1 DEF IInv, Saved
      <3>2. ASSUME NEW n \in exists', NEW t \in Tracks, synced'[n][t] > 0, Wanted(n, t)'
            PROVE  file'[n][t] # "none"
        <4>1. n # run /\ n \in exists /\ n \in Meetings /\ UNCHANGED <<synced, file>>
          BY <1>3, <3>1, <3>2 DEF Create, IInv, Typed
        <4>2. Wanted(n, t)
          BY <2>2, <3>2, <4>1 DEF Wanted
        <4> QED  BY <3>2, <4>1, <4>2 DEF IInv, Kept
      <3> QED  BY <3>2 DEF Kept
    <2>8. Claimed'
      BY <1>1, <1>3, <2>2 DEF Create, IInv, Claimed
    <2>9. Left'
      BY <1>1, <1>3, <2>2, RunLeft DEF Create
    <2> QED
      BY <2>3, <2>4, <2>5, <2>6, <2>7, <2>8, <2>9, Frames DEF Create, IInv
  <1> QED  BY <1>2, <1>3 DEF Create

LEMMA OpenKeeps == ASSUME IInv, Open PROVE IInv'
  <1> USE DEF Disk, audio, recovery, active, calls
  <1>1. run \in Meetings /\ run # NoMeeting
    BY Running DEF Open, IInv, Captured
  <1>2. /\ file' \in Files /\ \A t \in Tracks : file'[run][t] = "partial"
        /\ \A m \in Meetings \ {run} : file'[m] = file[m]
    BY <1>1 DEF Open, IInv, Typed, Files
  <1>3. Typed'
    BY <1>2 DEF Open, IInv, Typed, Stages
  <1>4. Captured'
    BY DEF Open, IInv, Captured
  <1>5. Stored'
    <2>1. ASSUME NEW m \in Meetings, NEW t \in Tracks
          PROVE  synced'[m][t] <= frames'[m][t] /\ (file'[m][t] = "final" => Whole(m, t)')
      BY <1>2 DEF Open, IInv, Stored, Whole
    <2> QED  BY <1>2, <2>1 DEF Open, Stored, Writing, Whole
  <1>6. Kept'
    BY <1>2 DEF Open, IInv, Kept, Wanted, Typed
  <1> QED
    BY <1>3, <1>4, <1>5, <1>6, Frames DEF Open, IInv

LEMMA AppendToKeeps == ASSUME IInv, NEW t \in Tracks, AppendTo(t) PROVE IInv'
  <1> USE DEF Disk, audio, recovery, active, calls
  <1>1. run \in Meetings /\ file[run][t] = "partial"
    BY Running DEF AppendTo, IInv, Stored, Writing
  <1>2. frames[run][t] + 1 \in Nat /\ frames \in Lengths
    BY <1>1, Lengthwise DEF IInv, Typed
  <1>3. /\ frames' \in Lengths /\ frames'[run][t] = frames[run][t] + 1
        /\ \A n \in Meetings : \A u \in Tracks :
              n # run \/ u # t => frames'[n][u] = frames[n][u]
    <2>1. frames' = Put(frames, run, t, frames[run][t] + 1)
      BY DEF AppendTo
    <2>2. frames' \in Lengths /\ IsPut(frames', frames, run, t, frames[run][t] + 1)
      BY <1>1, <1>2, <2>1, PutLength
    <2> QED  BY <2>2 DEF IsPut
  <1>4. Typed'
    BY <1>3 DEF AppendTo, IInv, Typed
  <1>5. ASSUME NEW m \in Meetings, NEW u \in Tracks
        PROVE  synced'[m][u] <= frames'[m][u] /\ (file'[m][u] = "final" => Whole(m, u)')
    <2>1. CASE m = run /\ u = t
      <3>1. synced[run][t] <= frames[run][t] /\ synced[run][t] \in Nat
            /\ frames[run][t] \in Nat
        BY <1>1, Lengthwise DEF IInv, Stored
      <3> QED  BY <1>1, <1>3, <2>1, <3>1 DEF AppendTo
    <2>2. CASE m # run \/ u # t
      BY <1>3, <2>2 DEF AppendTo, IInv, Stored, Whole
    <2> QED  BY <2>1, <2>2
  <1>6. Stored'
    BY <1>5 DEF AppendTo, IInv, Stored, Writing
  <1> QED  BY <1>4, <1>6, Frames DEF AppendTo, IInv

LEMMA CheckpointKeeps ==
    ASSUME NoSession \notin Records, IInv, Checkpoint PROVE IInv'
  <1> USE DEF Disk, audio, recovery, active, calls
  <1>1. run \in Meetings /\ run # NoMeeting /\ record = session[run]
        /\ session[run] \in Records /\ \A t \in Tracks : file[run][t] = "partial"
    BY Running DEF Checkpoint, IInv, Captured, Stored, Writing
  <1>2. PICK x \in States : record' = [record EXCEPT !.state = x]
    BY DEF Checkpoint, States, Working
  <1>3. /\ record' \in Records /\ record'.mic = session[run].mic
        /\ record'.names = session[run].names
        /\ record'.transcript = session[run].transcript
    BY <1>1, <1>2, Fields
  <1>4. session[run].names <= edits /\ edits \in Nat /\ session[run].names \in Nat
        /\ (session[run].transcript => text[run] = "both")
    BY <1>1, Fields DEF IInv, Saved, Typed
  <1>5. /\ session' \in [Meetings -> Copies] /\ session'[run] = record'
        /\ \A n \in Meetings \ {run} : session'[n] = session[n]
        /\ \A n \in Meetings : session[n] \in Records => session'[n] \in Records
    <2>1. /\ Save(run, record') /\ record'.names <= edits' /\ edits' \in Nat
          /\ edits <= edits' /\ UNCHANGED <<exists, text>>
      BY <1>3, <1>4 DEF Checkpoint
    <2> QED  BY <1>1, <1>3, <1>4, <2>1, SaveKeeps
  <1>6. /\ header' \in Lengths /\ synced' \in Lengths
        /\ header'[run] = frames[run] /\ synced'[run] = frames[run]
        /\ \A m \in Meetings \ {run} : header'[m] = header[m] /\ synced'[m] = synced[m]
    BY <1>1 DEF Checkpoint, IInv, Typed, Lengths
  <1>7. Typed'
    BY <1>5, <1>6 DEF Checkpoint, IInv, Typed
  <1>8. Saved'
    <2>1. \A n \in exists' : session'[n] \in Records
      BY <1>5 DEF Checkpoint, IInv, Saved, Typed
    <2>2. ASSUME NEW n \in Meetings, session'[n] \in Records
          PROVE  session'[n].names <= edits' /\ (session'[n].transcript => text'[n] = "both")
      <3>1. CASE n = run
        BY <1>3, <1>4, <1>5, <3>1 DEF Checkpoint
      <3>2. CASE n # run
        BY <1>5, <2>2, <3>2 DEF Checkpoint, IInv, Saved
      <3> QED  BY <3>1, <3>2
    <2>3. \A n \in Meetings : \A t \in Tracks :
             session'[n] = NoSession => synced'[n][t] = 0
      BY <1>3, <1>5, <1>6 DEF IInv, Saved
    <2> QED  BY <2>1, <2>2, <2>3 DEF Saved
  <1>9. Captured'
    BY <1>1, <1>3, <1>5 DEF Checkpoint, IInv, Captured
  <1>10. Stored'
    <2>1. ASSUME NEW m \in Meetings, NEW t \in Tracks
          PROVE  synced'[m][t] <= frames'[m][t] /\ (file'[m][t] = "final" => Whole(m, t)')
      <3>1. CASE m = run
        BY <1>1, <1>6, <3>1, Lengthwise DEF Checkpoint, IInv
      <3>2. CASE m # run
        BY <1>6, <3>2 DEF Checkpoint, IInv, Stored, Whole
      <3> QED  BY <3>1, <3>2
    <2> QED  BY <1>1, <2>1 DEF Checkpoint, Stored, Writing
  <1>11. Kept'
    <2>1. ASSUME NEW m \in exists, NEW t \in Tracks, synced'[m][t] > 0, Wanted(m, t)'
          PROVE  file'[m][t] # "none"
      <3>1. CASE m = run
        BY <1>1, <3>1 DEF Checkpoint
      <3>2. CASE m # run
        BY <1>5, <1>6, <2>1, <3>2 DEF Checkpoint, IInv, Kept, Wanted, Typed
      <3> QED  BY <3>1, <3>2
    <2> QED  BY <2>1 DEF Checkpoint, Kept
  <1>12. Claimed'
    BY <1>5 DEF Checkpoint, IInv, Claimed
  <1>13. Left'
    BY <1>5, RunLeft DEF Checkpoint
  <1> QED
    BY <1>7, <1>8, <1>9, <1>10, <1>11, <1>12, <1>13, Frames DEF Checkpoint, IInv

LEMMA StopKeeps == ASSUME IInv, Stop PROVE IInv'
  <1> USE DEF Disk, audio, recovery, active, calls
  <1>1. Typed'
    BY DEF Stop, IInv, Typed
  <1> QED  BY <1>1, Frames DEF Stop, IInv

LEMMA CaptureEndsKeeps == ASSUME IInv, CaptureEnds PROVE IInv'
  <1> USE DEF Disk, audio, recovery, active, calls
  <1>1. Typed'
    BY DEF CaptureEnds, IInv, Typed, Stages
  <1>2. Captured'
    BY DEF CaptureEnds, IInv, Captured
  <1>3. Stored'
    BY DEF CaptureEnds, IInv, Stored, Writing, Whole
  <1> QED  BY <1>1, <1>2, <1>3, Frames DEF CaptureEnds, IInv

\* A track is padded and synced.
LEMMA FinishKeeps ==
    ASSUME NoSession \notin Records, IInv, NEW t \in Tracks, NEW p \in Writing,
           NEW q, Finish(t, p, q),
           \/ t = "microphone" /\ p = "closeMicrophone" /\ q = "closeSystem"
           \/ t = "system" /\ p = "closeSystem" /\ q = "moveMicrophone"
    PROVE  IInv'
  <1> USE DEF Disk, audio, recovery, active, calls
  <1>1. run \in Meetings /\ \A u \in Tracks : file[run][u] = "partial"
    BY Running DEF Finish, IInv, Stored, Writing
  <1>2. PICK n \in Nat :
           /\ frames' = Put(frames, run, t, n) /\ header' = Put(header, run, t, n)
           /\ synced' = Put(synced, run, t, n)
    <2>1. frames[run][t] \in Nat /\ Longest(run) \in Nat
      BY <1>1, Lengthwise DEF IInv, Longest, Tracks
    <2> QED  BY <2>1 DEF Finish
  <1>3. frames \in Lengths /\ header \in Lengths /\ synced \in Lengths
    BY DEF IInv, Typed
  <1>4. /\ frames' \in Lengths /\ header' \in Lengths /\ synced' \in Lengths
        /\ frames'[run][t] = n /\ header'[run][t] = n /\ synced'[run][t] = n
        /\ \A m \in Meetings : \A u \in Tracks : m # run \/ u # t =>
              /\ frames'[m][u] = frames[m][u] /\ header'[m][u] = header[m][u]
              /\ synced'[m][u] = synced[m][u]
    <2>1. /\ frames' \in Lengths /\ IsPut(frames', frames, run, t, n)
          /\ header' \in Lengths /\ IsPut(header', header, run, t, n)
          /\ synced' \in Lengths /\ IsPut(synced', synced, run, t, n)
      BY <1>1, <1>2, <1>3, PutLength
    <2> QED  BY <2>1 DEF IsPut
  <1>5. Typed'
    BY <1>4 DEF Finish, IInv, Typed, Stages
  <1>6. Saved'
    <2>1. session[run] # NoSession
      BY DEF Finish, IInv, Captured, Writing
    <2>2. ASSUME NEW m \in Meetings, NEW u \in Tracks, session'[m] = NoSession
          PROVE  synced'[m][u] = 0
      <3>1. m # run /\ session[m] = NoSession
        BY <2>1, <2>2 DEF Finish
      <3>2. synced'[m][u] = synced[m][u] /\ synced[m][u] = 0
        BY <1>4, <3>1 DEF IInv, Saved
      <3> QED  BY <3>2
    <2> QED  BY <2>2 DEF Finish, IInv, Saved
  <1>7. Captured'
    BY DEF Finish, IInv, Captured, Writing
  <1>8. Stored'
    <2>1. ASSUME NEW m \in Meetings, NEW u \in Tracks
          PROVE  synced'[m][u] <= frames'[m][u] /\ (file'[m][u] = "final" => Whole(m, u)')
      <3>1. CASE m = run /\ u = t
        <4>1. n <= n
          BY <1>2
        <4> QED  BY <1>4, <3>1, <4>1 DEF Whole
      <3>2. CASE m # run \/ u # t
        <4>1. file' = file
          BY DEF Finish
        <4>2. synced[m][u] <= frames[m][u] /\ (file[m][u] = "final" => Whole(m, u))
          BY DEF IInv, Stored
        <4> QED  BY <1>4, <3>2, <4>1, <4>2 DEF Whole
      <3> QED  BY <3>1, <3>2
    <2>2. Whole(run, t)' /\ \A u \in Tracks \ {t} : Whole(run, u) => Whole(run, u)'
      BY <1>1, <1>4 DEF Finish, Whole
    <2> QED  BY <1>1, <2>1, <2>2 DEF Finish, IInv, Stored, Writing, Tracks
  <1>9. Kept'
    <2>1. ASSUME NEW m \in exists, NEW u \in Tracks, synced'[m][u] > 0, Wanted(m, u)'
          PROVE  file'[m][u] # "none"
      <3>1. CASE m = run
        BY <1>1, <3>1 DEF Finish
      <3>2. CASE m # run
        BY <1>4, <2>1, <3>2 DEF Finish, IInv, Kept, Wanted, Typed
      <3> QED  BY <3>1, <3>2
    <2> QED  BY <2>1 DEF Finish, Kept
  <1> QED
    BY <1>5, <1>6, <1>7, <1>8, <1>9, Frames DEF Finish, IInv

\* A track gets its final name or, unwanted, goes.
LEMMA MoveKeeps ==
    ASSUME IInv, NEW t \in Tracks, NEW p, NEW q, Move(t, p, q),
           \/ t = "microphone" /\ p = "moveMicrophone" /\ q = "moveSystem"
           \/ t = "system" /\ p = "moveSystem" /\ q = "mix"
    PROVE  IInv'
  <1> USE DEF Disk, audio, recovery, active, calls
  <1>1. run \in Meetings /\ record = session[run] /\ Whole(run, t)
        /\ capture \in {"moveMicrophone", "moveSystem"}
    BY Running DEF Move, IInv, Captured, Stored
  <1>2. PICK v \in {"none", "partial", "final"} :
           /\ v = "none" => t = "microphone" /\ ~record.mic
           /\ \/ file' = Put(file, run, t, v)
              \/ capture' = "failed" /\ UNCHANGED file
    BY DEF Move, Tracks
  <1>3. file' \in Files /\ \A m \in Meetings : \A u \in Tracks :
           file'[m][u] = file[m][u] \/ (m = run /\ u = t /\ file'[m][u] = v)
    <2>1. file \in Files
      BY DEF IInv, Typed
    <2>2. file' = Put(file, run, t, v) => file' \in Files /\ IsPut(file', file, run, t, v)
      BY <1>1, <2>1, PutFile
    <2> QED  BY <1>2, <2>1, <2>2 DEF IsPut
  <1>4. capture' \in {"moveSystem", "mix", "failed"}
        /\ (capture' = "moveSystem" => capture = "moveMicrophone")
    BY DEF Move
  <1>5. Typed'
    BY <1>3, <1>4 DEF Move, IInv, Typed, Stages
  <1>6. Captured'
    BY <1>1, <1>4 DEF Move, IInv, Captured
  <1>7. Stored'
    <2>1. ASSUME NEW m \in Meetings, NEW u \in Tracks
          PROVE  synced'[m][u] <= frames'[m][u] /\ (file'[m][u] = "final" => Whole(m, u)')
      BY <1>1, <1>3 DEF Move, IInv, Stored, Whole
    <2> QED  BY <1>1, <1>4, <2>1 DEF Move, IInv, Stored, Writing, Whole
  <1>8. Kept'
    <2>1. ASSUME NEW m \in exists, NEW u \in Tracks, synced'[m][u] > 0, Wanted(m, u)'
          PROVE  file'[m][u] # "none"
      <3>1. m \in Meetings /\ Wanted(m, u) /\ file[m][u] # "none"
        BY <2>1 DEF Move, IInv, Kept, Wanted, Typed
      <3>2. CASE m = run /\ u = t /\ file'[m][u] = v
        BY <1>1, <1>2, <3>1, <3>2 DEF Wanted
      <3> QED  BY <1>3, <3>1, <3>2
    <2> QED  BY <2>1 DEF Move, Kept
  <1> QED
    BY <1>5, <1>6, <1>7, <1>8, Frames DEF Move, IInv

LEMMA CaptureSavedKeeps ==
    ASSUME NoSession \notin Records, IInv, CaptureSaved PROVE IInv'
  <1> USE DEF Disk, audio, recovery, active, calls
  <1>1. run \in Meetings /\ record = session[run] /\ session[run] \in Records
        /\ ~recovering /\ visit = NoMeeting
    BY Running DEF CaptureSaved, IInv, Captured
  <1>2. PICK x \in {"recorded", "interrupted"} : Save(run, [record EXCEPT !.state = x])
    BY DEF CaptureSaved
  <1> DEFINE s == [record EXCEPT !.state = x]
  <1>3. x \in States /\ x \notin Working
    BY DEF States, Working
  <1>4. /\ s \in Records /\ s.mic = session[run].mic /\ s.state = x
        /\ s.names = session[run].names /\ s.transcript = session[run].transcript
    BY <1>1, <1>3, Fields
  <1>5. session[run].names <= edits /\ edits \in Nat
        /\ (session[run].transcript => text[run] = "both")
    BY <1>1 DEF IInv, Saved, Typed
  <1> HIDE DEF s
  <1>6. /\ session' \in [Meetings -> Copies] /\ session'[run] = s
        /\ \A n \in Meetings \ {run} : session'[n] = session[n]
        /\ \A n \in Meetings : session[n] \in Records => session'[n] \in Records
        /\ Saved' /\ Kept'
    <2>1. Save(run, s) /\ s.names <= edits' /\ edits' \in Nat /\ edits <= edits'
          /\ UNCHANGED <<exists, text, synced, file>>
      BY <1>2, <1>4, <1>5 DEF CaptureSaved, s
    <2> QED  BY <1>1, <1>4, <1>5, <2>1, SaveKeeps
  <1>7. Typed'
    BY <1>6 DEF CaptureSaved, IInv, Typed, Stages
  <1>8. Captured' /\ Stored'
    BY DEF CaptureSaved, IInv, Captured, Stored, Writing, Whole
  <1>9. Claimed'
    BY <1>6 DEF CaptureSaved, IInv, Claimed, Meetings, NoMeeting
  <1>10. Left'
    <2>1. ASSUME NEW m \in exists, session'[m].state \in Working PROVE InWork(m)'
      <3>1. m # run /\ m \in Meetings
        BY <1>3, <1>4, <1>6, <2>1 DEF IInv, Typed
      <3>2. InWork(m)
        BY <1>1, <1>6, <2>1, <3>1 DEF IInv, Left
      <3> QED  BY <3>1, <3>2 DEF CaptureSaved, InWork
    <2> QED  BY <1>1, <2>1 DEF CaptureSaved, Left
  <1> QED
    BY <1>6, <1>7, <1>8, <1>9, <1>10, Frames DEF CaptureSaved, IInv

-----------------------------------------------------------------------------
(* The job *)

LEMMA AskKeeps ==
    ASSUME NoSession \notin Records, IInv, NEW c \in Callers, NEW m \in Meetings,
           NEW o \in Orders, Ask(c, m, o)
    PROVE  IInv'
  <1> USE DEF Disk, audio, recovery, active, calls
  <1>1. call[c] = "none" /\ ~recovering /\ run = NoMeeting /\ m # NoMeeting
        /\ session[m] \in Records
    BY DEF Ask, Busy, IInv, Saved, Meetings, NoMeeting
  <1>2. /\ call' \in [Callers -> Places] /\ call'[c] = "asked"
        /\ \A d \in Callers \ {c} : call'[d] = call[d]
    BY GoesOne DEF Ask, IInv, Places
  <1>3. /\ about' \in [Callers -> Meetings \cup {NoMeeting}] /\ about'[c] = m
        /\ \A d \in Callers \ {c} : about'[d] = about[d]
    BY DEF Ask, IInv, Typed
  <1>4. Typed'
    BY <1>2, <1>3 DEF Ask, IInv, Typed
  <1>5. Claimed'
    <2>1. ASSUME NEW d \in Callers, call'[d] # "none"
          PROVE  /\ about'[d] \in Meetings /\ about'[d] # run'
                 /\ session'[about'[d]] \in Records
                 /\ call'[d] \notin Waiting => jobs' = about'[d]
                 /\ call'[d] \in Holding => copy'[d] = session'[about'[d]]
                 /\ call'[d] = "transcribed" => text'[about'[d]] = "both"
      <3>1. CASE d = c
        BY <1>1, <1>2, <1>3, <3>1 DEF Ask, Waiting, Holding, Analyzing
      <3>2. CASE d # c
        BY <1>2, <1>3, <2>1, <3>2 DEF Ask, IInv, Claimed
      <3> QED  BY <3>1, <3>2
    <2> QED  BY <2>1 DEF Claimed
  <1>6. Alone'
    BY <1>2 DEF IInv, Alone, Waiting
  <1>7. Left'
    <2>1. \A n \in exists : InWork(n) => InWork(n)'
      BY <1>1, <1>2, <1>3 DEF Ask, InWork, Analyzing
    <2> QED  BY <1>1, <2>1 DEF Ask, IInv, Left
  <1> QED
    BY <1>4, <1>5, <1>6, <1>7, Frames DEF Ask, IInv

\* A caller that holds the job is the only one.
LEMMA OneJob ==
    ASSUME IInv, NEW c \in Callers, call[c] \notin Waiting
    PROVE  /\ about[c] \in Meetings /\ about[c] # run /\ jobs = about[c] /\ ~recovering
           /\ visit = NoMeeting /\ session[about[c]] \in Records
           /\ \A d \in Callers \ {c} : call[d] \in Waiting
           /\ call[c] \notin Analyzing /\ about[c] \in exists
                 => session[about[c]].state \notin Working
  <1>1. call[c] # "none"
    BY DEF Waiting
  <1>2. ~recovering
    BY <1>1 DEF IInv, Left
  <1>3. \A d \in Callers \ {c} : call[d] \in Waiting
    BY DEF IInv, Alone
  <1>4. call[c] \notin Analyzing => ~InWork(about[c])
    BY <1>1, <1>3 DEF IInv, Claimed, InWork, Waiting, Analyzing
  <1> QED  BY <1>1, <1>2, <1>3, <1>4 DEF IInv, Claimed, Left

\* The job goes on, saving its copy if anything.
LEMMA JobStep ==
    ASSUME IInv, NEW c \in Callers, call[c] \notin Waiting,
           NEW p \in Places \ {"asked"}, Goes(c, p),
           UNCHANGED <<about, run, recovery>>, p # "none" => UNCHANGED jobs,
           \A m \in Meetings \ {about[c]} : session'[m] = session[m],
           session'[about[c]] \in Records,
           p \in Holding => copy'[c] = session'[about[c]],
           p = "transcribed" => text'[about[c]] = "both",
           exists' \subseteq exists,
           \/ p \in Analyzing
           \/ about[c] \notin exists'
           \/ session'[about[c]].state \notin Working
    PROVE  /\ Claimed' /\ Alone' /\ Left'
           /\ call' \in [Callers -> Places]
  <1>1. /\ call' \in [Callers -> Places] /\ call'[c] = p
        /\ \A d \in Callers \ {c} : call'[d] = call[d]
    BY GoesOne DEF IInv
  <1>2. Claimed'
    <2>1. ASSUME NEW d \in Callers, call'[d] # "none"
          PROVE  /\ about'[d] \in Meetings /\ about'[d] # run'
                 /\ session'[about'[d]] \in Records
                 /\ call'[d] \notin Waiting => jobs' = about'[d]
                 /\ call'[d] \in Holding => copy'[d] = session'[about'[d]]
                 /\ call'[d] = "transcribed" => text'[about'[d]] = "both"
      <3>1. CASE d = c
        BY <1>1, <2>1, <3>1, OneJob
      <3>2. CASE d # c
        <4>1. call[d] = "asked" /\ call'[d] = "asked"
          BY <1>1, <2>1, <3>2, OneJob DEF Waiting
        <4>2. about[d] \in Meetings /\ about[d] # run /\ session[about[d]] \in Records
          BY <4>1 DEF IInv, Claimed
        <4>3. session'[about[d]] \in Records
          BY <4>2
        <4> QED  BY <4>1, <4>2, <4>3 DEF Waiting, Holding, Analyzing
      <3> QED  BY <3>1, <3>2
    <2> QED  BY <2>1 DEF Claimed
  <1>3. Alone'
    BY <1>1, OneJob DEF Alone, Waiting
  <1>4. Left'
    <2>1. ASSUME NEW m \in exists', session'[m].state \in Working PROVE InWork(m)'
      <3>1. CASE m = about[c]
        BY <1>1, <2>1, <3>1 DEF InWork
      <3>2. CASE m # about[c]
        <4>1. m \in exists /\ session[m].state \in Working
          BY <2>1, <3>2 DEF IInv, Typed
        <4>2. InWork(m)
          BY <4>1, OneJob DEF IInv, Left
        <4>3. run = m
          BY <3>2, <4>2, OneJob DEF InWork, Waiting, Analyzing
        <4> QED  BY <4>3 DEF InWork
      <3> QED  BY <3>1, <3>2
    <2> QED  BY <2>1, OneJob DEF Left, recovery
  <1> QED  BY <1>1, <1>2, <1>3, <1>4

LEMMA ClaimKeeps == ASSUME IInv, NEW c \in Callers, Claim(c) PROVE IInv'
  <1> USE DEF Disk, audio, recovery, active, calls
  <1>1. call[c] = "asked" /\ about[c] \in Meetings /\ about[c] # run
        /\ session[about[c]] \in Records /\ ~recovering
    BY DEF Claim, IInv, Claimed, Left
  <1>2. PICK p \in {"claimed", "none"} :
           /\ Goes(c, p)
           /\ \/ p = "claimed" /\ jobs = NoMeeting /\ jobs' = about[c]
              \/ p = "none" /\ UNCHANGED jobs
    BY DEF Claim
  <1>3. /\ call' \in [Callers -> Places] /\ call'[c] = p
        /\ \A d \in Callers \ {c} : call'[d] = call[d]
    BY <1>2, GoesOne DEF IInv, Places
  <1>4. p = "claimed" => \A d \in Callers : call[d] \in Waiting
    BY <1>2 DEF IInv, Claimed, Waiting, Meetings, NoMeeting
  <1>5. Typed'
    BY <1>1, <1>2, <1>3 DEF Claim, IInv, Typed
  <1>6. Claimed'
    <2>1. ASSUME NEW d \in Callers, call'[d] # "none"
          PROVE  /\ about'[d] \in Meetings /\ about'[d] # run'
                 /\ session'[about'[d]] \in Records
                 /\ call'[d] \notin Waiting => jobs' = about'[d]
                 /\ call'[d] \in Holding => copy'[d] = session'[about'[d]]
                 /\ call'[d] = "transcribed" => text'[about'[d]] = "both"
      <3>1. CASE d = c
        BY <1>1, <1>2, <1>3, <2>1, <3>1 DEF Claim, Waiting, Holding, Analyzing
      <3>2. CASE d # c
        BY <1>2, <1>3, <1>4, <2>1, <3>2 DEF Claim, IInv, Claimed
      <3> QED  BY <3>1, <3>2
    <2> QED  BY <2>1 DEF Claimed
  <1>7. Alone'
    BY <1>2, <1>3, <1>4 DEF IInv, Alone, Waiting
  <1>8. Left'
    <2>1. \A n \in exists : InWork(n) => InWork(n)'
      BY <1>1, <1>3 DEF Claim, InWork, Analyzing
    <2> QED  BY <1>1, <2>1 DEF Claim, IInv, Left
  <1> QED
    BY <1>5, <1>6, <1>7, <1>8, Frames DEF Claim, IInv

LEMMA LoadKeeps == ASSUME IInv, NEW c \in Callers, Load(c) PROVE IInv'
  <1> USE DEF Disk, audio, recovery, active, calls
  <1>1. call[c] = "claimed" /\ call[c] \notin Waiting /\ call[c] \notin Analyzing
    BY DEF Load, Waiting, Analyzing
  <1>2. PICK p \in {"loaded", "leave"} :
           /\ Goes(c, p) /\ copy' \in [Callers -> Copies]
           /\ p = "loaded" => copy'[c] = session[about[c]]
    BY <1>1, OneJob DEF Load, IInv, Typed, Copies
  <1>3. Claimed' /\ Alone' /\ Left' /\ call' \in [Callers -> Places]
    BY <1>1, <1>2, OneJob, JobStep DEF Load, Places, Holding, Analyzing
  <1>4. Typed'
    BY <1>2, <1>3 DEF Load, IInv, Typed
  <1> QED  BY <1>3, <1>4, Frames DEF Load, IInv

LEMMA RenameKeeps ==
    ASSUME NoSession \notin Records, IInv, NEW c \in Callers, Rename(c) PROVE IInv'
  <1> USE DEF Disk, audio, recovery, active, calls
  <1>1. call[c] = "loaded" /\ call[c] \notin Waiting /\ call[c] \notin Analyzing
        /\ call[c] \in Holding
    BY DEF Rename, Waiting, Analyzing, Holding
  <1>2. /\ copy[c] = session[about[c]] /\ about[c] \in Meetings
        /\ session[about[c]] \in Records
    BY <1>1, OneJob DEF IInv, Claimed, Waiting
  <1>3. edits \in Nat /\ edits' = edits + 1 /\ edits' \in Nat /\ edits <= edits'
    BY DEF Rename, IInv, Typed
  <1> DEFINE s == [copy[c] EXCEPT !.names = edits']
  <1>4. /\ s \in Records /\ s.mic = session[about[c]].mic /\ s.names = edits'
        /\ s.transcript = session[about[c]].transcript
        /\ s.state = session[about[c]].state
    BY <1>2, <1>3, Fields
  <1>5. /\ copy' \in [Callers -> Copies] /\ copy'[c] = s
    BY <1>4 DEF Rename, IInv, Typed, Copies
  <1> HIDE DEF s
  <1>6. /\ Save(about[c], s) /\ s.names <= edits' /\ UNCHANGED <<exists, text, synced, file>>
        /\ (s.transcript => text[about[c]] = "both")
    BY <1>2, <1>3, <1>4, <1>5 DEF Rename, IInv, Saved
  <1>7. /\ session' \in [Meetings -> Copies] /\ session'[about[c]] = s
        /\ \A n \in Meetings \ {about[c]} : session'[n] = session[n]
        /\ Saved' /\ Kept'
    BY <1>2, <1>3, <1>4, <1>6, SaveKeeps
  <1>8. Claimed' /\ Alone' /\ Left' /\ call' \in [Callers -> Places]
    BY <1>1, <1>4, <1>7, OneJob, JobStep DEF Rename, Places, Holding, Analyzing
  <1>9. Typed'
    BY <1>3, <1>5, <1>7, <1>8 DEF Rename, IInv, Typed
  <1>10. Captured'
    BY <1>7, OneJob, <1>1 DEF Rename, IInv, Captured, Typed
  <1> QED
    BY <1>7, <1>8, <1>9, <1>10, Frames DEF Rename, IInv

LEMMA BeginKeeps ==
    ASSUME NoSession \notin Records, IInv, NEW c \in Callers, Begin(c) PROVE IInv'
  <1> USE DEF Disk, audio, recovery, active, calls
  <1>1. call[c] = "loaded" /\ call[c] \notin Waiting /\ call[c] \notin Analyzing
        /\ call[c] \in Holding
    BY DEF Begin, Waiting, Analyzing, Holding
  <1>2. /\ copy[c] = session[about[c]] /\ about[c] \in Meetings
        /\ session[about[c]] \in Records
    BY <1>1, OneJob DEF IInv, Claimed, Waiting
  <1>3. CASE Goes(c, "leave") /\ UNCHANGED <<copy, session>>
    <2>1. Claimed' /\ Alone' /\ Left' /\ call' \in [Callers -> Places]
      BY <1>1, <1>2, <1>3, OneJob, JobStep DEF Begin, Places, Holding, Analyzing
    <2>2. Typed'
      BY <1>3, <2>1 DEF Begin, IInv, Typed
    <2> QED  BY <1>3, <2>1, <2>2, Frames DEF Begin, IInv
  <1>4. ASSUME NEW x \in {"transcribing", "summarizing"}, Goes(c, "working"),
               copy' = [copy EXCEPT ![c].state = x], Save(about[c], copy'[c])
        PROVE  IInv'
    <2> DEFINE s == [copy[c] EXCEPT !.state = x]
    <2>1. x \in States
      BY DEF States, Working
    <2>2. /\ s \in Records /\ s.mic = session[about[c]].mic
          /\ s.names = session[about[c]].names
          /\ s.transcript = session[about[c]].transcript
      BY <1>2, <2>1, Fields
    <2>3. /\ copy' \in [Callers -> Copies] /\ copy'[c] = s
      BY <1>4, <2>2 DEF IInv, Typed, Copies
    <2> HIDE DEF s
    <2>4. /\ Save(about[c], s) /\ s.names <= edits' /\ UNCHANGED <<exists, text, synced, file>>
          /\ (s.transcript => text[about[c]] = "both") /\ edits' \in Nat /\ edits <= edits'
      BY <1>2, <1>4, <2>2, <2>3 DEF Begin, IInv, Saved, Typed
    <2>5. /\ session' \in [Meetings -> Copies] /\ session'[about[c]] = s
          /\ \A n \in Meetings \ {about[c]} : session'[n] = session[n]
          /\ Saved' /\ Kept'
      BY <1>2, <2>2, <2>4, SaveKeeps
    <2>6. Claimed' /\ Alone' /\ Left' /\ call' \in [Callers -> Places]
      BY <1>1, <1>4, <2>2, <2>3, <2>5, JobStep DEF Begin, Places, Analyzing
    <2>7. Typed'
      BY <2>3, <2>5, <2>6 DEF Begin, IInv, Typed
    <2>8. Captured'
      BY <1>1, <2>5, OneJob DEF Begin, IInv, Captured, Typed
    <2> QED
      BY <2>5, <2>6, <2>7, <2>8, Frames DEF Begin, IInv
  <1> QED  BY <1>3, <1>4 DEF Begin

LEMMA AnalyzeKeeps ==
    ASSUME IInv, NEW c \in Callers, Analyze(c) PROVE IInv'
  <1> USE DEF Disk, audio, recovery, active, calls
  <1>1. call[c] \notin Waiting /\ call[c] # "none" /\ call[c] \in Holding
    BY DEF Analyze, Waiting, Holding, Analyzing
  <1>2. copy[c] = session[about[c]]
    BY <1>1 DEF IInv, Claimed
  <1>3. PICK p \in {"json", "failed", "summed"} : Goes(c, p)
    BY DEF Analyze
  <1>4. Claimed' /\ Alone' /\ Left' /\ call' \in [Callers -> Places]
    BY <1>1, <1>2, <1>3, OneJob, JobStep DEF Analyze, Places, Analyzing
  <1>5. Typed'
    BY <1>4 DEF Analyze, IInv, Typed
  <1> QED  BY <1>4, <1>5, Frames DEF Analyze, IInv

\* A transcript is written and the old one, if there was one, is still there.
LEMMA WriteKeeps ==
    ASSUME NoSession \notin Records, IInv, NEW c \in Callers,
           WriteJson(c) \/ WriteMarkdown(c)
    PROVE  IInv'
  <1> USE DEF Disk, audio, recovery, active, calls
  <1>1. call[c] \notin Waiting /\ call[c] # "none" /\ call[c] \in Holding
    BY DEF WriteJson, WriteMarkdown, Waiting, Holding, Analyzing
  <1>2. copy[c] = session[about[c]] /\ about[c] \in Meetings
    BY <1>1 DEF IInv, Claimed
  <1>3. PICK p \in {"md", "transcribed", "failed"} :
           /\ Goes(c, p) /\ text' \in [Meetings -> {"none", "json", "both"}]
           /\ \A m \in Meetings : text[m] = "both" => text'[m] = "both"
           /\ p = "transcribed" => text'[about[c]] = "both"
    BY <1>2 DEF WriteJson, WriteMarkdown, IInv, Typed
  <1>4. Claimed' /\ Alone' /\ Left' /\ call' \in [Callers -> Places]
    BY <1>1, <1>2, <1>3, OneJob, JobStep
       DEF WriteJson, WriteMarkdown, Places, Analyzing
  <1>5. Typed'
    BY <1>3, <1>4 DEF WriteJson, WriteMarkdown, IInv, Typed
  <1>6. Saved'
    BY <1>3 DEF WriteJson, WriteMarkdown, IInv, Saved
  <1> QED
    BY <1>4, <1>5, <1>6, Frames DEF WriteJson, WriteMarkdown, IInv

LEMMA JobSavedKeeps ==
    ASSUME NoSession \notin Records, IInv, NEW c \in Callers, JobSaved(c) PROVE IInv'
  <1> USE DEF Disk, audio, recovery, active, calls
  <1>1. call[c] \notin Waiting /\ call[c] # "none" /\ call[c] \in Holding
    BY DEF JobSaved, Waiting, Holding, Analyzing
  <1>2. /\ copy[c] = session[about[c]] /\ about[c] \in Meetings
        /\ session[about[c]] \in Records
        /\ call[c] = "transcribed" => text[about[c]] = "both"
    BY <1>1 DEF IInv, Claimed
  <1>3. PICK x \in {"recorded", "ready"}, b \in BOOLEAN :
           /\ b => call[c] = "transcribed"
           /\ Save(about[c], [copy[c] EXCEPT !.state = x, !.transcript = @ \/ b])
    BY DEF JobSaved
  <1> DEFINE s == [copy[c] EXCEPT !.state = x, !.transcript = @ \/ b]
  <1>4. x \in States /\ x \notin Working
    BY DEF States, Working
  <1>5. /\ s \in Records /\ s.mic = session[about[c]].mic /\ s.state = x
        /\ s.names = session[about[c]].names
        /\ s.transcript => session[about[c]].transcript \/ b
    BY <1>2, <1>4 DEF Records
  <1>6. Save(about[c], s)
    BY <1>3
  <1> HIDE DEF s
  <1>7. /\ s.names <= edits' /\ UNCHANGED <<exists, text, synced, file>>
        /\ (s.transcript => text[about[c]] = "both") /\ edits' \in Nat /\ edits <= edits'
    BY <1>2, <1>3, <1>5 DEF JobSaved, IInv, Saved, Typed
  <1>8. /\ session' \in [Meetings -> Copies] /\ session'[about[c]] = s
        /\ \A n \in Meetings \ {about[c]} : session'[n] = session[n]
        /\ Saved' /\ Kept'
    BY <1>2, <1>5, <1>6, <1>7, SaveKeeps
  <1>9. Claimed' /\ Alone' /\ Left' /\ call' \in [Callers -> Places]
    BY <1>1, <1>4, <1>5, <1>8, JobStep DEF JobSaved, Places, Holding, Analyzing
  <1>10. Typed'
    BY <1>8, <1>9 DEF JobSaved, IInv, Typed
  <1>11. Captured'
    BY <1>1, <1>8, OneJob DEF JobSaved, IInv, Captured, Typed
  <1> QED
    BY <1>8, <1>9, <1>10, <1>11, Frames DEF JobSaved, IInv

LEMMA DeleteKeeps == ASSUME IInv, NEW c \in Callers, Delete(c) PROVE IInv'
  <1> USE DEF Disk, audio, recovery, active, calls
  <1>1. call[c] \notin Waiting
    BY DEF Delete, Waiting
  <1>2. exists' \subseteq exists /\ about[c] \notin exists'
    BY DEF Delete
  <1>3. Claimed' /\ Alone' /\ Left' /\ call' \in [Callers -> Places]
    BY <1>1, <1>2, OneJob, JobStep DEF Delete, Places, Holding, Analyzing
  <1>4. Typed'
    BY <1>2, <1>3 DEF Delete, IInv, Typed
  <1>5. Saved' /\ Kept'
    BY <1>2 DEF Delete, IInv, Saved, Kept, Wanted
  <1> QED
    BY <1>3, <1>4, <1>5, Frames DEF Delete, IInv

LEMMA LeaveKeeps == ASSUME IInv, NEW c \in Callers, Leave(c) PROVE IInv'
  <1> USE DEF Disk, audio, recovery, active, calls
  <1>1. call[c] \notin Waiting /\ call[c] \notin Analyzing
    BY DEF Leave, Waiting, Analyzing
  <1>2. copy' \in [Callers -> Copies]
    BY DEF Leave, IInv, Typed, Copies
  <1>3. Claimed' /\ Alone' /\ Left' /\ call' \in [Callers -> Places]
    BY <1>1, OneJob, JobStep DEF Leave, Places, Holding, Analyzing
  <1>4. Typed'
    BY <1>2, <1>3 DEF Leave, IInv, Typed, Meetings, NoMeeting
  <1> QED  BY <1>3, <1>4, Frames DEF Leave, IInv

LEMMA CancelJobKeeps == ASSUME IInv, CancelJob PROVE IInv'
  <1> USE DEF Disk, audio, recovery, active
  <1>1. Typed'
    BY DEF CancelJob, IInv, Typed
  <1> QED  BY <1>1, Frames DEF CancelJob, IInv

-----------------------------------------------------------------------------
(* Crash and recovery *)

LEMMA CrashKeeps == ASSUME IInv, Crash PROVE IInv'
  <1> USE DEF Disk, audio, recovery, active, calls
  <1>1. PICK lost \in SUBSET (Meetings \X Tracks) :
           frames' = [m \in Meetings |-> [t \in Tracks |->
              IF <<m, t>> \in lost THEN synced[m][t] ELSE frames[m][t]]]
    BY DEF Crash
  <1>2. \A m \in Meetings : \A t \in Tracks : frames'[m][t] \in {synced[m][t], frames[m][t]}
    BY <1>1
  <1>3. frames' \in Lengths
    BY <1>1, Lengthwise DEF IInv, Lengths
  <1>4. Typed'
    BY <1>3 DEF Crash, Idle, IInv, Typed, Stages, Places, Orders, Copies, NoMeeting
  <1>5. Captured' /\ Claimed' /\ Alone'
    BY DEF Crash, Idle, Captured, Claimed, Alone, Waiting
  <1>6. Stored'
    <2>1. ASSUME NEW m \in Meetings, NEW t \in Tracks
          PROVE  synced'[m][t] <= frames'[m][t] /\ (file'[m][t] = "final" => Whole(m, t)')
      <3>1. synced[m][t] <= synced[m][t] /\ synced[m][t] <= frames[m][t]
            /\ (file[m][t] = "final" => Whole(m, t))
        <4>1. synced[m][t] \in Nat
          BY Lengthwise DEF IInv
        <4>2. synced[m][t] <= synced[m][t]
          BY <4>1
        <4> QED  BY <4>2 DEF IInv, Stored
      <3>2. UNCHANGED <<file, header, synced>>
        BY DEF Crash
      <3> QED  BY <1>2, <3>1, <3>2 DEF Whole
    <2> QED  BY <2>1 DEF Crash, Idle, Stored, Writing
  <1>7. Left'
    BY DEF Crash, Idle, Left, NoMeeting
  <1> QED
    BY <1>4, <1>5, <1>6, <1>7, Frames DEF Crash, IInv

LEMMA VisitKeeps == ASSUME IInv, NEW m \in Meetings, Visit(m) PROVE IInv'
  <1> USE DEF Disk, audio, recovery, active, calls
  <1>1. recovering /\ m \in exists /\ session[m] \in Records
    BY DEF Visit, IInv, Left, Saved
  <1>2. Typed'
    BY DEF Visit, IInv, Typed
  <1>3. Left'
    BY <1>1 DEF Visit, NeedsRecovery, IInv, Left
  <1> QED  BY <1>2, <1>3, Frames DEF Visit, IInv

LEMMA RepairKeeps == ASSUME NoSession \notin Records, IInv, NEW t \in Tracks, Repair(t) PROVE IInv'
  <1> USE DEF Disk, audio, recovery, active, calls
  <1>1. visit \in Meetings /\ run = NoMeeting /\ capture = "none"
        /\ frames[visit][t] \in Nat /\ session[visit] \in Records
    BY Lengthwise DEF Repair, IInv, Typed, Left, Captured
  <1>2. file \in Files /\ header \in Lengths /\ synced \in Lengths
        /\ file' = Put(file, visit, t, "final")
        /\ header' = Put(header, visit, t, frames[visit][t])
        /\ synced' = Put(synced, visit, t, frames[visit][t])
    BY DEF Repair, IInv, Typed
  <1>3. /\ file' \in Files /\ header' \in Lengths /\ synced' \in Lengths
        /\ file'[visit][t] = "final" /\ header'[visit][t] = frames[visit][t]
        /\ synced'[visit][t] = frames[visit][t]
        /\ \A n \in Meetings : \A u \in Tracks : n # visit \/ u # t =>
              /\ file'[n][u] = file[n][u] /\ header'[n][u] = header[n][u]
              /\ synced'[n][u] = synced[n][u]
    <2>1. /\ file' \in Files /\ IsPut(file', file, visit, t, "final")
          /\ header' \in Lengths /\ IsPut(header', header, visit, t, frames[visit][t])
          /\ synced' \in Lengths /\ IsPut(synced', synced, visit, t, frames[visit][t])
      BY <1>1, <1>2, PutFile, PutLength
    <2> QED  BY <2>1 DEF IsPut
  <1>4. Typed'
    BY <1>3 DEF Repair, IInv, Typed
  <1>5. Saved'
    <2>1. session[visit] # NoSession
      BY <1>1
    <2>2. ASSUME NEW n \in Meetings, NEW u \in Tracks, session'[n] = NoSession
          PROVE  synced'[n][u] = 0
      BY <1>3, <2>1, <2>2 DEF Repair, IInv, Saved
    <2> QED  BY <2>2 DEF Repair, IInv, Saved
  <1>6. Stored'
    <2>1. ASSUME NEW n \in Meetings, NEW u \in Tracks
          PROVE  synced'[n][u] <= frames'[n][u] /\ (file'[n][u] = "final" => Whole(n, u)')
      <3>1. UNCHANGED frames
        BY DEF Repair
      <3>2. CASE n = visit /\ u = t
        BY <1>1, <1>3, <3>1, <3>2 DEF Whole
      <3>3. CASE n # visit \/ u # t
        <4>1. synced[n][u] <= frames[n][u] /\ (file[n][u] = "final" => Whole(n, u))
          BY DEF IInv, Stored
        <4> QED  BY <1>3, <3>1, <3>3, <4>1 DEF Whole
      <3> QED  BY <3>2, <3>3
    <2> QED  BY <1>1, <2>1 DEF Repair, Stored, Writing
  <1>7. Kept'
    <2>1. ASSUME NEW n \in exists, NEW u \in Tracks, synced'[n][u] > 0, Wanted(n, u)'
          PROVE  file'[n][u] # "none"
      <3>1. CASE n = visit /\ u = t
        BY <1>3, <3>1
      <3>2. CASE n # visit \/ u # t
        BY <1>3, <2>1, <3>2 DEF Repair, IInv, Kept, Wanted, Typed
      <3> QED  BY <3>1, <3>2
    <2> QED  BY <2>1 DEF Repair, Kept
  <1> QED
    BY <1>4, <1>5, <1>6, <1>7, Frames DEF Repair, IInv

LEMMA RestoredKeeps ==
    ASSUME NoSession \notin Records, IInv, Restored PROVE IInv'
  <1> USE DEF Disk, audio, recovery, active, calls
  <1>1. visit \in Meetings /\ recovering /\ run = NoMeeting
        /\ session[visit] \in Records
        /\ restored = [session[visit] EXCEPT !.state = "interrupted"]
        /\ \A c \in Callers : call[c] = "none"
    BY DEF Restored, IInv, Left, Typed
  <1>2. "interrupted" \in States /\ "interrupted" \notin Working
    BY DEF States, Working
  <1>3. /\ restored \in Records /\ restored.mic = session[visit].mic
        /\ restored.names = session[visit].names /\ restored.state = "interrupted"
        /\ restored.transcript = session[visit].transcript
    BY <1>1, <1>2, Fields
  <1>4. /\ Save(visit, restored) /\ restored.names <= edits'
        /\ UNCHANGED <<exists, text, synced, file>>
        /\ (restored.transcript => text[visit] = "both")
        /\ edits' \in Nat /\ edits <= edits'
    BY <1>1, <1>3 DEF Restored, IInv, Saved, Typed
  <1>5. /\ session' \in [Meetings -> Copies] /\ session'[visit] = restored
        /\ \A n \in Meetings \ {visit} : session'[n] = session[n]
        /\ Saved' /\ Kept'
    BY <1>1, <1>3, <1>4, SaveKeeps
  <1>6. Typed'
    BY <1>5 DEF Restored, IInv, Typed
  <1>7. Captured' /\ Claimed'
    BY <1>1 DEF Restored, IInv, Captured, Claimed
  <1>8. Left'
    <2>1. /\ todo' = todo \ {visit} /\ visit' = NoMeeting
          /\ UNCHANGED <<exists, recovering, run, call>>
      BY DEF Restored
    <2>2. todo' \subseteq exists
      BY <1>1, <2>1 DEF IInv, Left
    <2>3. ASSUME NEW m \in exists' \ todo' PROVE session'[m].state \notin Working
      <3>1. CASE m = visit
        BY <1>2, <1>3, <1>5, <3>1
      <3>2. CASE m # visit
        BY <1>1, <1>5, <2>1, <3>2 DEF IInv, Left, Typed
      <3> QED  BY <3>1, <3>2
    <2> QED  BY <1>1, <2>1, <2>2, <2>3 DEF Left
  <1> QED
    BY <1>5, <1>6, <1>7, <1>8, Frames DEF Restored, IInv

LEMMA RecoveryEndsKeeps == ASSUME IInv, RecoveryEnds PROVE IInv'
  <1> USE DEF Disk, audio, recovery, active, calls
  <1>1. Typed'
    BY DEF RecoveryEnds, IInv, Typed
  <1>2. Left'
    BY DEF RecoveryEnds, IInv, Left
  <1> QED  BY <1>1, <1>2, Frames DEF RecoveryEnds, IInv

-----------------------------------------------------------------------------

LEMMA InitIInv == ASSUME NoSession \notin Records, Init PROVE IInv
  <1>1. Typed
    BY DEF Init, Typed, Copies, Files, Lengths, Stages, Places, Orders, NoMeeting
  <1>2. Saved /\ Captured /\ Kept
    BY DEF Init, Saved, Captured, Kept
  <1>3. Stored
    BY DEF Init, Stored, Writing, Whole
  <1>4. Claimed /\ Alone /\ Left
    BY DEF Init, Claimed, Alone, Left, Waiting, NoMeeting
  <1> QED  BY <1>1, <1>2, <1>3, <1>4 DEF IInv

LEMMA NextKeeps == ASSUME NoSession \notin Records, IInv, [Next]_vars PROVE IInv'
  <1>1. CASE UNCHANGED vars
    <2>1. Typed'
      BY <1>1 DEF vars, audio, recovery, active, calls, IInv, Typed
    <2> QED
      BY <1>1, <2>1, Frames DEF vars, audio, recovery, active, calls, IInv
  <1>2. ASSUME Capture PROVE IInv'
    BY <1>2, CreateKeeps, OpenKeeps, CheckpointKeeps, CaptureEndsKeeps,
       CaptureSavedKeeps, AppendToKeeps, FinishKeeps, MoveKeeps
       DEF Capture, Tracks, Writing
  <1>3. ASSUME NEW c \in Callers, Job(c) PROVE IInv'
    BY <1>3, ClaimKeeps, LoadKeeps, RenameKeeps, BeginKeeps, AnalyzeKeeps,
       WriteKeeps, JobSavedKeeps, DeleteKeeps, LeaveKeeps DEF Job
  <1> QED
    BY <1>1, <1>2, <1>3, StartKeeps, StopKeeps, AskKeeps, CancelJobKeeps, CrashKeeps,
       VisitKeeps, RepairKeeps, RestoredKeeps, RecoveryEndsKeeps DEF Next

THEOREM Invariance == ASSUME NoSession \notin Records PROVE Spec => []IInv
  BY InitIInv, NextKeeps, PTL DEF Spec

\* After a crash anywhere, for any number of crashes, meetings and callers, the
\* recovery leaves no meeting in work, headers are true and transcripts that are
\* claimed are there.
THEOREM NoneStuckAlways == ASSUME NoSession \notin Records PROVE Spec => []NoneStuck
  <1>1. ASSUME IInv PROVE NoneStuck
    <2>1. ASSUME NEW m \in exists, ~recovering, ~InHand(m)
          PROVE  session[m].state \notin Working
      <3>1. ~InWork(m)
        BY <2>1 DEF InHand, InWork, Analyzing
      <3> QED  BY <1>1, <2>1, <3>1 DEF IInv, Left
    <2> QED
      BY <1>1, <2>1 DEF NoneStuck, IInv, Typed, Saved, Stored, Whole
  <1>2. Spec => []IInv
    BY Invariance
  <1> QED  BY <1>1, <1>2, PTL

-----------------------------------------------------------------------------
(* What no step does *)

\* A step of the recording keeps the files and the lengths.
LEMMA TracksStay ==
    ASSUME IInv, Next, NEW m \in exists, NEW t \in Tracks
    PROVE  /\ file[m][t] # "none" /\ (m = run => Wanted(m, t)) => file'[m][t] # "none"
           /\ frames'[m][t] >= synced[m][t]
  <1> USE DEF Disk, audio, recovery, active, calls
  <1>1. m \in Meetings /\ frames[m][t] \in Nat /\ synced[m][t] \in Nat
        /\ synced[m][t] <= frames[m][t] /\ frames \in Lengths /\ file \in Files
    BY Lengthwise DEF IInv, Typed, Stored
  <1>2. CASE UNCHANGED <<file, frames>>
    BY <1>1, <1>2
  <1>3. CASE Open
    <2>1. file'[m][t] \in {"partial", file[m][t]} /\ UNCHANGED frames
      BY <1>1, <1>3 DEF Open, Files
    <2> QED  BY <1>1, <2>1
  <1>4. ASSUME NEW u \in Tracks, AppendTo(u)
        PROVE  UNCHANGED file /\ frames'[m][t] >= synced[m][t]
    <2>1. run \in Meetings /\ frames[run][u] \in Nat
      BY <1>4, Running, Lengthwise DEF AppendTo, IInv
    <2>2. frames[run][u] + 1 \in Nat /\ frames' = Put(frames, run, u, frames[run][u] + 1)
      BY <1>4, <2>1 DEF AppendTo
    <2>3. IsPut(frames', frames, run, u, frames[run][u] + 1)
      BY <1>1, <2>1, <2>2, PutLength
    <2>4. frames'[m][t] = frames[m][t] \/ frames'[m][t] = frames[m][t] + 1
      BY <1>1, <2>1, <2>3 DEF IsPut
    <2> QED  BY <1>1, <1>4, <2>4 DEF AppendTo
  <1>5. ASSUME NEW u \in Tracks, NEW p \in Writing, NEW q, Finish(u, p, q)
        PROVE  UNCHANGED file /\ frames'[m][t] >= synced[m][t]
    <2>1. run \in Meetings /\ \A v \in Tracks : frames[run][v] \in Nat
      BY <1>5, Running, Lengthwise DEF Finish, Writing, IInv
    <2>2. PICK n \in Nat : frames' = Put(frames, run, u, n) /\ n >= frames[run][u]
      <3>1. Longest(run) \in Nat /\ Longest(run) >= frames[run][u]
            /\ frames[run][u] >= frames[run][u]
        BY <2>1 DEF Longest, Tracks
      <3> QED  BY <1>5, <2>1, <3>1 DEF Finish
    <2>3. IsPut(frames', frames, run, u, n)
      BY <1>1, <2>1, <2>2, PutLength
    <2>4. frames'[m][t] = frames[m][t] \/ (frames'[m][t] = n /\ n >= frames[m][t])
      BY <1>1, <2>1, <2>2, <2>3 DEF IsPut
    <2> QED  BY <1>1, <1>5, <2>2, <2>4 DEF Finish
  <1>6. ASSUME NEW u \in Tracks, NEW p, NEW q, Move(u, p, q),
               \/ u = "microphone" /\ p = "moveMicrophone"
               \/ u = "system" /\ p = "moveSystem"
        PROVE  /\ file[m][t] # "none" /\ (m = run => Wanted(m, t)) => file'[m][t] # "none"
               /\ UNCHANGED frames
    <2>1. run \in Meetings /\ record = session[run]
      BY <1>6, Running DEF Move, IInv, Captured
    <2>2. PICK v \in {"none", "partial", "final"} :
             /\ v = "none" => u # "system" /\ ~record.mic
             /\ file' = Put(file, run, u, v) \/ UNCHANGED file
      BY <1>6 DEF Move
    <2>3. file' = Put(file, run, u, v) => IsPut(file', file, run, u, v)
      BY <1>1, <2>1, PutFile
    <2>4. file'[m][t] = file[m][t] \/ (m = run /\ u = t /\ file'[m][t] = v)
      BY <1>1, <2>1, <2>2, <2>3 DEF IsPut
    <2> QED  BY <1>6, <2>1, <2>2, <2>4 DEF Move, Wanted
  <1>7. ASSUME NEW u \in Tracks, Repair(u)
        PROVE  file'[m][t] \in {"final", file[m][t]} /\ UNCHANGED frames
    <2>1. visit \in Meetings /\ file' = Put(file, visit, u, "final") /\ UNCHANGED frames
      BY <1>7 DEF Repair, IInv, Typed
    <2>2. IsPut(file', file, visit, u, "final")
      BY <1>1, <2>1, PutFile
    <2> QED  BY <1>1, <2>1, <2>2 DEF IsPut
  <1>8. CASE Crash
    <2>1. frames'[m][t] \in {synced[m][t], frames[m][t]} /\ UNCHANGED file
      BY <1>1, <1>8 DEF Crash
    <2> QED  BY <1>1, <2>1
  <1>9. CASE Capture
    BY <1>1, <1>2, <1>3, <1>4, <1>5, <1>6, <1>9
       DEF Capture, Tracks, Writing, Create, Checkpoint, CaptureEnds, CaptureSaved
  <1>10. ASSUME NEW c \in Callers, Job(c) PROVE UNCHANGED <<file, frames>>
    BY <1>10 DEF Job, Claim, Load, Rename, Begin, Analyze, WriteJson, WriteMarkdown,
                 JobSaved, Delete, Leave
  <1> QED
    BY <1>1, <1>2, <1>7, <1>8, <1>9, <1>10
       DEF Next, Start, Stop, Ask, CancelJob, Visit, Restored, RecoveryEnds

\* Audio that was synced is never lost again, whatever fails or crashes.
THEOREM AudioKeptAlways == ASSUME NoSession \notin Records PROVE Spec => AudioKept
  <1>1. IInv /\ [Next]_vars =>
          [\A m \in exists, t \in Tracks :
             synced[m][t] > 0 /\ (t = "system" \/ session[m].mic)
               => file'[m][t] # "none" /\ frames'[m][t] >= synced[m][t]]_vars
    <2> SUFFICES ASSUME IInv, Next, NEW m \in exists, NEW t \in Tracks,
                        synced[m][t] > 0, t = "system" \/ session[m].mic
                 PROVE  file'[m][t] # "none" /\ frames'[m][t] >= synced[m][t]
      OBVIOUS
    <2>1. file[m][t] # "none" /\ Wanted(m, t)
      BY DEF IInv, Kept, Wanted
    <2> QED  BY <2>1, TracksStay
  <1>2. Spec => []IInv
    BY Invariance
  <1> QED  BY <1>1, <1>2, PTL DEF Spec, AudioKept

\* Saving a copy that has the names, or newer ones.
LEMMA SaveNames ==
    ASSUME IInv, NEW m \in Meetings, session[m] \in Records, NEW s,
           NEW k \in Nat, s.names = k, session[m].names <= k, Save(m, s),
           NEW n \in exists
    PROVE  session'[n].names >= session[n].names
  <1>1. n \in Meetings /\ session[n].names \in Nat
    BY Fields DEF IInv, Typed, Saved
  <1> QED  BY <1>1 DEF Save, IInv, Typed

LEMMA NamesStay ==
    ASSUME NoSession \notin Records, IInv, Next, NEW n \in exists
    PROVE  session'[n].names >= session[n].names
  <1> USE DEF Disk, audio, recovery, active, calls
  <1>1. n \in Meetings /\ session[n].names \in Nat /\ session[n] \in Records
    BY Fields DEF IInv, Typed, Saved
  <1>2. CASE UNCHANGED session
    BY <1>1, <1>2
  <1>3. ASSUME NEW s, NEW x \in States, s = [record EXCEPT !.state = x],
               capture \notin {"none", "claimed"}, Save(run, s)
        PROVE  session'[n].names >= session[n].names
    <2>1. run \in Meetings /\ record = session[run] /\ session[run] \in Records
      BY <1>3, Running DEF IInv, Captured
    <2>2. PICK k \in Nat : s.names = k /\ session[run].names = k
      BY <1>3, <2>1, Fields
    <2>3. session[run].names <= k
      BY <2>2
    <2> QED  BY <1>3, <2>1, <2>2, <2>3, SaveNames
  <1>4. CASE Create
    <2>1. session[run] = NoSession /\ run # n
      BY <1>4 DEF Create, IInv, Captured, Saved
    <2> QED  BY <1>1, <1>4, <2>1 DEF Create, Save, IInv, Typed
  <1>5. CASE Checkpoint
    BY <1>3, <1>5 DEF Checkpoint, States, Working
  <1>6. CASE CaptureSaved
    BY <1>3, <1>6 DEF CaptureSaved, States
  <1>7. ASSUME NEW c \in Callers, call[c] \in Holding
        PROVE  /\ copy[c] = session[about[c]] /\ about[c] \in Meetings
               /\ session[about[c]] \in Records
               /\ session[about[c]].names \in Nat
               /\ session[about[c]].names <= edits /\ edits \in Nat
    BY <1>7, Fields DEF IInv, Claimed, Saved, Typed, Holding, Analyzing
  <1>8. ASSUME NEW c \in Callers, Rename(c) PROVE session'[n].names >= session[n].names
    <2>1. call[c] \in Holding /\ copy \in [Callers -> Copies] /\ edits' = edits + 1
      BY <1>8 DEF Rename, Holding, IInv, Typed
    <2>2. copy'[c] = [copy[c] EXCEPT !.names = edits'] /\ edits' \in Nat
      BY <1>7, <1>8, <2>1 DEF Rename
    <2>3. copy'[c].names = edits' /\ edits' >= session[about[c]].names
      BY <1>7, <2>1, <2>2, Fields
    <2> QED  BY <1>7, <1>8, <2>1, <2>2, <2>3, SaveNames DEF Rename
  <1>9. ASSUME NEW c \in Callers, Begin(c) PROVE session'[n].names >= session[n].names
    <2>1. call[c] \in Holding /\ copy \in [Callers -> Copies]
      BY <1>9 DEF Begin, Holding, IInv, Typed
    <2>2. CASE \E x \in {"transcribing", "summarizing"} :
                  copy'[c] = [copy[c] EXCEPT !.state = x] /\ Save(about[c], copy'[c])
      <3>1. PICK k \in Nat : copy'[c].names = k /\ session[about[c]].names = k
        BY <1>7, <2>1, <2>2, Fields DEF States, Working
      <3>2. session[about[c]].names <= k
        BY <3>1
      <3> QED  BY <1>7, <2>1, <2>2, <3>1, <3>2, SaveNames
    <2> QED  BY <1>2, <1>9, <2>1, <2>2 DEF Begin
  <1>10. ASSUME NEW c \in Callers, JobSaved(c) PROVE session'[n].names >= session[n].names
    <2>1. call[c] \in Holding
      BY <1>10 DEF JobSaved, Holding, Analyzing
    <2>2. PICK x \in States, b \in BOOLEAN :
             Save(about[c], [copy[c] EXCEPT !.state = x, !.transcript = @ \/ b])
      BY <1>10 DEF JobSaved, States
    <2> DEFINE s == [copy[c] EXCEPT !.state = x, !.transcript = @ \/ b]
    <2>3. PICK k \in Nat : s.names = k /\ session[about[c]].names = k
      BY <1>7, <2>1 DEF Records
    <2>4. session[about[c]].names <= k /\ Save(about[c], s)
      BY <2>2, <2>3
    <2> HIDE DEF s
    <2> QED  BY <1>7, <2>1, <2>3, <2>4, SaveNames
  <1>11. CASE Restored
    <2>1. visit \in Meetings /\ session[visit] \in Records
          /\ restored = [session[visit] EXCEPT !.state = "interrupted"]
      BY <1>11 DEF Restored, IInv, Left, Typed
    <2>2. PICK k \in Nat : restored.names = k /\ session[visit].names = k
      BY <2>1, Fields DEF States
    <2>3. session[visit].names <= k
      BY <2>2
    <2> QED  BY <1>11, <2>1, <2>2, <2>3, SaveNames DEF Restored
  <1>12. CASE Capture
    BY <1>2, <1>4, <1>5, <1>6, <1>12
       DEF Capture, Open, AppendTo, CaptureEnds, Finish, Move
  <1>13. ASSUME NEW c \in Callers, Job(c) PROVE session'[n].names >= session[n].names
    BY <1>2, <1>8, <1>9, <1>10, <1>13
       DEF Job, Claim, Load, Analyze, WriteJson, WriteMarkdown, Delete, Leave
  <1> QED
    BY <1>2, <1>11, <1>12, <1>13
       DEF Next, Start, Stop, Ask, CancelJob, Crash, Visit, Repair, RecoveryEnds

\* No copy of a session overwrites the names somebody has edited.
THEOREM EditKeptAlways == ASSUME NoSession \notin Records PROVE Spec => EditKept
  <1>1. IInv /\ [Next]_vars =>
          [\A m \in exists : session'[m].names >= session[m].names]_vars
    BY NamesStay
  <1>2. Spec => []IInv
    BY Invariance
  <1> QED  BY <1>1, <1>2, PTL DEF Spec, EditKept

-----------------------------------------------------------------------------
(* Types *)

\* Callers that may yet edit.
Asked == {c \in Callers : call[c] \in {"asked", "claimed", "loaded"}}

\* The bounds.  Each edit has a command of its own.
Bounded ==
    /\ \A m \in Meetings, t \in Tracks : frames[m][t] <= MaxFrames
    /\ stopping \in BOOLEAN /\ cancelled \in BOOLEAN /\ todo \subseteq Meetings
    /\ jobs \in Meetings \cup {NoMeeting} /\ commands \in 0..MaxCommands
    /\ IsFiniteSet(Asked) /\ edits + Cardinality(Asked) <= commands

\* The callers that may edit do not become more.
LEMMA AskedFewer ==
    ASSUME IInv, Bounded, Asked' \subseteq Asked, UNCHANGED <<edits, commands>>
    PROVE  IsFiniteSet(Asked)' /\ edits' + Cardinality(Asked)' <= commands'
  <1>1. /\ IsFiniteSet(Asked') /\ Cardinality(Asked') <= Cardinality(Asked)
        /\ Cardinality(Asked) \in Nat /\ Cardinality(Asked') \in Nat
    BY FS_Subset, FS_CardinalityType DEF Bounded
  <1>2. edits \in Nat /\ commands \in Nat
    BY DEF IInv, Typed, Bounded
  <1> QED  BY <1>1, <1>2 DEF Bounded

LEMMA AskBounds ==
    ASSUME IInv, Bounded, MaxCommands \in Nat, NEW c \in Callers, NEW m \in Meetings,
           NEW o \in Orders, Ask(c, m, o)
    PROVE  Bounded'
  <1>1. /\ call' = [call EXCEPT ![c] = "asked"] /\ call \in [Callers -> Places]
        /\ call[c] = "none" /\ commands < MaxCommands /\ commands' = commands + 1
        /\ UNCHANGED <<frames, stopping, cancelled, todo, jobs, edits>>
    BY DEF Ask, Goes, Disk, audio, recovery, active, IInv, Typed
  <1>2. Asked' = Asked \cup {c} /\ c \notin Asked
    BY <1>1 DEF Asked
  <1>3. /\ IsFiniteSet(Asked') /\ Cardinality(Asked') = Cardinality(Asked) + 1
        /\ Cardinality(Asked) \in Nat
    BY <1>2, FS_AddElement, FS_CardinalityType DEF Bounded
  <1>4. edits \in Nat /\ commands \in Nat
    BY DEF IInv, Typed, Bounded
  <1> QED  BY <1>1, <1>3, <1>4 DEF Bounded

LEMMA RenameBounds ==
    ASSUME IInv, Bounded, NEW c \in Callers, Rename(c) PROVE Bounded'
  <1>1. /\ call' = [call EXCEPT ![c] = "leave"] /\ call \in [Callers -> Places]
        /\ call[c] = "loaded" /\ edits' = edits + 1
        /\ UNCHANGED <<frames, stopping, cancelled, todo, jobs, commands>>
    BY DEF Rename, Goes, audio, recovery, active, IInv, Typed
  <1>2. Asked' = Asked \ {c} /\ c \in Asked
    BY <1>1 DEF Asked
  <1>3. /\ IsFiniteSet(Asked') /\ Cardinality(Asked') = Cardinality(Asked) - 1
        /\ Cardinality(Asked) \in Nat
    BY <1>2, FS_RemoveElement, FS_CardinalityType DEF Bounded
  <1>4. edits \in Nat /\ commands \in Nat
    BY DEF IInv, Typed, Bounded
  <1> QED  BY <1>1, <1>3, <1>4 DEF Bounded

\* A step of a job that is neither.
LEMMA JobBounds ==
    ASSUME IInv, Bounded, NEW c \in Callers, Job(c), ~Rename(c) PROVE Bounded'
  <1>1. /\ UNCHANGED <<frames, stopping, todo, edits, commands>>
        /\ cancelled' \in BOOLEAN /\ jobs' \in {jobs, about[c], NoMeeting}
    BY DEF Job, Claim, Load, Begin, Analyze, WriteJson, WriteMarkdown, JobSaved,
           Delete, Leave, Disk, audio, recovery, active, Bounded
  <1>2. PICK p \in Places : call' = [call EXCEPT ![c] = p]
                          /\ (p \in {"claimed", "loaded"} => c \in Asked) /\ p # "asked"
    BY DEF Job, Claim, Load, Begin, Analyze, WriteJson, WriteMarkdown, JobSaved,
           Delete, Leave, Goes, Places, Asked
  <1>3. Asked' \subseteq Asked
    BY <1>2 DEF Asked, IInv, Typed
  <1>4. jobs' \in Meetings \cup {NoMeeting}
    BY <1>1 DEF IInv, Typed, Bounded
  <1> QED  BY <1>1, <1>3, <1>4, AskedFewer DEF Bounded

\* The capture writes no frame over the bound.
LEMMA CaptureBounds ==
    ASSUME IInv, Bounded, MaxFrames \in Nat, Capture PROVE Bounded'
  <1>1. UNCHANGED <<stopping, cancelled, todo, jobs, commands, edits, call>>
    BY DEF Capture, Create, Open, Checkpoint, CaptureEnds, CaptureSaved, Finish, Move,
           AppendTo, Disk, audio, recovery, active, calls
  <1>2. ASSUME NEW t \in Tracks, NEW n \in Nat, n <= MaxFrames,
               frames' = Put(frames, run, t, n)
        PROVE  \A m \in Meetings, u \in Tracks : frames'[m][u] <= MaxFrames
    BY <1>2 DEF Put, IInv, Typed, Lengths, Bounded
  <1>3. ASSUME NEW t \in Tracks, NEW p, NEW q, Finish(t, p, q), p \in Writing
        PROVE  \A m \in Meetings, u \in Tracks : frames'[m][u] <= MaxFrames
    <2>1. run \in Meetings
      BY <1>3 DEF Finish, Writing, IInv, Captured, Typed
    <2>2. \A u \in Tracks : frames[run][u] \in Nat /\ frames[run][u] <= MaxFrames
      BY <2>1 DEF IInv, Typed, Lengths, Bounded
    <2>3. PICK n \in Nat : n <= MaxFrames /\ frames' = Put(frames, run, t, n)
      <3>1. "microphone" \in Tracks /\ "system" \in Tracks
        BY DEF Tracks
      <3>2. Longest(run) \in Nat /\ Longest(run) <= MaxFrames
        BY <2>2, <3>1 DEF Longest
      <3> QED  BY <1>3, <2>2, <3>2 DEF Finish
    <2> QED  BY <1>2, <2>3
  <1>4. ASSUME NEW t \in Tracks, AppendTo(t)
        PROVE  \A m \in Meetings, u \in Tracks : frames'[m][u] <= MaxFrames
    <2>1. run \in Meetings
      BY <1>4 DEF AppendTo, IInv, Captured, Typed
    <2>2. frames[run][t] \in Nat /\ frames[run][t] < MaxFrames
      BY <1>4, <2>1 DEF AppendTo, IInv, Typed, Lengths
    <2> QED  BY <1>2, <1>4, <2>2 DEF AppendTo
  <1>5. \A m \in Meetings, u \in Tracks : frames'[m][u] <= MaxFrames
    <2>1. CASE UNCHANGED frames
      BY <2>1 DEF Bounded
    <2> QED
      BY <1>3, <1>4, <2>1 DEF Capture, Create, Open, Checkpoint, CaptureEnds,
           CaptureSaved, Move, Disk, audio, Tracks, Writing
  <1>6. Asked' \subseteq Asked
    BY <1>1 DEF Asked
  <1> QED  BY <1>1, <1>5, <1>6, AskedFewer DEF Bounded

LEMMA CrashBounds ==
    ASSUME IInv, Bounded, MaxFrames \in Nat, Crash PROVE Bounded'
  <1>1. /\ stopping' = FALSE /\ cancelled' = FALSE /\ jobs' = NoMeeting
        /\ todo' = exists /\ UNCHANGED <<commands, edits>>
        /\ call' = [c \in Callers |-> "none"]
    BY DEF Crash, Idle
  <1>2. \A m \in Meetings, t \in Tracks : frames'[m][t] <= MaxFrames
    <2> SUFFICES ASSUME NEW m \in Meetings, NEW t \in Tracks
                 PROVE  frames'[m][t] <= MaxFrames
      OBVIOUS
    <2>1. frames'[m][t] \in {synced[m][t], frames[m][t]}
      BY DEF Crash
    <2>2. /\ frames[m][t] \in Nat /\ synced[m][t] \in Nat
          /\ synced[m][t] <= frames[m][t] /\ frames[m][t] <= MaxFrames
      BY DEF IInv, Typed, Lengths, Stored, Bounded
    <2> QED  BY <2>1, <2>2
  <1>3. Asked' \subseteq Asked
    BY <1>1 DEF Asked
  <1> QED  BY <1>1, <1>2, <1>3, AskedFewer DEF Bounded, IInv, Typed

LEMMA BoundsKept ==
    ASSUME MaxCommands \in Nat, MaxFrames \in Nat, IInv, Bounded, [Next]_vars
    PROVE  Bounded'
  <1>1. ASSUME NEW m \in Meetings, Start(m) \/ Visit(m) PROVE Bounded'
    <2>1. /\ UNCHANGED <<frames, cancelled, jobs, commands, edits, call>>
          /\ stopping' \in BOOLEAN /\ todo' \subseteq todo
      BY <1>1 DEF Start, Visit, Disk, audio, recovery, active, calls, Bounded
    <2> QED  BY <2>1, AskedFewer DEF Bounded, Asked
  <1>2. ASSUME Stop \/ CancelJob \/ Restored \/ RecoveryEnds \/ UNCHANGED vars
        PROVE  Bounded'
    <2>1. /\ UNCHANGED <<frames, jobs, commands, edits, call>>
          /\ stopping' \in BOOLEAN /\ cancelled' \in BOOLEAN /\ todo' \subseteq todo
      BY <1>2 DEF Stop, CancelJob, Restored, RecoveryEnds, vars, Disk, audio, recovery,
                  active, calls, Bounded
    <2> QED  BY <2>1, AskedFewer DEF Bounded, Asked
  <1>3. ASSUME NEW t \in Tracks, Repair(t) PROVE Bounded'
    <2>1. UNCHANGED <<frames, stopping, cancelled, todo, jobs, commands, edits, call>>
      BY <1>3 DEF Repair, recovery, active, calls
    <2> QED  BY <2>1, AskedFewer DEF Bounded, Asked
  <1> QED
    BY <1>1, <1>2, <1>3, AskBounds, RenameBounds, JobBounds, CaptureBounds, CrashBounds
       DEF Next, Job

\* Sessions, tracks and transcripts are ones that exist, no track is synced
\* farther than it was written, and no more edits are saved than were asked for.
THEOREM TypeCorrect ==
    ASSUME NoSession \notin Records, MaxCommands \in Nat, MaxFrames \in Nat
    PROVE  Spec => []TypeOK
  <1>1. Init => Bounded
    <2> SUFFICES ASSUME Init PROVE Bounded
      OBVIOUS
    <2>1. Asked = {} /\ IsFiniteSet({}) /\ Cardinality({}) = 0
      BY FS_EmptySet DEF Init, Asked
    <2>2. \A m \in Meetings, t \in Tracks : frames[m][t] <= MaxFrames
      BY DEF Init
    <2>3. commands \in 0..MaxCommands /\ edits + Cardinality(Asked) <= commands
      BY <2>1 DEF Init
    <2> QED  BY <2>1, <2>2, <2>3 DEF Init, Bounded, NoMeeting
  <1>2. IInv /\ Bounded /\ [Next]_vars => Bounded'
    BY BoundsKept
  <1>3. IInv /\ Bounded => TypeOK
    <2> SUFFICES ASSUME IInv, Bounded PROVE TypeOK
      OBVIOUS
    <2>1. edits \in 0..MaxCommands
      <3>1. edits \in Nat /\ commands \in 0..MaxCommands /\ Cardinality(Asked) \in Nat
        BY FS_CardinalityType DEF IInv, Typed, Bounded
      <3> QED  BY <3>1 DEF Bounded
    <2>2. \A m \in Meetings : session[m] \in Sessions \cup {NoSession}
      <3>1. ASSUME NEW m \in Meetings, session[m] \in Records PROVE session[m] \in Sessions
        <4>1. session[m].names \in Nat /\ session[m].names <= edits
          BY <3>1 DEF Records, IInv, Saved
        <4>2. session[m].names \in 0..MaxCommands
          BY <2>1, <4>1
        <4> QED  BY <3>1, <4>2 DEF Records, Sessions, States
      <3> QED  BY <3>1 DEF IInv, Typed, Copies
    <2>3. \A m \in exists : session[m] # NoSession
      BY DEF IInv, Saved
    <2> QED
      BY <2>1, <2>2, <2>3 DEF TypeOK, IInv, Typed, Files, Stored, Bounded
  <1> QED  BY <1>1, <1>2, <1>3, Invariance, PTL DEF Spec
=============================================================================
