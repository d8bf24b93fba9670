------------------------------ MODULE Meetings ------------------------------
(***************************************************************************)
(* Recorded meetings: meeting_capture/mod.rs and the track files of        *)
(* meeting_capture/storage.rs.                                             *)
(*                                                                         *)
(* One run at a time captures a meeting into two partial files; one job at *)
(* a time edits, transcribes, summarizes or deletes one.  Each of them     *)
(* loads session.json, keeps its copy for as long as it works (hours for a *)
(* transcript) and saves the copy whole.  The program may die between any  *)
(* two steps; at the next start recover() visits every session while new   *)
(* runs and jobs are refused.                                              *)
(*                                                                         *)
(* A frame is whatever arrives between two checkpoints.  Saves of          *)
(* session.json, spawning the capture thread and the repair of a partial   *)
(* file are taken to succeed.                                              *)
(***************************************************************************)
EXTENDS Naturals

CONSTANTS
    MaxMeetings,     \* bound on the meetings
    Callers,         \* threads with a command about a meeting
    MaxCommands,     \* bound on their commands
    MaxFrames,       \* bound on the frames of a track
    MaxCrashes,      \* bound on the crashes
    NoSession        \* no copy of a session

Meetings  == 1..MaxMeetings
NoMeeting == 0
Tracks    == {"microphone", "system"}
Orders    == {"edit", "transcribe", "summarize", "delete"}

VARIABLES
    \* on disk
    exists,          \* the meetings with a directory
    session,         \* session.json of each
    file, frames,    \* of each track: "none", "partial" or "final"; length
    header, synced,  \* frames its header names, frames that are synced
    text,            \* transcript: "none", "json" (written first) or "both"
    \* in memory
    recovering, todo, visit, restored,  \* recover(): left, current, its copy
    run, capture, stopping, record,     \* active run: meeting, place, stop, copy
    jobs,                               \* the meeting of the job, if any
    call, about, order, copy,           \* each caller: place, meeting, order, copy
    cancelled,                          \* whether the job's flag is set
    edits, commands, crashes            \* counted, the last two for the bounds

audio    == <<file, frames, header, synced>>
recovery == <<recovering, todo, visit, restored>>
active   == <<run, capture, stopping, record>>
calls    == <<call, about, order, copy, cancelled, commands>>
vars     == <<exists, session, audio, text, recovery, active, jobs, calls,
              edits, crashes>>

Working  == {"starting", "recording", "stopping", "transcribing", "summarizing"}
Sessions == [state : Working \cup {"recorded", "interrupted", "ready"},
             mic : BOOLEAN, names : 0..MaxCommands, transcript : BOOLEAN]

TypeOK ==
    /\ exists \subseteq Meetings /\ edits \in 0..MaxCommands
    /\ session \in [Meetings -> Sessions \cup {NoSession}]
    /\ \A m \in exists : session[m] # NoSession
    /\ file \in [Meetings -> [Tracks -> {"none", "partial", "final"}]]
    /\ \A m \in Meetings, t \in Tracks :
          synced[m][t] <= frames[m][t] /\ frames[m][t] <= MaxFrames
    /\ text \in [Meetings -> {"none", "json", "both"}]
    /\ recovering \in BOOLEAN /\ todo \subseteq Meetings
    /\ {visit, run, jobs} \subseteq Meetings \cup {NoMeeting}
    /\ about \in [Callers -> Meetings \cup {NoMeeting}]
    /\ stopping \in BOOLEAN /\ cancelled \in BOOLEAN

Idle ==
    /\ visit' = NoMeeting /\ restored' = NoSession
    /\ run' = NoMeeting /\ capture' = "none" /\ stopping' = FALSE
    /\ record' = NoSession /\ jobs' = NoMeeting /\ cancelled' = FALSE
    /\ call' = [c \in Callers |-> "none"]
    /\ about' = [c \in Callers |-> NoMeeting]
    /\ order' = [c \in Callers |-> "edit"]
    /\ copy' = [c \in Callers |-> NoSession]

Init ==
    /\ exists = {} /\ session = [m \in Meetings |-> NoSession]
    /\ file = [m \in Meetings |-> [t \in Tracks |-> "none"]]
    /\ frames = [m \in Meetings |-> [t \in Tracks |-> 0]]
    /\ header = frames /\ synced = frames
    /\ text = [m \in Meetings |-> "none"]
    /\ recovering = TRUE /\ todo = {} /\ visit = NoMeeting
    /\ restored = NoSession /\ run = NoMeeting /\ capture = "none"
    /\ stopping = FALSE /\ record = NoSession /\ jobs = NoMeeting
    /\ cancelled = FALSE /\ edits = 0 /\ commands = 0 /\ crashes = 0
    /\ call = [c \in Callers |-> "none"]
    /\ about = [c \in Callers |-> NoMeeting]
    /\ order = [c \in Callers |-> "edit"]
    /\ copy = [c \in Callers |-> NoSession]

-----------------------------------------------------------------------------
(* Helpers *)

Save(m, s) == session' = [session EXCEPT ![m] = s]
Disk       == <<exists, session, audio, text>>
Put(f, m, t, v) == [f EXCEPT ![m][t] = v]
Longest(m) == IF frames[m]["microphone"] > frames[m]["system"]
              THEN frames[m]["microphone"] ELSE frames[m]["system"]

\* The active slot holds an unfinished run.
Busy == run # NoMeeting

-----------------------------------------------------------------------------
(* A run: start_meeting and run_capture *)

\* Under active and jobs.  The directory and session.json come later.
Start(m) ==
    /\ ~recovering /\ ~Busy /\ jobs = NoMeeting
    /\ session[m] = NoSession /\ \A i \in Meetings : i < m => session[i] # NoSession
    /\ run' = m /\ capture' = "claimed" /\ stopping' = FALSE
    /\ UNCHANGED <<Disk, recovery, record, jobs, calls, edits, crashes>>

\* Or there is no space, and the run is finished.
Create ==
    /\ capture = "claimed"
    /\ \/ /\ run' = NoMeeting /\ capture' = "none"
          /\ UNCHANGED <<exists, session, record>>
       \/ \E mic \in BOOLEAN :
             LET s == [state |-> "starting", mic |-> mic, names |-> 0,
                       transcript |-> FALSE]
             IN  /\ exists' = exists \cup {run} /\ Save(run, s) /\ record' = s
                 /\ capture' = "opening" /\ UNCHANGED run
    /\ UNCHANGED <<audio, text, recovery, stopping, jobs, calls, edits, crashes>>

\* Both partial files, then the native capture, which may fail.
Open ==
    /\ capture = "opening" /\ capture' \in {"capturing", "failed"}
    /\ file' = [file EXCEPT ![run] = [t \in Tracks |-> "partial"]]
    /\ UNCHANGED <<exists, session, frames, header, synced, text, recovery, run,
                   stopping, record, jobs, calls, edits, crashes>>

AppendTo(t) ==
    /\ capture = "capturing" /\ frames[run][t] < MaxFrames
    /\ frames' = Put(frames, run, t, frames[run][t] + 1)
    /\ UNCHANGED <<exists, session, file, header, synced, text, recovery, active,
                   jobs, calls, edits, crashes>>

Checkpoint ==
    /\ capture = "capturing"
    /\ header' = [header EXCEPT ![run] = frames[run]]
    /\ synced' = [synced EXCEPT ![run] = frames[run]]
    /\ record' = [record EXCEPT !.state = IF stopping THEN "stopping" ELSE "recording"]
    /\ Save(run, record')
    /\ UNCHANGED <<exists, file, frames, text, recovery, run, capture, stopping,
                   jobs, calls, edits, crashes>>

\* stop_meeting and stop_active.
Stop ==
    /\ Busy /\ stopping' = TRUE
    /\ UNCHANGED <<Disk, recovery, run, capture, record, jobs, calls, edits, crashes>>

\* The loop ends: the native stream has stopped or failed, for a stop, a disk
\* or clock error, a limit or of itself.
CaptureEnds ==
    /\ capture = "capturing" /\ capture' = "closeMicrophone"
    /\ UNCHANGED <<Disk, recovery, run, stopping, record, jobs, calls, edits, crashes>>

\* TrackWriter::finish: padded to the longer track, header and data synced.
Finish(t, at, then) ==
    LET n == IF t = "microphone" /\ ~record.mic THEN frames[run][t]
                                                ELSE Longest(run)
    IN  /\ capture = at /\ capture' = then
        /\ frames' = Put(frames, run, t, n) /\ header' = Put(header, run, t, n)
        /\ synced' = Put(synced, run, t, n)
        /\ UNCHANGED <<exists, session, file, text, recovery, run, stopping,
                       record, jobs, calls, edits, crashes>>

\* Mutant: the microphone's file goes whether it was included or not.
MoveSystemOnly(t, at, then) ==
    /\ capture = at
    /\ \/ /\ capture' = then
          /\ file' = Put(file, run, t, IF t = "system" THEN "final" ELSE "none")
       \/ capture' = "failed" /\ UNCHANGED file
    /\ UNCHANGED <<exists, session, frames, header, synced, text, recovery, run,
                   stopping, record, jobs, calls, edits, crashes>>

\* The file gets its final name, or is removed if it was not wanted.
Move(t, at, then) ==
    /\ capture = at
    /\ \/ /\ capture' = then
          /\ file' = Put(file, run, t, IF t = "system" \/ record.mic
                                       THEN "final" ELSE "none")
       \/ capture' = "failed" /\ UNCHANGED file
    /\ UNCHANGED <<exists, session, frames, header, synced, text, recovery, run,
                   stopping, record, jobs, calls, edits, crashes>>

\* The mix, or an error found at the end, decides how the meeting is saved.
CaptureSaved ==
    /\ capture \in {"mix", "failed"}
    /\ \E s \in {"recorded", "interrupted"} :
          /\ capture = "failed" => s = "interrupted"
          /\ Save(run, [record EXCEPT !.state = s])
    /\ run' = NoMeeting /\ capture' = "none" /\ record' = NoSession
    /\ UNCHANGED <<exists, audio, text, recovery, stopping, jobs, calls, edits,
                   crashes>>

-----------------------------------------------------------------------------
(* A job: claim_job and the commands under it *)

Goes(c, p) == call' = [call EXCEPT ![c] = p]

\* claim_job, first lock: nobody records.
Ask(c, m, o) ==
    /\ call[c] = "none" /\ commands < MaxCommands /\ commands' = commands + 1
    /\ ~recovering /\ ~Busy /\ m \in exists
    /\ Goes(c, "asked") /\ about' = [about EXCEPT ![c] = m]
    /\ order' = [order EXCEPT ![c] = o]
    /\ UNCHANGED <<Disk, recovery, active, jobs, copy, cancelled, edits, crashes>>

\* Mutant: the names are changed without the claim.
ClaimNot(c) ==
    /\ call[c] = "asked" /\ Goes(c, "claimed")
    /\ jobs' = IF order[c] = "edit" THEN jobs ELSE about[c]
    /\ cancelled' = FALSE
    /\ UNCHANGED <<Disk, recovery, active, about, order, copy, commands, edits,
                   crashes>>

\* claim_job, second lock: no other job.
Claim(c) ==
    /\ call[c] = "asked"
    /\ IF jobs = NoMeeting
       THEN jobs' = about[c] /\ Goes(c, "claimed") /\ cancelled' = FALSE
       ELSE Goes(c, "none") /\ UNCHANGED <<jobs, cancelled>>
    /\ UNCHANGED <<Disk, recovery, active, about, order, copy, commands, edits,
                   crashes>>

Load(c) ==
    /\ call[c] = "claimed" /\ order[c] # "delete"
    /\ IF about[c] \in exists
       THEN copy' = [copy EXCEPT ![c] = session[about[c]]] /\ Goes(c, "loaded")
       ELSE Goes(c, "leave") /\ UNCHANGED copy
    /\ UNCHANGED <<Disk, recovery, active, jobs, about, order, cancelled,
                   commands, edits, crashes>>

\* update_meeting_speakers; then the markdown is written anew.
Rename(c) ==
    /\ call[c] = "loaded" /\ order[c] = "edit" /\ edits' = edits + 1
    /\ copy' = [copy EXCEPT ![c].names = edits'] /\ Save(about[c], copy'[c])
    /\ Goes(c, "leave")
    /\ UNCHANGED <<exists, audio, text, recovery, active, jobs, about, order,
                   cancelled, commands, crashes>>

Able(c) == IF order[c] = "transcribe" THEN file[about[c]]["system"] = "final"
                                      ELSE copy[c].transcript

\* transcribe_meeting and summarize_meeting, up to the spawn.  They also leave
\* when no model is chosen.
Begin(c) ==
    /\ call[c] = "loaded" /\ order[c] \in {"transcribe", "summarize"}
    /\ \/ /\ Able(c) /\ Goes(c, "working")
          /\ copy' = [copy EXCEPT ![c].state = IF order[c] = "transcribe"
                                   THEN "transcribing" ELSE "summarizing"]
          /\ Save(about[c], copy'[c])
       \/ Goes(c, "leave") /\ UNCHANGED <<copy, session>>
    /\ UNCHANGED <<exists, audio, text, recovery, active, jobs, about, order,
                   cancelled, commands, edits, crashes>>

\* cancel_meeting_analysis.
CancelJob ==
    /\ jobs # NoMeeting /\ ~cancelled /\ cancelled' = TRUE
    /\ UNCHANGED <<Disk, recovery, active, jobs, call, about, order, copy,
                   commands, edits, crashes>>

\* The analysis comes to an end; the transcript is two files.
Analyze(c) ==
    /\ call[c] = "working"
    /\ \/ order[c] = "transcribe" /\ ~cancelled /\ Goes(c, "json")
       \/ Goes(c, IF order[c] = "transcribe" THEN "failed" ELSE "summed")
    /\ UNCHANGED <<Disk, recovery, active, jobs, about, order, copy, cancelled,
                   commands, edits, crashes>>

WriteJson(c) ==
    /\ call[c] = "json" /\ Goes(c, "md")
    /\ text' = [text EXCEPT ![about[c]] = IF @ = "none" THEN "json" ELSE @]
    /\ UNCHANGED <<exists, session, audio, recovery, active, jobs, about, order,
                   copy, cancelled, commands, edits, crashes>>

WriteMarkdown(c) ==
    /\ call[c] = "md"
    /\ \/ Goes(c, "transcribed") /\ text' = [text EXCEPT ![about[c]] = "both"]
       \/ Goes(c, "failed") /\ UNCHANGED text
    /\ UNCHANGED <<exists, session, audio, recovery, active, jobs, about, order,
                   copy, cancelled, commands, edits, crashes>>

\* apply_analysis_outcome, apply_analysis_failure, or a summary or none.
JobSaved(c) ==
    /\ call[c] \in {"transcribed", "failed", "summed"}
    /\ Save(about[c],
            [copy[c] EXCEPT !.state = IF call[c] = "failed" THEN "recorded" ELSE "ready",
                            !.transcript = @ \/ call[c] = "transcribed"])
    /\ Goes(c, "leave")
    /\ UNCHANGED <<exists, audio, text, recovery, active, jobs, about, order,
                   copy, cancelled, commands, edits, crashes>>

\* delete_meeting moves the directory out of the store.
Delete(c) ==
    /\ call[c] = "claimed" /\ order[c] = "delete"
    /\ exists' = exists \ {about[c]} /\ Goes(c, "leave")
    /\ UNCHANGED <<session, audio, text, recovery, active, jobs, about, order,
                   copy, cancelled, commands, edits, crashes>>

\* JobGuard is dropped.
Leave(c) ==
    /\ call[c] = "leave" /\ Goes(c, "none") /\ jobs' = NoMeeting
    /\ copy' = [copy EXCEPT ![c] = NoSession]
    /\ UNCHANGED <<Disk, recovery, active, about, order, cancelled, commands,
                   edits, crashes>>

-----------------------------------------------------------------------------
(* Crash, and recover() at the next start *)

\* Frames that were not synced may be lost.
Crash ==
    /\ crashes < MaxCrashes /\ crashes' = crashes + 1
    /\ \E lost \in SUBSET (Meetings \X Tracks) :
          frames' = [m \in Meetings |-> [t \in Tracks |->
              IF <<m, t>> \in lost THEN synced[m][t] ELSE frames[m][t]]]
    /\ recovering' = TRUE /\ todo' = exists /\ Idle
    /\ UNCHANGED <<exists, session, file, header, synced, text, commands, edits>>

HasPartial(m) == \E t \in Tracks : file[m][t] = "partial"

\* Mutant: only what was being recorded is recovered.
NeedsAudioRecovery(m) == HasPartial(m)

NeedsRecovery(m) == HasPartial(m) \/ session[m].state \in Working

Visit(m) ==
    /\ recovering /\ visit = NoMeeting /\ m \in todo
    /\ IF NeedsRecovery(m)
       THEN /\ visit' = m /\ restored' = [session[m] EXCEPT !.state = "interrupted"]
            /\ UNCHANGED todo
       ELSE todo' = todo \ {m} /\ UNCHANGED <<visit, restored>>
    /\ UNCHANGED <<Disk, recovering, active, jobs, calls, edits, crashes>>

\* repair_partial takes the length from the file, which then is renamed.
Repair(t) ==
    /\ visit # NoMeeting /\ file[visit][t] = "partial"
    /\ file' = Put(file, visit, t, "final")
    /\ header' = Put(header, visit, t, frames[visit][t])
    /\ synced' = Put(synced, visit, t, frames[visit][t])
    /\ UNCHANGED <<exists, session, frames, text, recovery, active, jobs, calls,
                   edits, crashes>>

Restored ==
    /\ visit # NoMeeting /\ ~HasPartial(visit) /\ Save(visit, restored)
    /\ todo' = todo \ {visit} /\ visit' = NoMeeting /\ restored' = NoSession
    /\ UNCHANGED <<exists, audio, text, recovering, active, jobs, calls, edits,
                   crashes>>

RecoveryEnds ==
    /\ recovering /\ visit = NoMeeting /\ todo = {} /\ recovering' = FALSE
    /\ UNCHANGED <<Disk, todo, visit, restored, active, jobs, calls, edits, crashes>>

-----------------------------------------------------------------------------

Capture ==
    \/ Create \/ Open \/ Checkpoint \/ CaptureEnds \/ CaptureSaved
    \/ Finish("microphone", "closeMicrophone", "closeSystem")
    \/ Finish("system", "closeSystem", "moveMicrophone")
    \/ Move("microphone", "moveMicrophone", "moveSystem")
    \/ Move("system", "moveSystem", "mix")
    \/ \E t \in Tracks : AppendTo(t)

Job(c) ==
    \/ Claim(c) \/ Load(c) \/ Rename(c) \/ Begin(c) \/ Analyze(c) \/ WriteJson(c)
    \/ WriteMarkdown(c) \/ JobSaved(c) \/ Delete(c) \/ Leave(c)

Next ==
    \/ \E m \in Meetings : Start(m) \/ Visit(m)
    \/ Capture \/ Stop \/ CancelJob \/ Crash \/ Restored \/ RecoveryEnds
    \/ \E t \in Tracks : Repair(t)
    \/ \E c \in Callers : Job(c) \/ \E m \in Meetings, o \in Orders : Ask(c, m, o)

Spec == Init /\ [][Next]_vars
-----------------------------------------------------------------------------
(* Properties *)

InHand(m) == run = m \/ \E c \in Callers : about[c] = m /\ call[c] # "none"

\* After a crash anywhere, in a recording, an analysis or the recovery itself,
\* no meeting is left in a state that says somebody works on it, its final
\* tracks say how long they are, and a transcript it claims to have is there.
NoneStuck ==
    \A m \in exists :
        /\ ~recovering /\ ~InHand(m) => session[m].state \notin Working
        /\ \A t \in Tracks : file[m][t] = "final" => header[m][t] = frames[m][t]
        /\ session[m].transcript => text[m] = "both"

\* Audio that was synced is never lost again: not by a failed finish, a crash
\* between two renames, a repair, an analysis or its cancellation.  A meeting
\* that is deleted keeps its files, elsewhere.
AudioKept ==
    [][\A m \in exists, t \in Tracks :
          synced[m][t] > 0 /\ (t = "system" \/ session[m].mic)
             => file'[m][t] # "none" /\ frames'[m][t] >= synced[m][t]]_vars

\* The names of the speakers are never overwritten by the copy of a session
\* that somebody else loaded before.
EditKept ==
    [][\A m \in exists : session'[m].names >= session[m].names]_vars

\* An expectation that fails: nothing is analyzed while a meeting is recorded.
\* claim_job looks at the active run, unlocks, and then locks the jobs.
NeverBoth == Busy => jobs = NoMeeting
=============================================================================
