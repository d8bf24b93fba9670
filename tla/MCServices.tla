----------------------------- MODULE MCServices -----------------------------
(***************************************************************************)
(* One instance for TLC of four components that share no state: the story  *)
(* renders, the speech output with its overlay, the meetings and the       *)
(* downloads.  The initial state chooses the one whose steps are taken;    *)
(* the others rest in theirs.                                              *)
(***************************************************************************)
EXTENDS StoryRenders

CONSTANTS MaxTickets, MaxEvents,                              \* SpeechOutput
          MaxMeetings, Callers, MaxCommands, MaxFrames, MaxCrashes, NoSession,
          Size, MaxCalls, Overlap, DeleteBeside, Updaters, MaxUpdates, MaxQuits

ASSUME BoundsAssumption ==
    {MaxTickets, MaxEvents, MaxCommands, MaxFrames, MaxUpdates, MaxQuits} \subseteq Nat

VARIABLES
    focus,
    place, kind, issued, active, stopped, closing, playback, main, owner, shown,
    display, visible, fades, seen, take, events,
    exists, session, file, frames, header, synced, text, recovering, todo, visit,
    restored, run, capture, stopping, record, jobs, call, about, order, copy,
    cancelled, edits, commands, crashes,
    entry, data, partial, installed, unpacked, at, base, next, total, handle,
    flag, doomed, listed, extracting, doing, known, updates, crossed, quits

\* Each with its theorems, which ServicesProofs uses.
Speech == INSTANCE SpeechProofs
Meet   == INSTANCE MeetingProofs
Load   == INSTANCE DownloadProofs

ServicesInit ==
    /\ focus \in {"stories", "speech", "meetings", "downloads"}
    /\ Init /\ Speech!Init /\ Meet!Init
    /\ IF focus = "downloads"
       THEN Load!Init
       ELSE /\ Load!Init
            /\ entry = [archive |-> FALSE, aliased |-> FALSE, sha |-> TRUE, sized |-> TRUE]

speech    == <<place, kind, issued, active, stopped, closing, playback, main,
               owner, shown, display, visible, fades, seen, take, events>>
meetings  == <<exists, session, file, frames, header, synced, text, recovering,
               todo, visit, restored, run, capture, stopping, record, jobs, call,
               about, order, copy, cancelled, edits, commands, crashes>>
downloads == <<entry, data, partial, installed, unpacked, at, base, next, total,
               handle, flag, doomed, listed, extracting, doing, known, updates,
               crossed, quits>>
all       == <<vars, speech, meetings, downloads, focus>>

StoryStep   == /\ focus = "stories" /\ Next
               /\ UNCHANGED <<focus, speech, meetings, downloads>>
SpeechStep  == /\ focus = "speech" /\ Speech!Next
               /\ UNCHANGED <<focus, vars, meetings, downloads>>
MeetingStep == /\ focus = "meetings" /\ Meet!Next
               /\ UNCHANGED <<focus, vars, speech, downloads>>
LoadStep    == /\ focus = "downloads" /\ Load!Next
               /\ UNCHANGED <<focus, vars, speech, meetings>>

StoryWork(w) == /\ focus = "stories" /\ Work(w)
                /\ UNCHANGED <<focus, speech, meetings, downloads>>

ServicesSpec ==
    /\ ServicesInit
    /\ [][StoryStep \/ SpeechStep \/ MeetingStep \/ LoadStep]_all
    /\ \A w \in Jobs : WF_all(StoryWork(w))

-----------------------------------------------------------------------------
(* What is checked, named here for the configuration *)

\* The type invariant of the component whose steps are taken.
TypesOK ==
    /\ focus = "stories" => TypeOK
    /\ focus = "speech" => Speech!TypeOK
    /\ focus = "meetings" => Meet!TypeOK
    /\ focus = "downloads" => Load!TypeOK

\* Only one request is at the loudspeaker, the newest or one being stopped.
OneVoice == Speech!OneVoice

\* The overlay follows the active request once it was displayed.
OverlayFollows == Speech!OverlayFollows

\* After a crash no meeting is left in work, headers are right, and transcripts
\* that are claimed are there.
NoneStuck == Meet!NoneStuck

\* Synced audio is never lost.
AudioKept == Meet!AudioKept

\* The names of the speakers are never overwritten by an older copy.
EditKept == Meet!EditKept

\* What has the name of the model is the whole of it, and what will be resumed
\* the beginning, whatever is listed and cancelled beside (an archive: unless an
\* update crossed the beginning of its unpacking).
InstalledWhole == Load!InstalledWhole

\* The manager shows no call when there is none, unless an update crossed the end
\* of one.
StatusRests == Load!StatusRests
=============================================================================
