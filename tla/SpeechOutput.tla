---------------------------- MODULE SpeechOutput ----------------------------
(***************************************************************************)
(* Speech output and the overlay window: TtsPlaybackTracker and the speak  *)
(* sessions of tts.rs, and overlay.rs.                                     *)
(*                                                                         *)
(* A request draws a ticket, which raises the stop flag of the one before, *)
(* and works on threads of its own: it synthesizes chunk after chunk and   *)
(* plays each under the playback gate (a cached file of the reader is      *)
(* played as a whole).  What it has to show it posts to the main thread.   *)
(* The overlay window is shared with the recording, and a hidden one fades *)
(* for 300 ms on a thread that then posts the hiding of the window.        *)
(***************************************************************************)
EXTENDS Naturals, Sequences

CONSTANTS
    MaxTickets,      \* bound on the speech requests
    MaxEvents        \* bound on the stops and recordings

Tickets   == 1..MaxTickets
NoTicket  == 0
Recording == 0       \* whom a post is about, if not about a ticket

VARIABLES
    place, kind,     \* of each request; "speak" or "cached"
    issued, active,  \* TtsPlaybackTracker: next_request_id, active
    stopped,         \* the tickets whose stop_flag is raised
    closing,         \* what a finished request has yet to post
    playback,        \* the holder of audio_playback_gate
    main,            \* the closures posted to the main thread
    owner, shown,    \* OVERLAY_OWNER, ACTIVE_SPEECH_OVERLAY_REQUEST
    display,         \* OVERLAY_DISPLAY_GENERATION
    visible,         \* whether the window is
    fades,           \* the generations of the sleeping fade-out threads
    seen,            \* requests displayed since a recording took the window
    take,            \* the recording: "off", "starting" or "on"
    events           \* stops and recordings so far

requests == <<place, kind>>
tracker  == <<issued, active, stopped>>
window   == <<owner, shown, display, visible, fades, seen>>
vars     == <<requests, tracker, closing, playback, main, window, take,
              events>>

Posts == [do : {"show", "hide"}, of : Tickets \cup {Recording}]
         \cup {[do |-> "vanish", of |-> Recording]}

TypeOK ==
    /\ place \in [Tickets -> {"none", "begun", "announce", "working", "ready",
                              "speaking", "cue", "playing", "more", "done"}]
    /\ kind \in [Tickets -> {"speak", "cached"}]
    /\ issued \in 0..MaxTickets /\ active \in 0..issued
    /\ stopped \subseteq 1..issued /\ active \notin stopped
    /\ closing \in [Tickets -> {"none", "hide", "failed"}]
    /\ playback \in Tickets \cup {NoTicket} /\ main \in Seq(Posts)
    /\ owner \in {"none", "recording", "speech"} /\ shown \in 0..issued
    /\ display \in Nat /\ visible \in BOOLEAN /\ fades \subseteq 0..display
    /\ seen \subseteq 1..issued /\ take \in {"off", "starting", "on"}
    /\ events \in 0..MaxEvents

Init ==
    /\ place = [r \in Tickets |-> "none"]
    /\ kind = [r \in Tickets |-> "speak"]
    /\ issued = 0 /\ active = NoTicket /\ stopped = {}
    /\ closing = [r \in Tickets |-> "none"] /\ playback = NoTicket
    /\ main = <<>> /\ owner = "none" /\ shown = 0 /\ display = 0
    /\ visible = FALSE /\ fades = {} /\ seen = {}
    /\ take = "off" /\ events = 0

-----------------------------------------------------------------------------

At(r, p)   == place' = [place EXCEPT ![r] = p]
Post(d, w) == main' = Append(main, [do |-> d, of |-> w])

\* Mutant: the flag is raised, the ticket stays.
ReleaseKept == /\ stopped' = stopped \cup ({active} \ {NoTicket})
               /\ UNCHANGED <<active, issued>>

\* stop: the ticket is taken out of the tracker, its flag raised.
Release == /\ stopped' = stopped \cup ({active} \ {NoTicket})
           /\ active' = NoTicket /\ UNCHANGED issued

\* finish_playback_ticket of the active request: what it posts comes later.
Finish(r, how) ==
    /\ active' = NoTicket /\ closing' = [closing EXCEPT ![r] = how]
    /\ At(r, "done") /\ UNCHANGED <<issued, stopped>>

-----------------------------------------------------------------------------
(* A request *)

\* Mutant: the predecessor's flag is not raised.
BeginBeside(r, k) ==
    /\ r = issued + 1 /\ take # "on"
    /\ issued' = r /\ active' = r /\ UNCHANGED stopped
    /\ At(r, "begun") /\ kind' = [kind EXCEPT ![r] = k]
    /\ UNCHANGED <<closing, playback, main, window, take, events>>

\* Refused while the microphone records; a recording that begins between that
\* check and the drawing of the ticket is one that began in "starting".
Begin(r, k) ==
    /\ r = issued + 1 /\ take # "on"
    /\ issued' = r /\ active' = r
    /\ stopped' = stopped \cup ({active} \ {NoTicket})
    /\ At(r, "begun") /\ kind' = [kind EXCEPT ![r] = k]
    /\ UNCHANGED <<closing, playback, main, window, take, events>>

Work(r)  == IF kind[r] = "speak" THEN "working" ELSE "cue"
Heard(r) == IF kind[r] = "speak" THEN "cue" ELSE "playing"

\* emit_playback_status looks whether the ticket is active, then posts.
Check(r) ==
    /\ \/ /\ place[r] = "begun"
          /\ At(r, IF active = r THEN "announce" ELSE Work(r))
       \/ /\ place[r] = "ready"
          /\ At(r, IF active = r THEN "speaking" ELSE Heard(r))
    /\ UNCHANGED <<kind, tracker, closing, playback, main, window, take,
                   events>>

Announce(r) ==
    /\ \/ place[r] = "announce" /\ At(r, Work(r))
       \/ place[r] = "speaking" /\ At(r, Heard(r))
    /\ Post("show", r)
    /\ UNCHANGED <<kind, tracker, closing, playback, window, take, events>>

\* A chunk is synthesized.  The first one has "speaking" to announce.
Synthesize(r) ==
    /\ place[r] \in {"working", "more"}
    /\ \/ /\ active # r /\ At(r, "done") /\ UNCHANGED <<tracker, closing>>
       \/ active = r /\ Finish(r, "failed")
       \/ /\ active = r
          /\ At(r, IF place[r] = "working" THEN "ready" ELSE "cue")
          /\ UNCHANGED <<tracker, closing>>
    /\ UNCHANGED <<kind, playback, main, window, take, events>>

\* The gate, and under it once more the question whether it was cancelled.
Cue(r) ==
    /\ place[r] = "cue" /\ playback = NoTicket
    /\ IF active = r
       THEN playback' = r /\ At(r, IF kind[r] = "speak" THEN "playing" ELSE "ready")
       ELSE UNCHANGED playback /\ At(r, "done")
    /\ UNCHANGED <<kind, tracker, closing, main, window, take, events>>

\* The file ends, fails, or the stop flag is seen.
PlayEnds(r) ==
    /\ place[r] = "playing" /\ playback' = NoTicket
    /\ \/ /\ active # r /\ At(r, "done") /\ UNCHANGED <<tracker, closing>>
       \/ /\ active = r /\ kind[r] = "speak" /\ At(r, "more")
          /\ UNCHANGED <<tracker, closing>>
       \/ active = r /\ \E how \in {"hide", "failed"} : Finish(r, how)
    /\ UNCHANGED <<kind, main, window, take, events>>

\* The rest of a finish or a stop.  "failed" is hidden 2.5 s later.
Close(r) ==
    /\ \/ /\ closing[r] = "hide" /\ Post("hide", r)
          /\ closing' = [closing EXCEPT ![r] = "none"]
       \/ /\ closing[r] = "failed" /\ Post("show", r)
          /\ closing' = [closing EXCEPT ![r] = "hide"]
    /\ UNCHANGED <<requests, tracker, playback, window, take, events>>

Stop ==
    /\ events < MaxEvents /\ events' = events + 1
    /\ active # NoTicket /\ Release
    /\ closing' = [closing EXCEPT ![active] = "hide"]
    /\ UNCHANGED <<requests, playback, main, window, take>>

-----------------------------------------------------------------------------
(* A recording, as far as it concerns speech and the window *)

\* It stops what is spoken, unless tts_stop_on_record is off.
TakeStarts ==
    /\ take = "off" /\ events < MaxEvents /\ events' = events + 1
    /\ take' = "starting"
    /\ \/ active # NoTicket /\ Release /\ Post("hide", active)
       \/ UNCHANGED <<tracker, main>>
    /\ UNCHANGED <<requests, closing, playback, window>>

TakeShows ==
    /\ take = "starting" /\ take' = "on" /\ Post("show", Recording)
    /\ UNCHANGED <<requests, tracker, closing, playback, window, events>>

TakeEnds ==
    /\ take = "on" /\ take' = "off" /\ Post("hide", Recording)
    /\ UNCHANGED <<requests, tracker, closing, playback, window, events>>

-----------------------------------------------------------------------------
(* The main thread *)

Display(who, r) ==
    /\ owner' = who /\ shown' = r /\ visible' = TRUE /\ display' = display + 1
    /\ UNCHANGED fades

Handled == main # <<>> /\ main' = Tail(main)
Others  == <<requests, tracker, closing, playback, take, events>>

\* Mutant: the last to post is displayed, however old.
ShowSpeechAny ==
    /\ Handled /\ Head(main).do = "show" /\ Head(main).of # Recording
    /\ Display("speech", Head(main).of) /\ seen' = seen \cup {Head(main).of}
    /\ UNCHANGED Others

\* show_speech_overlay: an older request does not displace a newer one.
ShowSpeech ==
    /\ Handled /\ Head(main).do = "show" /\ Head(main).of # Recording
    /\ IF owner = "speech" /\ shown > Head(main).of
       THEN UNCHANGED window
       ELSE /\ Display("speech", Head(main).of)
            /\ seen' = seen \cup {Head(main).of}
    /\ UNCHANGED Others

ShowRecording ==
    /\ Handled /\ Head(main) = [do |-> "show", of |-> Recording]
    /\ Display("recording", shown) /\ seen' = {}
    /\ UNCHANGED Others

\* hide_speech_overlay and hide_recording_overlay: only the owner's.
Hide ==
    /\ Handled /\ Head(main).do = "hide"
    /\ IF \/ owner = "recording" /\ Head(main).of = Recording
          \/ owner = "speech" /\ Head(main).of = shown
       THEN /\ owner' = "none" /\ display' = display + 1
            /\ fades' = fades \cup {display + 1}
            /\ UNCHANGED <<shown, visible, seen>>
       ELSE UNCHANGED window
    /\ UNCHANGED Others

Vanish ==
    /\ Handled /\ Head(main).do = "vanish" /\ visible' = FALSE
    /\ UNCHANGED <<owner, shown, display, fades, seen, Others>>

\* A fade-out thread wakes after 300 ms, compares and posts.
Fade(g) ==
    /\ g \in fades /\ fades' = fades \ {g}
    /\ IF display = g /\ owner = "none" THEN Post("vanish", Recording)
                                        ELSE UNCHANGED main
    /\ UNCHANGED <<requests, tracker, closing, playback, owner, shown, display,
                   visible, seen, take, events>>

-----------------------------------------------------------------------------

Main == ShowSpeech \/ ShowRecording \/ Hide \/ Vanish

Proceed(r) ==
    Check(r) \/ Announce(r) \/ Synthesize(r) \/ Cue(r) \/ PlayEnds(r) \/ Close(r)

Next ==
    \/ \E r \in Tickets : Proceed(r)
    \/ \E r \in Tickets, k \in {"speak", "cached"} : Begin(r, k)
    \/ Stop \/ TakeStarts \/ TakeShows \/ TakeEnds
    \/ Main \/ \E g \in fades : Fade(g)

Spec == Init /\ [][Next]_vars
-----------------------------------------------------------------------------
(* Properties *)

\* One voice: only one request is at the loudspeaker, and unless its stop flag
\* is already up it is the newest.  A request that was superseded or stopped
\* while it synthesized, queued for the gate or played falls silent.
OneVoice ==
    \A r \in Tickets : place[r] = "playing" =>
        playback = r /\ (active = r \/ r \in stopped)

\* Once the active request has been displayed the overlay, while it belongs to
\* speech, is about that request: not the late "speaking", "failed" or hide of
\* an older one, in whatever order their threads reach the main thread.  (A
\* recording's overlay in between forgets what was displayed, and after it an
\* older request may indeed come up.)
OverlayFollows ==
    active \in seen => owner # "none" /\ (owner = "speech" => shown = active)

\* An expectation that fails: the overlay of a request that is over has
\* somebody to hide it.  A stop between the check and the post of a status
\* hides it before it is shown.
OverlayAnswers ==
    owner = "speech" => \/ active = shown \/ closing[shown] # "none"
                        \/ \E i \in DOMAIN main : main[i].of = shown

\* What overlay.rs says above hide_speech_overlay: a recording overlay that
\* began after a hidden speech overlay remains visible.
RecordingVisible == owner = "recording" => visible
=============================================================================
