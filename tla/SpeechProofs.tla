---------------------------- MODULE SpeechProofs ----------------------------
(***************************************************************************)
(* Proofs about SpeechOutput, for any number of requests, stops and        *)
(* recordings.  That one voice is heard rests on the playback gate and on  *)
(* every request on its way being active or stopped.  That the overlay     *)
(* follows the active request rests on tickets that only grow and on the   *)
(* closures in the queue: none hides the active one.                       *)
(***************************************************************************)
EXTENDS SpeechOutput, TLAPS

Places == {"none", "begun", "announce", "working", "ready", "speaking", "cue",
           "playing", "more", "done"}

\* A ticket that is active is the newest.
Numbered ==
    /\ issued \in Nat /\ issued \in Tickets \cup {NoTicket}
    /\ active \in 0..issued /\ stopped \subseteq 1..issued
    /\ active # NoTicket => active = issued

\* Requests under way have a ticket; one that has ended is not active.
Placed ==
    /\ place \in [Tickets -> Places] /\ kind \in [Tickets -> {"speak", "cached"}]
    /\ closing \in [Tickets -> {"none", "hide", "failed"}]
    /\ \A r \in Tickets : /\ place[r] # "none" => r <= issued
                          /\ closing[r] # "none" => r <= issued /\ r # active

\* One at a time holds the gate, and none goes on but the active and the
\* stopped ones.
Voiced ==
    \A r \in Tickets :
        /\ place[r] \notin {"none", "done"} => active = r \/ r \in stopped
        /\ kind[r] = "cached" => place[r] \notin {"working", "more"}
        /\ \/ place[r] = "playing"
           \/ kind[r] = "cached" /\ place[r] \in {"ready", "speaking"}
           => playback = r

\* Nothing in the queue hides the active request.
Fits(p, n, a) == p.of \in 0..n /\ (p.do = "hide" => p.of # a \/ p.of = NoTicket)
Posted ==
    main \in Seq(Posts) /\ \A i \in 1..Len(main) : Fits(main[i], issued, active)

\* No request was displayed that has no ticket; the active one still is, if no
\* recording came after it.
Overlaid ==
    /\ seen \subseteq 1..issued
    /\ owner = "recording" => seen = {}
    /\ active \in seen => owner = "speech" /\ shown = active

IInv == Numbered /\ Placed /\ Voiced /\ Posted /\ Overlaid

-----------------------------------------------------------------------------
(* The queue of the main thread *)

\* What fitted still fits after a ticket is drawn or given back.
LEMMA PostsStay ==
    ASSUME IInv, UNCHANGED main, issued' \in Nat, issued' >= issued,
           active' \in {active, NoTicket} \/ (active' = issued' /\ issued' > issued)
    PROVE  Posted'
  <1>1. ASSUME NEW p, Fits(p, issued, active) PROVE Fits(p, issued', active')
    BY <1>1 DEF Fits, IInv, Numbered, NoTicket
  <1> QED  BY <1>1 DEF IInv, Posted

\* A closure that fits is appended.
LEMMA PostKeeps ==
    ASSUME IInv, NEW d \in {"show", "hide", "vanish"}, NEW w, Post(d, w),
           [do |-> d, of |-> w] \in Posts, w \in 0..issued, UNCHANGED issued,
           active' \in {active, NoTicket}, d = "hide" => w # active' \/ w = NoTicket
    PROVE  Posted'
  <1> DEFINE p == [do |-> d, of |-> w]
  <1>1. Fits(p, issued', active')
    BY DEF Fits, NoTicket
  <1>2. \A q : Fits(q, issued, active) => Fits(q, issued', active')
    BY DEF Fits, IInv, Numbered, NoTicket
  <1>3. main' = Append(main, p) /\ main \in Seq(Posts)
    BY DEF Post, IInv, Posted
  <1> HIDE DEF p
  <1>4. main' \in Seq(Posts) /\ Len(main') = Len(main) + 1 /\ Len(main) \in Nat
        /\ main'[Len(main) + 1] = p /\ \A i \in 1..Len(main) : main'[i] = main[i]
    BY <1>3 DEF p
  <1>5. ASSUME NEW i \in 1..Len(main') PROVE Fits(main'[i], issued', active')
    <2>1. CASE i = Len(main) + 1
      BY <1>1, <1>4, <2>1
    <2>2. CASE i \in 1..Len(main)
      BY <1>2, <1>4, <2>2 DEF IInv, Posted
    <2> QED  BY <1>4, <2>1, <2>2
  <1> QED  BY <1>4, <1>5 DEF Posted

\* The main thread takes the first.
LEMMA TakenKeeps ==
    ASSUME IInv, Handled, UNCHANGED <<issued, active>>
    PROVE  Posted' /\ Fits(Head(main), issued, active) /\ Head(main) \in Posts
  <1>1. main \in Seq(Posts) /\ main # <<>> /\ main' = Tail(main)
    BY DEF Handled, IInv, Posted
  <1>2. main' \in Seq(Posts) /\ Len(main') = Len(main) - 1 /\ Len(main) \in Nat
        /\ Head(main) = main[1] /\ 1 \in 1..Len(main) /\ Head(main) \in Posts
        /\ \A i \in 1..Len(main') : main'[i] = main[i + 1]
    BY <1>1
  <1>3. \A i \in 1..Len(main') : i + 1 \in 1..Len(main)
    BY <1>2
  <1> QED  BY <1>1, <1>2, <1>3 DEF IInv, Posted, Fits

-----------------------------------------------------------------------------
(* The steps of a request *)

LEMMA BeginKeeps ==
    ASSUME IInv, NEW r \in Tickets, NEW k \in {"speak", "cached"}, Begin(r, k)
    PROVE  IInv'
  <1> USE DEF window
  <1>1. r \in Nat /\ r = issued + 1 /\ r > 0 /\ place[r] = "none" /\ closing[r] = "none"
    BY DEF Begin, IInv, Numbered, Placed, Tickets
  <1>2. Numbered'
    BY <1>1 DEF Begin, IInv, Numbered, NoTicket
  <1>3. /\ place' \in [Tickets -> Places] /\ kind' \in [Tickets -> {"speak", "cached"}]
        /\ place'[r] = "begun" /\ kind'[r] = k
        /\ \A s \in Tickets \ {r} : place'[s] = place[s] /\ kind'[s] = kind[s]
    BY DEF Begin, At, IInv, Placed, Places
  <1>4. Placed'
    BY <1>1, <1>3 DEF Begin, IInv, Placed, Numbered, Tickets
  <1>5. Voiced'
    BY <1>1, <1>3 DEF Begin, IInv, Voiced, Numbered, NoTicket, Tickets
  <1>6. Posted'
    BY <1>1, PostsStay DEF Begin, IInv, Numbered
  <1>7. Overlaid'
    BY <1>1 DEF Begin, IInv, Overlaid, Numbered
  <1> QED  BY <1>2, <1>4, <1>5, <1>6, <1>7 DEF IInv

\* A request that stays what it is goes to another place.
LEMMA AtKeeps ==
    ASSUME IInv, NEW r \in Tickets, NEW p \in Places \ {"none"}, At(r, p),
           place[r] \notin {"none", "done"}, UNCHANGED <<kind, tracker, closing>>,
           kind[r] = "cached" => p \notin {"working", "more"},
           \/ /\ UNCHANGED playback
              /\ p \in {"playing", "ready", "speaking"} /\ kind[r] = "cached"
                   => playback = r
              /\ p = "playing" => playback = r
           \/ /\ playback = NoTicket /\ playback' = r
           \/ /\ playback = r /\ place[r] = "playing" /\ playback' = NoTicket
              /\ p \notin {"playing", "ready", "speaking"}
    PROVE  Placed' /\ Voiced'
  <1>1. /\ place' \in [Tickets -> Places] /\ place'[r] = p
        /\ \A s \in Tickets \ {r} : place'[s] = place[s]
    BY DEF At, IInv, Placed
  <1>2. Placed'
    BY <1>1 DEF tracker, IInv, Placed
  <1>3. Voiced'
    BY <1>1 DEF tracker, IInv, Voiced, NoTicket, Tickets
  <1> QED  BY <1>2, <1>3

\* The active request is over.
LEMMA FinishKeeps ==
    ASSUME IInv, NEW r \in Tickets, NEW how \in {"hide", "failed"},
           active = r, place[r] \notin {"none", "done"}, Finish(r, how),
           \/ UNCHANGED playback
           \/ playback = r /\ place[r] = "playing" /\ playback' = NoTicket,
           UNCHANGED <<kind, main, window>>
    PROVE  IInv'
  <1> USE DEF window
  <1>1. /\ place' \in [Tickets -> Places] /\ place'[r] = "done"
        /\ \A s \in Tickets \ {r} : place'[s] = place[s]
        /\ closing' \in [Tickets -> {"none", "hide", "failed"}]
        /\ \A s \in Tickets \ {r} : closing'[s] = closing[s]
    BY DEF Finish, At, IInv, Placed, Places
  <1>2. r \in 1..issued
    BY DEF Tickets, IInv, Placed, Numbered
  <1>3. Numbered'
    BY DEF Finish, IInv, Numbered, NoTicket
  <1>4. Placed'
    BY <1>1, <1>2 DEF Finish, IInv, Placed, NoTicket, Tickets
  <1>5. Voiced'
    BY <1>1 DEF Finish, IInv, Voiced, NoTicket, Tickets
  <1>6. Posted'
    BY PostsStay DEF Finish, IInv, Numbered
  <1>7. Overlaid'
    BY <1>2 DEF Finish, IInv, Overlaid, NoTicket
  <1> QED  BY <1>3, <1>4, <1>5, <1>6, <1>7 DEF IInv

\* A step that neither posts nor touches the tracker and the window.
LEMMA QuietKeeps ==
    ASSUME IInv, Placed', Voiced', UNCHANGED <<tracker, main, window>>
    PROVE  IInv'
  <1>1. Posted'
    BY PostsStay DEF tracker, IInv, Numbered
  <1> QED
    BY <1>1 DEF tracker, window, IInv, Numbered, Overlaid

LEMMA ProceedKeeps ==
    ASSUME IInv, NEW r \in Tickets, Proceed(r) PROVE IInv'
  <1>1. CASE Check(r)
    <2>1. PICK p \in Places \ {"none"} :
             /\ At(r, p) /\ (kind[r] = "cached" => p \notin {"working", "more"})
             /\ \/ place[r] = "begun" /\ p \in {"announce", "working", "cue"}
                \/ /\ place[r] = "ready"
                   /\ \/ p = "speaking"
                      \/ kind[r] = "speak" /\ p = "cue"
                      \/ kind[r] = "cached" /\ p = "playing"
      BY <1>1 DEF Check, Work, Heard, Places, IInv, Placed
    <2>2. Placed' /\ Voiced'
      BY <1>1, <2>1, AtKeeps DEF Check, IInv, Voiced
    <2> QED  BY <1>1, <2>2, QuietKeeps DEF Check
  <1>2. CASE Announce(r)
    <2>1. PICK p \in Places \ {"none"} :
             /\ At(r, p) /\ (kind[r] = "cached" => p \notin {"working", "more"})
             /\ \/ place[r] = "announce" /\ p \in {"working", "cue"}
                \/ /\ place[r] = "speaking"
                   /\ \/ kind[r] = "speak" /\ p = "cue"
                      \/ kind[r] = "cached" /\ p = "playing"
      BY <1>2 DEF Announce, Work, Heard, Places, IInv, Placed
    <2>2. Placed' /\ Voiced'
      BY <1>2, <2>1, AtKeeps DEF Announce, IInv, Voiced
    <2>3. r \in 0..issued /\ [do |-> "show", of |-> r] \in Posts
      BY <2>1 DEF IInv, Placed, Numbered, Tickets, Posts
    <2>4. Posted'
      BY <1>2, <2>3, PostKeeps DEF Announce, tracker
    <2> QED
      BY <1>2, <2>2, <2>4 DEF Announce, tracker, window, IInv, Numbered, Overlaid
  <1>3. CASE Synthesize(r)
    <2>1. place[r] \in {"working", "more"} /\ kind[r] = "speak"
      BY <1>3 DEF Synthesize, IInv, Voiced, Placed
    <2>2. ASSUME NEW p \in {"done", "ready", "cue"}, At(r, p), UNCHANGED <<tracker, closing>>
          PROVE  IInv'
      <3>1. Placed' /\ Voiced'
        BY <1>3, <2>1, <2>2, AtKeeps DEF Synthesize, Places
      <3> QED  BY <1>3, <2>2, <3>1, QuietKeeps DEF Synthesize
    <2>3. CASE active = r /\ Finish(r, "failed")
      BY <1>3, <2>1, <2>3, FinishKeeps DEF Synthesize
    <2> QED  BY <1>3, <2>2, <2>3 DEF Synthesize
  <1>4. CASE Cue(r)
    <2>1. PICK p \in Places \ {"none"} :
             /\ At(r, p) /\ p \notin {"working", "more"}
             /\ \/ playback = NoTicket /\ playback' = r
                \/ UNCHANGED playback /\ p = "done"
      BY <1>4 DEF Cue, Places
    <2>2. Placed' /\ Voiced'
      BY <1>4, <2>1, AtKeeps DEF Cue
    <2> QED  BY <1>4, <2>2, QuietKeeps DEF Cue
  <1>5. CASE PlayEnds(r)
    <2>1. place[r] = "playing" /\ playback = r /\ playback' = NoTicket
      BY <1>5 DEF PlayEnds, IInv, Voiced
    <2>2. ASSUME NEW p \in {"done", "more"}, At(r, p), UNCHANGED <<tracker, closing>>,
                 kind[r] = "cached" => p # "more"
          PROVE  IInv'
      <3>1. Placed' /\ Voiced'
        BY <1>5, <2>1, <2>2, AtKeeps DEF PlayEnds, Places
      <3> QED  BY <1>5, <2>2, <3>1, QuietKeeps DEF PlayEnds
    <2>3. ASSUME NEW how \in {"hide", "failed"}, active = r, Finish(r, how) PROVE IInv'
      BY <1>5, <2>1, <2>3, FinishKeeps DEF PlayEnds
    <2> QED  BY <1>5, <2>2, <2>3 DEF PlayEnds
  <1>6. CASE Close(r)
    <2>1. PICK d \in {"hide", "show"}, how \in {"none", "hide"} :
             Post(d, r) /\ closing' = [closing EXCEPT ![r] = how]
      BY <1>6 DEF Close
    <2>2. r \in 0..issued /\ r # active /\ [do |-> d, of |-> r] \in Posts
      BY <1>6 DEF Close, IInv, Placed, Numbered, Tickets, Posts
    <2>3. Posted'
      BY <1>6, <2>1, <2>2, PostKeeps DEF Close, tracker
    <2>4. Placed'
      BY <1>6, <2>1, <2>2 DEF Close, requests, tracker, IInv, Placed, Numbered
    <2> QED
      BY <1>6, <2>3, <2>4
         DEF Close, requests, tracker, window, IInv, Numbered, Voiced, Overlaid
  <1> QED  BY <1>1, <1>2, <1>3, <1>4, <1>5, <1>6 DEF Proceed

-----------------------------------------------------------------------------
(* Stops and recordings *)

LEMMA ReleaseKeeps ==
    ASSUME IInv, Release, active # NoTicket, UNCHANGED <<requests, playback, window>>,
           closing' \in {closing, [closing EXCEPT ![active] = "hide"]}
    PROVE  Numbered' /\ Placed' /\ Voiced' /\ Overlaid'
  <1> USE DEF window, requests
  <1>1. Numbered'
    BY DEF Release, IInv, Numbered, NoTicket
  <1>2. Placed'
    <2>1. closing' \in [Tickets -> {"none", "hide", "failed"}]
          /\ \A r \in Tickets : closing'[r] # "none" => closing[r] # "none" \/ r = active
      BY DEF IInv, Placed
    <2>2. \A r \in Tickets : r # NoTicket
      BY DEF Tickets, NoTicket
    <2> QED
      BY <2>1, <2>2 DEF Release, IInv, Placed, Numbered
  <1>3. Voiced'
    BY DEF Release, IInv, Voiced, NoTicket
  <1>4. Overlaid'
    BY DEF Release, IInv, Overlaid, Numbered, NoTicket
  <1> QED  BY <1>1, <1>2, <1>3, <1>4

LEMMA StopKeeps == ASSUME IInv, Stop PROVE IInv'
  <1>1. Posted'
    BY PostsStay DEF Stop, Release, IInv, Numbered
  <1> QED  BY <1>1, ReleaseKeeps DEF Stop, IInv

LEMMA TakeKeeps == ASSUME IInv, TakeStarts \/ TakeShows \/ TakeEnds PROVE IInv'
  <1>1. CASE TakeStarts /\ active # NoTicket /\ Release /\ Post("hide", active)
    <2>1. active \in 0..issued /\ UNCHANGED issued /\ active' = NoTicket
          /\ active # active'
      BY <1>1 DEF Release, IInv, Numbered
    <2>2. active \in Tickets \cup {Recording}
      BY <1>1 DEF IInv, Numbered
    <2>3. Posted'
      BY <1>1, <2>1, <2>2, PostKeeps DEF Posts
    <2> QED  BY <1>1, <2>3, ReleaseKeeps DEF TakeStarts, IInv
  <1>2. CASE TakeStarts /\ UNCHANGED <<tracker, main>>
    <2>1. Placed' /\ Voiced'
      BY <1>2 DEF TakeStarts, requests, tracker, IInv, Placed, Voiced
    <2> QED  BY <1>2, <2>1, QuietKeeps DEF TakeStarts
  <1>3. ASSUME NEW d \in {"show", "hide"}, Post(d, Recording),
               UNCHANGED <<requests, tracker, closing, playback, window>>
        PROVE  IInv'
    <2>1. Recording \in 0..issued /\ Recording = NoTicket
          /\ [do |-> d, of |-> Recording] \in Posts
      BY DEF Recording, NoTicket, Posts, IInv, Numbered
    <2>2. Posted'
      BY <1>3, <2>1, PostKeeps DEF tracker
    <2> QED
      BY <1>3, <2>2 DEF requests, tracker, window, IInv, Numbered, Placed, Voiced,
                        Overlaid
  <1> QED  BY <1>1, <1>2, <1>3 DEF TakeStarts, TakeShows, TakeEnds

-----------------------------------------------------------------------------
(* The main thread *)

LEMMA MainKeeps == ASSUME IInv, Main PROVE IInv'
  <1> USE DEF Others, requests, tracker, window
  <1>1. Handled /\ UNCHANGED Others
    BY DEF Main, ShowSpeech, ShowRecording, Hide, Vanish
  <1>2. Posted' /\ Fits(Head(main), issued, active) /\ Head(main) \in Posts
    BY <1>1, TakenKeeps
  <1>3. Numbered' /\ Placed' /\ Voiced'
    BY <1>1 DEF IInv, Numbered, Placed, Voiced
  <1> DEFINE w == Head(main).of
  <1>4. /\ w \in 0..issued /\ issued \in Nat /\ seen \subseteq 1..issued
        /\ active \in seen => active = issued /\ active # NoTicket
        /\ Head(main).do = "hide" => w # active \/ w = NoTicket
    BY <1>2 DEF Fits, IInv, Numbered, Overlaid, NoTicket
  <1>5. Overlaid'
    <2>1. CASE ShowSpeech
      <3>1. w # Recording
        BY <2>1 DEF ShowSpeech
      <3>2. CASE UNCHANGED <<owner, shown, seen>>
        BY <1>1, <3>2 DEF IInv, Overlaid
      <3>3. CASE /\ ~(owner = "speech" /\ shown > w) /\ owner' = "speech"
                 /\ shown' = w /\ seen' = seen \cup {w}
        <4>1. seen' \subseteq 1..issued
          <5>1. \A n \in Nat : \A k \in 0..n : k # Recording => k \in 1..n
            BY DEF Recording
          <5> QED  BY <1>4, <3>1, <3>3, <5>1
        <4>2. active \in seen => w = active
          BY <1>4, <3>3 DEF IInv, Overlaid
        <4> HIDE DEF w
        <4> QED  BY <1>1, <3>3, <4>1, <4>2 DEF Overlaid
      <3> QED  BY <2>1, <3>2, <3>3 DEF ShowSpeech, Display
    <2>2. CASE ShowRecording
      BY <1>1, <2>2 DEF ShowRecording, Display, Overlaid
    <2>3. CASE Hide
      <3>1. CASE UNCHANGED <<owner, shown, seen>>
        BY <1>1, <3>1 DEF IInv, Overlaid
      <3>2. CASE /\ owner' = "none" /\ UNCHANGED seen /\ Head(main).do = "hide"
                 /\ owner = "recording" \/ (owner = "speech" /\ w = shown)
        <4>1. active \notin seen
          BY <1>4, <3>2 DEF IInv, Overlaid
        <4> QED  BY <1>1, <3>2, <4>1 DEF IInv, Overlaid
      <3> QED  BY <2>3, <3>1, <3>2 DEF Hide
    <2>4. CASE Vanish
      BY <1>1, <2>4 DEF Vanish, IInv, Overlaid
    <2> QED  BY <2>1, <2>2, <2>3, <2>4 DEF Main
  <1> QED  BY <1>2, <1>3, <1>5 DEF IInv

LEMMA FadeKeeps == ASSUME IInv, NEW g \in fades, Fade(g) PROVE IInv'
  <1> USE DEF requests, tracker
  <1>1. Posted'
    <2>1. CASE Post("vanish", Recording)
      <3>1. [do |-> "vanish", of |-> Recording] \in Posts /\ Recording \in 0..issued
        BY DEF Posts, Recording, IInv, Numbered
      <3> QED  BY <2>1, <3>1, PostKeeps DEF Fade
    <2>2. CASE UNCHANGED main
      BY <2>2, PostsStay DEF Fade, IInv, Numbered
    <2> QED  BY <2>1, <2>2 DEF Fade
  <1> QED
    BY <1>1 DEF Fade, IInv, Numbered, Placed, Voiced, Overlaid

-----------------------------------------------------------------------------

LEMMA InitIInv == Init => IInv
  <1> SUFFICES ASSUME Init PROVE IInv
    OBVIOUS
  <1>1. Numbered /\ Placed /\ Voiced
    BY DEF Init, Numbered, Placed, Voiced, Places, NoTicket
  <1>2. main = <<>> /\ <<>> \in Seq(Posts) /\ Len(<<>>) = 0
    BY DEF Init
  <1>3. Posted /\ Overlaid
    BY <1>2 DEF Init, Posted, Overlaid
  <1> QED  BY <1>1, <1>3 DEF IInv

LEMMA NextKeeps == IInv /\ [Next]_vars => IInv'
  <1> SUFFICES ASSUME IInv, [Next]_vars PROVE IInv'
    OBVIOUS
  <1>1. CASE UNCHANGED vars
    <2>1. Placed' /\ Voiced'
      BY <1>1 DEF vars, requests, tracker, IInv, Placed, Voiced
    <2> QED  BY <1>1, <2>1, QuietKeeps DEF vars
  <1> QED
    BY <1>1, ProceedKeeps, BeginKeeps, StopKeeps, TakeKeeps, MainKeeps, FadeKeeps
       DEF Next

THEOREM Invariance == Spec => []IInv
  BY InitIInv, NextKeeps, PTL DEF Spec

\* Whatever speaks, is superseded or stopped, one request at most is at the
\* loudspeaker, and it is the newest or has been told to stop: for any number of
\* requests.
THEOREM OneVoiceAlways == Spec => []OneVoice
  <1>1. IInv => OneVoice
    BY DEF IInv, Voiced, OneVoice
  <1> QED  BY <1>1, Invariance, PTL

\* In whatever order the threads of the requests reach the main thread, the
\* overlay follows the active request from its first display on.
THEOREM OverlayFollowsAlways == Spec => []OverlayFollows
  <1>1. IInv => OverlayFollows
    BY DEF IInv, Overlaid, OverlayFollows
  <1> QED  BY <1>1, Invariance, PTL
-----------------------------------------------------------------------------
(* Types *)

\* What the window, the loudspeaker and the recording are in.
Furnished ==
    /\ active \notin stopped /\ playback \in Tickets \cup {NoTicket}
    /\ owner \in {"none", "recording", "speech"} /\ shown \in 0..issued
    /\ display \in Nat /\ visible \in BOOLEAN /\ fades \subseteq 0..display
    /\ take \in {"off", "starting", "on"} /\ events \in 0..MaxEvents

\* A step that leaves the window alone and draws at most one ticket.
LEMMA FurnishedStays ==
    ASSUME IInv, Furnished, issued' \in {issued, issued + 1}, active' \notin stopped',
           playback' \in Tickets \cup {NoTicket}, take' \in {"off", "starting", "on"},
           events' \in 0..MaxEvents, UNCHANGED <<owner, shown, display, visible>>,
           fades' \subseteq fades
    PROVE  Furnished'
  <1>1. issued \in Nat
    BY DEF IInv, Numbered
  <1> QED  BY <1>1 DEF Furnished

LEMMA FurnishedNext ==
    ASSUME MaxEvents \in Nat, IInv, Furnished, [Next]_vars
    PROVE  Furnished'
  <1> USE DEF tracker, requests, window
  <1>1. /\ issued \in Nat /\ stopped \subseteq 1..issued /\ active \in 0..issued
        /\ NoTicket \notin stopped
    BY DEF IInv, Numbered, NoTicket
  <1>2. ASSUME Release PROVE issued' \in {issued, issued + 1} /\ active' \notin stopped'
    BY <1>1, <1>2 DEF Release
  <1>3. ASSUME events' = events + 1, events < MaxEvents PROVE events' \in 0..MaxEvents
    BY <1>3 DEF Furnished
  <1>4. ASSUME NEW r \in Tickets, Proceed(r) PROVE Furnished'
    <2>1. UNCHANGED <<issued, stopped, take, events, owner, shown, display, visible, fades>>
          /\ active' \in {active, NoTicket} /\ playback' \in {playback, r, NoTicket}
      BY <1>4 DEF Proceed, Check, Announce, Synthesize, Cue, PlayEnds, Close, Finish
    <2>2. /\ playback' \in Tickets \cup {NoTicket} /\ active' \notin stopped'
          /\ take' \in {"off", "starting", "on"} /\ events' \in 0..MaxEvents
      BY <1>1, <2>1 DEF Furnished
    <2> QED  BY <2>1, <2>2, FurnishedStays
  <1>5. ASSUME NEW r \in Tickets, NEW k, Begin(r, k) PROVE Furnished'
    <2>1. issued' = issued + 1 /\ active' = issued + 1 /\ active' \notin stopped'
      BY <1>1, <1>5 DEF Begin
    <2> QED  BY <1>5, <2>1, FurnishedStays DEF Begin, Furnished
  <1>6. CASE Stop
    BY <1>2, <1>3, <1>6, FurnishedStays DEF Stop, Furnished
  <1>7. CASE TakeStarts \/ TakeShows \/ TakeEnds
    BY <1>2, <1>3, <1>7, FurnishedStays DEF TakeStarts, TakeShows, TakeEnds, Furnished
  <1>8. CASE Main
    <2>1. Handled /\ UNCHANGED Others
      BY <1>8 DEF Main, ShowSpeech, ShowRecording, Hide, Vanish
    <2>2. Head(main).of \in 0..issued
      BY <2>1, TakenKeeps DEF Others, Fits
    <2>3. /\ owner' \in {"none", "recording", "speech"} /\ shown' \in 0..issued
          /\ display' \in {display, display + 1} /\ visible' \in BOOLEAN
          /\ fades' \subseteq fades \cup {display'}
      BY <1>8, <2>2 DEF Main, ShowSpeech, ShowRecording, Hide, Vanish, Display, Furnished
    <2>4. display' \in Nat /\ fades' \subseteq 0..display'
      BY <2>3 DEF Furnished
    <2> QED  BY <2>1, <2>3, <2>4 DEF Others, Furnished
  <1>9. ASSUME NEW g \in fades, Fade(g) PROVE Furnished'
    BY <1>9, FurnishedStays DEF Fade, Furnished
  <1>10. CASE UNCHANGED vars
    BY <1>10 DEF vars, Furnished
  <1> QED  BY <1>4, <1>5, <1>6, <1>7, <1>8, <1>9, <1>10 DEF Next

\* Tickets, places, posts and the window's owner are ones that exist, and the
\* active ticket is never one that was stopped.
THEOREM TypeCorrect ==
    ASSUME MaxTickets \in Nat, MaxEvents \in Nat PROVE Spec => []TypeOK
  <1>1. Init => Furnished
    <2> SUFFICES ASSUME Init PROVE Furnished
      OBVIOUS
    <2>1. 0 \in 0..MaxEvents /\ 0 \in 0..0 /\ 0 \in Nat
      OBVIOUS
    <2> QED  BY <2>1 DEF Init, Furnished, NoTicket
  <1>2. IInv /\ Furnished /\ [Next]_vars => Furnished'
    BY FurnishedNext
  <1>3. IInv /\ Furnished => TypeOK
    <2> SUFFICES ASSUME IInv, Furnished PROVE TypeOK
      OBVIOUS
    <2>1. issued \in 0..MaxTickets
      BY DEF IInv, Numbered, Tickets, NoTicket
    <2> QED  BY <2>1 DEF IInv, Numbered, Placed, Places, Posted, Overlaid, Furnished, TypeOK
  <1> QED  BY <1>1, <1>2, <1>3, Invariance, PTL DEF Spec
=============================================================================
