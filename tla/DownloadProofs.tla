--------------------------- MODULE DownloadProofs ---------------------------
(***************************************************************************)
(* What holds of Downloads for any length of the download and any number   *)
(* of calls, listings, cancels and ends of the program, as long as the     *)
(* calls follow one another and the model is not deleted beside one: the   *)
(* front end sees to both, the commands do not.                            *)
(*                                                                         *)
(* One call is under way at most, so the invariant is about that call: at  *)
(* each of its places, what the disk, its stream and the manager hold.     *)
(***************************************************************************)
EXTENDS Downloads, TLAPS

OneByOne == ~Overlap /\ ~DeleteBeside /\ Size \in Nat /\ MaxCalls \in Nat

Typed ==
    /\ entry \in Entries
    /\ data \in [Calls -> Seq(Nat)] /\ partial \in Calls \cup {NoFile}
    /\ installed \in Calls \cup {NoFile, Directory, Raw, Torn}
    /\ at \in [Calls -> Places]
    /\ base \in [Calls -> Nat] /\ next \in [Calls -> Nat]
    /\ total \in [Calls -> Nat] /\ handle \in [Calls -> Calls \cup {NoFile}]
    /\ flag \in Calls \cup {Nobody}
    /\ listed \in [downloading : BOOLEAN, downloaded : BOOLEAN]
    /\ doing \in [Threads -> {"none", "cancel", "asked", "read", "locked"}]
    /\ known \in [Threads -> [loading : BOOLEAN, sweep : BOOLEAN]]
    /\ crossed \in BOOLEAN

Alone == \A b, c \in Calls : InFlight(b) /\ InFlight(c) => b = c

\* The partial file is the beginning of the download, at every moment.
Beginning ==
    partial # NoFile =>
        /\ Len(data[partial]) <= Size
        /\ \A i \in 1..Len(data[partial]) : data[partial][i] = i

\* An update has read nothing before its reading and keeps nothing after.
Fresh ==
    \A t \in Threads :
        /\ doing[t] \notin {"read", "locked"} => ~known[t].loading
        /\ doing[t] # "locked" => ~known[t].sweep

\* No update will sweep, or list a call that was.
NoSweep == \A t \in Threads : ~known[t].sweep
NoStale == ~listed.downloading /\ \A t \in Threads : ~known[t].loading

\* What the place of a call says of the disk, the manager and the updates.
Fits(c) ==
    /\ at[c] \in {"asked", "stream", "received", "verified", "unpack", "place"}
          => installed = NoFile
    /\ at[c] \in {"normalize", "clean"} => installed # NoFile
    /\ at[c] = "normalize" /\ entry.aliased => installed \in {Raw, Torn}
    /\ at[c] = "asked" => base[c] = Length(partial)
    /\ at[c] = "stream" =>
          /\ partial # NoFile /\ handle[c] = partial
          /\ next[c] = Len(data[partial]) + 1
    /\ at[c] \in {"stream", "received"} /\ entry.sized => total[c] = Size /\ Size # 0
    /\ at[c] = "verified" =>
          partial # NoFile /\ (entry.sized \/ entry.sha => data[partial] = Whole)
    /\ at[c] \in {"unpack", "place"} => extracting
    /\ at[c] \in {"unpack", "place"} /\ ~crossed => NoSweep
    /\ at[c] = "unpack" /\ ~crossed => unpacked = "torn"
    /\ at[c] = "place" /\ ~crossed => unpacked = "whole"
    /\ at[c] = "leaving" /\ ~crossed => NoStale

\* What is installed.
Sound ==
    /\ installed \in Calls /\ (entry.sized \/ entry.sha) => data[installed] = Whole
    /\ entry.archive /\ ~crossed => installed \in {NoFile, Directory, Raw}
    /\ installed = Raw => entry.aliased

\* What is listed while no update is under way and nothing has just been unpacked.
Told ==
    AtRest /\ (\A c \in Calls : at[c] \notin {"normalize", "clean"})
           /\ installed \notin {Raw, Torn}
        => listed.downloaded = (installed # NoFile)

\* What a call leaves of itself.
Rests == Idle => flag = Nobody /\ ~extracting /\ (~crossed => NoStale)

IInv ==
    /\ Typed /\ Alone /\ Beginning /\ Fresh /\ (\A c \in Calls : Fits(c))
    /\ Sound /\ Told /\ Rests

-----------------------------------------------------------------------------
(* Helpers *)

\* One call's entry changes.
LEMMA Put ==
    ASSUME NEW D, NEW R, NEW f \in [D -> R], NEW c \in D, NEW v \in R
    PROVE  [f EXCEPT ![c] = v] \in [D -> R] /\ [f EXCEPT ![c] = v][c] = v
  OBVIOUS

LEMMA ListedIs ==
    ASSUME NEW loading \in BOOLEAN
    PROVE  /\ Listed(loading) \in [downloading : BOOLEAN, downloaded : BOOLEAN]
           /\ Listed(loading).downloaded = (installed # NoFile)
  BY DEF Listed

\* No call's flag, no loading.
LEMMA NotLoading == ASSUME flag = Nobody PROVE (flag \in Calls \ doomed) = FALSE
  BY DEF Nobody, Calls

LEMMA Moved ==
    ASSUME at \in [Calls -> Places], NEW c \in Calls, NEW p \in Places, Goes(c, p)
    PROVE  /\ at' \in [Calls -> Places]
           /\ \A b \in Calls : at'[b] = IF b = c THEN p ELSE at[b]
  BY DEF Goes

\* A call that moves is the one under way, or none is; the others fit
\* whatever it does.
LEMMA Moves ==
    ASSUME Typed, Alone, NEW c \in Calls, NEW p \in Places, Goes(c, p),
           InFlight(c) \/ \A b \in Calls : ~InFlight(b),
           p \notin {"none", "done"} => Fits(c)'
    PROVE  Alone' /\ \A b \in Calls : Fits(b)'
  <1>1. \A b \in Calls : at'[b] = IF b = c THEN p ELSE at[b]
    BY ONLY Moved, Typed, Goes(c, p) DEF Typed
  <1>2. \A b \in Calls \ {c} : at'[b] \in {"none", "done"}
    BY <1>1 DEF Alone, InFlight
  <1>3. Alone'
    BY <1>1, <1>2 DEF Alone, InFlight
  <1>4. \A b \in Calls : at'[b] \in {"none", "done"} => Fits(b)'
    BY DEF Fits
  <1> QED  BY <1>1, <1>2, <1>3, <1>4

\* The next block is the next of the file.
LEMMA Next1 ==
    ASSUME NEW s \in Seq(Nat), NEW n \in Nat, Len(s) <= n,
           \A i \in 1..Len(s) : s[i] = i
    PROVE  /\ Written(s, Len(s) + 1, Len(s) + 1) \in Seq(Nat)
           /\ Len(Written(s, Len(s) + 1, Len(s) + 1)) = Len(s) + 1
           /\ \A i \in 1..(Len(s) + 1) :
                 Written(s, Len(s) + 1, Len(s) + 1)[i] = i
  <1>1. Written(s, Len(s) + 1, Len(s) + 1) = [i \in 1..(Len(s) + 1) |-> i]
    BY DEF Written
  <1> QED  BY <1>1

LEMMA WholeIs ==
    ASSUME NEW s \in Seq(Nat), Size \in Nat, Len(s) = Size,
           \A i \in 1..Len(s) : s[i] = i
    PROVE  s = Whole
  BY DEF Whole

\* Whoever leaves says that nothing is loading, and only an update that read
\* otherwise could say so later.
LEMMA Leaves ==
    ASSUME IInv, NEW c \in Calls, InFlight(c), NEW d \in BOOLEAN, Leave(c, d),
           UNCHANGED updating,
           AtRest /\ installed' \notin {Raw, Torn} => d = (installed' # NoFile)
    PROVE  /\ at' \in [Calls -> Places] /\ Alone' /\ \A b \in Calls : Fits(b)'
           /\ listed' \in [downloading : BOOLEAN, downloaded : BOOLEAN]
           /\ crossed' \in BOOLEAN /\ (crossed => crossed')
           /\ Told' /\ Rests' /\ Fresh'
  <1> USE DEF updating
  <1>1. /\ Unlocked /\ Goes(c, "leaving")
        /\ listed' = [downloading |-> FALSE, downloaded |-> d]
        /\ crossed' = (crossed \/ \E t \in Threads : doing[t] = "read" /\ known[t].loading)
    BY DEF Leave
  <1>2. crossed' \in BOOLEAN /\ (crossed => crossed')
    BY ONLY <1>1, Zenon
  <1>3. ~crossed' => NoStale'
    <2> SUFFICES ASSUME ~crossed', NEW t \in Threads PROVE ~known[t].loading
      BY <1>1 DEF NoStale
    <2>1. ~(doing[t] = "read" /\ known[t].loading)
      BY ONLY <1>1, ~crossed', t \in Threads, Zenon
    <2>2. doing[t] # "locked"
      BY <1>1 DEF Unlocked
    <2> QED  BY <2>1, <2>2 DEF IInv, Fresh
  <1>4. /\ at' \in [Calls -> Places]
        /\ \A b \in Calls : at'[b] = IF b = c THEN "leaving" ELSE at[b]
    BY <1>1, Moved DEF IInv, Typed, Places
  <1>5. Fits(c)'
    BY <1>3, <1>4 DEF Fits
  <1>6. Alone' /\ \A b \in Calls : Fits(b)'
    BY <1>1, <1>5, Moves DEF IInv, Places
  <1>7. ~Idle'
    BY <1>4 DEF Idle, InFlight
  <1>8. Told'
    BY <1>1 DEF Told, AtRest
  <1>9. Fresh'
    BY DEF IInv, Fresh
  <1> QED  BY <1>1, <1>2, <1>4, <1>6, <1>7, <1>8, <1>9 DEF Rests

\* An error changes nothing else, and the model was not there, or could not be
\* linked.
LEMMA Fails ==
    ASSUME IInv, NEW c \in Calls, Fail(c), at[c] \in Places \ {"none", "done", "clean"},
           at[c] = "normalize" => entry.aliased, at[c] # "leaving",
           UNCHANGED <<entry, data, installed, progress, updating>>,
           partial' \in {partial, NoFile}
    PROVE  IInv'
  <1> USE DEF progress, updating
  <1>1. listed.downloaded \in BOOLEAN
    BY DEF IInv, Typed
  <1>2. InFlight(c) /\ \A b \in Calls \ {c} : at[b] \in {"none", "done"}
    BY DEF IInv, Alone, InFlight
  <1>3. AtRest /\ installed' \notin {Raw, Torn} => listed.downloaded = (installed' # NoFile)
    <2>1. at[c] = "normalize" => installed \in {Raw, Torn}
      BY DEF IInv, Fits
    <2> QED  BY <1>2, <2>1 DEF IInv, Told
  <1>4. /\ at' \in [Calls -> Places] /\ Alone' /\ \A b \in Calls : Fits(b)'
        /\ listed' \in [downloading : BOOLEAN, downloaded : BOOLEAN]
        /\ crossed' \in BOOLEAN /\ (crossed => crossed')
        /\ Told' /\ Rests' /\ Fresh'
    BY <1>1, <1>2, <1>3, Leaves DEF Fail
  <1>5. flag' = flag
    BY DEF Fail, Leave
  <1>6. Typed'
    BY <1>4, <1>5 DEF IInv, Typed
  <1>7. Beginning' /\ Sound'
    BY <1>4 DEF IInv, Beginning, Sound
  <1> QED  BY <1>4, <1>6, <1>7 DEF IInv

\* A call that goes on changes nothing of what the manager says.
LEMMA GoesOn ==
    ASSUME IInv, NEW c \in Calls, NEW p \in Places \ {"none", "done"}, Goes(c, p),
           InFlight(c),
           p \in {"normalize", "clean"} \/ (UNCHANGED installed
                                            /\ at[c] \notin {"normalize", "clean"}),
           UNCHANGED <<listed, doing, known>>
    PROVE  /\ at' \in [Calls -> Places]
           /\ Told' /\ Rests' /\ Fresh'
  <1>1. /\ at' \in [Calls -> Places]
        /\ \A b \in Calls : at'[b] = IF b = c THEN p ELSE at[b]
    BY Moved DEF IInv, Typed
  <1>2. ~Idle'
    BY <1>1 DEF Idle, InFlight
  <1>3. \A b \in Calls \ {c} : at[b] \in {"none", "done"}
    BY DEF IInv, Alone, InFlight
  <1>4. Told'
    BY <1>1, <1>3 DEF IInv, Told, AtRest
  <1>5. Fresh'
    BY DEF IInv, Fresh
  <1> QED  BY <1>1, <1>2, <1>4, <1>5 DEF Rests

\* Nothing is said and no call moves.
LEMMA Untouched ==
    ASSUME IInv, UNCHANGED <<at, installed, control, updating, crossed>>
    PROVE  Alone' /\ Told' /\ Rests' /\ Fresh'
  BY DEF IInv, Alone, InFlight, Told, AtRest, Rests, Idle, NoStale, Fresh, control, updating

-----------------------------------------------------------------------------
(* A call *)

LEMMA InitIInv == ASSUME OneByOne, Init PROVE IInv
  <1> USE DEF Init, OneByOne
  <1>1. \A c \in Calls : at[c] = "none"
    OBVIOUS
  <1>2. \A t \in Threads : doing[t] = "none" /\ ~known[t].loading /\ ~known[t].sweep
    BY DEF Unread
  <1>3. Typed
    <2>1. at \in [Calls -> Places] /\ data \in [Calls -> Seq(Nat)]
      BY DEF Places
    <2>2. base \in [Calls -> Nat] /\ base \in [Calls -> Calls \cup {NoFile}]
      BY DEF NoFile
    <2>3. /\ doing \in [Threads -> {"none", "cancel", "asked", "read", "locked"}]
          /\ known \in [Threads -> [loading : BOOLEAN, sweep : BOOLEAN]]
      BY DEF Unread
    <2> QED  BY <2>1, <2>2, <2>3 DEF Typed
  <1>4. Alone /\ Beginning /\ (\A c \in Calls : Fits(c)) /\ Told
    BY <1>1 DEF Alone, InFlight, Beginning, Fits, Told
  <1>5. Rests /\ Fresh
    BY <1>2 DEF Rests, NoStale, Fresh
  <1>6. Sound
    BY DEF Sound, Calls, NoFile, Raw
  <1> QED  BY <1>3, <1>4, <1>5, <1>6 DEF IInv

LEMMA BeginStep == ASSUME OneByOne, IInv, NEW c \in Calls, Begin(c) PROVE IInv'
  <1> USE DEF Begin
  <1>0. \A b \in Calls : ~InFlight(b) /\ doing[b] = "none"
    BY DEF OneByOne
  <1>1. CASE installed # NoFile
    <2>1. /\ Goes(c, "done") /\ partial' = NoFile /\ doing' = [doing EXCEPT ![c] = "asked"]
          /\ UNCHANGED <<base, flag, listed>>
      BY <1>1
    <2>2. c \in Threads
      BY DEF Threads
    <2>3. /\ doing' \in [Threads -> {"none", "cancel", "asked", "read", "locked"}]
          /\ \A t \in Threads : doing'[t] = IF t = c THEN "asked" ELSE doing[t]
      BY <2>1 DEF IInv, Typed
    <2>4. at' \in [Calls -> Places]
          /\ \A b \in Calls : at'[b] = IF b = c THEN "done" ELSE at[b]
      BY <2>1, Moved DEF IInv, Typed, Places
    <2>5. Alone' /\ \A b \in Calls : Fits(b)'
      BY <1>0, <2>1, Moves DEF IInv, Places
    <2>6. Typed'
      BY <2>1, <2>3, <2>4, SMTT(30) DEF IInv, Typed
    <2>7. Beginning' /\ Sound'
      BY <2>1 DEF IInv, Beginning, Sound
    <2>8. ~AtRest'
      BY <2>2, <2>3 DEF AtRest
    <2>9. Fresh'
      BY <1>0, <2>2, <2>3 DEF IInv, Fresh
    <2>10. Rests'
      BY <1>0, <2>1 DEF IInv, Rests, Idle, NoStale
    <2> QED  BY <2>5, <2>6, <2>7, <2>8, <2>9, <2>10 DEF IInv, Told
  <1>2. CASE installed = NoFile
    <2>1. /\ Goes(c, "asked") /\ base' = [base EXCEPT ![c] = Length(partial)]
          /\ listed' = [listed EXCEPT !.downloading = TRUE] /\ flag' = c
          /\ UNCHANGED <<partial, doing>>
      BY <1>2
    <2>2. Length(partial) \in Nat
      BY DEF Length, IInv, Typed
    <2>3. base' \in [Calls -> Nat] /\ base'[c] = Length(partial)
      BY <2>1, <2>2 DEF IInv, Typed
    <2>4. Fits(c)'
      <3>1. at'[c] = "asked"
        BY <2>1 DEF IInv, Typed, Goes
      <3> QED  BY <2>1, <2>3, <3>1, <1>2 DEF Fits, Length
    <2>5. Alone' /\ \A b \in Calls : Fits(b)'
      BY <1>0, <2>1, <2>4, Moves DEF IInv, Places
    <2>6. at' \in [Calls -> Places] /\ \E b \in Calls : InFlight(b)'
      BY <2>1 DEF IInv, Typed, Places, Goes, InFlight
    <2>7. listed' \in [downloading : BOOLEAN, downloaded : BOOLEAN]
          /\ listed'.downloaded = listed.downloaded
      BY <2>1 DEF IInv, Typed
    <2>8. Typed'
      BY <2>1, <2>3, <2>6, <2>7 DEF IInv, Typed
    <2>9. Beginning' /\ Sound' /\ Fresh'
      BY <2>1 DEF IInv, Beginning, Sound, Fresh
    <2>10. Told'
      <3>1. \A b \in Calls : at[b] \notin {"normalize", "clean"}
        BY <1>2 DEF IInv, Fits
      <3> QED  BY <2>1, <2>7, <3>1 DEF IInv, Told, AtRest
    <2>11. Rests'
      BY <2>6 DEF Rests, Idle
    <2> QED  BY <2>5, <2>8, <2>9, <2>10, <2>11 DEF IInv
  <1> QED  BY <1>1, <1>2

LEMMA RestartStep == ASSUME IInv, NEW c \in Calls, Restart(c) PROVE IInv'
  <1> USE DEF Restart, control, updating
  <1>1. base' \in [Calls -> Nat] /\ base'[c] = 0
    BY DEF IInv, Typed
  <1>2. \A b \in Calls : InFlight(b) => b = c
    BY DEF IInv, Alone, InFlight
  <1>3. \A b \in Calls : Fits(b)'
    <2>1. Fits(c)'
      BY <1>1 DEF IInv, Fits, Length
    <2>2. \A b \in Calls \ {c} : at'[b] \in {"none", "done"}
      BY <1>2 DEF InFlight
    <2> QED  BY <2>1, <2>2 DEF Fits
  <1>4. Typed'
    BY <1>1, SMTT(30) DEF IInv, Typed
  <1>5. Beginning' /\ Sound'
    BY DEF IInv, Beginning, Sound
  <1>6. Alone' /\ Told' /\ Rests' /\ Fresh'
    BY Untouched
  <1> QED  BY <1>3, <1>4, <1>5, <1>6 DEF IInv

LEMMA ResponseStep == ASSUME OneByOne, IInv, NEW c \in Calls, Response(c) PROVE IInv'
  <1> DEFINE f == IF partial = NoFile THEN c ELSE partial
  <1> USE DEF Response, Receive, control, updating
  <1>0. base[c] \in Nat /\ Size \in Nat /\ base[c] < Size
    BY DEF IInv, Typed, OneByOne
  <1>1. /\ at[c] = "asked" /\ Goes(c, "stream") /\ installed = NoFile
        /\ base[c] = Length(partial)
    BY DEF IInv, Fits, Places
  <1>2. f \in Calls /\ handle' = [handle EXCEPT ![c] = f] /\ partial' = handle'[c]
    BY DEF IInv, Typed
  <1>3. handle' \in [Calls -> Calls \cup {NoFile}] /\ handle'[c] = f /\ partial' = f
    BY <1>2 DEF IInv, Typed
  <1>4. next' \in [Calls -> Nat] /\ next'[c] = base[c] + 1
    <2>1. base[c] + 1 \in Nat
      BY ONLY <1>0
    <2>3. next \in [Calls -> Nat]
      BY DEF IInv, Typed
    <2>2. next' = [next EXCEPT ![c] = base[c] + 1]
      OBVIOUS
    <2> QED  BY ONLY <2>1, <2>2, <2>3, Put
  <1>5. /\ total' \in [Calls -> Nat]
        /\ entry.sized => total'[c] = Size
    <2>1. base[c] + Size + 1 - (base[c] + 1) = Size
      BY <1>0
    <2>2. total' = [total EXCEPT ![c] = IF entry.sized THEN Size ELSE base[c]]
      BY <2>1
    <2>3. total \in [Calls -> Nat]
      BY DEF IInv, Typed
    <2> QED  BY ONLY <1>0, <2>2, <2>3, Put
  <1>6. data' \in [Calls -> Seq(Nat)] /\ Len(data'[f]) = base[c]
        /\ \A i \in 1..Len(data'[f]) : data'[f][i] = i
    <2>1. CASE base[c] = 0
      <3>1. data' = [data EXCEPT ![f] = <<>>]
        BY <2>1, <1>3
      <3> QED  BY <2>1, <3>1, <1>2 DEF IInv, Typed
    <2>2. CASE base[c] # 0
      <3>1. data' = data
        BY <2>2, <1>0
      <3>2. partial # NoFile /\ f = partial /\ base[c] = Len(data[partial])
        BY <1>1, <2>2 DEF Length
      <3> QED  BY <3>1, <3>2 DEF IInv, Typed, Beginning
    <2> QED  BY <2>1, <2>2
  <1>7. f # NoFile
    BY <1>2 DEF Calls, NoFile
  <1> HIDE DEF f
  <1>8. at' \in [Calls -> Places] /\ at'[c] = "stream"
    BY <1>1 DEF Goes, IInv, Typed, Places
  <1>9. Fits(c)'
    BY <1>0, <1>1, <1>3, <1>4, <1>5, <1>6, <1>7, <1>8 DEF Fits
  <1>10. InFlight(c)
    BY <1>1 DEF InFlight
  <1>11. Alone' /\ \A b \in Calls : Fits(b)'
    BY <1>1, <1>9, <1>10, Moves DEF IInv, Places
  <1>12. Told' /\ Rests' /\ Fresh'
    BY <1>1, <1>10, GoesOn DEF Places
  <1>13. Typed'
    BY <1>2, <1>3, <1>4, <1>5, <1>6, <1>8, ZenonT(30) DEF IInv, Typed
  <1>14. Beginning'
    BY <1>0, <1>3, <1>6 DEF Beginning
  <1>15. Sound'
    BY <1>1 DEF Sound, Calls, NoFile, Raw, OneByOne
  <1> QED  BY <1>11, <1>12, <1>13, <1>14, <1>15 DEF IInv

\* A block arrives.
LEMMA ChunkStep == ASSUME OneByOne, IInv, NEW c \in Calls, Chunk(c) PROVE IInv'
  <1> DEFINE s == data[partial]
             w == Written(s, Len(s) + 1, Len(s) + 1)
  <1> USE DEF Chunk, control, updating
  <1>1. /\ at[c] = "stream" /\ installed = NoFile /\ partial # NoFile
        /\ handle[c] = partial /\ next[c] = Len(s) + 1 /\ next[c] <= Size
    BY DEF IInv, Fits, Places
  <1>2. partial \in Calls /\ s \in Seq(Nat) /\ Len(s) \in Nat /\ Size \in Nat
    BY <1>1 DEF IInv, Typed, OneByOne
  <1>3. Len(s) <= Size /\ \A i \in 1..Len(s) : s[i] = i
    BY <1>1 DEF IInv, Beginning
  <1>4. /\ w \in Seq(Nat) /\ Len(w) = Len(s) + 1
        /\ \A i \in 1..(Len(s) + 1) : w[i] = i
    BY <1>2, <1>3, Next1
  <1>5. data' = [data EXCEPT ![partial] = w]
    BY <1>1
  <1>6. next' \in [Calls -> Nat] /\ next'[c] = Len(s) + 2
    BY <1>1, <1>2 DEF IInv, Typed
  <1> HIDE DEF w
  <1>7. data' \in [Calls -> Seq(Nat)] /\ data'[partial] = w
    <2>1. data \in [Calls -> Seq(Nat)]
      BY DEF IInv, Typed
    <2> QED  BY ONLY <1>2, <1>4, <1>5, <2>1, Put
  <1>8. \A b \in Calls : Fits(b)'
    <2>1. Fits(c)'
      BY <1>1, <1>4, <1>6, <1>7, <1>2 DEF IInv, Fits
    <2>2. \A b \in Calls \ {c} : at'[b] \in {"none", "done"}
      BY <1>1 DEF IInv, Alone, InFlight
    <2> QED  BY <2>1, <2>2 DEF Fits
  <1>9. Typed'
    BY <1>6, <1>7, SMTT(30) DEF IInv, Typed
  <1>10. Beginning'
    BY <1>1, <1>2, <1>4, <1>7 DEF Beginning
  <1>11. Sound'
    BY <1>1 DEF Sound, Calls, NoFile, Raw, OneByOne
  <1>12. Alone' /\ Told' /\ Rests' /\ Fresh'
    BY Untouched
  <1> QED  BY <1>8, <1>9, <1>10, <1>11, <1>12 DEF IInv

\* The body ends.
LEMMA EndOfBodyStep == ASSUME IInv, NEW c \in Calls, EndOfBody(c) PROVE IInv'
  <1> USE DEF EndOfBody, disk, progress, control, updating
  <1>1. /\ at[c] = "stream" /\ Goes(c, "received") /\ InFlight(c)
    BY DEF InFlight
  <1>2. at'[c] = "received"
    BY DEF IInv, Typed, Goes
  <1>3. Fits(c)'
    BY <1>1, <1>2 DEF IInv, Fits, Places
  <1>4. Alone' /\ \A b \in Calls : Fits(b)'
    BY <1>1, <1>3, Moves DEF IInv, Places
  <1>5. at' \in [Calls -> Places] /\ Told' /\ Rests' /\ Fresh'
    BY <1>1, GoesOn DEF Places
  <1>6. Typed' /\ Beginning' /\ Sound'
    BY <1>5 DEF IInv, Typed, Beginning, Sound
  <1> QED  BY <1>4, <1>5, <1>6 DEF IInv

\* What passes the test is the whole, if the server gave a length or the
\* catalogue a digest.
LEMMA VerifyStep == ASSUME OneByOne, IInv, NEW c \in Calls, Verify(c) PROVE IInv'
  <1> USE DEF Verify, updating
  <1>1. at[c] = "received" /\ InFlight(c)
    BY DEF InFlight
  <1>2. CASE ~Good(c)
    BY <1>1, <1>2, Fails DEF Places
  <1>3. CASE Good(c)
    <2>1. Goes(c, "verified") /\ UNCHANGED <<partial, control, crossed>>
      BY <1>3
    <2>2. at'[c] = "verified"
      BY <2>1 DEF IInv, Typed, Goes, Places
    <2>3. partial # NoFile /\ partial \in Calls /\ Size \in Nat
      BY <1>3 DEF Good, IInv, Typed, OneByOne
    <2>4. entry.sized \/ entry.sha => data[partial] = Whole
      <3>1. data[partial] \in Seq(Nat)
        BY <2>3 DEF IInv, Typed
      <3>2. ASSUME entry.sized PROVE Len(data[partial]) = Size
        <4>1. total[c] = Size /\ Size # 0
          BY <1>1, <3>2 DEF IInv, Fits
        <4> QED  BY <1>3, <2>3, <4>1 DEF Good, Length
      <3>3. \A i \in 1..Len(data[partial]) : data[partial][i] = i
        BY <2>3 DEF IInv, Beginning
      <3> QED  BY <1>3, <2>3, <3>1, <3>2, <3>3, WholeIs DEF Good
    <2>5. installed = NoFile
      BY <1>1 DEF IInv, Fits, Places
    <2>6. Fits(c)'
      BY <2>1, <2>2, <2>3, <2>4, <2>5 DEF Fits
    <2>7. Alone' /\ \A b \in Calls : Fits(b)'
      BY <1>1, <2>1, <2>6, Moves DEF IInv, Places
    <2>8. at' \in [Calls -> Places] /\ Told' /\ Rests' /\ Fresh'
      BY <1>1, <2>1, GoesOn DEF Places, control
    <2>9. Typed' /\ Beginning' /\ Sound'
      BY <2>1, <2>8 DEF IInv, Typed, Beginning, Sound, progress, control
    <2> QED  BY <2>7, <2>8, <2>9 DEF IInv
  <1> QED  BY <1>2, <1>3

\* A plain file is renamed.
LEMMA RenameStep == ASSUME OneByOne, IInv, NEW c \in Calls, Rename(c) PROVE IInv'
  <1> USE DEF Rename, progress, updating
  <1>1. at[c] = "verified" /\ InFlight(c) /\ ~entry.archive
    BY DEF InFlight
  <1>2. partial # NoFile /\ (entry.sized \/ entry.sha => data[partial] = Whole)
    BY <1>1 DEF IInv, Fits
  <1>3. CASE Fail(c) /\ UNCHANGED <<partial, installed>>
    BY <1>1, <1>3, Fails DEF Places
  <1>4. CASE Leave(c, TRUE) /\ installed' = partial /\ partial' = NoFile
    <2>1. /\ at' \in [Calls -> Places] /\ Alone' /\ \A b \in Calls : Fits(b)'
          /\ listed' \in [downloading : BOOLEAN, downloaded : BOOLEAN]
          /\ crossed' \in BOOLEAN /\ (crossed => crossed')
          /\ Told' /\ Rests' /\ Fresh'
      BY <1>1, <1>2, <1>4, Leaves
    <2>2. flag' = flag
      BY <1>4 DEF Leave
    <2>3. Typed'
      BY <1>4, <2>1, <2>2 DEF IInv, Typed
    <2>4. installed' \in Calls /\ installed' # Raw
      BY <1>2, <1>4 DEF IInv, Typed, Raw, Calls, OneByOne
    <2>5. Beginning' /\ Sound'
      BY <1>1, <1>2, <1>4, <2>4 DEF Beginning, Sound
    <2> QED  BY <2>1, <2>3, <2>5 DEF IInv
  <1> QED  BY <1>3, <1>4

-----------------------------------------------------------------------------
(* An archive *)

LEMMA ExtractStep == ASSUME IInv, NEW c \in Calls, Extract(c) PROVE IInv'
  <1> USE DEF Extract, progress, updating
  <1>1. at[c] = "verified" /\ InFlight(c) /\ Goes(c, "unpack")
    BY DEF InFlight
  <1>2. at'[c] = "unpack" /\ installed = NoFile
    BY <1>1 DEF IInv, Typed, Goes, Places, Fits
  <1>3. crossed' = (crossed \/ \E t \in Threads : doing[t] = "locked")
    OBVIOUS
  <1>4. crossed' \in BOOLEAN /\ (crossed => crossed')
    BY ONLY <1>3, Zenon
  <1>5. ~crossed' => NoSweep'
    <2> SUFFICES ASSUME ~crossed', NEW t \in Threads PROVE ~known[t].sweep
      BY DEF NoSweep
    <2>1. doing[t] # "locked"
      BY ONLY <1>3, ~crossed', t \in Threads, Zenon
    <2> QED  BY <2>1 DEF IInv, Fresh
  <1>6. Fits(c)'
    BY <1>2, <1>5 DEF Fits
  <1>7. Alone' /\ \A b \in Calls : Fits(b)'
    BY <1>1, <1>6, Moves DEF IInv, Places
  <1>8. at' \in [Calls -> Places] /\ Told' /\ Rests' /\ Fresh'
    BY <1>1, GoesOn DEF Places
  <1>9. Typed' /\ Beginning' /\ Sound'
    BY <1>4, <1>8 DEF IInv, Typed, Beginning, Sound
  <1> QED  BY <1>7, <1>8, <1>9 DEF IInv

LEMMA UnpackStep == ASSUME IInv, NEW c \in Calls, Unpack(c) PROVE IInv'
  <1> USE DEF Unpack, progress, updating
  <1>1. at[c] = "unpack" /\ InFlight(c)
    BY DEF InFlight
  <1>2. CASE Fail(c)
    BY <1>1, <1>2, Fails DEF Places
  <1>3. CASE ~Fail(c)
    <2>1. /\ Goes(c, "place") /\ UNCHANGED <<control, crossed>>
          /\ unpacked' = IF unpacked = "none" THEN "torn" ELSE "whole"
      BY <1>3
    <2>2. /\ at'[c] = "place" /\ installed = NoFile /\ extracting
          /\ ~crossed => unpacked = "torn" /\ NoSweep
      BY <1>1, <2>1 DEF IInv, Typed, Goes, Places, Fits
    <2>3. Fits(c)'
      BY <2>1, <2>2 DEF Fits, control, NoSweep
    <2>4. Alone' /\ \A b \in Calls : Fits(b)'
      BY <1>1, <2>1, <2>3, Moves DEF IInv, Places
    <2>5. at' \in [Calls -> Places] /\ Told' /\ Rests' /\ Fresh'
      BY <1>1, <2>1, GoesOn DEF Places, control
    <2>6. Typed' /\ Beginning' /\ Sound'
      BY <2>1, <2>5, SMTT(30) DEF IInv, Typed, Beginning, Sound, control
    <2> QED  BY <2>4, <2>5, <2>6 DEF IInv
  <1> QED  BY <1>2, <1>3

LEMMA PlaceStep == ASSUME OneByOne, IInv, NEW c \in Calls, Place(c) PROVE IInv'
  <1> USE DEF Place, progress, updating
  <1>1. at[c] = "place" /\ InFlight(c)
    BY DEF InFlight
  <1>2. CASE Fail(c) /\ UNCHANGED <<installed, unpacked>>
    BY <1>1, <1>2, Fails DEF Places
  <1>3. CASE /\ unpacked # "none" /\ Goes(c, "normalize") /\ UNCHANGED <<control, crossed>>
             /\ installed' = IF unpacked = "torn" THEN Torn
                             ELSE IF entry.aliased THEN Raw ELSE Directory
             /\ unpacked' = "none"
    <2>1. at' \in [Calls -> Places] /\ at'[c] = "normalize"
      BY <1>3, Moved DEF IInv, Typed, Places
    <2>2. /\ installed' \in {Directory, Raw, Torn}
          /\ ~crossed => installed' \in {Directory, Raw}
          /\ installed' = Raw => entry.aliased
          /\ entry.aliased => installed' \in {Raw, Torn}
      BY <1>1, <1>3 DEF IInv, Fits, Raw, Torn, Directory, OneByOne
    <2>3. installed' # NoFile /\ installed' \notin Calls
      BY <2>2 DEF Directory, Raw, Torn, NoFile, Calls, OneByOne
    <2>4. Fits(c)'
      BY <2>1, <2>2, <2>3 DEF Fits
    <2>5. Alone' /\ \A b \in Calls : Fits(b)'
      BY <1>1, <1>3, <2>4, Moves DEF IInv, Places
    <2>6. Told' /\ Rests' /\ Fresh'
      BY <1>1, <1>3, GoesOn DEF Places, control
    <2>7. Typed' /\ Beginning' /\ Sound'
      BY <1>3, <2>1, <2>2, <2>3 DEF IInv, Typed, Beginning, Sound, control
    <2> QED  BY <2>5, <2>6, <2>7 DEF IInv
  <1> QED  BY <1>2, <1>3

\* The names are linked.
LEMMA NormalizeStep == ASSUME OneByOne, IInv, NEW c \in Calls, Normalize(c) PROVE IInv'
  <1> USE DEF Normalize, progress, updating
  <1>1. at[c] = "normalize" /\ InFlight(c)
    BY DEF InFlight
  <1>2. CASE entry.aliased /\ Fail(c) /\ UNCHANGED installed
    BY <1>1, <1>2, Fails DEF Places
  <1>3. CASE /\ Goes(c, "clean") /\ UNCHANGED <<control, crossed>>
             /\ installed' = IF installed = Raw THEN Directory ELSE installed
    <2>1. at' \in [Calls -> Places] /\ at'[c] = "clean"
      BY <1>3, Moved DEF IInv, Typed, Places
    <2>2. installed # NoFile
      BY <1>1 DEF IInv, Fits
    <2>3. Directory # NoFile /\ Directory \notin Calls /\ Directory # Raw
      BY DEF Directory, Raw, NoFile, Calls, OneByOne
    <2>4. Fits(c)'
      BY <1>3, <2>1, <2>2, <2>3 DEF Fits
    <2>5. Alone' /\ \A b \in Calls : Fits(b)'
      BY <1>1, <1>3, <2>4, Moves DEF IInv, Places
    <2>6. Told' /\ Rests' /\ Fresh'
      BY <1>1, <1>3, GoesOn DEF Places, control
    <2>7. Typed' /\ Beginning' /\ Sound'
      BY <1>3, <2>1, <2>3 DEF IInv, Typed, Beginning, Sound, control
    <2> QED  BY <2>5, <2>6, <2>7 DEF IInv
  <1> QED  BY <1>2, <1>3

LEMMA CleanStep == ASSUME IInv, NEW c \in Calls, Clean(c) PROVE IInv'
  <1> USE DEF Clean, progress, updating
  <1>1. at[c] = "clean" /\ InFlight(c) /\ installed # NoFile
    BY DEF InFlight, IInv, Fits
  <1>2. /\ at' \in [Calls -> Places] /\ Alone' /\ \A b \in Calls : Fits(b)'
        /\ listed' \in [downloading : BOOLEAN, downloaded : BOOLEAN]
        /\ crossed' \in BOOLEAN /\ (crossed => crossed')
        /\ Told' /\ Rests' /\ Fresh'
    BY <1>1, Leaves
  <1>3. flag' = flag
    BY DEF Leave
  <1>4. Typed' /\ Beginning' /\ Sound'
    BY <1>2, <1>3 DEF IInv, Typed, Beginning, Sound
  <1> QED  BY <1>2, <1>4 DEF IInv

\* The last of a call.
LEMMA ReturnStep == ASSUME IInv, NEW c \in Calls, Return(c) PROVE IInv'
  <1> USE DEF Return, disk, progress, updating
  <1>1. at[c] = "leaving" /\ InFlight(c) /\ Goes(c, "done")
    BY DEF InFlight
  <1>2. /\ at' \in [Calls -> Places]
        /\ \A b \in Calls : at'[b] = IF b = c THEN "done" ELSE at[b]
    BY <1>1, Moved DEF IInv, Typed, Places
  <1>3. Alone' /\ \A b \in Calls : Fits(b)'
    BY <1>1, Moves DEF IInv, Places
  <1>4. Rests'
    BY <1>1 DEF IInv, Fits, Rests, NoStale
  <1>5. \A b \in Calls \ {c} : at[b] \in {"none", "done"}
    BY <1>1 DEF IInv, Alone, InFlight
  <1>6. Told'
    BY <1>1, <1>5 DEF IInv, Told, AtRest
  <1>7. Typed' /\ Beginning' /\ Sound' /\ Fresh'
    BY <1>2 DEF IInv, Typed, Beginning, Sound, Fresh
  <1> QED  BY <1>3, <1>4, <1>6, <1>7 DEF IInv

-----------------------------------------------------------------------------
(* Beside it *)

\* A thread takes a step of its update: it and nobody else.
LEMMA Doing ==
    ASSUME IInv, NEW t \in Threads,
           NEW p \in {"none", "cancel", "asked", "read", "locked"},
           doing' = [doing EXCEPT ![t] = p]
    PROVE  /\ doing' \in [Threads -> {"none", "cancel", "asked", "read", "locked"}]
           /\ \A v \in Threads : doing'[v] = IF v = t THEN p ELSE doing[v]
           /\ p # "none" => ~AtRest'
  BY DEF IInv, Typed, AtRest

\* What is asked for leaves the calls alone and disturbs nothing of theirs.
LEMMA AskStep == ASSUME OneByOne, IInv, NEW u \in Updaters, Ask(u) PROVE IInv'
  <1> USE DEF disk, progress, control
  <1>1. u \in Threads
    BY DEF Threads
  <1>2. PICK p \in {"cancel", "asked"} :
          /\ doing[u] \in {"none", "cancel"} /\ doing' = [doing EXCEPT ![u] = p]
          /\ UNCHANGED <<entry, data, at, base, next, total, handle, unpacked, flag,
                         extracting, known, crossed>>
          /\ \/ UNCHANGED <<partial, installed, listed>>
             \/ /\ UNCHANGED <<partial, installed>>
                /\ listed' = [listed EXCEPT !.downloading = FALSE]
             \/ /\ \A c \in Calls : ~InFlight(c)
                /\ partial' = NoFile /\ installed' = NoFile /\ UNCHANGED listed
    <2>1. CASE ListModels(u)
      BY <2>1 DEF ListModels, Starts
    <2>2. CASE CancelDownload(u)
      BY <2>2 DEF CancelDownload, Starts
    <2>3. CASE CancelShows(u)
      BY <2>3 DEF CancelShows
    <2>4. CASE DeleteModel(u)
      BY <2>4 DEF DeleteModel, Starts, OneByOne
    <2> QED  BY <2>1, <2>2, <2>3, <2>4 DEF Ask
  <1>3. /\ doing' \in [Threads -> {"none", "cancel", "asked", "read", "locked"}]
        /\ \A v \in Threads : doing'[v] = IF v = u THEN p ELSE doing[v]
        /\ ~AtRest'
    BY <1>1, <1>2, Doing
  <1>4. /\ listed' \in [downloading : BOOLEAN, downloaded : BOOLEAN]
        /\ listed'.downloading => listed.downloading
    BY <1>2 DEF IInv, Typed
  <1>5. Typed'
    BY <1>2, <1>3, <1>4 DEF IInv, Typed
  <1>6. Fresh'
    BY <1>1, <1>2, <1>3 DEF IInv, Fresh
  <1>7. NoStale => NoStale'
    BY <1>2, <1>4 DEF NoStale
  <1>8. \A c \in Calls : Fits(c)'
    <2>1. CASE UNCHANGED <<partial, installed>>
      BY <1>2, <1>7, <2>1 DEF IInv, Fits, Length, NoSweep
    <2>2. CASE \A c \in Calls : ~InFlight(c)
      BY <1>2, <2>2 DEF Fits, InFlight
    <2> QED  BY <1>2, <2>1, <2>2
  <1>9. Alone' /\ Rests'
    BY <1>2, <1>7 DEF IInv, Alone, InFlight, Rests, Idle
  <1>10. Beginning' /\ Sound'
    BY <1>2 DEF IInv, Beginning, Sound, Calls, NoFile, Raw, OneByOne
  <1> QED  BY <1>3, <1>5, <1>6, <1>8, <1>9, <1>10 DEF IInv, Told

\* What is read of an ended call is nothing, and what of one that is ending is
\* remembered.
LEMMA ReadsStep == ASSUME OneByOne, IInv, NEW t \in Threads, UpdateReads(t) PROVE IInv'
  <1> USE DEF disk, progress, control
  <1> DEFINE loads == flag \in Calls \ doomed
  <1>1. /\ doing[t] = "asked" /\ doing' = [doing EXCEPT ![t] = "read"]
        /\ known' = [known EXCEPT ![t].loading = loads]
        /\ crossed' = (crossed \/ (loads /\ \E c \in Calls : at[c] = "leaving"))
        /\ UNCHANGED <<entry, data, at, base, next, total, handle, unpacked, flag,
                       extracting, partial, installed, listed>>
    BY DEF UpdateReads
  <1>2. loads \in BOOLEAN
    OBVIOUS
  <1>3. loads => flag # Nobody
    BY DEF Calls, Nobody
  <1> HIDE DEF loads
  <1>4. /\ crossed' \in BOOLEAN /\ (crossed => crossed')
        /\ ~crossed' => ~crossed /\ (\A c \in Calls : at[c] = "leaving" => ~loads)
    BY ONLY <1>1, <1>2, Zenon
  <1>5. /\ doing' \in [Threads -> {"none", "cancel", "asked", "read", "locked"}]
        /\ \A v \in Threads : doing'[v] = IF v = t THEN "read" ELSE doing[v]
        /\ ~AtRest'
    BY <1>1, Doing
  <1>6. /\ known' \in [Threads -> [loading : BOOLEAN, sweep : BOOLEAN]]
        /\ \A v \in Threads : known'[v].sweep = known[v].sweep
        /\ \A v \in Threads : known'[v].loading = IF v = t THEN loads ELSE known[v].loading
    BY <1>1, <1>2 DEF IInv, Typed
  <1>7. Typed'
    BY <1>1, <1>4, <1>5, <1>6 DEF IInv, Typed
  <1>8. Fresh'
    BY <1>1, <1>5, <1>6 DEF IInv, Fresh
  <1>9. NoSweep => NoSweep'
    BY <1>6 DEF NoSweep
  <1>10. NoStale /\ ~loads => NoStale'
    BY <1>1, <1>6 DEF NoStale
  <1>11. \A c \in Calls : Fits(c)'
    BY <1>1, <1>4, <1>9, <1>10 DEF IInv, Fits, Length
  <1>12. Alone' /\ Rests'
    BY <1>1, <1>3, <1>4, <1>10 DEF IInv, Alone, InFlight, Rests, Idle
  <1>13. Beginning' /\ Sound'
    BY <1>1, <1>4 DEF IInv, Beginning, Sound
  <1> QED  BY <1>5, <1>7, <1>8, <1>11, <1>12, <1>13 DEF IInv, Told

\* An update that finds a model being unpacked will not sweep.
LEMMA LocksStep == ASSUME OneByOne, IInv, NEW t \in Threads, UpdateLocks(t) PROVE IInv'
  <1> USE DEF disk, progress, control
  <1> DEFINE sweeps == entry.archive /\ ~extracting
  <1>1. /\ doing[t] = "read" /\ doing' = [doing EXCEPT ![t] = "locked"]
        /\ known' = [known EXCEPT ![t].sweep = sweeps]
        /\ UNCHANGED <<entry, data, at, base, next, total, handle, unpacked, flag,
                       extracting, partial, installed, listed, crossed>>
    BY DEF UpdateLocks
  <1>2. sweeps \in BOOLEAN /\ (extracting => ~sweeps)
    BY Zenon
  <1> HIDE DEF sweeps
  <1>3. /\ doing' \in [Threads -> {"none", "cancel", "asked", "read", "locked"}]
        /\ \A v \in Threads : doing'[v] = IF v = t THEN "locked" ELSE doing[v]
        /\ ~AtRest'
    BY <1>1, Doing
  <1>4. /\ known' \in [Threads -> [loading : BOOLEAN, sweep : BOOLEAN]]
        /\ \A v \in Threads : known'[v].loading = known[v].loading
        /\ \A v \in Threads : known'[v].sweep = IF v = t THEN sweeps ELSE known[v].sweep
    BY <1>1, <1>2 DEF IInv, Typed
  <1>5. Typed'
    BY <1>1, <1>3, <1>4 DEF IInv, Typed
  <1>6. Fresh'
    BY <1>1, <1>3, <1>4 DEF IInv, Fresh
  <1>7. NoSweep /\ extracting => NoSweep'
    BY <1>2, <1>4 DEF NoSweep
  <1>8. NoStale => NoStale'
    BY <1>1, <1>4 DEF NoStale
  <1>9. \A c \in Calls : Fits(c)'
    BY <1>1, <1>7, <1>8 DEF IInv, Fits, Length
  <1>10. Alone' /\ Rests'
    BY <1>1, <1>8 DEF IInv, Alone, InFlight, Rests, Idle
  <1>11. Beginning' /\ Sound'
    BY <1>1 DEF IInv, Beginning, Sound
  <1> QED  BY <1>3, <1>5, <1>6, <1>9, <1>10, <1>11 DEF IInv, Told

\* The writing tells the truth of what is there, and sweeps and lists as was read.
LEMMA WritesStep == ASSUME OneByOne, IInv, NEW t \in Threads, UpdateWrites(t) PROVE IInv'
  <1> USE DEF disk, progress, control
  <1>1. /\ doing[t] = "locked" /\ doing' = [doing EXCEPT ![t] = "none"]
        /\ known' = [known EXCEPT ![t] = Unread]
        /\ listed' = Listed(known[t].loading)
        /\ unpacked' = IF known[t].sweep THEN "none" ELSE unpacked
        /\ UNCHANGED <<entry, data, at, base, next, total, handle, flag,
                       extracting, partial, installed, crossed>>
    BY DEF UpdateWrites
  <1>2. /\ doing' \in [Threads -> {"none", "cancel", "asked", "read", "locked"}]
        /\ \A v \in Threads : doing'[v] = IF v = t THEN "none" ELSE doing[v]
    BY <1>1, Doing
  <1>3. /\ known' \in [Threads -> [loading : BOOLEAN, sweep : BOOLEAN]]
        /\ \A v \in Threads : known'[v] = IF v = t THEN Unread ELSE known[v]
    BY <1>1 DEF IInv, Typed, Unread
  <1>4. known[t].loading \in BOOLEAN
    BY DEF IInv, Typed
  <1>5. /\ listed' \in [downloading : BOOLEAN, downloaded : BOOLEAN]
        /\ listed'.downloaded = (installed' # NoFile)
        /\ listed'.downloading = known[t].loading
    BY <1>1, <1>4, ListedIs DEF Listed
  <1>6. Typed'
    BY <1>1, <1>2, <1>3, <1>5 DEF IInv, Typed
  <1>7. ~Unread.loading /\ ~Unread.sweep
    BY DEF Unread
  <1>8. Fresh'
    BY <1>2, <1>3, <1>7 DEF IInv, Fresh
  <1>9. NoSweep => NoSweep' /\ unpacked' = unpacked
    BY <1>1, <1>3, <1>7 DEF NoSweep
  <1>10. NoStale => NoStale'
    BY <1>3, <1>5, <1>7 DEF NoStale
  <1>11. \A c \in Calls : Fits(c)'
    BY <1>1, <1>9, <1>10 DEF IInv, Fits, Length
  <1>12. Alone' /\ Rests'
    BY <1>1, <1>10 DEF IInv, Alone, InFlight, Rests, Idle
  <1>13. Beginning' /\ Sound' /\ Told'
    BY <1>1, <1>5 DEF IInv, Beginning, Sound, Told
  <1> QED  BY <1>6, <1>8, <1>11, <1>12, <1>13 DEF IInv

LEMMA QuitStep == ASSUME IInv, Quit PROVE IInv'
  <1> USE DEF Quit, progress
  <1>1. /\ at' \in [Calls -> Places]
        /\ \A c \in Calls : at'[c] \in {"none", "done"}
    BY DEF IInv, Typed, InFlight, Places
  <1>2. listed' = Listed(FALSE)
    OBVIOUS
  <1>3. /\ listed' \in [downloading : BOOLEAN, downloaded : BOOLEAN]
        /\ listed'.downloaded = (installed' # NoFile) /\ ~listed'.downloading
    BY <1>2, ListedIs DEF Listed
  <1>4. /\ doing' \in [Threads -> {"none", "cancel", "asked", "read", "locked"}]
        /\ known' \in [Threads -> [loading : BOOLEAN, sweep : BOOLEAN]]
        /\ \A t \in Threads : ~known'[t].loading /\ ~known'[t].sweep
    BY DEF Unread
  <1>5. Alone' /\ \A c \in Calls : Fits(c)'
    BY <1>1 DEF Alone, InFlight, Fits
  <1>6. Typed'
    BY <1>1, <1>3, <1>4 DEF IInv, Typed
  <1>7. Beginning' /\ Sound'
    BY DEF IInv, Beginning, Sound
  <1>8. Told' /\ Rests' /\ Fresh'
    BY <1>3, <1>4 DEF Told, Rests, NoStale, Fresh
  <1> QED  BY <1>5, <1>6, <1>7, <1>8 DEF IInv

LEMMA StutterStep == ASSUME IInv, UNCHANGED vars PROVE IInv'
  <1> USE DEF vars, disk, progress, control, updating
  <1>1. Typed' /\ (\A c \in Calls : Fits(c)')
    BY DEF IInv, Typed, Fits, Length, NoSweep, NoStale
  <1>2. Alone' /\ Told' /\ Rests' /\ Fresh'
    BY Untouched
  <1>3. Beginning' /\ Sound'
    BY DEF IInv, Beginning, Sound
  <1> QED  BY <1>1, <1>2, <1>3 DEF IInv

\* The errors of a call.
LEMMA ErrorStep ==
    ASSUME IInv, NEW c \in Calls, Refused(c) \/ Cancelled(c) \/ Broken(c)
    PROVE  IInv'
  <1>1. Fail(c) /\ at[c] \in {"asked", "stream"}
        /\ UNCHANGED <<entry, disk, progress, updating>>
    BY DEF Refused, Cancelled, Broken
  <1> QED  BY <1>1, Fails DEF disk, Places

\* Every step preserves the invariant.
LEMMA NextStep == ASSUME OneByOne, IInv, [Next]_vars PROVE IInv'
  <1>1. ASSUME NEW c \in Calls, Step(c) PROVE IInv'
    BY <1>1, BeginStep, ErrorStep, RestartStep, ResponseStep, ChunkStep,
       EndOfBodyStep, VerifyStep, RenameStep, ExtractStep, UnpackStep, PlaceStep,
       NormalizeStep, CleanStep, ReturnStep DEF Step
  <1> QED
    BY <1>1, AskStep, ReadsStep, LocksStep, WritesStep, QuitStep, StutterStep
       DEF Next, Update

-----------------------------------------------------------------------------

\* The inductive invariant, for any length, calls, updates of the catalogue by any
\* threads, and quits.
THEOREM Invariance == ASSUME OneByOne PROVE Spec => []IInv
  <1>1. Init => IInv
    BY InitIInv
  <1>2. IInv /\ [Next]_vars => IInv'
    BY NextStep
  <1> QED  BY <1>1, <1>2, PTL DEF Spec

\* What has the name of the model in download_model is the whole of it, given a
\* length or a digest, whatever is listed and cancelled beside it (an archive:
\* unless an update looks just before the unpacking begins and sweeps after), and
\* what is resumed is a beginning without gaps.
THEOREM InstalledWholeAlways == ASSUME OneByOne PROVE Spec => []InstalledWhole
  <1>1. IInv => InstalledWhole
    <2> SUFFICES ASSUME IInv PROVE InstalledWhole
      OBVIOUS
    <2>1. ASSUME partial # NoFile
          PROVE  data[partial] = [k \in 1..Len(data[partial]) |-> k]
      <3>1. data[partial] \in Seq(Nat)
        BY <2>1 DEF IInv, Typed
      <3> QED  BY <2>1, <3>1 DEF IInv, Beginning
    <2> QED  BY <2>1 DEF IInv, Sound, InstalledWhole
  <1> QED  BY <1>1, Invariance, PTL

\* Whichever way the last call ended, DownloadStateGuard and the early returns
\* leave no flag and no extraction; the listing is right as soon as no update is
\* under way, but for the loading that an update wrote that had read it before,
\* and for a directory whose linking failed.
THEOREM StatusRestsAlways == ASSUME OneByOne PROVE Spec => []StatusRests
  <1>1. IInv => StatusRests
    <2> SUFFICES ASSUME IInv, Idle PROVE StatusRests
      BY DEF StatusRests
    <2>1. \A c \in Calls : at[c] \notin {"normalize", "clean"}
      BY DEF Idle, InFlight
    <2>2. flag = Nobody /\ ~extracting /\ (~crossed => ~listed.downloading)
      BY DEF IInv, Rests, NoStale
    <2>3. AtRest /\ installed \notin {Raw, Torn} => listed.downloaded = (installed # NoFile)
      BY <2>1 DEF IInv, Told
    <2> QED  BY <2>2, <2>3 DEF StatusRests
  <1> QED  BY <1>1, Invariance, PTL

-----------------------------------------------------------------------------
(* Types *)

\* A file holds blocks of the download and gaps, and the rest is what it says.
Bounded ==
    /\ data \in [Calls -> Seq(0..Size)] /\ unpacked \in {"none", "torn", "whole"}
    /\ doomed \subseteq Calls /\ extracting \in BOOLEAN
    /\ updates \in 0..MaxUpdates /\ quits \in 0..MaxQuits

LEMMA WrittenBlocks ==
    ASSUME NEW s \in Seq(0..Size), NEW p \in Nat, Size \in Nat, NEW k \in 0..Size
    PROVE  Written(s, p, k) \in Seq(0..Size)
  <1> DEFINE n == IF p > Len(s) THEN p ELSE Len(s)
  <1>1. n \in Nat
    OBVIOUS
  <1>2. \A i \in 1..n : (IF i = p THEN k ELSE IF i <= Len(s) THEN s[i] ELSE 0) \in 0..Size
    OBVIOUS
  <1> HIDE DEF n
  <1>3. [i \in 1..n |-> IF i = p THEN k ELSE IF i <= Len(s) THEN s[i] ELSE 0] \in Seq(0..Size)
    BY <1>1, <1>2
  <1> QED  BY <1>3 DEF Written, n

LEMMA StepBounds ==
    ASSUME OneByOne, IInv, Bounded, NEW c \in Calls, Step(c) PROVE Bounded'
  <1> USE DEF disk, progress, control, updating
  <1>1. UNCHANGED <<updates, quits>>
    BY DEF Step, Begin, Refused, Restart, Response, Receive, Cancelled, Chunk, Broken,
           EndOfBody, Verify, Rename, Extract, Unpack, Place, Normalize, Clean, Return
  <1>2. doomed' \subseteq Calls /\ extracting' \in BOOLEAN
    BY DEF Step, Begin, Refused, Restart, Response, Receive, Cancelled, Chunk, Broken,
           EndOfBody, Verify, Rename, Extract, Unpack, Place, Normalize, Clean, Return,
           Fail, Leave, Bounded
  <1>3. unpacked' \in {"none", "torn", "whole"}
    BY DEF Step, Begin, Refused, Restart, Response, Receive, Cancelled, Chunk, Broken,
           EndOfBody, Verify, Rename, Extract, Unpack, Place, Normalize, Clean, Return,
           Bounded
  <1>4. data' \in [Calls -> Seq(0..Size)]
    <2>1. CASE Chunk(c)
      <3> DEFINE f == handle[c]
                 p == IF base[c] > 0 THEN Len(data[f]) + 1 ELSE next[c]
      <3>1. f \in Calls /\ next[c] \in 0..Size
        BY <2>1 DEF Chunk, IInv, Fits, Typed, OneByOne
      <3>2. p \in Nat /\ data[f] \in Seq(0..Size)
        BY <3>1 DEF Bounded
      <3>3. Written(data[f], p, next[c]) \in Seq(0..Size)
        BY <3>1, <3>2, WrittenBlocks DEF OneByOne
      <3>4. data' = [data EXCEPT ![f] = Written(data[f], p, next[c])]
        BY <2>1 DEF Chunk
      <3> HIDE DEF f, p
      <3> QED  BY <3>1, <3>3, <3>4 DEF Bounded
    <2>2. CASE Response(c)
      <3>1. <<>> \in Seq(0..Size)
        OBVIOUS
      <3>2. data' = data \/ data' = [data EXCEPT ![partial'] = <<>>]
        BY <2>2 DEF Response, Receive
      <3> QED  BY <3>1, <3>2 DEF Bounded
    <2>3. CASE UNCHANGED data
      BY <2>3 DEF Bounded
    <2> QED
      BY <2>1, <2>2, <2>3 DEF Step, Begin, Refused, Restart, Cancelled, Broken,
           EndOfBody, Verify, Rename, Extract, Unpack, Place, Normalize, Clean, Return
  <1> QED  BY <1>1, <1>2, <1>3, <1>4 DEF Bounded

LEMMA BoundsKept ==
    ASSUME OneByOne, MaxUpdates \in Nat, MaxQuits \in Nat, IInv, Bounded, [Next]_vars
    PROVE  Bounded'
  <1> USE DEF disk, progress, control, updating
  <1>1. ASSUME NEW u \in Updaters, Ask(u) PROVE Bounded'
    <2>1. /\ UNCHANGED <<data, unpacked, extracting, quits>>
          /\ doomed' = doomed \/ doomed' = doomed \cup ({flag} \ {Nobody})
          /\ updates' = updates \/ (updates < MaxUpdates /\ updates' = updates + 1)
      BY <1>1 DEF Ask, ListModels, CancelDownload, CancelShows, DeleteModel, Starts
    <2>2. doomed' \subseteq Calls
      BY <2>1 DEF IInv, Typed, Bounded
    <2>3. updates' \in 0..MaxUpdates
      BY <2>1 DEF Bounded
    <2> QED  BY <2>1, <2>2, <2>3 DEF Bounded
  <1>2. ASSUME NEW t \in Threads, Update(t) PROVE Bounded'
    <2>1. /\ UNCHANGED <<data, doomed, extracting, updates, quits>>
          /\ unpacked' = unpacked \/ unpacked' = "none"
      BY <1>2 DEF Update, UpdateReads, UpdateLocks, UpdateWrites
    <2> QED  BY <2>1 DEF Bounded
  <1>3. CASE Quit
    <2>1. quits' = quits + 1 /\ quits < MaxQuits /\ extracting' = FALSE
          /\ unpacked' = "none" /\ UNCHANGED <<data, doomed, updates>>
      BY <1>3 DEF Quit
    <2>2. quits' \in 0..MaxQuits
      BY <2>1 DEF Bounded
    <2> QED  BY <2>1, <2>2 DEF Bounded
  <1>4. CASE UNCHANGED vars
    BY <1>4 DEF vars, Bounded
  <1> QED  BY <1>1, <1>2, <1>3, <1>4, StepBounds DEF Next

\* Files hold blocks of the download, and calls, flags and updates are ones that
\* exist, for any length and any number of calls, updates and quits.
THEOREM TypeCorrect ==
    ASSUME OneByOne, MaxUpdates \in Nat, MaxQuits \in Nat PROVE Spec => []TypeOK
  <1>1. Init => Bounded
    <2> SUFFICES ASSUME Init PROVE Bounded
      OBVIOUS
    <2>1. <<>> \in Seq(0..Size) /\ 0 \in 0..MaxUpdates /\ 0 \in 0..MaxQuits
      OBVIOUS
    <2> QED  BY <2>1 DEF Init, Bounded
  <1>2. IInv /\ Bounded /\ [Next]_vars => Bounded'
    BY BoundsKept
  <1>3. IInv /\ Bounded => TypeOK
    BY DEF IInv, Typed, Bounded, TypeOK
  <1> QED  BY <1>1, <1>2, <1>3, Invariance, PTL DEF Spec
=============================================================================
