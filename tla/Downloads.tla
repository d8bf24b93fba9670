----------------------------- MODULE Downloads -----------------------------
(***************************************************************************)
(* download_model, cancel_download, delete_model and                       *)
(* update_download_status of managers/model.rs, for one model of the       *)
(* catalogue: a plain file, or an archive that is unpacked.                *)
(*                                                                         *)
(* The bytes are Size blocks; a file on the disk is the sequence of the    *)
(* blocks in it, 0 where nothing was written, and the names <file>.partial *)
(* and <file> refer to one of the files or to none.  A call of             *)
(* download_model may be cancelled, may end in an error and may be cut off *)
(* by the end of the program; the next one resumes from what it left.      *)
(*                                                                         *)
(* A listing, a cancel, a delete and a call that has nothing to do all end *)
(* in update_download_status, step by step and beside whatever else runs.  *)
(* A delete whose removal the disk refuses is not modelled.                *)
(***************************************************************************)
EXTENDS Naturals, Sequences

CONSTANTS
    Size,            \* the blocks of the download
    MaxCalls,        \* bound on the calls of download_model
    Overlap,         \* whether a call may begin before the last has returned
    DeleteBeside,    \* whether the model may be deleted while a call runs
    Updaters,        \* the threads that list, cancel and delete
    MaxUpdates,      \* bound on the listings, cancels and deletes
    MaxQuits         \* bound on the ends of the program

Calls     == 1..MaxCalls
Nobody    == 0
NoFile    == 0
Directory == MaxCalls + 1           \* what the archive unpacks to
Raw       == MaxCalls + 2           \* all of it, under the names of the archive
Torn      == MaxCalls + 3           \* some of it
Threads   == Calls \cup Updaters
Unread    == [loading |-> FALSE, sweep |-> FALSE]
Whole     == [k \in 1..Size |-> k]

VARIABLES
    entry,           \* of the catalogue: archive?, one whose files need
                     \* other names?, sha256?, a server that gives lengths?
    data,            \* the files on the disk, by the call that created them
    partial,         \* which of them <file>.partial is
    installed,       \* which <file> is
    unpacked,        \* <file>.extracting: "none", "torn" or "whole"
    at,              \* the place of each call
    base,            \* its resume_from
    next,            \* the block its stream gives next
    total,           \* its response_total_size
    handle,          \* the file it has open
    flag,            \* cancel_flags of the model: the call that it stops
    doomed,          \* the calls whose flag is set
    listed,          \* is_downloading and is_downloaded
    extracting,      \* whether extracting_models has the model
    doing,           \* the place of each thread in an update of the catalogue
    known,           \* what it has read before it writes
    crossed,         \* history: an update was caught between its reading and
                     \* its writing by the end of a call or by an unpacking
    updates, quits

disk     == <<data, partial, installed, unpacked>>
progress == <<base, next, total, handle>>
control  == <<flag, doomed, listed, extracting>>
updating == <<doing, known, updates>>
vars     == <<entry, disk, at, progress, control, updating, crossed, quits>>

Places == {"none", "asked", "stream", "received", "verified", "unpack", "place",
           "normalize", "clean", "leaving", "done"}
Entries == [archive : BOOLEAN, aliased : BOOLEAN, sha : BOOLEAN, sized : BOOLEAN]

TypeOK ==
    /\ entry \in Entries
    /\ data \in [Calls -> Seq(0..Size)]
    /\ partial \in Calls \cup {NoFile}
    /\ installed \in Calls \cup {NoFile, Directory, Raw, Torn}
    /\ unpacked \in {"none", "torn", "whole"} /\ at \in [Calls -> Places]
    /\ base \in [Calls -> Nat] /\ next \in [Calls -> Nat]
    /\ total \in [Calls -> Nat] /\ handle \in [Calls -> Calls \cup {NoFile}]
    /\ flag \in Calls \cup {Nobody} /\ doomed \subseteq Calls
    /\ listed \in [downloading : BOOLEAN, downloaded : BOOLEAN]
    /\ extracting \in BOOLEAN /\ crossed \in BOOLEAN
    /\ doing \in [Threads -> {"none", "cancel", "asked", "read", "locked"}]
    /\ known \in [Threads -> [loading : BOOLEAN, sweep : BOOLEAN]]
    /\ updates \in 0..MaxUpdates /\ quits \in 0..MaxQuits

\* Two calls for an archive share its .extracting directory: not modelled.
Init ==
    /\ entry \in Entries
    /\ Overlap => ~entry.archive
    /\ entry.aliased => entry.archive
    /\ data = [c \in Calls |-> <<>>] /\ partial = NoFile /\ installed = NoFile
    /\ unpacked = "none" /\ at = [c \in Calls |-> "none"]
    /\ base = [c \in Calls |-> 0] /\ next = base /\ total = base /\ handle = base
    /\ flag = Nobody /\ doomed = {} /\ extracting = FALSE
    /\ listed = [downloading |-> FALSE, downloaded |-> FALSE]
    /\ doing = [t \in Threads |-> "none"]
    /\ known = [t \in Threads |-> Unread]
    /\ crossed = FALSE /\ updates = 0 /\ quits = 0

-----------------------------------------------------------------------------
(* Helpers *)

Goes(c, p)  == at' = [at EXCEPT ![c] = p]
InFlight(c) == at[c] \notin {"none", "done"}
Length(f)   == IF f = NoFile THEN 0 ELSE Len(data[f])

\* An update holds available_models from its second step to its last.
Unlocked == \A t \in Threads : doing[t] # "locked"
AtRest   == \A t \in Threads : doing[t] = "none"

\* The call's own listing of its end; set_model_downloading of the guard.
Leave(c, downloaded) ==
    /\ Unlocked /\ Goes(c, "leaving")
    /\ listed' = [downloading |-> FALSE, downloaded |-> downloaded]
    /\ crossed' = (crossed \/ \E t \in Threads : doing[t] = "read" /\ known[t].loading)
    /\ UNCHANGED <<flag, doomed, extracting>>

\* Mutant: an error leaves the flag that belongs to the call.
FailFlagged(c) ==
    /\ Unlocked /\ Goes(c, "done") /\ extracting' = FALSE
    /\ listed' = [listed EXCEPT !.downloading = FALSE]
    /\ UNCHANGED <<flag, doomed, crossed>>

Fail(c) == Leave(c, listed.downloaded)

\* The file has block k at place p; a gap before it reads as nothing.
Written(s, p, k) ==
    [i \in 1..(IF p > Len(s) THEN p ELSE Len(s)) |->
        IF i = p THEN k ELSE IF i <= Len(s) THEN s[i] ELSE 0]

-----------------------------------------------------------------------------
(* A call of download_model *)

\* A model that is there already needs only an update.
Begin(c) ==
    /\ at[c] = "none" /\ \A b \in Calls : b < c => at[b] # "none"
    /\ Overlap \/ \A b \in Calls : ~InFlight(b) /\ doing[b] = "none"
    /\ IF installed # NoFile
       THEN /\ Goes(c, "done") /\ partial' = NoFile
            /\ doing' = [doing EXCEPT ![c] = "asked"]
            /\ UNCHANGED <<base, flag, listed>>
       ELSE /\ Unlocked /\ Goes(c, "asked") /\ base' = [base EXCEPT ![c] = Length(partial)]
            /\ listed' = [listed EXCEPT !.downloading = TRUE] /\ flag' = c
            /\ UNCHANGED <<partial, doing>>
    /\ UNCHANGED <<entry, data, installed, unpacked, next, total, handle, doomed,
                   extracting, known, updates, crossed, quits>>

\* The request fails, or its status is no success: 416 for a partial file that
\* has every block already.
Refused(c) ==
    /\ at[c] = "asked" /\ Fail(c)
    /\ UNCHANGED <<entry, disk, progress, updating, quits>>

\* A server without ranges answers 200: the partial file is deleted and the
\* request repeated from the start.
Restart(c) ==
    /\ at[c] = "asked" /\ base[c] > 0
    /\ partial' = NoFile /\ base' = [base EXCEPT ![c] = 0]
    /\ UNCHANGED <<entry, data, installed, unpacked, at, next, total, handle,
                   control, updating, crossed, quits>>

\* The blocks that follow are the server's; an opened file is appended to if
\* the call resumes, and created or truncated if not.
Receive(c, first) ==
    /\ at[c] = "asked" /\ Goes(c, "stream")
    /\ next' = [next EXCEPT ![c] = first]
    /\ total' = [total EXCEPT ![c] =
                    IF entry.sized THEN base[c] + Size + 1 - first ELSE base[c]]
    /\ handle' = [handle EXCEPT ![c] = IF partial = NoFile THEN c ELSE partial]
    /\ partial' = handle'[c]
    /\ data' = IF base[c] > 0 THEN data
               ELSE [data EXCEPT ![partial'] = <<>>]
    /\ UNCHANGED <<entry, installed, unpacked, base, control, updating, crossed, quits>>

\* Mutant: the 200 of a server without ranges is taken for the rest.
ResponseUnseen(c) ==
    \/ base[c] < Size /\ Receive(c, base[c] + 1)
    \/ base[c] > 0 /\ Receive(c, 1)

\* 200 without a range, or 206 from the block after the partial file.
Response(c) == base[c] < Size /\ Receive(c, base[c] + 1)

\* A set flag is looked at when something arrives; the partial file stays.
Cancelled(c) ==
    /\ at[c] = "stream" /\ c \in doomed /\ Fail(c)
    /\ UNCHANGED <<entry, disk, progress, updating, quits>>

Chunk(c) ==
    /\ at[c] = "stream" /\ c \notin doomed /\ next[c] <= Size
    /\ next' = [next EXCEPT ![c] = @ + 1]
    /\ LET f == handle[c]
           p == IF base[c] > 0 THEN Len(data[f]) + 1 ELSE next[c]
       IN  data' = [data EXCEPT ![f] = Written(@, p, next[c])]
    /\ UNCHANGED <<entry, partial, installed, unpacked, at, base, total, handle,
                   control, updating, crossed, quits>>

\* The stream breaks, or the file cannot be written.
Broken(c) ==
    /\ at[c] = "stream" /\ Fail(c)
    /\ UNCHANGED <<entry, disk, progress, updating, quits>>

\* The body ends; without a length it may end early and nobody is told.
EndOfBody(c) ==
    /\ at[c] = "stream" /\ (next[c] > Size \/ ~entry.sized)
    /\ Goes(c, "received")
    /\ UNCHANGED <<entry, disk, progress, control, updating, crossed, quits>>

\* The length that was promised, and the digest if the catalogue has one.
Good(c) ==
    /\ partial # NoFile /\ (total[c] > 0 => Length(partial) = total[c])
    /\ entry.sha => data[partial] = Whole

\* A file that is not good is deleted.
Verify(c) ==
    /\ at[c] = "received"
    /\ IF Good(c)
       THEN Goes(c, "verified") /\ UNCHANGED <<partial, control, crossed>>
       ELSE Fail(c) /\ partial' = NoFile
    /\ UNCHANGED <<entry, data, installed, unpacked, progress, updating, quits>>

\* A plain file is renamed, and the model is installed.
Rename(c) ==
    /\ at[c] = "verified" /\ ~entry.archive
    /\ \/ Fail(c) /\ UNCHANGED <<partial, installed>>
       \/ /\ partial # NoFile /\ Leave(c, TRUE)
          /\ installed' = partial /\ partial' = NoFile
    /\ UNCHANGED <<entry, data, unpacked, progress, updating, quits>>

\* An archive goes into an .extracting directory of its own, emptied first.  An
\* update that saw none in use before will sweep this one.
Extract(c) ==
    /\ at[c] = "verified" /\ entry.archive /\ Goes(c, "unpack")
    /\ extracting' = TRUE /\ unpacked' = "torn"
    /\ crossed' = (crossed \/ \E t \in Threads : doing[t] = "locked")
    /\ UNCHANGED <<entry, data, partial, installed, progress, flag, doomed, listed,
                   updating, quits>>

\* Unpacked, or not, when the directory goes, or stays if nothing could be
\* opened, and the archive stays.  A directory swept away under the unpacking
\* leaves what came after.
Unpack(c) ==
    /\ at[c] = "unpack"
    /\ \/ /\ partial # NoFile /\ data[partial] = Whole /\ Goes(c, "place")
          /\ unpacked' = (IF unpacked = "none" THEN "torn" ELSE "whole")
          /\ UNCHANGED <<control, crossed>>
       \/ Fail(c) /\ unpacked' \in {"none", unpacked}
    /\ UNCHANGED <<entry, data, partial, installed, progress, updating, quits>>

\* The unpacked directory is renamed into its place.  An error returns from
\* where it happens; the cleaning meant for it is never reached.
Place(c) ==
    /\ at[c] = "place"
    /\ \/ Fail(c) /\ UNCHANGED <<installed, unpacked>>
       \/ /\ unpacked # "none" /\ Goes(c, "normalize") /\ UNCHANGED <<control, crossed>>
          /\ installed' = IF unpacked = "torn" THEN Torn
                          ELSE IF entry.aliased THEN Raw ELSE Directory
          /\ unpacked' = "none"
    /\ UNCHANGED <<entry, data, partial, progress, updating, quits>>

\* normalize_extracted_model_layout: one model needs other names for its files.
\* An error returns with the directory in its place.
Normalize(c) ==
    /\ at[c] = "normalize"
    /\ \/ entry.aliased /\ Fail(c) /\ UNCHANGED installed
       \/ /\ Goes(c, "clean") /\ UNCHANGED <<control, crossed>>
          /\ installed' = IF installed = Raw THEN Directory ELSE installed
    /\ UNCHANGED <<entry, data, partial, unpacked, progress, updating, quits>>

\* The archive is removed and the model is installed.
Clean(c) ==
    /\ at[c] = "clean" /\ Leave(c, TRUE) /\ partial' = NoFile
    /\ UNCHANGED <<entry, data, installed, unpacked, progress, updating, quits>>

\* The flag and the mark of the unpacking go last, by the guard or by the call.
Return(c) ==
    /\ at[c] = "leaving" /\ Goes(c, "done")
    /\ flag' = Nobody /\ extracting' = FALSE
    /\ UNCHANGED <<entry, disk, progress, doomed, listed, updating, crossed, quits>>

-----------------------------------------------------------------------------
(* Beside it *)

\* What an update writes that has seen such flags.
Listed(loading) == [downloading |-> loading, downloaded |-> installed # NoFile]

Starts(u, p) ==
    /\ doing[u] = "none" /\ doing' = [doing EXCEPT ![u] = p]
    /\ updates < MaxUpdates /\ updates' = updates + 1

\* get_available_models.
ListModels(u) ==
    /\ Starts(u, "asked")
    /\ UNCHANGED <<entry, disk, at, progress, control, known, crossed, quits>>

\* cancel_download sets the flag, if there is one, then takes the model for
\* idle, and then updates.
CancelDownload(u) ==
    /\ Starts(u, "cancel") /\ doomed' = doomed \cup ({flag} \ {Nobody})
    /\ UNCHANGED <<entry, disk, at, progress, flag, listed, extracting, known,
                   crossed, quits>>

CancelShows(u) ==
    /\ doing[u] = "cancel" /\ Unlocked /\ doing' = [doing EXCEPT ![u] = "asked"]
    /\ listed' = [listed EXCEPT !.downloading = FALSE]
    /\ UNCHANGED <<entry, disk, at, progress, flag, doomed, extracting, known,
                   crossed, updates, quits>>

\* delete_model removes what there is and updates.
DeleteModel(u) ==
    /\ DeleteBeside \/ \A c \in Calls : ~InFlight(c)
    /\ installed # NoFile \/ partial # NoFile
    /\ Starts(u, "asked") /\ installed' = NoFile /\ partial' = NoFile
    /\ UNCHANGED <<entry, data, unpacked, at, progress, control, known, crossed, quits>>

\* update_download_status reads the flags, locks the models and reads
\* extracting_models, and then sweeps and writes.
UpdateReads(t) ==
    /\ doing[t] = "asked" /\ doing' = [doing EXCEPT ![t] = "read"]
    /\ known' = [known EXCEPT ![t].loading = flag \in Calls \ doomed]
    /\ crossed' = (crossed \/ (flag \in Calls \ doomed /\ \E c \in Calls : at[c] = "leaving"))
    /\ UNCHANGED <<entry, disk, at, progress, control, updates, quits>>

UpdateLocks(t) ==
    /\ doing[t] = "read" /\ Unlocked /\ doing' = [doing EXCEPT ![t] = "locked"]
    /\ known' = [known EXCEPT ![t].sweep = entry.archive /\ ~extracting]
    /\ UNCHANGED <<entry, disk, at, progress, control, updates, crossed, quits>>

UpdateWrites(t) ==
    /\ doing[t] = "locked" /\ doing' = [doing EXCEPT ![t] = "none"]
    /\ listed' = Listed(known[t].loading)
    /\ unpacked' = IF known[t].sweep THEN "none" ELSE unpacked
    /\ known' = [known EXCEPT ![t] = Unread]
    /\ UNCHANGED <<entry, data, partial, installed, at, progress, flag, doomed,
                   extracting, updates, crossed, quits>>

\* The program ends and starts again: the files stay, and the new manager lists
\* them.
Quit ==
    /\ quits < MaxQuits /\ quits' = quits + 1
    /\ at' = [c \in Calls |-> IF InFlight(c) THEN "done" ELSE at[c]]
    /\ flag' = Nobody /\ extracting' = FALSE
    /\ doing' = [t \in Threads |-> "none"] /\ known' = [t \in Threads |-> Unread]
    /\ listed' = Listed(FALSE) /\ unpacked' = "none"
    /\ UNCHANGED <<entry, data, partial, installed, progress, doomed, updates, crossed>>

Step(c) ==
    \/ Begin(c) \/ Refused(c) \/ Restart(c) \/ Response(c) \/ Cancelled(c)
    \/ Chunk(c) \/ Broken(c) \/ EndOfBody(c) \/ Verify(c) \/ Rename(c)
    \/ Extract(c) \/ Unpack(c) \/ Place(c) \/ Normalize(c) \/ Clean(c) \/ Return(c)

Ask(u)    == ListModels(u) \/ CancelDownload(u) \/ CancelShows(u) \/ DeleteModel(u)
Update(t) == UpdateReads(t) \/ UpdateLocks(t) \/ UpdateWrites(t)

Next ==
    \/ \E c \in Calls : Step(c)
    \/ \E u \in Updaters : Ask(u)
    \/ \E t \in Threads : Update(t)
    \/ Quit

Spec == Init /\ [][Next]_vars
-----------------------------------------------------------------------------
(* Properties *)

Idle == \A c \in Calls : ~InFlight(c)

\* What carries the name of the model is the whole of it, however many attempts
\* were broken off, cancelled, resumed or restarted before, whatever is listed
\* and cancelled beside them, and wherever the program ended; also without a
\* length from the server if a digest is known.  (With neither, a body that ends
\* early is installed.)  An archive may keep the names of its files if the
\* linking failed or the program ended before it, and is safe from updates
\* except one that looked for an unpacking just before it began.  And a file
\* that will be resumed holds the beginning of the download and no gap.
InstalledWhole ==
    /\ installed \in Calls /\ (entry.sized \/ entry.sha) => data[installed] = Whole
    /\ entry.archive /\ ~crossed => installed \in {NoFile, Directory, Raw}
    /\ installed = Raw => entry.aliased
    /\ Idle /\ partial # NoFile
          => data[partial] = [k \in 1..Len(data[partial]) |-> k]

\* When no call is under way nothing is being unpacked and no flag is left to be
\* set, and when no update is either, the model is listed as there if and only if
\* it is (unless the linking of an unpacked directory failed), and as loading
\* only if an update was caught half way by the end of a call.
StatusRests ==
    Idle => /\ flag = Nobody /\ ~extracting
            /\ AtRest =>
                  /\ installed \notin {Raw, Torn} => listed.downloaded = (installed # NoFile)
                  /\ listed.downloading => crossed

\* An expectation that fails: the same whatever runs meanwhile.  An update that
\* has read the flags of a call writes them after its end, and a model whose
\* linking failed is there and not listed.
ListingTrue == Idle /\ AtRest => listed = Listed(FALSE)

\* An expectation that fails: a cancel or a listing that saw the model before it
\* was being extracted sweeps the directory that is being filled.
UnpackedWhole == installed # Torn

\* An expectation that fails: a model that is there can be used.  An unpacked
\* directory has its name before its files have theirs, and the next call finds
\* it and has nothing to do.
Usable == Idle => installed # Raw

\* An expectation that fails: what an ended call left can be resumed.  An
\* archive that did not unpack, or a program that ended before the renaming,
\* leaves a partial file that has every block, and the next range is refused.
CanResume == Idle => Length(partial) < Size
=============================================================================
